--------------------------- MODULE PipelineProofs ----------------------------
(***************************************************************************)
(* Theorems about Pipeline, for any number of graphs, computations and     *)
(* spaces.  Every theorem names the rules it needs of the client, and no   *)
(* others.                                                                 *)
(***************************************************************************)
EXTENDS Pipeline, SequenceTheorems, WellFoundedInduction, TLAPS

-----------------------------------------------------------------------------
(* Sequences of graphs.                                                    *)

(* Changing one graph leaves the others alone.                             *)
LEMMA ChangeOne ==
  ASSUME NEW h \in Seq(Graph), NEW g \in 1..Len(h), NEW e \in Graph
  PROVE  LET k == [h EXCEPT ![g] = e]
         IN  /\ k \in Seq(Graph) /\ Len(k) = Len(h) /\ k[g] = e
             /\ \A i \in 1..Len(h) : i # g => k[i] = h[i]
  OBVIOUS

(* A new graph is the last one and leaves the others alone.                *)
LEMMA AppendOne ==
  ASSUME NEW h \in Seq(Graph), NEW e \in Graph
  PROVE  LET k == Append(h, e)
         IN  /\ k \in Seq(Graph) /\ Len(k) = Len(h) + 1 /\ k[Len(h) + 1] = e
             /\ \A i \in 1..Len(h) : k[i] = h[i]
  OBVIOUS

(* No element twice.                                                       *)
Once(e) == \A i, j \in 1..Len(e) : e[i] = e[j] => i = j

(* Without the element at p, the others move up.                           *)
LEMMA RemoveAtElements ==
  ASSUME NEW S, NEW e \in Seq(S), NEW p \in 1..Len(e)
  PROVE  /\ RemoveAt(e, p) \in Seq(S) /\ Len(RemoveAt(e, p)) = Len(e) - 1
         /\ \A i \in 1..(Len(e) - 1) : RemoveAt(e, p)[i] = IF i < p THEN e[i] ELSE e[i + 1]
  <1> DEFINE l == SubSeq(e, 1, p - 1)
             r == SubSeq(e, p + 1, Len(e))
  <1>1. /\ l \in Seq(S) /\ Len(l) = p - 1 /\ \A i \in 1..(p - 1) : l[i] = e[i]
    OBVIOUS
  <1>2. /\ r \in Seq(S) /\ Len(r) = Len(e) - p /\ \A i \in 1..(Len(e) - p) : r[i] = e[p + i]
    OBVIOUS
  <1>3. RemoveAt(e, p) = l \o r
    BY DEF RemoveAt
  <1> HIDE DEF l, r
  <1>4. /\ l \o r \in Seq(S) /\ Len(l \o r) = Len(l) + Len(r)
        /\ \A i \in 1..(Len(l) + Len(r)) :
             (l \o r)[i] = IF i <= Len(l) THEN l[i] ELSE r[i - Len(l)]
    BY <1>1, <1>2, ConcatProperties, Zenon
  <1>5. Len(l \o r) = Len(e) - 1 /\ Len(l) + Len(r) = Len(e) - 1
    BY <1>1, <1>2, <1>4
  <1>6. ASSUME NEW i \in 1..(Len(e) - 1)
        PROVE  (l \o r)[i] = IF i < p THEN e[i] ELSE e[i + 1]
    <2>1. CASE i < p
      BY <1>1, <1>4, <1>5, <2>1
    <2>2. CASE ~ (i < p)
      <3> DEFINE j == i - (p - 1)
      <3>1. j \in 1..(Len(e) - p) /\ i = Len(l) + j /\ p + j = i + 1 /\ i > Len(l)
        BY <1>1, <2>2
      <3>2. i \in 1..(Len(l) + Len(r)) /\ i - Len(l) = j /\ ~ (i <= Len(l))
        BY <1>1, <1>2, <3>1
      <3>3. (l \o r)[i] = r[i - Len(l)]
        BY <1>4, <3>2
      <3> HIDE DEF j
      <3>4. (l \o r)[i] = e[i + 1]
        BY <1>2, <3>1, <3>2, <3>3
      <3> QED BY <2>2, <3>4
    <2> QED BY <2>1, <2>2
  <1> QED BY <1>3, <1>4, <1>5, <1>6

(* Numbers have a least one.                                               *)
LEMMA MinExists ==
  ASSUME NEW I \in SUBSET Nat, I # {}
  PROVE  Min(I) \in I
  <1> DEFINE R == OpToRel(<, Nat)
  <1>1. IsWellFoundedOn(R, Nat)
    BY NatLessThanWellFounded
  <1>2. \A x, y \in Nat : << y, x >> \in R <=> y < x
    BY DEF OpToRel
  <1> HIDE DEF R
  <1>3. PICK x \in I : \A y \in I : ~ (<< y, x >> \in R)
    BY <1>1, WFMin, Zenon
  <1>4. ASSUME NEW y \in I PROVE x <= y
    <2>1. x \in Nat /\ y \in Nat /\ ~ (<< y, x >> \in R)
      BY <1>3
    <2>2. ~ (y < x)
      BY <1>2, <2>1, Zenon
    <2> QED BY <2>1, <2>2
  <1> QED BY <1>3, <1>4 DEF Min

LEMMA RemoveFirstType ==
  ASSUME NEW S, NEW e \in Seq(S), NEW m
  PROVE  RemoveFirst(e, m) \in Seq(S)
  <1> DEFINE I == {i \in 1..Len(e) : e[i] = m}
  <1>1. CASE \E i \in 1..Len(e) : e[i] = m
    <2>1. I # {} /\ I \in SUBSET Nat
      BY <1>1
    <2>2. Min(I) \in 1..Len(e)
      <3> HIDE DEF I
      <3>1. Min(I) \in I
        BY <2>1, MinExists
      <3> QED BY <3>1 DEF I
    <2>3. RemoveFirst(e, m) = RemoveAt(e, Min(I))
      BY <1>1, <2>1 DEF RemoveFirst, SelectInSeq
    <2> QED BY <2>2, <2>3, RemoveAtElements
  <1>2. CASE ~ \E i \in 1..Len(e) : e[i] = m
    BY <1>2 DEF RemoveFirst
  <1> QED BY <1>1, <1>2

(* RemoveFirst takes out what occurs once.                                 *)
LEMMA RemoveFirstOnce ==
  ASSUME NEW S, NEW e \in Seq(S), Once(e), NEW m, Contains(e, m)
  PROVE  /\ RemoveFirst(e, m) \in Seq(S) /\ Once(RemoveFirst(e, m))
         /\ \A k : Contains(RemoveFirst(e, m), k) <=> Contains(e, k) /\ k # m
  <1>1. PICK p \in 1..Len(e) : e[p] = m
    BY DEF Contains
  <1>2. {i \in 1..Len(e) : e[i] = m} = {p}
    BY <1>1 DEF Once
  <1>3. Min({p}) = p
    BY <1>1 DEF Min
  <1>4. RemoveFirst(e, m) = RemoveAt(e, p)
    BY <1>1, <1>2, <1>3 DEF RemoveFirst, SelectInSeq
  <1> DEFINE r == RemoveAt(e, p)
  <1>5. /\ r \in Seq(S) /\ Len(r) = Len(e) - 1
        /\ \A i \in 1..(Len(e) - 1) : r[i] = IF i < p THEN e[i] ELSE e[i + 1]
    BY RemoveAtElements
  <1> HIDE DEF r
  <1>6. Once(r)
    BY <1>5 DEF Once
  <1>7. ASSUME NEW k PROVE Contains(r, k) <=> Contains(e, k) /\ k # m
    <2>1. ASSUME NEW i \in 1..Len(r), r[i] = k PROVE Contains(e, k) /\ k # m
      <3>1. CASE i < p
        <4>1. i \in 1..Len(e) /\ i # p /\ e[i] = k
          BY <1>5, <2>1, <3>1
        <4> QED BY <1>1, <4>1 DEF Contains, Once
      <3>2. CASE i >= p
        <4>1. i + 1 \in 1..Len(e) /\ i + 1 # p /\ e[i + 1] = k
          BY <1>5, <2>1, <3>2
        <4> QED BY <1>1, <4>1 DEF Contains, Once
      <3> QED BY <3>1, <3>2
    <2>2. ASSUME NEW i \in 1..Len(e), e[i] = k, k # m PROVE Contains(r, k)
      <3>1. CASE i < p
        <4>1. i \in 1..Len(r) /\ r[i] = k
          BY <1>5, <2>2, <3>1
        <4> QED BY <4>1 DEF Contains
      <3>2. CASE i > p
        <4>1. i - 1 \in 1..Len(r) /\ r[i - 1] = e[(i - 1) + 1] /\ (i - 1) + 1 = i
          BY <1>5, <2>2, <3>2
        <4> QED BY <2>2, <4>1 DEF Contains
      <3> QED BY <1>1, <2>2, <3>1, <3>2
    <2> QED BY <2>1, <2>2 DEF Contains
  <1> QED BY <1>4, <1>5, <1>6, <1>7 DEF r

(* Append and ReplaceAll of an element that was not there.                  *)
LEMMA AppendOnce ==
  ASSUME NEW S, NEW e \in Seq(S), Once(e), NEW m \in S, ~ Contains(e, m)
  PROVE  /\ Append(e, m) \in Seq(S) /\ Once(Append(e, m))
         /\ \A k : Contains(Append(e, m), k) <=> Contains(e, k) \/ k = m
  <1> DEFINE r == Append(e, m)
  <1>1. /\ r \in Seq(S) /\ Len(r) = Len(e) + 1 /\ r[Len(e) + 1] = m
        /\ \A i \in 1..Len(e) : r[i] = e[i]
    OBVIOUS
  <1> HIDE DEF r
  <1>2. \A i \in 1..Len(r) : i = Len(e) + 1 \/ i \in 1..Len(e)
    BY <1>1
  <1>3. \A i \in 1..Len(e) : i \in 1..Len(r) /\ i # Len(e) + 1
    BY <1>1
  <1>4. Len(e) + 1 \in 1..Len(r)
    BY <1>1
  <1>5. Once(r)
    BY <1>1, <1>2, <1>3 DEF Once, Contains
  <1>6. \A k : Contains(r, k) <=> Contains(e, k) \/ k = m
    BY <1>1, <1>2, <1>3, <1>4 DEF Contains
  <1> QED BY <1>1, <1>5, <1>6 DEF r

LEMMA ReplaceAllOnce ==
  ASSUME NEW S, NEW e \in Seq(S), Once(e), NEW m, NEW w \in S, ~ Contains(e, w)
  PROVE  /\ ReplaceAll(e, m, w) \in Seq(S) /\ Once(ReplaceAll(e, m, w))
         /\ \A k : Contains(ReplaceAll(e, m, w), k)
                     <=> (k # m /\ Contains(e, k)) \/ (k = w /\ Contains(e, m))
  <1> DEFINE r == ReplaceAll(e, m, w)
  <1>1. /\ r \in Seq(S) /\ Len(r) = Len(e)
        /\ \A i \in 1..Len(e) : r[i] = IF e[i] = m THEN w ELSE e[i]
    BY DEF ReplaceAll
  <1> HIDE DEF r
  <1>2. Once(r)
    BY <1>1 DEF Once, Contains
  <1>3. \A k : Contains(r, k) <=> (k # m /\ Contains(e, k)) \/ (k = w /\ Contains(e, m))
    BY <1>1 DEF Contains
  <1> QED BY <1>1, <1>2, <1>3 DEF r
-----------------------------------------------------------------------------
(* The passes keep the nodes of a graph, and each writes what it is for.   *)

LEMMA ContractType ==
  ASSUME NEW t \in Shapes, NEW S PROVE Contract(t, S) \in Shapes
  BY DEF Contract, Shapes

LEMMA ScheduledGraph ==
  ASSUME NEW g \in Graph
  PROVE  /\ Scheduled(g) \in Graph
         /\ Scheduled(g).nodes = g.nodes /\ Scheduled(g).added = g.added
         /\ Scheduled(g).writers = g.writers /\ Scheduled(g).readers = g.readers
         /\ Scheduled(g).sched = Fused(g.nodes) /\ Scheduled(g).mem = g.mem
         /\ Scheduled(g).size = g.size /\ Scheduled(g).alive = g.alive
         /\ Scheduled(g).name = g.name
  <1>1. Fused(g.nodes) \in SUBSET SUBSET Stmts
    BY DEF Fused, Graph
  <1> QED BY <1>1 DEF Scheduled, Graph

LEMMA ReducedGraph ==
  ASSUME NEW g \in Graph
  PROVE  /\ Reduced(g) \in Graph
         /\ Reduced(g).nodes = g.nodes /\ Reduced(g).added = g.added
         /\ Reduced(g).writers = g.writers /\ Reduced(g).readers = g.readers
         /\ Reduced(g).sched = g.sched /\ Reduced(g).mem = g.mem
         /\ Reduced(g).size = Contract(g.size, Shrunk(g))
         /\ Reduced(g).alive = g.alive /\ Reduced(g).name = g.name
  <1>1. g.size \in Shapes
    BY DEF Graph
  <1>2. Contract(g.size, Shrunk(g)) \in Shapes
    BY <1>1, ContractType
  <1> QED BY <1>2 DEF Reduced, Graph

LEMMA AllocatedGraph ==
  ASSUME NEW g \in Graph
  PROVE  /\ Allocated(g) \in Graph
         /\ Allocated(g).nodes = g.nodes /\ Allocated(g).added = g.added
         /\ Allocated(g).writers = g.writers /\ Allocated(g).readers = g.readers
         /\ Allocated(g).sched = g.sched /\ Allocated(g).mem = g.nodes
         /\ Allocated(g).size = g.size /\ Allocated(g).alive = g.alive
         /\ Allocated(g).name = g.name
  BY DEF Allocated, Graph

LEMMA ParallelizedGraph ==
  ASSUME NEW g \in Graph
  PROVE  /\ Parallelized(g) \in Graph
         /\ Parallelized(g).nodes = g.nodes /\ Parallelized(g).added = g.added
         /\ Parallelized(g).writers = g.writers /\ Parallelized(g).readers = g.readers
         /\ Parallelized(g).sched = g.sched /\ Parallelized(g).mem = g.mem
         /\ Parallelized(g).size = g.size /\ Parallelized(g).alive = g.alive
         /\ Parallelized(g).name = g.name
  BY DEF Parallelized, Graph

(* All passes on a graph, as process() runs them.                          *)
Processed(g) == Parallelized(Allocated(Reduced(Scheduled(g))))

LEMMA ProcessedGraph ==
  ASSUME NEW g \in Graph
  PROVE  /\ Processed(g) \in Graph
         /\ Processed(g).nodes = g.nodes /\ Processed(g).added = g.added
         /\ Processed(g).writers = g.writers /\ Processed(g).readers = g.readers
         /\ Processed(g).sched = Fused(g.nodes) /\ Processed(g).mem = g.nodes
         /\ Processed(g).size = Contract(g.size, Shrunk(g))
         /\ Processed(g).alive = g.alive /\ Processed(g).name = g.name
  <1> DEFINE s == Scheduled(g)
             r == Reduced(s)
             a == Allocated(r)
  <1>1. /\ s \in Graph /\ s.nodes = g.nodes /\ s.added = g.added
        /\ s.writers = g.writers /\ s.readers = g.readers
        /\ s.sched = Fused(g.nodes) /\ s.size = g.size
        /\ s.alive = g.alive /\ s.name = g.name
    BY ScheduledGraph
  <1>2. Shrunk(s) = Shrunk(g)
    BY <1>1 DEF Shrunk, Reducible
  <1>3. /\ r \in Graph /\ r.nodes = g.nodes /\ r.added = g.added
        /\ r.writers = g.writers /\ r.readers = g.readers
        /\ r.sched = Fused(g.nodes) /\ r.size = Contract(g.size, Shrunk(g))
        /\ r.alive = g.alive /\ r.name = g.name
    <2> HIDE DEF s
    <2> QED BY <1>1, <1>2, ReducedGraph
  <1>4. /\ a \in Graph /\ a.nodes = g.nodes /\ a.added = g.added
        /\ a.writers = g.writers /\ a.readers = g.readers
        /\ a.sched = Fused(g.nodes) /\ a.size = Contract(g.size, Shrunk(g))
        /\ a.mem = g.nodes /\ a.alive = g.alive /\ a.name = g.name
    <2> HIDE DEF r
    <2> QED BY <1>3, AllocatedGraph
  <1>5. Processed(g) = Parallelized(a)
    BY DEF Processed
  <1> HIDE DEF a
  <1> QED BY <1>4, <1>5, ParallelizedGraph

(* A contracted space was contracted before, or is in S.                   *)
LEMMA Contraction ==
  ASSUME NEW t \in Shapes, NEW S, NEW x \in Spaces
  PROVE  Contract(t, S)[x] = IF x \in S THEN "contracted" ELSE t[x]
  BY DEF Contract, Shapes

-----------------------------------------------------------------------------
(* Types.                                                                  *)

LEMMA HeapChanges ==
  ASSUME TypeOK, NEW g \in 1..Len(heap), NEW e \in Graph, Parted(e),
         heap' = [heap EXCEPT ![g] = e]
  PROVE  /\ heap' \in Seq(Graph) /\ Len(heap') = Len(heap)
         /\ heap'[g] = e
         /\ \A i \in 1..Len(heap) : i # g => heap'[i] = heap[i]
         /\ \A i \in DOMAIN heap' : Parted(heap'[i])
  <1>1. heap \in Seq(Graph) /\ \A i \in DOMAIN heap : Parted(heap[i])
    BY DEF TypeOK
  <1>2. /\ heap' \in Seq(Graph) /\ Len(heap') = Len(heap) /\ heap'[g] = e
        /\ \A i \in 1..Len(heap) : i # g => heap'[i] = heap[i]
    BY <1>1, ChangeOne
  <1>3. DOMAIN heap' = 1..Len(heap) /\ DOMAIN heap = 1..Len(heap)
    BY <1>1, <1>2
  <1> QED BY <1>1, <1>2, <1>3

LEMMA HeapGrows ==
  ASSUME TypeOK, NEW e \in Graph, Parted(e), heap' = Append(heap, e)
  PROVE  /\ heap' \in Seq(Graph) /\ Len(heap') = Len(heap) + 1
         /\ heap'[Len(heap) + 1] = e
         /\ \A i \in 1..Len(heap) : heap'[i] = heap[i]
         /\ \A i \in DOMAIN heap' : Parted(heap'[i])
  <1>1. heap \in Seq(Graph) /\ \A i \in DOMAIN heap : Parted(heap[i])
    BY DEF TypeOK
  <1>2. /\ heap' \in Seq(Graph) /\ Len(heap') = Len(heap) + 1
        /\ heap'[Len(heap) + 1] = e
        /\ \A i \in 1..Len(heap) : heap'[i] = heap[i]
    BY <1>1, AppendOne
  <1>3. DOMAIN heap' = 1..(Len(heap) + 1) /\ DOMAIN heap = 1..Len(heap)
    BY <1>1, <1>2
  <1>4. \A i \in 1..(Len(heap) + 1) : i = Len(heap) + 1 \/ i \in 1..Len(heap)
    BY <1>1
  <1> QED BY <1>1, <1>2, <1>3, <1>4

(* The parts of TypeOK as facts about one graph.                           *)
LEMMA HeapFacts ==
  ASSUME TypeOK
  PROVE  /\ Len(heap) \in Nat /\ DOMAIN heap = 1..Len(heap)
         /\ \A g \in 1..Len(heap) : heap[g] \in Graph /\ Parted(heap[g])
         /\ flow # 0 => flow \in 1..Len(heap)
         /\ Targets \subseteq 1..Len(heap)
         /\ "current" \in Rules => \A g \in Targets : g = flow
         /\ stage # "client" => Variant \in 1..Len(heap) /\ Variant # flow /\ flow # 0
  BY DEF TypeOK, Targets, Variant

(* What AddComp makes of the table.                                        *)
Declared(s) ==
  [x \in Spaces |-> IF x \in Touches(s) /\ spaces[x] = "none" THEN "whole" ELSE spaces[x]]

(* The edges of g: one at every node of N that accesses the space.         *)
Edges(E, N, A) ==
  \A x \in Spaces :
    /\ Once(E[x])
    /\ \A m \in SUBSET Stmts : Contains(E[x], m) <=> m \in N /\ \E s \in m : x \in A[s]

Edged(g) == Edges(g.writers, g.nodes, Writes) /\ Edges(g.readers, g.nodes, Reads)

LEMMA MoreEndsType ==
  ASSUME NEW E \in Ends, NEW X, NEW n \in SUBSET Stmts
  PROVE  MoreEnds(E, X, n) \in Ends
  BY DEF MoreEnds, Ends

(* A new node gets the edges of its accesses.                              *)
LEMMA MoreEdges ==
  ASSUME NEW E \in Ends, NEW N \in SUBSET SUBSET Stmts, NEW A \in [Stmts -> SUBSET Spaces],
         NEW s \in Stmts, {s} \notin N, Edges(E, N, A)
  PROVE  Edges(MoreEnds(E, A[s], {s}), N \union {{s}}, A)
  <1> SUFFICES ASSUME NEW x \in Spaces
               PROVE  LET e == MoreEnds(E, A[s], {s})[x]
                      IN  /\ Once(e)
                          /\ \A m \in SUBSET Stmts :
                               Contains(e, m) <=> m \in N \union {{s}} /\ \E t \in m : x \in A[t]
    BY DEF Edges
  <1>1. /\ E[x] \in Seq(SUBSET Stmts) /\ Once(E[x])
        /\ \A m \in SUBSET Stmts : Contains(E[x], m) <=> m \in N /\ \E t \in m : x \in A[t]
    BY DEF Edges, Ends
  <1>2. {s} \in SUBSET Stmts /\ ~ Contains(E[x], {s})
    BY <1>1
  <1>3. CASE x \in A[s]
    <2> DEFINE e == E[x]
               c == {s}
               f == Append(e, c)
    <2>1. MoreEnds(E, A[s], {s})[x] = f
      BY <1>3 DEF MoreEnds
    <2>2. e \in Seq(SUBSET Stmts) /\ Once(e) /\ c \in SUBSET Stmts /\ ~ Contains(e, c)
      BY <1>1, <1>2
    <2>3. Once(f) /\ \A k : Contains(f, k) <=> Contains(e, k) \/ k = c
      <3> HIDE DEF e, c
      <3> QED BY <2>2, AppendOnce
    <2> HIDE DEF f
    <2>4. ASSUME NEW m \in SUBSET Stmts
          PROVE  Contains(f, m) <=> m \in N \union {{s}} /\ \E t \in m : x \in A[t]
      BY <1>1, <1>3, <2>3
    <2> QED BY <2>1, <2>3, <2>4
  <1>4. CASE x \notin A[s]
    <2>1. MoreEnds(E, A[s], {s})[x] = E[x]
      BY <1>4 DEF MoreEnds
    <2> QED BY <1>1, <1>4, <2>1
  <1> QED BY <1>3, <1>4

(* Fusing {s} into n leaves one edge at the fused node.                     *)
LEMMA JoinedEdges ==
  ASSUME NEW E \in Ends, NEW N \in SUBSET SUBSET Stmts, NEW A \in [Stmts -> SUBSET Spaces],
         NEW n \in N, NEW s \in Stmts, {s} \in N, s \notin n,
         \A k \in N : k # {s} => s \notin k, Edges(E, N, A)
  PROVE  Edges(JoinedEnds(E, n, s), (N \ {n, {s}}) \union {n \union {s}}, A)
  <1> DEFINE w == n \union {s}
             M == (N \ {n, {s}}) \union {w}
  <1> SUFFICES ASSUME NEW x \in Spaces
               PROVE  LET e == JoinedEnds(E, n, s)[x]
                      IN  /\ Once(e)
                          /\ \A m \in SUBSET Stmts :
                               Contains(e, m) <=> m \in M /\ \E t \in m : x \in A[t]
    BY DEF Edges
  <1> DEFINE e == E[x]
             v == MovedEnd(e, n, s)
             Acc(m) == \E t \in m : x \in A[t]
  <1>1. /\ e \in Seq(SUBSET Stmts) /\ Once(e)
        /\ \A m \in SUBSET Stmts : Contains(e, m) <=> m \in N /\ Acc(m)
    BY DEF Edges, Ends
  <1>2. /\ n \in SUBSET Stmts /\ {s} \in SUBSET Stmts /\ w \in SUBSET Stmts
        /\ n # {s} /\ w # n
    OBVIOUS
  <1>3. w # {s} => w \notin N
    OBVIOUS
  <1> HIDE DEF e
  (* The edges after the move: {s} has none, n has its own and those of {s}. *)
  <1>4. /\ v \in Seq(SUBSET Stmts) /\ Once(v)
        /\ \A m \in SUBSET Stmts : Contains(v, m) <=>
              m # {s} /\ (Contains(e, m) \/ (m = n /\ Contains(e, {s})))
    <2>1. CASE ~ Contains(e, {s})
      BY <1>1, <2>1 DEF MovedEnd
    <2>2. CASE Contains(e, {s})
      <3> DEFINE r == RemoveFirst(e, {s})
      <3>1. /\ r \in Seq(SUBSET Stmts) /\ Once(r)
            /\ \A k : Contains(r, k) <=> Contains(e, k) /\ k # {s}
        BY <1>1, <2>2, RemoveFirstOnce, Zenon
      <3>2. CASE Contains(e, n)
        <4>1. v = r
          BY <2>2, <3>2 DEF MovedEnd
        <4> HIDE DEF r, v
        <4> QED BY <1>2, <2>2, <3>1, <3>2, <4>1
      <3>3. CASE ~ Contains(e, n)
        <4>1. v = Append(r, n)
          BY <2>2, <3>3 DEF MovedEnd
        <4> HIDE DEF r, v
        <4>2. ~ Contains(r, n)
          BY <3>1, <3>3
        <4>3. /\ v \in Seq(SUBSET Stmts) /\ Once(v)
              /\ \A k : Contains(v, k) <=> Contains(r, k) \/ k = n
          BY <1>2, <3>1, <4>1, <4>2, AppendOnce
        <4> QED BY <1>2, <2>2, <3>1, <4>3
      <3> QED BY <3>2, <3>3
    <2> QED BY <2>1, <2>2
  <1> HIDE DEF v
  <1>5. ~ Contains(v, w)
    BY <1>1, <1>2, <1>3, <1>4
  <1> DEFINE r == ReplaceAll(v, n, w)
  <1>6. /\ r \in Seq(SUBSET Stmts) /\ Once(r)
        /\ \A k : Contains(r, k) <=> (k # n /\ Contains(v, k)) \/ (k = w /\ Contains(v, n))
    <2> HIDE DEF w
    <2> QED BY <1>2, <1>4, <1>5, ReplaceAllOnce
  <1>7. JoinedEnds(E, n, s)[x] = r
    BY DEF JoinedEnds, e, v
  <1> HIDE DEF r
  <1>8. Contains(v, n) <=> Acc(w)
    <2>1. Contains(v, n) <=> Contains(e, n) \/ Contains(e, {s})
      BY <1>2, <1>4
    <2>2. (Contains(e, n) <=> Acc(n)) /\ (Contains(e, {s}) <=> Acc({s}))
      BY <1>1, <1>2
    <2>3. Acc(w) <=> Acc(n) \/ Acc({s})
      OBVIOUS
    <2> QED BY <2>1, <2>2, <2>3
  <1>9. ASSUME NEW m \in SUBSET Stmts PROVE Contains(r, m) <=> m \in M /\ Acc(m)
    <2> HIDE DEF w, Acc
    <2>1. CASE m = w
      BY <1>2, <1>4, <1>5, <1>6, <1>8, <2>1
    <2>2. CASE m # w
      BY <1>1, <1>2, <1>4, <1>6, <2>2
    <2> QED BY <2>1, <2>2
  <1> QED BY <1>6, <1>7, <1>9

LEMMA JoinedEndsType ==
  ASSUME NEW E \in Ends, NEW n \in SUBSET Stmts, NEW s \in Stmts
  PROVE  JoinedEnds(E, n, s) \in Ends
  <1> SUFFICES ASSUME NEW x \in Spaces
               PROVE  ReplaceAll(MovedEnd(E[x], n, s), n, n \union {s}) \in Seq(SUBSET Stmts)
    BY DEF JoinedEnds, Ends
  <1>1. E[x] \in Seq(SUBSET Stmts)
    BY DEF Ends
  <1>2. RemoveFirst(E[x], {s}) \in Seq(SUBSET Stmts)
    BY <1>1, RemoveFirstType
  <1>3. MovedEnd(E[x], n, s) \in Seq(SUBSET Stmts)
    BY <1>1, <1>2 DEF MovedEnd
  <1> QED BY <1>3 DEF ReplaceAll

LEMMA ExtendedGraph ==
  ASSUME NEW g \in Graph, Parted(g), NEW s \in Stmts, s \notin g.added, NEW t \in Shapes
  PROVE  /\ Extended(g, s, t) \in Graph /\ Parted(Extended(g, s, t))
         /\ Extended(g, s, t).nodes = g.nodes \union {{s}}
         /\ Extended(g, s, t).added = g.added \union {s}
         /\ Extended(g, s, t).sched = g.sched /\ Extended(g, s, t).mem = g.mem
         /\ Extended(g, s, t).alive = g.alive /\ Extended(g, s, t).name = g.name
         /\ \A x \in Spaces : Extended(g, s, t).size[x]
                                = IF x \in Touches(s) THEN t[x] ELSE g.size[x]
  <1> DEFINE z == [x \in Spaces |-> IF x \in Touches(s) THEN t[x] ELSE g.size[x]]
             W == MoreEnds(g.writers, Writes[s], {s})
             R == MoreEnds(g.readers, Reads[s], {s})
             e == Extended(g, s, t)
  <1>1. z \in Shapes
    BY DEF Shapes, Graph
  <1>2. /\ g.nodes \union {{s}} \in SUBSET SUBSET Stmts /\ g.added \union {s} \in SUBSET Stmts
        /\ W \in Ends /\ R \in Ends
    <2>1. g.writers \in Ends /\ g.readers \in Ends /\ {s} \in SUBSET Stmts
      BY DEF Graph
    <2>2. W \in Ends /\ R \in Ends
      BY <2>1, MoreEndsType
    <2> QED BY <2>2 DEF Graph
  <1>3. /\ e.nodes = g.nodes \union {{s}} /\ e.added = g.added \union {s}
        /\ e.writers = W /\ e.readers = R
        /\ e.sched = g.sched /\ e.mem = g.mem /\ e.size = z
        /\ e.alive = g.alive /\ e.name = g.name /\ e.omp = g.omp
    BY DEF Extended, Graph
  <1>4. e \in Graph
    <2> DEFINE N == g.nodes \union {{s}}
               D == g.added \union {s}
    <2>1. e = [[[[[g EXCEPT !.nodes = N] EXCEPT !.added = D]
                  EXCEPT !.writers = W] EXCEPT !.readers = R] EXCEPT !.size = z]
      BY DEF Extended, Graph
    <2>2. N \in SUBSET SUBSET Stmts /\ D \in SUBSET Stmts
      BY <1>2
    <2> HIDE DEF z, W, R, N, D, e
    <2> QED BY <1>1, <1>2, <2>1, <2>2 DEF Graph
  <1>5. Parted(e)
    <2>1. UNION e.nodes \subseteq e.added
      BY <1>3 DEF Parted
    <2>2. \A m \in g.nodes : s \notin m
      BY DEF Parted
    <2>3. \A m, n \in e.nodes : m # {} /\ (m = n \/ m \cap n = {})
      <3>1. {s} # {} /\ \A m \in g.nodes : m \cap {s} = {} /\ {s} \cap m = {}
        BY <2>2
      <3>2. \A m, n \in g.nodes : m # {} /\ (m = n \/ m \cap n = {})
        BY DEF Parted
      <3>3. \A m \in e.nodes : m \in g.nodes \/ m = {s}
        BY <1>3
      <3> HIDE DEF e
      <3> QED BY <3>1, <3>2, <3>3, ZenonT(30)
    <2> QED BY <2>1, <2>3 DEF Parted
  <1> QED BY <1>3, <1>4, <1>5

LEMMA ExtendedEnds ==
  ASSUME NEW g \in Graph, NEW s \in Stmts, NEW t
  PROVE  /\ Extended(g, s, t).writers = MoreEnds(g.writers, Writes[s], {s})
         /\ Extended(g, s, t).readers = MoreEnds(g.readers, Reads[s], {s})
  BY DEF Extended, Graph

LEMMA JoinedGraph ==
  ASSUME NEW g \in Graph, Parted(g), NEW n \in g.nodes, NEW s \in Stmts,
         {s} \in g.nodes, s \notin n
  PROVE  /\ Joined(g, n, s) \in Graph /\ Parted(Joined(g, n, s))
         /\ UNION Joined(g, n, s).nodes = UNION g.nodes
         /\ Joined(g, n, s).added = g.added
         /\ Joined(g, n, s).sched = g.sched /\ Joined(g, n, s).mem = g.mem
         /\ Joined(g, n, s).alive = g.alive /\ Joined(g, n, s).name = g.name
         /\ Joined(g, n, s).size = g.size
  <1> DEFINE e == Joined(g, n, s)
             N == (g.nodes \ {n, {s}}) \union {n \union {s}}
             W == JoinedEnds(g.writers, n, s)
             R == JoinedEnds(g.readers, n, s)
  <1>1. N \in SUBSET SUBSET Stmts /\ W \in Ends /\ R \in Ends
    <2>1. g.writers \in Ends /\ g.readers \in Ends /\ n \in SUBSET Stmts
      BY DEF Graph
    <2>2. W \in Ends /\ R \in Ends
      BY <2>1, JoinedEndsType
    <2> QED BY <2>2 DEF Graph
  <1>2. /\ e.nodes = N /\ e.writers = W /\ e.readers = R /\ e.added = g.added /\ e.sched = g.sched /\ e.mem = g.mem
        /\ e.size = g.size /\ e.alive = g.alive /\ e.name = g.name
    BY DEF Joined, Graph
  <1>3. e \in Graph
    <2>1. e = [[[g EXCEPT !.nodes = N] EXCEPT !.writers = W] EXCEPT !.readers = R]
      BY DEF Joined, Graph
    <2> HIDE DEF N, W, R
    <2> QED BY <1>1, <2>1 DEF Graph
  <1>4. UNION N = UNION g.nodes
    BY ZenonT(30)
  <1>5. Parted(e)
    <2>1. UNION e.nodes \subseteq e.added
      BY <1>2, <1>4 DEF Parted
    <2>2. \A m \in g.nodes \ {n, {s}} : m # {} /\ m \cap (n \union {s}) = {}
      BY DEF Parted
    <2>3. n \union {s} # {}
      OBVIOUS
    <2>4. \A m, o \in g.nodes \ {n, {s}} : m = o \/ m \cap o = {}
      BY DEF Parted
    <2>5. \A m, o \in N : m # {} /\ (m = o \/ m \cap o = {})
      BY <2>2, <2>3, <2>4
    <2> QED BY <1>2, <2>1, <2>5 DEF Parted
  <1> QED BY <1>2, <1>3, <1>4, <1>5

LEMMA JoinedNodes ==
  ASSUME NEW g \in Graph, NEW n, NEW s
  PROVE  /\ Joined(g, n, s).nodes = (g.nodes \ {n, {s}}) \union {n \union {s}}
         /\ Joined(g, n, s).writers = JoinedEnds(g.writers, n, s)
         /\ Joined(g, n, s).readers = JoinedEnds(g.readers, n, s)
  BY DEF Joined, Graph

LEMMA HeadsOfNodes ==
  ASSUME NEW N \in SUBSET SUBSET Stmts, N # {}, NEW M \in Heads(N)
  PROVE  /\ UNION M \in SUBSET Stmts /\ UNION M \subseteq UNION N /\ UNION M # {}
         /\ Fused(N) = {} => UNION M = UNION N
  <1>1. PICK h \in [N -> Stmts] : (\A n \in N : h[n] \in n) /\ M = {{h[n]} : n \in N}
    BY DEF Heads
  <1>2. UNION M \in SUBSET Stmts /\ UNION M \subseteq UNION N /\ UNION M # {}
    BY <1>1
  <1>3. ASSUME Fused(N) = {} PROVE UNION N \subseteq UNION M
    <2>1. \A n \in N : \E s \in Stmts : n = {s}
      BY <1>3 DEF Fused
    <2>2. \A n \in N : n = {h[n]}
      BY <1>1, <2>1
    <2> QED BY <1>1, <2>2
  <1> QED BY <1>2, <1>3

LEMMA FusedCopyGraph ==
  ASSUME NEW g \in Graph, Parted(g), g.nodes # {}, NEW N \in Heads(g.nodes)
  PROVE  /\ FusedCopy(g, N) \in Graph /\ Parted(FusedCopy(g, N))
         /\ FusedCopy(g, N).nodes = {UNION N} /\ UNION N \in SUBSET Stmts
         /\ \A x \in Spaces :
              /\ FusedCopy(g, N).writers[x] = IF g.writers[x] = << >> THEN << >> ELSE << UNION N >>
              /\ FusedCopy(g, N).readers[x] = IF g.readers[x] = << >> THEN << >> ELSE << UNION N >>
         /\ Fused(g.nodes) = {} => UNION FusedCopy(g, N).nodes = UNION g.nodes
         /\ FusedCopy(g, N).added = g.added /\ FusedCopy(g, N).size = g.size
         /\ FusedCopy(g, N).alive = g.alive /\ FusedCopy(g, N).name = g.name
  <1> DEFINE S == UNION N
             W == [x \in Spaces |-> IF g.writers[x] = << >> THEN << >> ELSE << S >>]
             R == [x \in Spaces |-> IF g.readers[x] = << >> THEN << >> ELSE << S >>]
             e == [[[g EXCEPT !.nodes = {S}] EXCEPT !.writers = W] EXCEPT !.readers = R]
  <1>1. g.nodes \in SUBSET SUBSET Stmts
    BY DEF Graph
  <1>2. /\ S \in SUBSET Stmts /\ S \subseteq UNION g.nodes /\ S # {}
        /\ Fused(g.nodes) = {} => S = UNION g.nodes
    BY <1>1, HeadsOfNodes
  <1>3. FusedCopy(g, N) = e
    BY DEF FusedCopy, Graph
  <1> HIDE DEF S
  <1>w. W \in Ends /\ R \in Ends
    <2>1. << S >> \in Seq(SUBSET Stmts) /\ << >> \in Seq(SUBSET Stmts)
      BY <1>2
    <2> HIDE DEF S
    <2>2. \A E \in {W, R} : E \in [Spaces -> Seq(SUBSET Stmts)]
      BY <2>1
    <2> QED BY <2>2 DEF Ends
  <1>x. \A x \in Spaces : /\ W[x] = IF g.writers[x] = << >> THEN << >> ELSE << S >>
                          /\ R[x] = IF g.readers[x] = << >> THEN << >> ELSE << S >>
    OBVIOUS
  <1> HIDE DEF W, R
  <1>4. /\ e \in Graph /\ e.nodes = {S} /\ e.writers = W /\ e.readers = R /\ e.added = g.added /\ e.size = g.size
        /\ e.alive = g.alive /\ e.name = g.name
    BY <1>2, <1>w DEF Graph
  <1>5. UNION {S} = S
    OBVIOUS
  <1>6. Parted(e)
    BY <1>2, <1>4, <1>5 DEF Parted
  <1> HIDE DEF e
  <1>7. /\ e.nodes = {S} /\ S \in SUBSET Stmts
        /\ \A x \in Spaces : /\ e.writers[x] = IF g.writers[x] = << >> THEN << >> ELSE << S >>
                            /\ e.readers[x] = IF g.readers[x] = << >> THEN << >> ELSE << S >>
    BY <1>2, <1>4, <1>x
  <1>8. Fused(g.nodes) = {} => UNION e.nodes = UNION g.nodes
    BY <1>2, <1>4, <1>5
  <1> QED BY <1>3, <1>4, <1>6, <1>7, <1>8 DEF S

LEMMA EmptyGraph ==
  ASSUME NEW n \in Names PROVE Empty(n) \in Graph /\ Parted(Empty(n))
  BY DEF Empty, NoEnds, Ends, Graph, Parted, Undeclared, Shapes

(* Passes keep a graph in parts.                                           *)
LEMMA SameParts ==
  ASSUME NEW g, NEW e, Parted(g), e.nodes = g.nodes, e.added = g.added
  PROVE  Parted(e)
  BY DEF Parted

LEMMA CodeType ==
  ASSUME NEW g \in Graph, NEW s \in SUBSET SUBSET Stmts, NEW t \in Shapes
  PROVE  [ live |-> g.alive, added |-> g.added, nodes |-> g.nodes, sched |-> s,
           mem |-> g.mem, size |-> g.size, table |-> t ] \in Code
  BY DEF Graph, Code

LEMMA InitTypeOK == Init => TypeOK
  <1> SUFFICES ASSUME Init PROVE TypeOK
    OBVIOUS
  <1>1. Undeclared \in Shapes
    BY DEF Undeclared, Shapes
  <1>2. NoCode \in Code
    BY <1>1 DEF NoCode, Code
  <1>3. heap \in Seq(Graph) /\ Len(heap) = 0 /\ DOMAIN heap = {}
    BY DEF Init
  <1>4. checkpoints \in [Slots -> Shapes] /\ graphs \in [Names -> 0..0]
    BY <1>1 DEF Init
  <1>5. flow = 0 /\ graphs \in [Names -> 0..Len(heap)]
    BY <1>3, <1>4 DEF Init
  <1>6. flags \subseteq Passes /\ spaces \in Shapes /\ code \in Code
    BY <1>1, <1>2 DEF Init
  <1>7. sealed \in BOOLEAN /\ stage = "client"
    BY DEF Init
  <1> QED BY <1>3, <1>4, <1>5, <1>6, <1>7 DEF TypeOK

(* Every step keeps the types.                                             *)
LEMMA NextTypeOK == TypeOK /\ [Next]_vars => TypeOK'
  <1> SUFFICES ASSUME TypeOK, [Next]_vars PROVE TypeOK'
    OBVIOUS
  <1>0. /\ Len(heap) \in Nat /\ DOMAIN heap = 1..Len(heap)
        /\ \A g \in 1..Len(heap) : heap[g] \in Graph /\ Parted(heap[g])
        /\ flow # 0 => flow \in 1..Len(heap)
        /\ Targets \subseteq 1..Len(heap)
        /\ stage # "client" => Variant \in 1..Len(heap) /\ Variant # flow /\ flow # 0
    BY HeapFacts
  <1>1. ASSUME NEW n \in Names, NewGraph(n) PROVE TypeOK'
    <2>1. heap' = Append(heap, Empty(n))
      BY <1>1 DEF NewGraph
    <2>2. Empty(n) \in Graph /\ Parted(Empty(n))
      BY EmptyGraph
    <2>3. heap' \in Seq(Graph) /\ Len(heap') = Len(heap) + 1
          /\ \A i \in DOMAIN heap' : Parted(heap'[i])
      BY <2>1, <2>2, HeapGrows
    <2>4. flow' = Len(heap) + 1 /\ stage' = "client" /\ flags' = {} /\ sealed' = FALSE
          /\ UNCHANGED << spaces, checkpoints, code >>
      BY <1>1 DEF NewGraph, Client
    <2>5. graphs' \in [Names -> 0..Len(heap')]
      <3>1. graphs \in [Names -> 0..Len(heap)] /\ graphs' = [graphs EXCEPT ![n] = Len(heap) + 1]
        BY <1>1 DEF NewGraph, TypeOK
      <3> QED BY <1>0, <2>3, <3>1
    <2>6. flow' \in 0..Len(heap') /\ flow' # 0
      BY <1>0, <2>3, <2>4
    <2>7. sealed' \in BOOLEAN /\ flags' \subseteq Passes
      BY <2>4
    <2>8. spaces' \in Shapes /\ checkpoints' \in [Slots -> Shapes] /\ code' \in Code
      BY <2>4 DEF TypeOK
    <2> QED BY <2>3, <2>4, <2>5, <2>6, <2>7, <2>8 DEF TypeOK
  <1>2. ASSUME NEW s \in Stmts, AddComp(s) PROVE TypeOK'
    <2>1. spaces' = Declared(s) /\ spaces' \in Shapes
      BY <1>2 DEF AddComp, Declared, TypeOK, Shapes
    <2>2. heap' = [heap EXCEPT ![flow] = Extended(heap[flow], s, spaces')]
      BY <1>2 DEF AddComp
    <2> DEFINE e == Extended(heap[flow], s, spaces')
    <2>3. flow \in 1..Len(heap) /\ heap[flow] \in Graph /\ Parted(heap[flow])
          /\ s \notin heap[flow].added
      BY <1>0, <1>2 DEF AddComp
    <2>4. e \in Graph /\ Parted(e)
      BY <2>1, <2>3, ExtendedGraph
    <2> HIDE DEF e
    <2>5. heap' \in Seq(Graph) /\ Len(heap') = Len(heap)
          /\ \A i \in DOMAIN heap' : Parted(heap'[i])
      BY <2>2, <2>3, <2>4, HeapChanges DEF e
    <2> QED BY <1>0, <1>2, <2>1, <2>5 DEF AddComp, TypeOK, Client
  <1>3. ASSUME NEW n \in SUBSET Stmts, NEW s \in Stmts, Fuse(n, s) PROVE TypeOK'
    <2> DEFINE e == Joined(heap[flow], n, s)
    <2>1. heap' = [heap EXCEPT ![flow] = e]
      BY <1>3 DEF Fuse
    <2>2. flow \in 1..Len(heap) /\ heap[flow] \in Graph /\ Parted(heap[flow])
          /\ n \in heap[flow].nodes /\ {s} \in heap[flow].nodes /\ s \notin n
      BY <1>0, <1>3 DEF Fuse
    <2>3. e \in Graph /\ Parted(e)
      BY <2>2, JoinedGraph
    <2> HIDE DEF e
    <2>4. heap' \in Seq(Graph) /\ Len(heap') = Len(heap)
          /\ \A i \in DOMAIN heap' : Parted(heap'[i])
      BY <2>1, <2>2, <2>3, HeapChanges
    <2> QED BY <1>0, <1>3, <2>4 DEF Fuse, TypeOK, Client
  <1>4. ASSUME NEW g \in Targets, NEW e \in Graph, Client, e.nodes = heap[g].nodes,
               e.added = heap[g].added, heap' = [heap EXCEPT ![g] = e],
               UNCHANGED << flow, graphs, checkpoints, stage >>,
               flags' \subseteq Passes, spaces' \in Shapes, sealed' \in BOOLEAN,
               code' \in Code
        PROVE  TypeOK'
    <2>1. g \in 1..Len(heap) /\ Parted(e)
      BY <1>0, <1>4, SameParts
    <2>2. heap' \in Seq(Graph) /\ Len(heap') = Len(heap)
          /\ \A i \in DOMAIN heap' : Parted(heap'[i])
      BY <1>4, <2>1, HeapChanges
    <2> QED BY <1>0, <1>4, <2>2 DEF TypeOK, Client
  <1>5. ASSUME NEW g \in Targets, Reschedule(g) PROVE TypeOK'
    <2> DEFINE e == Scheduled(heap[g])
    <2>1. e \in Graph /\ e.nodes = heap[g].nodes /\ e.added = heap[g].added
      BY <1>0, ScheduledGraph
    <2>2. heap' = [heap EXCEPT ![g] = e]
      BY <1>5 DEF Reschedule
    <2> HIDE DEF e
    <2>3. /\ Client /\ flags' \subseteq Passes /\ spaces' \in Shapes /\ sealed' \in BOOLEAN
          /\ code' \in Code /\ UNCHANGED << flow, graphs, checkpoints, stage >>
      BY <1>5 DEF Reschedule, TypeOK, Passes
    <2> QED BY <1>4, <2>1, <2>2, <2>3
  <1>6. ASSUME NEW g \in Targets, Reduce(g) PROVE TypeOK'
    <2> DEFINE e == Reduced(heap[g])
    <2>1. e \in Graph /\ e.nodes = heap[g].nodes /\ e.added = heap[g].added
      BY <1>0, ReducedGraph
    <2>2. heap' = [heap EXCEPT ![g] = e]
      BY <1>6 DEF Reduce
    <2> HIDE DEF e
    <2>3. /\ Client /\ flags' \subseteq Passes /\ spaces' \in Shapes /\ sealed' \in BOOLEAN
          /\ code' \in Code /\ UNCHANGED << flow, graphs, checkpoints, stage >>
      BY <1>6, ContractType DEF Reduce, TypeOK, Passes
    <2> QED BY <1>4, <2>1, <2>2, <2>3
  <1>7. ASSUME NEW g \in Targets, Allocate(g) PROVE TypeOK'
    <2> DEFINE e == Allocated(heap[g])
    <2>1. e \in Graph /\ e.nodes = heap[g].nodes /\ e.added = heap[g].added
      BY <1>0, AllocatedGraph
    <2>2. heap' = [heap EXCEPT ![g] = e]
      BY <1>7 DEF Allocate
    <2> HIDE DEF e
    <2>3. /\ Client /\ flags' \subseteq Passes /\ spaces' \in Shapes /\ sealed' \in BOOLEAN
          /\ code' \in Code /\ UNCHANGED << flow, graphs, checkpoints, stage >>
      BY <1>7 DEF Allocate, TypeOK, Passes
    <2> QED BY <1>4, <2>1, <2>2, <2>3
  <1>8. ASSUME NEW g \in Targets, Parallelize(g) PROVE TypeOK'
    <2> DEFINE e == Parallelized(heap[g])
    <2>1. e \in Graph /\ e.nodes = heap[g].nodes /\ e.added = heap[g].added
      BY <1>0, ParallelizedGraph
    <2>2. heap' = [heap EXCEPT ![g] = e]
      BY <1>8 DEF Parallelize
    <2> HIDE DEF e
    <2>3. /\ Client /\ flags' \subseteq Passes /\ spaces' \in Shapes /\ sealed' \in BOOLEAN
          /\ code' \in Code /\ UNCHANGED << flow, graphs, checkpoints, stage >>
      BY <1>8 DEF Parallelize, TypeOK, Passes
    <2> QED BY <1>4, <2>1, <2>2, <2>3
  <1>9. ASSUME NEW g \in Targets, Codegen(g) PROVE TypeOK'
    <2> DEFINE e == IF "scheduled" \in flags THEN heap[g] ELSE Scheduled(heap[g])
    <2>1. g \in 1..Len(heap) /\ heap[g] \in Graph
      BY <1>0
    <2>2. e \in Graph /\ e.nodes = heap[g].nodes /\ e.added = heap[g].added
      BY <2>1, ScheduledGraph
    <2>3. heap' = [heap EXCEPT ![g] = e]
      <3>1. heap = [heap EXCEPT ![g] = heap[g]]
        BY <2>1 DEF TypeOK
      <3>2. CASE "scheduled" \in flags
        BY <1>9, <3>1, <3>2 DEF Codegen
      <3>3. CASE "scheduled" \notin flags
        BY <1>9, <3>3 DEF Codegen
      <3> QED BY <3>2, <3>3
    <2> HIDE DEF e
    <2>4. heap'[g] = e
      BY <2>1, <2>2, <2>3, ChangeOne DEF TypeOK
    <2>5. e.sched \in SUBSET SUBSET Stmts
      BY <2>2 DEF Graph
    <2>6. code' \in Code
      BY <1>9, <2>1, <2>4, <2>5, CodeType DEF Codegen, TypeOK
    <2> QED BY <1>4, <1>9, <2>2, <2>3, <2>6 DEF Codegen, TypeOK, Passes
  <1>10. ASSUME NEW g \in Targets, Transform(g) PROVE TypeOK'
    <2>1. g \in 1..Len(heap) /\ heap[g] \in Graph /\ Parted(heap[g])
      BY <1>0
    <2>2. PICK N \in Heads(heap[g].nodes) : heap' = Append(heap, FusedCopy(heap[g], N))
      BY <1>10 DEF Transform
    <2> DEFINE e == FusedCopy(heap[g], N)
    <2>3. e \in Graph /\ Parted(e)
      BY <1>10, <2>1, FusedCopyGraph DEF Transform
    <2> HIDE DEF e
    <2>4. heap' \in Seq(Graph) /\ Len(heap') = Len(heap) + 1
          /\ \A i \in DOMAIN heap' : Parted(heap'[i])
      BY <2>2, <2>3, HeapGrows DEF e
    <2>5. flow \in 1..Len(heap)
      BY <1>0, <2>1 DEF TypeOK
    <2>6. checkpoints' \in [Slots -> Shapes]
      BY <1>10 DEF Transform, TypeOK
    <2>7. /\ sealed' = TRUE /\ stage' = "process"
          /\ UNCHANGED << flow, graphs, flags, spaces, code >>
      BY <1>10 DEF Transform
    <2>8. graphs' \in [Names -> 0..Len(heap')] /\ flow' \in 0..Len(heap')
          /\ 0 < flow' /\ flow' < Len(heap')
      <3>1. graphs \in [Names -> 0..Len(heap)] /\ \A i \in 0..Len(heap) : i \in 0..Len(heap')
        BY <1>0, <2>4 DEF TypeOK
      <3> QED BY <1>0, <2>4, <2>5, <2>7, <3>1
    <2> QED BY <1>0, <2>4, <2>6, <2>7, <2>8 DEF TypeOK
  <1>11. CASE ProcessVariant
    <2>1. stage = "process" /\ Variant \in 1..Len(heap) /\ heap[Variant] \in Graph
          /\ Parted(heap[Variant])
      BY <1>0, <1>11 DEF ProcessVariant
    <2> DEFINE e == Processed(heap[Variant])
    <2>2. e \in Graph /\ Parted(e)
      BY <2>1, ProcessedGraph, SameParts
    <2>3. heap' = [heap EXCEPT ![Variant] = e]
      BY <1>11 DEF ProcessVariant, Processed
    <2> HIDE DEF e
    <2>4. heap' \in Seq(Graph) /\ Len(heap') = Len(heap)
          /\ \A i \in DOMAIN heap' : Parted(heap'[i])
      BY <2>1, <2>2, <2>3, HeapChanges
    <2>5. spaces' \in Shapes
      BY <1>11, ContractType DEF ProcessVariant, TypeOK
    <2> QED BY <1>0, <1>11, <2>4, <2>5 DEF ProcessVariant, TypeOK
  <1>12. CASE KeepBest
    <2>1. heap[Variant].name \in Names
      BY <1>0, <1>12 DEF KeepBest, Graph
    <2>2. checkpoints' \in [Slots -> Shapes] /\ spaces' \in Shapes
      BY <1>12, <2>1 DEF KeepBest, TypeOK, Slots
    <2> QED BY <1>12, <2>2 DEF KeepBest, TypeOK
  <1>13. CASE FinishTransform
    <2>1. stage # "client" /\ flow \in 1..Len(heap) /\ heap[flow] \in Graph
          /\ Parted(heap[flow]) /\ heap[Variant].name \in Names
      BY <1>0, <1>13 DEF FinishTransform, Graph
    <2> DEFINE e == [heap[flow] EXCEPT !.alive = FALSE]
    <2>2. e \in Graph /\ e.nodes = heap[flow].nodes /\ e.added = heap[flow].added
      BY <2>1 DEF Graph
    <2>3. Parted(e)
      BY <2>1, <2>2, SameParts
    <2>4. heap' = [heap EXCEPT ![flow] = e]
      BY <1>13 DEF FinishTransform
    <2> HIDE DEF e
    <2>5. heap' \in Seq(Graph) /\ Len(heap') = Len(heap)
          /\ \A i \in DOMAIN heap' : Parted(heap'[i])
      BY <2>1, <2>2, <2>3, <2>4, HeapChanges
    <2>6. spaces' \in Shapes
      BY <1>13, <2>1 DEF FinishTransform, TypeOK, Slots
    <2>7. /\ flow' = Variant /\ flags' = flags \union {"transformed", "scheduled"}
          /\ stage' = "client" /\ UNCHANGED << graphs, checkpoints, sealed, code >>
      BY <1>13 DEF FinishTransform
    <2>8. flags' \subseteq Passes
      BY <2>7 DEF TypeOK, Passes
    <2> QED BY <1>0, <2>1, <2>5, <2>6, <2>7, <2>8 DEF TypeOK
  <1>14. CASE UNCHANGED vars
    BY <1>14 DEF vars, TypeOK, Parted
  <1> QED BY <1>1, <1>2, <1>3, <1>5, <1>6, <1>7, <1>8, <1>9, <1>10, <1>11, <1>12,
             <1>13, <1>14 DEF Next

(* The variables keep their types, whatever the client does: the graphs    *)
(* are in parts, and transform() works on a graph of its own.              *)
THEOREM TypeCorrect == Spec => []TypeOK
  <1> QED BY InitTypeOK, NextTypeOK, PTL DEF Spec

-----------------------------------------------------------------------------
(* What the actions do to the graphs, one by one.                          *)

(* All graphs but g stay as they are.                                      *)
OthersStay(g) ==
  Len(heap') = Len(heap) /\ \A i \in 1..Len(heap) : i # g => heap'[i] = heap[i]

LEMMA NewGraphEffect ==
  ASSUME TypeOK, NEW n \in Names, NewGraph(n)
  PROVE  /\ flow' = Len(heap) + 1 /\ Len(heap') = Len(heap) + 1
         /\ heap'[flow'] = Empty(n)
         /\ \A i \in 1..Len(heap) : heap'[i] = heap[i]
  BY EmptyGraph, HeapGrows DEF NewGraph

LEMMA AddCompEffect ==
  ASSUME TypeOK, NEW s \in Stmts, AddComp(s)
  PROVE  /\ flow \in 1..Len(heap) /\ OthersStay(flow)
         /\ heap[flow] \in Graph /\ s \notin heap[flow].added
         /\ spaces' \in Shapes
         /\ \A x \in Spaces : spaces'[x] = IF x \in Touches(s) /\ spaces[x] = "none"
                                             THEN "whole" ELSE spaces[x]
         /\ heap'[flow].nodes = heap[flow].nodes \union {{s}}
         /\ heap'[flow].added = heap[flow].added \union {s}
         /\ heap'[flow].writers = MoreEnds(heap[flow].writers, Writes[s], {s})
         /\ heap'[flow].readers = MoreEnds(heap[flow].readers, Reads[s], {s})
         /\ heap'[flow].sched = heap[flow].sched /\ heap'[flow].mem = heap[flow].mem
         /\ heap'[flow].alive = heap[flow].alive
         /\ \A x \in Spaces : heap'[flow].size[x]
                                = IF x \in Touches(s) THEN spaces'[x] ELSE heap[flow].size[x]
  <1>1. flow \in 1..Len(heap) /\ heap[flow] \in Graph /\ Parted(heap[flow])
        /\ s \notin heap[flow].added
    BY HeapFacts DEF AddComp
  <1>2. spaces' \in Shapes
        /\ \A x \in Spaces : spaces'[x] = IF x \in Touches(s) /\ spaces[x] = "none"
                                            THEN "whole" ELSE spaces[x]
    BY DEF AddComp, TypeOK, Shapes
  <1> DEFINE e == Extended(heap[flow], s, spaces')
  <1>3. heap' = [heap EXCEPT ![flow] = e]
    BY DEF AddComp
  <1>4. /\ e \in Graph /\ Parted(e)
        /\ e.nodes = heap[flow].nodes \union {{s}}
        /\ e.added = heap[flow].added \union {s}
        /\ e.sched = heap[flow].sched /\ e.mem = heap[flow].mem
        /\ e.alive = heap[flow].alive
        /\ \A x \in Spaces : e.size[x]
                               = IF x \in Touches(s) THEN spaces'[x] ELSE heap[flow].size[x]
    BY <1>1, <1>2, ExtendedGraph
  <1>w. /\ e.writers = MoreEnds(heap[flow].writers, Writes[s], {s})
        /\ e.readers = MoreEnds(heap[flow].readers, Reads[s], {s})
    BY <1>1, ExtendedEnds
  <1> HIDE DEF e
  <1>5. OthersStay(flow) /\ heap'[flow] = e
    BY <1>1, <1>3, <1>4, HeapChanges DEF OthersStay
  <1> QED BY <1>1, <1>2, <1>4, <1>w, <1>5

LEMMA FuseEffect ==
  ASSUME TypeOK, NEW n \in SUBSET Stmts, NEW s \in Stmts, Fuse(n, s)
  PROVE  /\ flow \in 1..Len(heap) /\ OthersStay(flow)
         /\ heap[flow] \in Graph
         /\ n \in heap[flow].nodes /\ {s} \in heap[flow].nodes /\ s \notin n
         /\ heap'[flow].nodes = (heap[flow].nodes \ {n, {s}}) \union {n \union {s}}
         /\ heap'[flow].writers = JoinedEnds(heap[flow].writers, n, s)
         /\ heap'[flow].readers = JoinedEnds(heap[flow].readers, n, s)
         /\ UNION heap'[flow].nodes = UNION heap[flow].nodes
         /\ heap'[flow].added = heap[flow].added
         /\ heap'[flow].sched = heap[flow].sched /\ heap'[flow].mem = heap[flow].mem
         /\ heap'[flow].alive = heap[flow].alive /\ heap'[flow].size = heap[flow].size
  <1>1. flow \in 1..Len(heap) /\ heap[flow] \in Graph /\ Parted(heap[flow])
        /\ n \in heap[flow].nodes /\ {s} \in heap[flow].nodes /\ s \notin n
    BY HeapFacts DEF Fuse
  <1> DEFINE e == Joined(heap[flow], n, s)
  <1>2. heap' = [heap EXCEPT ![flow] = e]
    BY DEF Fuse
  <1>3. /\ e \in Graph /\ Parted(e)
        /\ UNION e.nodes = UNION heap[flow].nodes
        /\ e.added = heap[flow].added
        /\ e.sched = heap[flow].sched /\ e.mem = heap[flow].mem
        /\ e.alive = heap[flow].alive /\ e.size = heap[flow].size
    BY <1>1, JoinedGraph, ZenonT(30)
  <1>w. /\ e.nodes = (heap[flow].nodes \ {n, {s}}) \union {n \union {s}}
        /\ e.writers = JoinedEnds(heap[flow].writers, n, s)
        /\ e.readers = JoinedEnds(heap[flow].readers, n, s)
    BY <1>1, JoinedNodes
  <1> HIDE DEF e
  <1>4. OthersStay(flow) /\ heap'[flow] = e
    BY <1>1, <1>2, <1>3, HeapChanges DEF OthersStay
  <1> QED BY <1>1, <1>3, <1>w, <1>4

(* A pass on a graph g that makes it e.                                    *)
LEMMA PassEffect ==
  ASSUME TypeOK, NEW g \in Targets, NEW e \in Graph, heap' = [heap EXCEPT ![g] = e]
  PROVE  g \in 1..Len(heap) /\ OthersStay(g) /\ heap'[g] = e
  <1>1. g \in 1..Len(heap)
    BY HeapFacts
  <1>2. heap \in Seq(Graph)
    BY DEF TypeOK
  <1> QED BY <1>1, <1>2, ChangeOne DEF OthersStay

LEMMA RescheduleEffect ==
  ASSUME TypeOK, NEW g \in Targets, Reschedule(g)
  PROVE  /\ g \in 1..Len(heap) /\ OthersStay(g) /\ heap[g] \in Graph
         /\ heap'[g].nodes = heap[g].nodes /\ heap'[g].added = heap[g].added
         /\ heap'[g].writers = heap[g].writers /\ heap'[g].readers = heap[g].readers
         /\ heap'[g].sched = Fused(heap[g].nodes) /\ heap'[g].mem = heap[g].mem
         /\ heap'[g].size = heap[g].size /\ heap'[g].alive = heap[g].alive
  <1>1. g \in 1..Len(heap) /\ heap[g] \in Graph
    BY HeapFacts
  <1>2. Scheduled(heap[g]) \in Graph
    BY <1>1, ScheduledGraph
  <1>3. OthersStay(g) /\ heap'[g] = Scheduled(heap[g])
    BY <1>2, PassEffect DEF Reschedule
  <1> QED BY <1>1, <1>3, ScheduledGraph

LEMMA ReduceEffect ==
  ASSUME TypeOK, NEW g \in Targets, Reduce(g)
  PROVE  /\ g \in 1..Len(heap) /\ OthersStay(g) /\ heap[g] \in Graph
         /\ heap'[g].nodes = heap[g].nodes /\ heap'[g].added = heap[g].added
         /\ heap'[g].writers = heap[g].writers /\ heap'[g].readers = heap[g].readers
         /\ heap'[g].sched = heap[g].sched /\ heap'[g].mem = heap[g].mem
         /\ heap'[g].size = Contract(heap[g].size, Shrunk(heap[g])) /\ heap'[g].alive = heap[g].alive
  <1>1. g \in 1..Len(heap) /\ heap[g] \in Graph
    BY HeapFacts
  <1>2. Reduced(heap[g]) \in Graph
    BY <1>1, ReducedGraph
  <1>3. OthersStay(g) /\ heap'[g] = Reduced(heap[g])
    BY <1>2, PassEffect DEF Reduce
  <1> QED BY <1>1, <1>3, ReducedGraph

LEMMA AllocateEffect ==
  ASSUME TypeOK, NEW g \in Targets, Allocate(g)
  PROVE  /\ g \in 1..Len(heap) /\ OthersStay(g) /\ heap[g] \in Graph
         /\ heap'[g].nodes = heap[g].nodes /\ heap'[g].added = heap[g].added
         /\ heap'[g].writers = heap[g].writers /\ heap'[g].readers = heap[g].readers
         /\ heap'[g].sched = heap[g].sched /\ heap'[g].mem = heap[g].nodes
         /\ heap'[g].size = heap[g].size /\ heap'[g].alive = heap[g].alive
  <1>1. g \in 1..Len(heap) /\ heap[g] \in Graph
    BY HeapFacts
  <1>2. Allocated(heap[g]) \in Graph
    BY <1>1, AllocatedGraph
  <1>3. OthersStay(g) /\ heap'[g] = Allocated(heap[g])
    BY <1>2, PassEffect DEF Allocate
  <1> QED BY <1>1, <1>3, AllocatedGraph

LEMMA ParallelizeEffect ==
  ASSUME TypeOK, NEW g \in Targets, Parallelize(g)
  PROVE  /\ g \in 1..Len(heap) /\ OthersStay(g) /\ heap[g] \in Graph
         /\ heap'[g].nodes = heap[g].nodes /\ heap'[g].added = heap[g].added
         /\ heap'[g].writers = heap[g].writers /\ heap'[g].readers = heap[g].readers
         /\ heap'[g].sched = heap[g].sched /\ heap'[g].mem = heap[g].mem
         /\ heap'[g].size = heap[g].size /\ heap'[g].alive = heap[g].alive
  <1>1. g \in 1..Len(heap) /\ heap[g] \in Graph
    BY HeapFacts
  <1>2. Parallelized(heap[g]) \in Graph
    BY <1>1, ParallelizedGraph
  <1>3. OthersStay(g) /\ heap'[g] = Parallelized(heap[g])
    BY <1>2, PassEffect DEF Parallelize
  <1> QED BY <1>1, <1>3, ParallelizedGraph

LEMMA CodegenEffect ==
  ASSUME TypeOK, NEW g \in Targets, Codegen(g)
  PROVE  /\ g \in 1..Len(heap) /\ OthersStay(g) /\ heap[g] \in Graph
         /\ heap'[g] = IF "scheduled" \in flags THEN heap[g] ELSE Scheduled(heap[g])
         /\ code'.live = heap[g].alive /\ code'.added = heap[g].added
         /\ code'.nodes = heap[g].nodes /\ code'.sched = heap'[g].sched
         /\ code'.mem = heap[g].mem /\ code'.size = heap[g].size /\ code'.table = spaces
  <1>1. g \in 1..Len(heap) /\ heap[g] \in Graph
    BY HeapFacts
  <1> DEFINE e == IF "scheduled" \in flags THEN heap[g] ELSE Scheduled(heap[g])
  <1>2. e \in Graph
    BY <1>1, ScheduledGraph
  <1>3. heap' = [heap EXCEPT ![g] = e]
    <2>1. heap = [heap EXCEPT ![g] = heap[g]]
      BY <1>1 DEF TypeOK
    <2>2. CASE "scheduled" \in flags
      BY <2>1, <2>2 DEF Codegen
    <2>3. CASE "scheduled" \notin flags
      BY <2>3 DEF Codegen
    <2> QED BY <2>2, <2>3
  <1> HIDE DEF e
  <1>4. OthersStay(g) /\ heap'[g] = e
    BY <1>2, <1>3, PassEffect
  <1> QED BY <1>1, <1>4 DEF Codegen, e

LEMMA TransformEffect ==
  ASSUME TypeOK, NEW g \in Targets, Transform(g)
  PROVE  /\ g \in 1..Len(heap) /\ heap[g] \in Graph /\ flow \in 1..Len(heap)
         /\ Len(heap') = Len(heap) + 1 /\ Variant' = Len(heap) + 1
         /\ \A i \in 1..Len(heap) : heap'[i] = heap[i]
         /\ \E S \in SUBSET Stmts :
              /\ heap'[Variant'].nodes = {S}
              /\ \A x \in Spaces :
                   /\ heap'[Variant'].writers[x] = IF heap[g].writers[x] = << >> THEN << >> ELSE << S >>
                   /\ heap'[Variant'].readers[x] = IF heap[g].readers[x] = << >> THEN << >> ELSE << S >>
         /\ Fused(heap[g].nodes) = {} =>
              UNION heap'[Variant'].nodes = UNION heap[g].nodes
         /\ heap'[Variant'].added = heap[g].added
         /\ heap'[Variant'].size = heap[g].size
         /\ heap'[Variant'].alive = heap[g].alive
         /\ heap'[Variant'].name = heap[g].name
         /\ heap[g].name \in Names
  <1>1. g \in 1..Len(heap) /\ heap[g] \in Graph /\ Parted(heap[g]) /\ flow \in 1..Len(heap)
    BY HeapFacts DEF TypeOK
  <1>2. PICK N \in Heads(heap[g].nodes) : heap' = Append(heap, FusedCopy(heap[g], N))
    BY DEF Transform
  <1> DEFINE e == FusedCopy(heap[g], N)
  <1>3. /\ e \in Graph /\ Parted(e)
        /\ \E S \in SUBSET Stmts :
             /\ e.nodes = {S}
             /\ \A x \in Spaces :
                  /\ e.writers[x] = IF heap[g].writers[x] = << >> THEN << >> ELSE << S >>
                  /\ e.readers[x] = IF heap[g].readers[x] = << >> THEN << >> ELSE << S >>
        /\ Fused(heap[g].nodes) = {} => UNION e.nodes = UNION heap[g].nodes
        /\ e.added = heap[g].added /\ e.size = heap[g].size
        /\ e.alive = heap[g].alive /\ e.name = heap[g].name
    <2>1. heap[g].nodes # {}
      BY DEF Transform
    <2> HIDE DEF e
    <2>2. /\ e \in Graph /\ Parted(e) /\ e.nodes = {UNION N} /\ UNION N \in SUBSET Stmts
          /\ \A x \in Spaces :
               /\ e.writers[x] = IF heap[g].writers[x] = << >> THEN << >> ELSE << UNION N >>
               /\ e.readers[x] = IF heap[g].readers[x] = << >> THEN << >> ELSE << UNION N >>
          /\ Fused(heap[g].nodes) = {} => UNION e.nodes = UNION heap[g].nodes
          /\ e.added = heap[g].added /\ e.size = heap[g].size
          /\ e.alive = heap[g].alive /\ e.name = heap[g].name
      BY <1>1, <2>1, FusedCopyGraph DEF e
    <2> QED BY <2>2
  <1>4. heap' = Append(heap, e)
    BY <1>2
  <1> HIDE DEF e
  <1>5. /\ Len(heap') = Len(heap) + 1 /\ heap'[Len(heap) + 1] = e
        /\ \A i \in 1..Len(heap) : heap'[i] = heap[i]
    BY <1>3, <1>4, HeapGrows
  <1>6. Variant' = Len(heap) + 1
    BY <1>5 DEF Variant
  <1>7. heap[g].name \in Names
    BY <1>1 DEF Graph
  <1> QED BY <1>1, <1>3, <1>5, <1>6, <1>7

LEMMA ProcessEffect ==
  ASSUME TypeOK, ProcessVariant
  PROVE  /\ Variant \in 1..Len(heap) /\ flow \in 1..Len(heap) /\ Variant # flow
         /\ OthersStay(Variant) /\ Variant' = Variant /\ heap[Variant] \in Graph
         /\ heap'[Variant] = Processed(heap[Variant])
  <1>1. stage = "process"
    BY DEF ProcessVariant
  <1>2. Variant \in 1..Len(heap) /\ Variant # flow /\ flow \in 1..Len(heap)
        /\ heap[Variant] \in Graph /\ Parted(heap[Variant])
    BY <1>1, HeapFacts
  <1> DEFINE e == Processed(heap[Variant])
  <1>3. e \in Graph /\ Parted(e)
    BY <1>2, ProcessedGraph, SameParts
  <1>4. heap' = [heap EXCEPT ![Variant] = e]
    BY DEF ProcessVariant, Processed
  <1> HIDE DEF e
  <1>5. OthersStay(Variant) /\ heap'[Variant] = e
    BY <1>2, <1>3, <1>4, HeapChanges DEF OthersStay
  <1>6. Variant' = Variant
    BY <1>5 DEF OthersStay, Variant
  <1> QED BY <1>2, <1>5, <1>6 DEF e

LEMMA FinishEffect ==
  ASSUME TypeOK, FinishTransform
  PROVE  /\ Variant \in 1..Len(heap) /\ flow \in 1..Len(heap) /\ Variant # flow
         /\ OthersStay(flow) /\ flow' = Variant /\ heap'[Variant] = heap[Variant]
         /\ heap[Variant].name \in Names
         /\ heap'[flow].added = heap[flow].added
         /\ heap'[flow].nodes = heap[flow].nodes /\ heap'[flow].mem = heap[flow].mem
  <1>1. stage = "finish"
    BY DEF FinishTransform
  <1>2. Variant \in 1..Len(heap) /\ Variant # flow /\ flow \in 1..Len(heap)
        /\ heap[flow] \in Graph /\ Parted(heap[flow])
    BY <1>1, HeapFacts
  <1> DEFINE e == [heap[flow] EXCEPT !.alive = FALSE]
  <1>3. e \in Graph /\ e.nodes = heap[flow].nodes /\ e.added = heap[flow].added
        /\ e.mem = heap[flow].mem
    BY <1>2 DEF Graph
  <1>4. heap' = [heap EXCEPT ![flow] = e] /\ flow' = Variant
    BY DEF FinishTransform
  <1> HIDE DEF e
  <1>5. Parted(e)
    BY <1>2, <1>3, SameParts
  <1>6. OthersStay(flow) /\ heap'[flow] = e
    BY <1>2, <1>3, <1>4, <1>5, HeapChanges DEF OthersStay
  <1>7. heap[Variant].name \in Names
    BY <1>2, HeapFacts DEF Graph
  <1> QED BY <1>2, <1>3, <1>4, <1>6, <1>7 DEF OthersStay

LEMMA KeepBestEffect ==
  ASSUME TypeOK, KeepBest
  PROVE  /\ Variant \in 1..Len(heap) /\ flow \in 1..Len(heap) /\ Variant # flow
         /\ Variant' = Variant /\ heap[Variant].name \in Names
         /\ checkpoints'[<< heap[Variant].name, "_fuse" >>] = spaces
  <1>1. stage = "compare" /\ heap' = heap
    BY DEF KeepBest
  <1>2. Variant \in 1..Len(heap) /\ Variant # flow /\ flow \in 1..Len(heap)
        /\ heap[Variant].name \in Names
    BY <1>1, HeapFacts DEF Graph
  <1>3. << heap[Variant].name, "_fuse" >> \in Slots
    BY <1>2 DEF Slots
  <1>4. checkpoints'[<< heap[Variant].name, "_fuse" >>] = spaces
    BY <1>3 DEF KeepBest, TypeOK
  <1>5. Variant' = Variant
    BY <1>1 DEF Variant
  <1> QED BY <1>2, <1>4, <1>5

-----------------------------------------------------------------------------
(* Schedules.                                                              *)

(* Once a pass has scheduled the current graph, the client does not change *)
(* it any more; the variant is scheduled before it replaces a graph.       *)
SchedInv ==
  /\ "scheduled" \in flags =>
       sealed /\ flow # 0 /\ Fused(heap[flow].nodes) \subseteq heap[flow].sched
  /\ stage # "client" => sealed
  /\ stage \in {"compare", "finish"} => Fused(heap[Variant].nodes) \subseteq heap[Variant].sched
  /\ CodeScheduled

LEMMA NextSchedInv ==
  {"complete", "current"} \subseteq Rules /\ TypeOK /\ SchedInv /\ [Next]_vars => SchedInv'
  <1> SUFFICES ASSUME "complete" \in Rules, "current" \in Rules, TypeOK, SchedInv, [Next]_vars
               PROVE  SchedInv'
    OBVIOUS
  <1>0. /\ Len(heap) \in Nat
        /\ \A g \in Targets : g = flow /\ flow # 0 /\ flow \in 1..Len(heap)
        /\ stage # "client" => Variant \in 1..Len(heap) /\ Variant # flow /\ flow # 0
    BY HeapFacts
  <1>1. ASSUME NEW n \in Names, NewGraph(n) PROVE SchedInv'
    BY <1>1 DEF NewGraph, Client, SchedInv, CodeScheduled
  <1>2. ASSUME NEW s \in Stmts, AddComp(s) PROVE SchedInv'
    BY <1>2 DEF AddComp, Client, MayChange, SchedInv, CodeScheduled
  <1>3. ASSUME NEW n \in SUBSET Stmts, NEW s \in Stmts, Fuse(n, s) PROVE SchedInv'
    BY <1>3 DEF Fuse, Client, MayChange, SchedInv, CodeScheduled
  <1>4. ASSUME NEW g \in Targets, Reschedule(g) PROVE SchedInv'
    <2>1. heap'[flow].nodes = heap[flow].nodes /\ heap'[flow].sched = Fused(heap[flow].nodes)
      BY <1>0, <1>4, RescheduleEffect
    <2>2. Fused(heap'[flow].nodes) \subseteq heap'[flow].sched
      BY <2>1
    <2> QED BY <1>0, <1>4, <2>2 DEF Reschedule, Client, SchedInv, CodeScheduled
  <1>5. ASSUME NEW g \in Targets, Reduce(g) PROVE SchedInv'
    <2>1. heap'[flow].nodes = heap[flow].nodes /\ heap'[flow].sched = heap[flow].sched
      BY <1>0, <1>5, ReduceEffect
    <2> QED BY <1>0, <1>5, <2>1 DEF Reduce, Client, SchedInv, CodeScheduled
  <1>6. ASSUME NEW g \in Targets, Allocate(g) PROVE SchedInv'
    <2>1. heap'[flow].nodes = heap[flow].nodes /\ heap'[flow].sched = heap[flow].sched
      BY <1>0, <1>6, AllocateEffect
    <2> QED BY <1>0, <1>6, <2>1 DEF Allocate, Client, SchedInv, CodeScheduled
  <1>7. ASSUME NEW g \in Targets, Parallelize(g) PROVE SchedInv'
    <2>1. heap'[flow].nodes = heap[flow].nodes /\ heap'[flow].sched = heap[flow].sched
      BY <1>0, <1>7, ParallelizeEffect
    <2> QED BY <1>0, <1>7, <2>1 DEF Parallelize, Client, SchedInv, CodeScheduled
  <1>8. ASSUME NEW g \in Targets, Codegen(g) PROVE SchedInv'
    <2>1. /\ heap[g] \in Graph /\ code'.nodes = heap[g].nodes /\ code'.sched = heap'[g].sched
          /\ heap'[g] = IF "scheduled" \in flags THEN heap[g] ELSE Scheduled(heap[g])
      BY <1>8, CodegenEffect
    <2>2. Fused(heap[g].nodes) \subseteq heap'[g].sched /\ heap'[g].nodes = heap[g].nodes
      BY <1>0, <2>1, ScheduledGraph DEF SchedInv
    <2> QED BY <1>0, <1>8, <2>1, <2>2 DEF Codegen, Client, SchedInv, CodeScheduled
  <1>9. ASSUME NEW g \in Targets, Transform(g) PROVE SchedInv'
    <2>1. flow \in 1..Len(heap) /\ \A i \in 1..Len(heap) : heap'[i] = heap[i]
      BY <1>9, TransformEffect
    <2> QED BY <1>9, <2>1 DEF Transform, SchedInv, CodeScheduled
  <1>10. CASE ProcessVariant
    <2>1. /\ heap'[Variant'].nodes = heap[Variant].nodes
          /\ heap'[Variant'].sched = Fused(heap[Variant].nodes)
      BY <1>10, ProcessEffect, ProcessedGraph
    <2>2. heap'[flow] = heap[flow]
      BY <1>10, ProcessEffect DEF OthersStay
    <2> QED BY <1>10, <2>1, <2>2 DEF ProcessVariant, SchedInv, CodeScheduled
  <1>11. CASE KeepBest
    BY <1>11, KeepBestEffect DEF KeepBest, SchedInv, CodeScheduled
  <1>12. CASE FinishTransform
    BY <1>0, <1>12, FinishEffect DEF FinishTransform, SchedInv, CodeScheduled
  <1>13. CASE UNCHANGED vars
    BY <1>13 DEF vars, SchedInv, CodeScheduled, Variant
  <1> QED BY <1>1, <1>2, <1>3, <1>4, <1>5, <1>6, <1>7, <1>8, <1>9, <1>10, <1>11, <1>12,
             <1>13 DEF Next

(* Code runs by the schedules of its iteration graphs, if the client does  *)
(* not change a graph after a pass, and passes on the current graph only.  *)
THEOREM CodeIsScheduled ==
  ASSUME {"complete", "current"} \subseteq Rules
  PROVE  Spec => []CodeScheduled
  <1>1. Init => SchedInv
    BY DEF Init, SchedInv, CodeScheduled, NoCode, Fused
  <1>2. TypeOK /\ SchedInv /\ [Next]_vars => SchedInv'
    BY NextSchedInv
  <1>3. SchedInv => CodeScheduled
    BY DEF SchedInv
  <1> QED BY <1>1, <1>2, <1>3, TypeCorrect, PTL DEF Spec

-----------------------------------------------------------------------------
(* Statements.                                                             *)

Complete(g) == g.alive /\ UNION g.nodes = g.added

CompleteInv ==
  /\ flow # 0 => Complete(heap[flow])
  /\ stage # "client" => Complete(heap[Variant])
  /\ CodeComplete

LEMMA NextCompleteInv ==
  {"current", "unfused"} \subseteq Rules /\ TypeOK /\ CompleteInv /\ [Next]_vars => CompleteInv'
  <1> SUFFICES ASSUME "current" \in Rules, "unfused" \in Rules, TypeOK, CompleteInv, [Next]_vars
               PROVE  CompleteInv'
    OBVIOUS
  <1>0. /\ Len(heap) \in Nat
        /\ \A g \in Targets : g = flow /\ flow # 0 /\ flow \in 1..Len(heap)
        /\ stage # "client" => Variant \in 1..Len(heap) /\ Variant # flow /\ flow # 0
    BY HeapFacts
  <1>1. ASSUME NEW n \in Names, NewGraph(n) PROVE CompleteInv'
    <2>1. heap'[flow'] = Empty(n)
      BY <1>1, NewGraphEffect
    <2>2. Complete(Empty(n))
      BY DEF Complete, Empty
    <2> QED BY <1>1, <2>1, <2>2 DEF NewGraph, Client, CompleteInv, CodeComplete
  <1>2. ASSUME NEW s \in Stmts, AddComp(s) PROVE CompleteInv'
    <2>1. /\ flow # 0 /\ heap'[flow].nodes = heap[flow].nodes \union {{s}}
          /\ heap'[flow].added = heap[flow].added \union {s}
          /\ heap'[flow].alive = heap[flow].alive
      BY <1>2, AddCompEffect DEF AddComp
    <2>2. Complete(heap[flow])
      BY <2>1 DEF CompleteInv
    <2>3. Complete(heap'[flow])
      BY <2>1, <2>2 DEF Complete
    <2> QED BY <1>2, <2>3 DEF AddComp, Client, CompleteInv, CodeComplete
  <1>3. ASSUME NEW n \in SUBSET Stmts, NEW s \in Stmts, Fuse(n, s) PROVE CompleteInv'
    BY <1>3, FuseEffect DEF Fuse, Client, CompleteInv, CodeComplete, Complete
  <1>4. ASSUME NEW g \in Targets, Reschedule(g) PROVE CompleteInv'
    <2>1. /\ flow # 0 /\ heap'[flow].nodes = heap[flow].nodes
          /\ heap'[flow].added = heap[flow].added /\ heap'[flow].alive = heap[flow].alive
      BY <1>0, <1>4, RescheduleEffect
    <2>2. Complete(heap'[flow])
      BY <2>1 DEF CompleteInv, Complete
    <2> QED BY <1>4, <2>2 DEF Reschedule, Client, CompleteInv, CodeComplete
  <1>5. ASSUME NEW g \in Targets, Reduce(g) PROVE CompleteInv'
    <2>1. /\ flow # 0 /\ heap'[flow].nodes = heap[flow].nodes
          /\ heap'[flow].added = heap[flow].added /\ heap'[flow].alive = heap[flow].alive
      BY <1>0, <1>5, ReduceEffect
    <2>2. Complete(heap'[flow])
      BY <2>1 DEF CompleteInv, Complete
    <2> QED BY <1>5, <2>2 DEF Reduce, Client, CompleteInv, CodeComplete
  <1>6. ASSUME NEW g \in Targets, Allocate(g) PROVE CompleteInv'
    <2>1. /\ flow # 0 /\ heap'[flow].nodes = heap[flow].nodes
          /\ heap'[flow].added = heap[flow].added /\ heap'[flow].alive = heap[flow].alive
      BY <1>0, <1>6, AllocateEffect
    <2>2. Complete(heap'[flow])
      BY <2>1 DEF CompleteInv, Complete
    <2> QED BY <1>6, <2>2 DEF Allocate, Client, CompleteInv, CodeComplete
  <1>7. ASSUME NEW g \in Targets, Parallelize(g) PROVE CompleteInv'
    <2>1. /\ flow # 0 /\ heap'[flow].nodes = heap[flow].nodes
          /\ heap'[flow].added = heap[flow].added /\ heap'[flow].alive = heap[flow].alive
      BY <1>0, <1>7, ParallelizeEffect
    <2>2. Complete(heap'[flow])
      BY <2>1 DEF CompleteInv, Complete
    <2> QED BY <1>7, <2>2 DEF Parallelize, Client, CompleteInv, CodeComplete
  <1>8. ASSUME NEW g \in Targets, Codegen(g) PROVE CompleteInv'
    <2>1. /\ heap[g] \in Graph /\ code'.nodes = heap[g].nodes /\ code'.added = heap[g].added
          /\ code'.live = heap[g].alive
          /\ heap'[g] = IF "scheduled" \in flags THEN heap[g] ELSE Scheduled(heap[g])
      BY <1>8, CodegenEffect
    <2>2. /\ heap'[g].nodes = heap[g].nodes /\ heap'[g].added = heap[g].added
          /\ heap'[g].alive = heap[g].alive
      BY <2>1, ScheduledGraph
    <2> QED BY <1>0, <1>8, <2>1, <2>2 DEF Codegen, Client, CompleteInv, CodeComplete, Complete
  <1>9. ASSUME NEW g \in Targets, Transform(g) PROVE CompleteInv'
    <2>1. /\ flow \in 1..Len(heap) /\ \A i \in 1..Len(heap) : heap'[i] = heap[i]
          /\ UNION heap'[Variant'].nodes = UNION heap[g].nodes
          /\ heap'[Variant'].added = heap[g].added /\ heap'[Variant'].alive = heap[g].alive
      BY <1>9, TransformEffect DEF Transform, MayTransform
    <2> QED BY <1>0, <1>9, <2>1 DEF Transform, CompleteInv, CodeComplete, Complete
  <1>10. CASE ProcessVariant
    <2>1. /\ heap'[Variant'].nodes = heap[Variant].nodes
          /\ heap'[Variant'].added = heap[Variant].added
          /\ heap'[Variant'].alive = heap[Variant].alive
      BY <1>10, ProcessEffect, ProcessedGraph
    <2>2. heap'[flow] = heap[flow]
      BY <1>10, ProcessEffect DEF OthersStay
    <2> QED BY <1>10, <2>1, <2>2 DEF ProcessVariant, CompleteInv, CodeComplete, Complete
  <1>11. CASE KeepBest
    BY <1>11, KeepBestEffect DEF KeepBest, CompleteInv, CodeComplete
  <1>12. CASE FinishTransform
    BY <1>0, <1>12, FinishEffect DEF FinishTransform, CompleteInv, CodeComplete
  <1>13. CASE UNCHANGED vars
    BY <1>13 DEF vars, CompleteInv, CodeComplete, Variant
  <1> QED BY <1>1, <1>2, <1>3, <1>4, <1>5, <1>6, <1>7, <1>8, <1>9, <1>10, <1>11, <1>12,
             <1>13 DEF Next

(* Code comes from a graph that exists and holds all its statements, if    *)
(* graphs are transformed before they are fused, and only the current one  *)
(* is passed on.                                                           *)
THEOREM CodeIsComplete ==
  ASSUME {"current", "unfused"} \subseteq Rules
  PROVE  Spec => []CodeComplete
  <1>1. Init => CompleteInv
    BY DEF Init, CompleteInv, CodeComplete, NoCode
  <1>2. TypeOK /\ CompleteInv /\ [Next]_vars => CompleteInv'
    BY NextCompleteInv
  <1>3. CompleteInv => CodeComplete
    BY DEF CompleteInv
  <1> QED BY <1>1, <1>2, <1>3, TypeCorrect, PTL DEF Spec

-----------------------------------------------------------------------------
(* Memory.                                                                 *)

(* A graph has no entries, or those of its nodes, except for the copy that *)
(* transform() has yet to process.                                         *)
MemoryInv ==
  /\ \A g \in 1..Len(heap) :
       heap[g].mem \in {{}, heap[g].nodes} \/ (stage = "process" /\ g = Variant)
  /\ ~ sealed /\ flow # 0 => heap[flow].mem = {}
  /\ stage # "client" => sealed
  /\ MemoryOfCode

LEMMA NextMemoryInv ==
  "complete" \in Rules /\ TypeOK /\ MemoryInv /\ [Next]_vars => MemoryInv'
  <1> SUFFICES ASSUME "complete" \in Rules, TypeOK, MemoryInv, [Next]_vars
               PROVE  MemoryInv'
    OBVIOUS
  <1>0. /\ Len(heap) \in Nat
        /\ stage # "client" => Variant \in 1..Len(heap) /\ Variant # flow /\ flow # 0
    BY HeapFacts
  <1>1. ASSUME NEW n \in Names, NewGraph(n) PROVE MemoryInv'
    <2>1. heap'[flow'] = Empty(n) /\ Empty(n).mem = {} /\ flow' = Len(heap) + 1
          /\ Len(heap') = Len(heap) + 1 /\ \A i \in 1..Len(heap) : heap'[i] = heap[i]
      BY <1>1, NewGraphEffect DEF Empty
    <2>2. \A g \in 1..Len(heap') : heap'[g].mem \in {{}, heap'[g].nodes}
      <3>1. ASSUME NEW g \in 1..Len(heap') PROVE g = flow' \/ g \in 1..Len(heap)
        BY <1>0, <2>1
      <3> QED BY <1>1, <2>1, <3>1 DEF NewGraph, Client, MemoryInv
    <2> QED BY <1>1, <2>1, <2>2 DEF NewGraph, Client, MemoryInv, MemoryOfCode
  <1>2. ASSUME NEW s \in Stmts, AddComp(s) PROVE MemoryInv'
    <2>1. /\ flow \in 1..Len(heap) /\ Len(heap') = Len(heap)
          /\ heap'[flow].mem = heap[flow].mem
          /\ \A i \in 1..Len(heap) : i # flow => heap'[i] = heap[i]
      BY <1>2, AddCompEffect DEF OthersStay
    <2>2. /\ flow # 0 /\ ~ sealed /\ stage = "client"
          /\ UNCHANGED << flow, sealed, stage, code >>
      BY <1>2 DEF AddComp, Client, MayChange
    <2>3. heap'[flow].mem = {}
      BY <2>1, <2>2 DEF MemoryInv
    <2>4. \A i \in 1..Len(heap') : heap'[i].mem \in {{}, heap'[i].nodes}
      BY <2>1, <2>2, <2>3 DEF MemoryInv
    <2> QED BY <2>2, <2>3, <2>4 DEF MemoryInv, MemoryOfCode
  <1>3. ASSUME NEW n \in SUBSET Stmts, NEW s \in Stmts, Fuse(n, s) PROVE MemoryInv'
    <2>1. /\ flow \in 1..Len(heap) /\ Len(heap') = Len(heap)
          /\ heap'[flow].mem = heap[flow].mem
          /\ \A i \in 1..Len(heap) : i # flow => heap'[i] = heap[i]
      BY <1>3, FuseEffect DEF OthersStay
    <2>2. /\ flow # 0 /\ ~ sealed /\ stage = "client"
          /\ UNCHANGED << flow, sealed, stage, code >>
      BY <1>3 DEF Fuse, Client, MayChange
    <2>3. heap'[flow].mem = {}
      BY <2>1, <2>2 DEF MemoryInv
    <2>4. \A i \in 1..Len(heap') : heap'[i].mem \in {{}, heap'[i].nodes}
      BY <2>1, <2>2, <2>3 DEF MemoryInv
    <2> QED BY <2>2, <2>3, <2>4 DEF MemoryInv, MemoryOfCode
  <1>4. ASSUME NEW g \in Targets, Reschedule(g) PROVE MemoryInv'
    <2>1. /\ g \in 1..Len(heap) /\ Len(heap') = Len(heap)
          /\ heap'[g].mem = heap[g].mem /\ heap'[g].nodes = heap[g].nodes
          /\ \A i \in 1..Len(heap) : i # g => heap'[i] = heap[i]
      BY <1>4, RescheduleEffect DEF OthersStay
    <2>2. \A i \in 1..Len(heap) : heap[i].mem \in {{}, heap[i].nodes}
      BY <1>4 DEF Reschedule, Client, MemoryInv
    <2>3. \A i \in 1..Len(heap') : heap'[i].mem \in {{}, heap'[i].nodes}
      BY <2>1, <2>2
    <2> QED BY <1>4, <2>3 DEF Reschedule, Client, MemoryInv, MemoryOfCode
  <1>5. ASSUME NEW g \in Targets, Reduce(g) PROVE MemoryInv'
    <2>1. /\ g \in 1..Len(heap) /\ Len(heap') = Len(heap)
          /\ heap'[g].mem = heap[g].mem /\ heap'[g].nodes = heap[g].nodes
          /\ \A i \in 1..Len(heap) : i # g => heap'[i] = heap[i]
      BY <1>5, ReduceEffect DEF OthersStay
    <2>2. \A i \in 1..Len(heap) : heap[i].mem \in {{}, heap[i].nodes}
      BY <1>5 DEF Reduce, Client, MemoryInv
    <2>3. \A i \in 1..Len(heap') : heap'[i].mem \in {{}, heap'[i].nodes}
      BY <2>1, <2>2
    <2> QED BY <1>5, <2>3 DEF Reduce, Client, MemoryInv, MemoryOfCode
  <1>6. ASSUME NEW g \in Targets, Allocate(g) PROVE MemoryInv'
    <2>1. /\ g \in 1..Len(heap) /\ Len(heap') = Len(heap)
          /\ heap'[g].mem = heap'[g].nodes
          /\ \A i \in 1..Len(heap) : i # g => heap'[i] = heap[i]
      BY <1>6, AllocateEffect DEF OthersStay
    <2>2. \A i \in 1..Len(heap) : heap[i].mem \in {{}, heap[i].nodes}
      BY <1>6 DEF Allocate, Client, MemoryInv
    <2>3. \A i \in 1..Len(heap') : heap'[i].mem \in {{}, heap'[i].nodes}
      BY <2>1, <2>2
    <2> QED BY <1>6, <2>3 DEF Allocate, Client, MemoryInv, MemoryOfCode
  <1>7. ASSUME NEW g \in Targets, Parallelize(g) PROVE MemoryInv'
    <2>1. /\ g \in 1..Len(heap) /\ Len(heap') = Len(heap)
          /\ heap'[g].mem = heap[g].mem /\ heap'[g].nodes = heap[g].nodes
          /\ \A i \in 1..Len(heap) : i # g => heap'[i] = heap[i]
      BY <1>7, ParallelizeEffect DEF OthersStay
    <2>2. \A i \in 1..Len(heap) : heap[i].mem \in {{}, heap[i].nodes}
      BY <1>7 DEF Parallelize, Client, MemoryInv
    <2>3. \A i \in 1..Len(heap') : heap'[i].mem \in {{}, heap'[i].nodes}
      BY <2>1, <2>2
    <2> QED BY <1>7, <2>3 DEF Parallelize, Client, MemoryInv, MemoryOfCode
  <1>8. ASSUME NEW g \in Targets, Codegen(g) PROVE MemoryInv'
    <2>1. /\ g \in 1..Len(heap) /\ OthersStay(g) /\ heap[g] \in Graph
          /\ code'.nodes = heap[g].nodes /\ code'.mem = heap[g].mem
          /\ heap'[g] = IF "scheduled" \in flags THEN heap[g] ELSE Scheduled(heap[g])
      BY <1>8, CodegenEffect
    <2>2. heap'[g].nodes = heap[g].nodes /\ heap'[g].mem = heap[g].mem
      BY <2>1, ScheduledGraph
    <2> QED BY <1>8, <2>1, <2>2 DEF Codegen, Client, OthersStay, MemoryInv, MemoryOfCode
  <1>9. ASSUME NEW g \in Targets, Transform(g) PROVE MemoryInv'
    <2>1. /\ Len(heap') = Len(heap) + 1 /\ Variant' = Len(heap) + 1
          /\ \A i \in 1..Len(heap) : heap'[i] = heap[i]
      BY <1>9, TransformEffect
    <2>2. ASSUME NEW i \in 1..Len(heap') PROVE i = Variant' \/ i \in 1..Len(heap)
      BY <1>0, <2>1
    <2>3. \A i \in 1..Len(heap') : heap'[i].mem \in {{}, heap'[i].nodes} \/ i = Variant'
      BY <1>9, <2>1, <2>2 DEF Transform, Client, MemoryInv
    <2> QED BY <1>9, <2>3 DEF Transform, MemoryInv, MemoryOfCode
  <1>10. CASE ProcessVariant
    <2>1. /\ heap'[Variant].nodes = heap[Variant].nodes
          /\ heap'[Variant].mem = heap[Variant].nodes
      BY <1>10, ProcessEffect, ProcessedGraph
    <2> QED BY <1>10, <2>1, ProcessEffect
            DEF ProcessVariant, OthersStay, MemoryInv, MemoryOfCode
  <1>11. CASE KeepBest
    BY <1>11 DEF KeepBest, MemoryInv, MemoryOfCode
  <1>12. CASE FinishTransform
    BY <1>12, FinishEffect DEF FinishTransform, OthersStay, MemoryInv, MemoryOfCode
  <1>13. CASE UNCHANGED vars
    BY <1>13 DEF vars, MemoryInv, MemoryOfCode, Variant
  <1> QED BY <1>1, <1>2, <1>3, <1>4, <1>5, <1>6, <1>7, <1>8, <1>9, <1>10, <1>11, <1>12,
             <1>13 DEF Next

(* Buffers are those of the nodes that are emitted, if the client does not *)
(* change a graph after a pass.                                            *)
THEOREM MemoryIsOfCode ==
  ASSUME "complete" \in Rules
  PROVE  Spec => []MemoryOfCode
  <1>1. Init => MemoryInv
    BY DEF Init, MemoryInv, MemoryOfCode, NoCode
  <1>2. TypeOK /\ MemoryInv /\ [Next]_vars => MemoryInv'
    BY NextMemoryInv
  <1>3. MemoryInv => MemoryOfCode
    BY DEF MemoryInv
  <1> QED BY <1>1, <1>2, <1>3, TypeCorrect, PTL DEF Spec

-----------------------------------------------------------------------------
(* Sizes.                                                                  *)

LEMMA UsedSpaces ==
  ASSUME NEW S \in SUBSET Stmts PROVE Used(S) \subseteq Spaces
  BY AccessesAssumption DEF Used, Touches

LEMMA UsedMore ==
  ASSUME NEW S, NEW T, S \subseteq T PROVE Used(S) \subseteq Used(T)
  BY DEF Used

LEMMA UsedOneMore ==
  ASSUME NEW S, NEW s PROVE Used(S \union {s}) = Used(S) \union Touches(s)
  BY DEF Used

(* The sizes of a graph are those of the table.                            *)
Agree(g, t) == \A x \in Used(g.added) : g.size[x] = t[x]

LEMMA AgreeContracted ==
  ASSUME NEW g \in Graph, NEW t \in Shapes, NEW S, Agree(g, t),
         NEW e, e.added = g.added, e.size = Contract(g.size, S)
  PROVE  Agree(e, Contract(t, S))
  <1>1. g.size \in Shapes /\ g.added \in SUBSET Stmts
    BY DEF Graph
  <1>2. \A x \in Used(g.added) : x \in Spaces
    BY <1>1, UsedSpaces
  <1> QED BY <1>1, <1>2, Contraction DEF Agree

(* The table that will be in force when transform() has ended: its own     *)
(* checkpoint once the table of the original graph is back.                *)
Table == IF stage = "finish" THEN checkpoints[<< heap[Variant].name, "_fuse" >>] ELSE spaces

LEMMA TableStays ==
  ASSUME TypeOK, KeepBest \/ FinishTransform
  PROVE  Table' = Table
  BY KeepBestEffect DEF Table, KeepBest, FinishTransform

(* The graph that the table belongs to: the current one, or the variant.   *)
MappedInv ==
  /\ flow # 0 /\ stage \in {"client", "process"} => Agree(heap[flow], spaces)
  /\ stage # "client" => Agree(heap[Variant], Table)
  /\ CodeMapped

LEMMA NextMappedInv ==
  "current" \in Rules /\ TypeOK /\ MappedInv /\ [Next]_vars => MappedInv'
  <1> SUFFICES ASSUME "current" \in Rules, TypeOK, MappedInv, [Next]_vars
               PROVE  MappedInv'
    OBVIOUS
  <1>0. /\ Len(heap) \in Nat
        /\ \A g \in Targets : g = flow /\ flow # 0 /\ flow \in 1..Len(heap)
        /\ stage # "client" => Variant \in 1..Len(heap) /\ Variant # flow /\ flow # 0
        /\ spaces \in Shapes
    BY HeapFacts DEF TypeOK
  <1>1. ASSUME NEW n \in Names, NewGraph(n) PROVE MappedInv'
    <2>1. heap'[flow'] = Empty(n)
      BY <1>1, NewGraphEffect
    <2>2. Agree(Empty(n), spaces')
      BY DEF Agree, Empty, Used
    <2> QED BY <1>1, <2>1, <2>2 DEF NewGraph, Client, MappedInv, CodeMapped
  <1>2. ASSUME NEW s \in Stmts, AddComp(s) PROVE MappedInv'
    <2>1. Agree(heap[flow], spaces)
      BY <1>2 DEF AddComp, Client, MappedInv
    <2>2. heap[flow] \in Graph /\ heap'[flow].added = heap[flow].added \union {s}
      BY <1>2, AddCompEffect
    <2>3. \A x \in Used(heap'[flow].added) : x \in Spaces
      <3>1. heap'[flow].added \in SUBSET Stmts
        BY <1>2, <2>2 DEF Graph
      <3> QED BY <3>1, UsedSpaces
    <2>4. Used(heap'[flow].added) = Used(heap[flow].added) \union Touches(s)
      BY <2>2, UsedOneMore
    <2>5. /\ \A x \in Spaces : spaces'[x] = IF x \in Touches(s) /\ spaces[x] = "none"
                                              THEN "whole" ELSE spaces[x]
          /\ \A x \in Spaces : heap'[flow].size[x]
                                 = IF x \in Touches(s) THEN spaces'[x] ELSE heap[flow].size[x]
      BY <1>2, AddCompEffect
    <2>6. Agree(heap'[flow], spaces')
      BY <2>1, <2>3, <2>4, <2>5 DEF Agree
    <2> QED BY <1>2, <2>6 DEF AddComp, Client, MappedInv, CodeMapped
  <1>3. ASSUME NEW n \in SUBSET Stmts, NEW s \in Stmts, Fuse(n, s) PROVE MappedInv'
    <2>1. heap'[flow].added = heap[flow].added /\ heap'[flow].size = heap[flow].size
      BY <1>3, FuseEffect
    <2>2. Agree(heap[flow], spaces) => Agree(heap'[flow], spaces)
      BY <2>1 DEF Agree
    <2> QED BY <1>3, <2>2 DEF Fuse, Client, MappedInv, CodeMapped
  <1>4. ASSUME NEW g \in Targets, Reschedule(g) PROVE MappedInv'
    <2>1. heap'[flow].added = heap[flow].added /\ heap'[flow].size = heap[flow].size
      BY <1>0, <1>4, RescheduleEffect
    <2>2. Agree(heap[flow], spaces) => Agree(heap'[flow], spaces)
      BY <2>1 DEF Agree
    <2> QED BY <1>4, <2>2 DEF Reschedule, Client, MappedInv, CodeMapped
  <1>5. ASSUME NEW g \in Targets, Reduce(g) PROVE MappedInv'
    <2>1. Agree(heap[flow], spaces) /\ g = flow
      BY <1>0, <1>5 DEF Reduce, Client, MappedInv
    <2>2. Agree(heap'[flow], spaces')
      BY <1>0, <1>5, <2>1, ReduceEffect, AgreeContracted, ZenonT(30) DEF Reduce
    <2> QED BY <1>5, <2>2 DEF Reduce, Client, MappedInv, CodeMapped
  <1>6. ASSUME NEW g \in Targets, Allocate(g) PROVE MappedInv'
    <2>1. heap'[flow].added = heap[flow].added /\ heap'[flow].size = heap[flow].size
      BY <1>0, <1>6, AllocateEffect
    <2>2. Agree(heap[flow], spaces) => Agree(heap'[flow], spaces)
      BY <2>1 DEF Agree
    <2> QED BY <1>6, <2>2 DEF Allocate, Client, MappedInv, CodeMapped
  <1>7. ASSUME NEW g \in Targets, Parallelize(g) PROVE MappedInv'
    <2>1. heap'[flow].added = heap[flow].added /\ heap'[flow].size = heap[flow].size
      BY <1>0, <1>7, ParallelizeEffect
    <2>2. Agree(heap[flow], spaces) => Agree(heap'[flow], spaces)
      BY <2>1 DEF Agree
    <2> QED BY <1>7, <2>2 DEF Parallelize, Client, MappedInv, CodeMapped
  <1>8. ASSUME NEW g \in Targets, Codegen(g) PROVE MappedInv'
    <2>1. /\ heap[g] \in Graph /\ code'.added = heap[g].added
          /\ code'.size = heap[g].size /\ code'.table = spaces
          /\ heap'[g] = IF "scheduled" \in flags THEN heap[g] ELSE Scheduled(heap[g])
      BY <1>8, CodegenEffect
    <2>2. heap'[g].added = heap[g].added /\ heap'[g].size = heap[g].size
      BY <2>1, ScheduledGraph
    <2> QED BY <1>0, <1>8, <2>1, <2>2 DEF Codegen, Client, MappedInv, CodeMapped, Agree
  <1>9. ASSUME NEW g \in Targets, Transform(g) PROVE MappedInv'
    <2>1. /\ flow \in 1..Len(heap) /\ \A i \in 1..Len(heap) : heap'[i] = heap[i]
          /\ heap'[Variant'].added = heap[g].added /\ heap'[Variant'].size = heap[g].size
      BY <1>9, TransformEffect
    <2>2. Agree(heap[flow], spaces) /\ g = flow
      BY <1>0, <1>9 DEF Transform, Client, MappedInv
    <2>3. Table' = spaces /\ stage' = "process" /\ UNCHANGED << flow, spaces, code >>
      BY <1>9 DEF Transform, Table
    <2> QED BY <2>1, <2>2, <2>3 DEF MappedInv, CodeMapped, Agree
  <1>10. CASE ProcessVariant
    <2>1. /\ heap[Variant] \in Graph /\ Variant' = Variant
          /\ heap'[Variant].added = heap[Variant].added
          /\ heap'[Variant].size = Contract(heap[Variant].size, Shrunk(heap[Variant]))
      BY <1>10, ProcessEffect, ProcessedGraph
    <2>2. Agree(heap[Variant], spaces)
      BY <1>10 DEF ProcessVariant, MappedInv, Table
    <2>3. spaces' = Contract(spaces, Shrunk(heap[Variant])) /\ Table' = spaces'
          /\ stage' = "compare" /\ UNCHANGED code
      BY <1>10 DEF ProcessVariant, Table
    <2>4. Agree(heap'[Variant], spaces')
      BY <1>0, <2>1, <2>2, <2>3, AgreeContracted
    <2> QED BY <2>1, <2>3, <2>4 DEF MappedInv, CodeMapped
  <1>11. CASE KeepBest
    <2>1. Table' = Table /\ Variant' = Variant
      BY <1>11, TableStays, KeepBestEffect
    <2> QED BY <1>11, <2>1 DEF KeepBest, MappedInv, CodeMapped
  <1>12. CASE FinishTransform
    <2>1. Agree(heap[Variant], Table) /\ Table = spaces'
      BY <1>12 DEF FinishTransform, MappedInv, Table
    <2>2. heap'[flow'] = heap[Variant]
      BY <1>12, FinishEffect
    <2> QED BY <1>12, <2>1, <2>2 DEF FinishTransform, MappedInv, CodeMapped
  <1>13. CASE UNCHANGED vars
    BY <1>13 DEF vars, MappedInv, CodeMapped, Variant, Table
  <1> QED BY <1>1, <1>2, <1>3, <1>4, <1>5, <1>6, <1>7, <1>8, <1>9, <1>10, <1>11, <1>12,
             <1>13 DEF Next

(* Buffers are indexed as they are declared, if the client passes on the   *)
(* current graph only: the tables shared by all graphs, and put away and   *)
(* brought back by transform(), always fit it.                             *)
THEOREM CodeIsMapped ==
  ASSUME "current" \in Rules
  PROVE  Spec => []CodeMapped
  <1>1. Init => MappedInv
    BY DEF Init, MappedInv, CodeMapped, NoCode, Used
  <1>2. TypeOK /\ MappedInv /\ [Next]_vars => MappedInv'
    BY NextMappedInv
  <1>3. MappedInv => CodeMapped
    BY DEF MappedInv
  <1> QED BY <1>1, <1>2, <1>3, TypeCorrect, PTL DEF Spec

-----------------------------------------------------------------------------
(* Edges.                                                                  *)

(* A space written in g is one that its statements use.                    *)
Founded(g) == \A x \in Spaces : g.writers[x] # << >> => x \in Used(g.added)

(* The copy of a fused graph loses statements, but not their edges.        *)
Copied(g) == "unfused" \notin Rules /\ \E S \in SUBSET Stmts : g.nodes = {S}

Kept(g) == Founded(g) /\ (Edged(g) \/ Copied(g))

(* The current graph, and the variant, have the edges of their accesses.   *)
EdgesInv ==
  /\ flow # 0 => Kept(heap[flow]) /\ (~ sealed => Edged(heap[flow]))
  /\ stage # "client" => sealed /\ Kept(heap[Variant])

LEMMA EdgedFounded ==
  ASSUME NEW g \in Graph, Parted(g), Edged(g) PROVE Kept(g)
  <1> SUFFICES ASSUME NEW x \in Spaces, g.writers[x] # << >> PROVE x \in Used(g.added)
    BY DEF Kept, Founded
  <1>1. g.writers[x] \in Seq(SUBSET Stmts)
    BY DEF Graph, Ends
  <1>2. 1 \in 1..Len(g.writers[x]) /\ g.writers[x][1] \in SUBSET Stmts
    BY <1>1
  <1> DEFINE n == g.writers[x][1]
  <1>3. Contains(g.writers[x], n)
    BY <1>2 DEF Contains
  <1>4. n \in g.nodes /\ \E s \in n : x \in Writes[s]
    BY <1>2, <1>3 DEF Edged, Edges
  <1>5. n \subseteq g.added
    BY <1>4 DEF Parted
  <1> QED BY <1>4, <1>5 DEF Used, Touches

LEMMA SameEdges ==
  ASSUME NEW g, NEW e, e.nodes = g.nodes, e.added = g.added,
         e.writers = g.writers, e.readers = g.readers
  PROVE  (Kept(e) <=> Kept(g)) /\ (Edged(e) <=> Edged(g))
  BY DEF Kept, Founded, Edged, Copied

LEMMA ExtendedEdged ==
  ASSUME NEW g \in Graph, Parted(g), Edged(g), NEW s \in Stmts, s \notin g.added,
         NEW e, e.nodes = g.nodes \union {{s}},
         e.writers = MoreEnds(g.writers, Writes[s], {s}),
         e.readers = MoreEnds(g.readers, Reads[s], {s})
  PROVE  Edged(e)
  <1>1. /\ g.writers \in Ends /\ g.readers \in Ends /\ g.nodes \in SUBSET SUBSET Stmts
        /\ {s} \notin g.nodes
    BY DEF Graph, Parted
  <1>2. Edges(g.writers, g.nodes, Writes) /\ Edges(g.readers, g.nodes, Reads)
    BY DEF Edged
  <1>3. Writes \in [Stmts -> SUBSET Spaces] /\ Reads \in [Stmts -> SUBSET Spaces]
    BY AccessesAssumption
  <1>4. Edges(MoreEnds(g.writers, Writes[s], {s}), g.nodes \union {{s}}, Writes)
    BY <1>1, <1>2, <1>3, MoreEdges, Zenon
  <1>5. Edges(MoreEnds(g.readers, Reads[s], {s}), g.nodes \union {{s}}, Reads)
    BY <1>1, <1>2, <1>3, MoreEdges, Zenon
  <1> QED BY <1>4, <1>5 DEF Edged

LEMMA JoinedEdged ==
  ASSUME NEW g \in Graph, Parted(g), Edged(g), NEW n \in g.nodes, NEW s \in Stmts,
         {s} \in g.nodes, s \notin n,
         NEW e, e.nodes = (g.nodes \ {n, {s}}) \union {n \union {s}},
         e.writers = JoinedEnds(g.writers, n, s), e.readers = JoinedEnds(g.readers, n, s)
  PROVE  Edged(e)
  <1>1. /\ g.writers \in Ends /\ g.readers \in Ends /\ g.nodes \in SUBSET SUBSET Stmts
    BY DEF Graph
  <1>2. \A k \in g.nodes : k # {s} => s \notin k
    BY DEF Parted
  <1>3. Edges(g.writers, g.nodes, Writes) /\ Edges(g.readers, g.nodes, Reads)
    BY DEF Edged
  <1>4. Writes \in [Stmts -> SUBSET Spaces] /\ Reads \in [Stmts -> SUBSET Spaces]
    BY AccessesAssumption
  <1> DEFINE M == (g.nodes \ {n, {s}}) \union {n \union {s}}
  <1>5. Edges(JoinedEnds(g.writers, n, s), M, Writes)
    BY <1>1, <1>2, <1>3, <1>4, JoinedEdges, Zenon
  <1>6. Edges(JoinedEnds(g.readers, n, s), M, Reads)
    BY <1>1, <1>2, <1>3, <1>4, JoinedEdges, Zenon
  <1> QED BY <1>5, <1>6 DEF Edged

(* All edges of one kind become one, at the node that is left.             *)
LEMMA FusedEdges ==
  ASSUME NEW E \in Ends, NEW N \in SUBSET SUBSET Stmts, NEW A, Edges(E, N, A),
         NEW S, S = UNION N,
         NEW F, \A x \in Spaces : F[x] = IF E[x] = << >> THEN << >> ELSE << S >>
  PROVE  Edges(F, {S}, A)
  <1> SUFFICES ASSUME NEW x \in Spaces
               PROVE  /\ Once(F[x])
                      /\ \A m \in SUBSET Stmts :
                           Contains(F[x], m) <=> m \in {S} /\ \E s \in m : x \in A[s]
    BY DEF Edges
  <1>1. /\ E[x] \in Seq(SUBSET Stmts)
        /\ \A m \in SUBSET Stmts : Contains(E[x], m) <=> m \in N /\ \E s \in m : x \in A[s]
    BY DEF Edges, Ends
  <1>2. CASE E[x] = << >>
    <2>1. F[x] = << >>
      BY <1>2
    <2>2. \A m : ~ Contains(F[x], m) /\ ~ Contains(E[x], m)
      BY <1>2, <2>1 DEF Contains
    <2>3. ~ \E s \in S : x \in A[s]
      BY <1>1, <2>2
    <2>4. Once(F[x])
      BY <2>1 DEF Once
    <2> QED BY <2>2, <2>3, <2>4
  <1>3. CASE E[x] # << >>
    <2>1. F[x] = << S >>
      BY <1>3
    <2>2. Once(F[x]) /\ \A m : Contains(F[x], m) <=> m = S
      <3>1. Len(F[x]) = 1 /\ 1..1 = {1} /\ F[x][1] = S
        BY <2>1
      <3> DEFINE f == F[x]
      <3>2. \A i : i \in 1..Len(f) <=> i = 1
        BY <3>1
      <3>3. f[1] = S
        BY <3>1
      <3> HIDE DEF f
      <3>4. Once(f)
        BY <3>2 DEF Once
      <3>5. \A m : Contains(f, m) <=> m = S
        BY <3>2, <3>3, Zenon DEF Contains
      <3> QED BY <3>4, <3>5 DEF f
    <2>3. 1 \in 1..Len(E[x]) /\ E[x][1] \in SUBSET Stmts
      BY <1>1, <1>3
    <2>4. Contains(E[x], E[x][1])
      BY <2>3 DEF Contains
    <2>5. E[x][1] \in N /\ \E s \in E[x][1] : x \in A[s]
      BY <1>1, <2>3, <2>4
    <2>6. \E s \in S : x \in A[s]
      BY <2>5
    <2> QED BY <2>2, <2>6
  <1> QED BY <1>2, <1>3

LEMMA CopyKept ==
  ASSUME NEW g \in Graph, Kept(g), NEW S \in SUBSET Stmts, NEW e, e.nodes = {S},
         e.added = g.added, "unfused" \in Rules => UNION e.nodes = UNION g.nodes,
         \A x \in Spaces :
           /\ e.writers[x] = IF g.writers[x] = << >> THEN << >> ELSE << S >>
           /\ e.readers[x] = IF g.readers[x] = << >> THEN << >> ELSE << S >>
  PROVE  Kept(e)
  <1>1. Founded(e)
    BY DEF Kept, Founded
  <1>2. CASE "unfused" \notin Rules
    BY <1>1, <1>2 DEF Kept, Copied
  <1>3. CASE "unfused" \in Rules
    <2>1. Edges(g.writers, g.nodes, Writes) /\ Edges(g.readers, g.nodes, Reads)
      BY <1>3 DEF Kept, Copied, Edged
    <2>2. S = UNION g.nodes
      BY <1>3
    <2>3. g.writers \in Ends /\ g.readers \in Ends /\ g.nodes \in SUBSET SUBSET Stmts
      BY DEF Graph
    <2>4. Edges(e.writers, {S}, Writes)
      BY <2>1, <2>2, <2>3, FusedEdges
    <2>5. Edges(e.readers, {S}, Reads)
      BY <2>1, <2>2, <2>3, FusedEdges
    <2> QED BY <1>1, <2>4, <2>5 DEF Kept, Edged
  <1> QED BY <1>2, <1>3

LEMMA NextEdgesInv ==
  {"complete", "current"} \subseteq Rules /\ TypeOK /\ TypeOK' /\ EdgesInv /\ [Next]_vars
    => EdgesInv'
  <1> SUFFICES ASSUME "complete" \in Rules, "current" \in Rules, TypeOK, TypeOK', EdgesInv,
                      [Next]_vars
               PROVE  EdgesInv'
    OBVIOUS
  <1>0. /\ Len(heap) \in Nat
        /\ \A g \in Targets : g = flow /\ flow # 0 /\ flow \in 1..Len(heap)
        /\ \A g \in 1..Len(heap) : heap[g] \in Graph /\ Parted(heap[g])
        /\ \A g \in 1..Len(heap') : heap'[g] \in Graph /\ Parted(heap'[g])
        /\ stage # "client" => Variant \in 1..Len(heap) /\ Variant # flow /\ flow # 0
    BY HeapFacts DEF TypeOK
  (* Passes leave the edges alone.                                         *)
  <1>s. ASSUME flow # 0, stage = "client", flow' = flow, stage' = "client", sealed' = TRUE,
               heap'[flow].nodes = heap[flow].nodes, heap'[flow].added = heap[flow].added,
               heap'[flow].writers = heap[flow].writers, heap'[flow].readers = heap[flow].readers
        PROVE  EdgesInv'
    BY <1>s, SameEdges DEF EdgesInv
  <1>1. ASSUME NEW n \in Names, NewGraph(n) PROVE EdgesInv'
    <2>1. heap'[flow'] = Empty(n)
      BY <1>1, NewGraphEffect
    <2>2. \A x \in Spaces : Empty(n).writers[x] = << >> /\ Empty(n).readers[x] = << >>
      BY DEF Empty, NoEnds
    <2>3. Empty(n).nodes = {}
      BY DEF Empty
    <2>4. Edged(Empty(n))
      BY <2>2, <2>3 DEF Edged, Edges, Once, Contains
    <2>5. Kept(Empty(n))
      BY <2>4, EmptyGraph, EdgedFounded
    <2> QED BY <1>1, <2>1, <2>4, <2>5 DEF NewGraph, Client, EdgesInv
  <1>2. ASSUME NEW s \in Stmts, AddComp(s) PROVE EdgesInv'
    <2>1. /\ flow \in 1..Len(heap) /\ Len(heap') = Len(heap) /\ s \notin heap[flow].added
          /\ heap'[flow].nodes = heap[flow].nodes \union {{s}}
          /\ heap'[flow].writers = MoreEnds(heap[flow].writers, Writes[s], {s})
          /\ heap'[flow].readers = MoreEnds(heap[flow].readers, Reads[s], {s})
      BY <1>2, AddCompEffect DEF OthersStay
    <2>2. Edged(heap[flow])
      BY <1>2 DEF AddComp, MayChange, EdgesInv
    <2>3. Edged(heap'[flow])
      BY <1>0, <2>1, <2>2, ExtendedEdged
    <2>4. Kept(heap'[flow])
      BY <1>0, <2>1, <2>3, EdgedFounded
    <2> QED BY <1>2, <2>3, <2>4 DEF AddComp, Client, EdgesInv
  <1>3. ASSUME NEW n \in SUBSET Stmts, NEW s \in Stmts, Fuse(n, s) PROVE EdgesInv'
    <2>1. /\ flow \in 1..Len(heap) /\ Len(heap') = Len(heap)
          /\ n \in heap[flow].nodes /\ {s} \in heap[flow].nodes /\ s \notin n
          /\ heap'[flow].nodes = (heap[flow].nodes \ {n, {s}}) \union {n \union {s}}
          /\ heap'[flow].writers = JoinedEnds(heap[flow].writers, n, s)
          /\ heap'[flow].readers = JoinedEnds(heap[flow].readers, n, s)
      BY <1>3, FuseEffect DEF OthersStay
    <2>2. Edged(heap[flow])
      BY <1>3 DEF Fuse, MayChange, EdgesInv
    <2>3. Edged(heap'[flow])
      BY <1>0, <2>1, <2>2, JoinedEdged
    <2>4. Kept(heap'[flow])
      BY <1>0, <2>1, <2>3, EdgedFounded
    <2> QED BY <1>3, <2>3, <2>4 DEF Fuse, Client, EdgesInv
  <1>4. ASSUME NEW g \in Targets, Reschedule(g) PROVE EdgesInv'
    BY <1>0, <1>4, <1>s, RescheduleEffect DEF Reschedule, Client
  <1>5. ASSUME NEW g \in Targets, Reduce(g) PROVE EdgesInv'
    BY <1>0, <1>5, <1>s, ReduceEffect DEF Reduce, Client
  <1>6. ASSUME NEW g \in Targets, Allocate(g) PROVE EdgesInv'
    BY <1>0, <1>6, <1>s, AllocateEffect DEF Allocate, Client
  <1>7. ASSUME NEW g \in Targets, Parallelize(g) PROVE EdgesInv'
    BY <1>0, <1>7, <1>s, ParallelizeEffect DEF Parallelize, Client
  <1>8. ASSUME NEW g \in Targets, Codegen(g) PROVE EdgesInv'
    <2>1. /\ g = flow /\ heap[g] \in Graph
          /\ heap'[g] = IF "scheduled" \in flags THEN heap[g] ELSE Scheduled(heap[g])
      BY <1>0, <1>8, CodegenEffect
    <2>2. /\ heap'[g].nodes = heap[g].nodes /\ heap'[g].added = heap[g].added
          /\ heap'[g].writers = heap[g].writers /\ heap'[g].readers = heap[g].readers
      BY <2>1, ScheduledGraph
    <2> QED BY <1>0, <1>8, <1>s, <2>1, <2>2 DEF Codegen, Client
  <1>9. ASSUME NEW g \in Targets, Transform(g) PROVE EdgesInv'
    <2>1. /\ flow \in 1..Len(heap) /\ \A i \in 1..Len(heap) : heap'[i] = heap[i]
          /\ heap'[Variant'].added = heap[g].added
          /\ Fused(heap[g].nodes) = {} =>
               UNION heap'[Variant'].nodes = UNION heap[g].nodes
      BY <1>9, TransformEffect
    <2>2. g = flow /\ heap[g] \in Graph /\ Kept(heap[g])
      BY <1>0, <1>9 DEF EdgesInv
    <2>3. PICK S \in SUBSET Stmts :
            /\ heap'[Variant'].nodes = {S}
            /\ \A x \in Spaces :
                 /\ heap'[Variant'].writers[x] = IF heap[g].writers[x] = << >> THEN << >> ELSE << S >>
                 /\ heap'[Variant'].readers[x] = IF heap[g].readers[x] = << >> THEN << >> ELSE << S >>
      BY <1>9, TransformEffect
    <2>4. Kept(heap'[Variant'])
      <3> DEFINE e == heap'[Variant']
                 h == heap[g]
      <3>1. "unfused" \in Rules => UNION e.nodes = UNION h.nodes
        BY <1>9, <2>1 DEF Transform, MayTransform
      <3>2. /\ h \in Graph /\ Kept(h) /\ e.nodes = {S} /\ e.added = h.added
            /\ \A x \in Spaces :
                 /\ e.writers[x] = IF h.writers[x] = << >> THEN << >> ELSE << S >>
                 /\ e.readers[x] = IF h.readers[x] = << >> THEN << >> ELSE << S >>
        BY <2>1, <2>2, <2>3
      <3> HIDE DEF e, h
      <3>3. Kept(e)
        BY <3>1, <3>2, CopyKept
      <3> QED BY <3>3 DEF e
    <2> QED BY <1>9, <2>1, <2>2, <2>4 DEF Transform, EdgesInv
  <1>10. CASE ProcessVariant
    <2>1. /\ Variant' = Variant /\ OthersStay(Variant) /\ flow \in 1..Len(heap)
          /\ Variant # flow /\ heap[Variant] \in Graph
          /\ heap'[Variant] = Processed(heap[Variant])
      BY <1>10, ProcessEffect
    <2>2. /\ heap'[Variant].nodes = heap[Variant].nodes /\ heap'[Variant].added = heap[Variant].added
          /\ heap'[Variant].writers = heap[Variant].writers
          /\ heap'[Variant].readers = heap[Variant].readers
      BY <2>1, ProcessedGraph
    <2>3. heap'[flow] = heap[flow]
      BY <2>1 DEF OthersStay
    <2>4. Kept(heap'[Variant])
      BY <1>10, <2>2, SameEdges DEF ProcessVariant, EdgesInv
    <2> QED BY <1>10, <2>1, <2>3, <2>4 DEF ProcessVariant, EdgesInv
  <1>11. CASE KeepBest
    <2>1. Variant' = Variant /\ stage # "client" /\ UNCHANGED << heap, flow, sealed >>
      BY <1>11, KeepBestEffect DEF KeepBest
    <2> QED BY <2>1 DEF EdgesInv
  <1>12. CASE FinishTransform
    BY <1>0, <1>12, FinishEffect DEF FinishTransform, EdgesInv
  <1>13. CASE UNCHANGED vars
    BY <1>13 DEF vars, EdgesInv, Variant
  <1> QED BY <1>1, <1>2, <1>3, <1>4, <1>5, <1>6, <1>7, <1>8, <1>9, <1>10, <1>11, <1>12,
             <1>13 DEF Next

-----------------------------------------------------------------------------
(* Contracted spaces.                                                      *)

(* Each space is written by one computation.                               *)
SingleWriter == \A s, t \in Stmts : Writes[s] \cap Writes[t] # {} => s = t

(* One node of N uses x; every node that uses x writes and reads it.       *)
Private(N, x) == \A m, n \in N : x \in Used(m) /\ x \in Used(n) => m = n

InPlace(N, x) ==
  \A n \in N : x \in Used(n) => (\E s \in n : x \in Writes[s]) /\ (\E s \in n : x \in Reads[s])

(* What a contracted space can count on, by what the client sees to.       *)
Fits(N, x) ==
  /\ SingleWriter => Private(N, x)
  /\ "unfused" \in Rules => InPlace(N, x)

AllFit(N, S, t) == \A x \in Used(S) : t[x] = "contracted" => Fits(N, x)

(* A contracted space was contracted for a graph that uses it, be it one   *)
(* that was replaced since, and never for a graph that still grows; it fits *)
(* the current graph, the variant, and the code.                           *)
FitInv ==
  /\ \A x \in Spaces :
       Table[x] = "contracted" => \E g \in 1..Len(heap) : x \in Used(heap[g].added)
  /\ ~ sealed /\ flow # 0 =>
       \A x \in Used(heap[flow].added) : spaces[x] # "contracted"
  /\ flow # 0 /\ stage = "client" => AllFit(heap[flow].nodes, heap[flow].added, spaces)
  /\ stage # "client" => sealed /\ AllFit(heap[Variant].nodes, heap[Variant].added, Table)
  /\ AllFit(code.nodes, code.added, code.table)

LEMMA ShrunkFits ==
  ASSUME NEW g \in Graph, Parted(g), Kept(g), NEW x \in Shrunk(g)
  PROVE  Fits(g.nodes, x) /\ x \in Used(g.added)
  <1>1. x \in Spaces /\ g.writers[x] # << >> /\ g.writers[x] = g.readers[x]
    BY DEF Shrunk, Reducible
  <1>2. x \in Used(g.added)
    BY <1>1 DEF Kept, Founded
  <1>3. CASE Copied(g)
    BY <1>2, <1>3 DEF Copied, Fits, Private
  <1>4. CASE Edged(g)
    <2>1. ASSUME NEW n \in g.nodes, x \in Used(n)
          PROVE  (\E s \in n : x \in Writes[s]) /\ (\E s \in n : x \in Reads[s])
      <3>1. n \in SUBSET Stmts
        BY DEF Graph
      <3>2. (\E s \in n : x \in Writes[s]) \/ (\E s \in n : x \in Reads[s])
        BY <2>1 DEF Used, Touches
      <3>3. /\ Contains(g.writers[x], n) <=> \E s \in n : x \in Writes[s]
            /\ Contains(g.readers[x], n) <=> \E s \in n : x \in Reads[s]
        BY <1>1, <1>4, <3>1 DEF Edged, Edges
      <3> QED BY <1>1, <3>2, <3>3
    <2>2. InPlace(g.nodes, x)
      BY <2>1 DEF InPlace
    <2>3. ASSUME SingleWriter, NEW m \in g.nodes, NEW n \in g.nodes, x \in Used(m), x \in Used(n)
          PROVE  m = n
      <3>1. PICK s \in m : x \in Writes[s]
        BY <2>1, <2>3
      <3>2. PICK t \in n : x \in Writes[t]
        BY <2>1, <2>3
      <3>3. s \in Stmts /\ t \in Stmts
        BY DEF Graph
      <3>4. s = t
        BY <2>3, <3>1, <3>2, <3>3 DEF SingleWriter
      <3> QED BY <3>1, <3>2, <3>4 DEF Parted
    <2> QED BY <1>2, <2>2, <2>3 DEF Fits, Private
  <1> QED BY <1>3, <1>4 DEF Kept

(* What fits a graph fits its fused copy.                                  *)
LEMMA FusedFits ==
  ASSUME NEW N, NEW S, NEW x, "unfused" \in Rules => S = UNION N, Fits(N, x)
  PROVE  Fits({S}, x)
  <1>1. Private({S}, x)
    BY DEF Private
  <1>2. ASSUME "unfused" \in Rules, x \in Used(S)
        PROVE  (\E s \in S : x \in Writes[s]) /\ (\E s \in S : x \in Reads[s])
    <2>1. PICK n \in N : x \in Used(n)
      BY <1>2 DEF Used
    <2>2. n \subseteq S
      BY <1>2
    <2>3. InPlace(N, x)
      BY <1>2 DEF Fits
    <2> QED BY <2>1, <2>2, <2>3 DEF InPlace
  <1> QED BY <1>1, <1>2 DEF Fits, InPlace

(* Spaces stay in use while graphs only grow.                              *)
LEMMA UseStays ==
  ASSUME TypeOK, Len(heap') \in Nat, Len(heap) <= Len(heap'),
         \A g \in 1..Len(heap) : heap[g].added \subseteq heap'[g].added,
         NEW x, \E g \in 1..Len(heap) : x \in Used(heap[g].added)
  PROVE  \E g \in 1..Len(heap') : x \in Used(heap'[g].added)
  <1>1. PICK g \in 1..Len(heap) : x \in Used(heap[g].added)
    OBVIOUS
  <1>2. x \in Used(heap'[g].added)
    BY <1>1, UsedMore
  <1>3. g \in 1..Len(heap')
    BY <1>1, HeapFacts
  <1> QED BY <1>2, <1>3

LEMMA NextFitInv ==
  {"complete", "current", "own"} \subseteq Rules /\ TypeOK /\ EdgesInv /\ FitInv
    /\ [Next]_vars
    => FitInv'
  <1> SUFFICES ASSUME "complete" \in Rules, "current" \in Rules, "own" \in Rules,
                      TypeOK, EdgesInv, FitInv, [Next]_vars
               PROVE  FitInv'
    OBVIOUS
  <1>0. /\ Len(heap) \in Nat
        /\ \A g \in Targets : g = flow /\ flow # 0 /\ flow \in 1..Len(heap)
        /\ \A g \in 1..Len(heap) : heap[g] \in Graph /\ Parted(heap[g])
        /\ stage # "client" => Variant \in 1..Len(heap) /\ Variant # flow /\ flow # 0
        /\ spaces \in Shapes
    BY HeapFacts DEF TypeOK
  <1>u. ASSUME NEW g \in 1..Len(heap), NEW x \in Used(heap[g].added) PROVE x \in Spaces
    <2>1. heap[g].added \in SUBSET Stmts
      BY <1>0 DEF Graph
    <2> QED BY <1>u, <2>1, UsedSpaces
  (* Steps that leave the table, the nodes and the statements alone.       *)
  <1>s. ASSUME flow' = flow, stage = "client", stage' = "client", spaces' = spaces,
               sealed' = sealed \/ sealed' = TRUE, Len(heap') = Len(heap),
               \A g \in 1..Len(heap) : /\ heap'[g].added = heap[g].added
                                       /\ heap'[g].nodes = heap[g].nodes,
               AllFit(code'.nodes, code'.added, code'.table)
        PROVE  FitInv'
    <2>1. flow # 0 => flow \in 1..Len(heap)
      BY HeapFacts
    <2>2. Table = spaces /\ Table' = spaces
      BY <1>s DEF Table
    <2>3. \A x \in Spaces :
            Table'[x] = "contracted" => \E g \in 1..Len(heap') : x \in Used(heap'[g].added)
      BY <1>s, <2>2 DEF FitInv
    <2>4. flow # 0 => heap'[flow].added = heap[flow].added /\ heap'[flow].nodes = heap[flow].nodes
      BY <1>s, <2>1
    <2>5. ~ sealed' /\ flow' # 0 =>
            \A x \in Used(heap'[flow'].added) : spaces'[x] # "contracted"
      BY <1>s, <2>4 DEF FitInv
    <2>6. flow' # 0 =>
            AllFit(heap'[flow'].nodes, heap'[flow'].added, spaces')
      BY <1>s, <2>4 DEF FitInv
    <2> QED BY <1>s, <2>3, <2>5, <2>6 DEF FitInv
  <1>1. ASSUME NEW n \in Names, NewGraph(n) PROVE FitInv'
    <2>1. /\ heap'[flow'] = Empty(n) /\ Len(heap') = Len(heap) + 1
          /\ \A i \in 1..Len(heap) : heap'[i] = heap[i]
      BY <1>1, NewGraphEffect
    <2>2. Used(heap'[flow'].added) = {}
      BY <2>1 DEF Empty, Used
    <2>3. Table = spaces /\ Table' = spaces
      BY <1>1 DEF NewGraph, Client, Table
    <2>4. \A x \in Spaces :
            Table'[x] = "contracted" => \E g \in 1..Len(heap') : x \in Used(heap'[g].added)
      BY <1>0, <2>1, <2>3, UseStays DEF FitInv
    <2>5. AllFit(heap'[flow'].nodes, heap'[flow'].added, spaces')
      BY <2>2 DEF AllFit
    <2> QED BY <1>1, <2>2, <2>4, <2>5 DEF NewGraph, Client, FitInv
  <1>2. ASSUME NEW s \in Stmts, AddComp(s) PROVE FitInv'
    <2>1. /\ flow \in 1..Len(heap) /\ OthersStay(flow)
          /\ heap'[flow].added = heap[flow].added \union {s}
          /\ \A x \in Spaces : spaces'[x] = IF x \in Touches(s) /\ spaces[x] = "none"
                                              THEN "whole" ELSE spaces[x]
      BY <1>2, AddCompEffect
    <2>2. /\ ~ sealed /\ flow # 0 /\ stage = "client" /\ Table = spaces /\ Table' = spaces'
          /\ UNCHANGED << flow, sealed, stage, code >>
      BY <1>2 DEF AddComp, Client, MayChange, Table
    <2>3. \A x \in Spaces : spaces'[x] = "contracted" <=> spaces[x] = "contracted"
      BY <2>1
    <2>4. \A g \in 1..Len(heap) : heap[g].added \subseteq heap'[g].added
      BY <2>1 DEF OthersStay
    <2>5. \A x \in Spaces :
            Table'[x] = "contracted" => \E g \in 1..Len(heap') : x \in Used(heap'[g].added)
      <3>1. Len(heap') = Len(heap)
        BY <2>1 DEF OthersStay
      <3>2. ASSUME NEW x \in Spaces, Table'[x] = "contracted"
            PROVE  \E g \in 1..Len(heap) : x \in Used(heap[g].added)
        BY <2>2, <2>3, <3>2 DEF FitInv
      <3>3. Len(heap') \in Nat /\ Len(heap) <= Len(heap')
        BY <1>0, <3>1
      <3> QED BY <2>4, <3>2, <3>3, UseStays
    <2>6. ASSUME NEW x \in Used(heap'[flow].added) PROVE spaces'[x] # "contracted"
      <3>1. x \in Used(heap[flow].added) \/ x \in Touches(s)
        BY <2>1, <2>6, UsedOneMore
      <3>2. x \in Spaces
        BY <1>u, <2>1, <3>1, AccessesAssumption DEF Touches
      <3>3. CASE x \in Used(heap[flow].added)
        BY <2>2, <2>3, <3>2, <3>3 DEF FitInv
      <3>4. CASE x \in Touches(s) /\ x \notin Used(heap[flow].added)
        <4>1. SUFFICES ASSUME spaces[x] = "contracted" PROVE FALSE
          BY <2>3, <3>2
        <4>2. PICK g \in 1..Len(heap) : x \in Used(heap[g].added)
          BY <2>2, <3>2, <4>1 DEF FitInv
        <4>3. g # flow /\ g \in DOMAIN heap
          BY <3>4, <4>2, HeapFacts
        <4>4. Touches(s) \cap Used(heap[g].added) = {}
          BY <1>2, <4>3 DEF AddComp, OwnSpaces
        <4> QED BY <3>4, <4>2, <4>4
      <3> QED BY <3>1, <3>3, <3>4
    <2>7. AllFit(heap'[flow'].nodes, heap'[flow'].added, spaces')
      BY <2>2, <2>6 DEF AllFit
    <2> QED BY <2>2, <2>5, <2>6, <2>7 DEF FitInv
  <1>3. ASSUME NEW n \in SUBSET Stmts, NEW s \in Stmts, Fuse(n, s) PROVE FitInv'
    <2>1. /\ flow \in 1..Len(heap) /\ OthersStay(flow)
          /\ heap'[flow].added = heap[flow].added
      BY <1>3, FuseEffect
    <2>2. /\ ~ sealed /\ flow # 0 /\ stage = "client" /\ Table = spaces /\ Table' = spaces
          /\ UNCHANGED << flow, sealed, stage, code, spaces >>
      BY <1>3 DEF Fuse, Client, MayChange, Table
    <2>3. Len(heap') = Len(heap) /\ \A g \in 1..Len(heap) : heap'[g].added = heap[g].added
      BY <2>1 DEF OthersStay
    <2>4. \A x \in Spaces :
            Table'[x] = "contracted" => \E g \in 1..Len(heap') : x \in Used(heap'[g].added)
      BY <2>2, <2>3 DEF FitInv
    <2>5. \A x \in Used(heap'[flow].added) : spaces[x] # "contracted"
      BY <2>1, <2>2 DEF FitInv
    <2>6. AllFit(heap'[flow'].nodes, heap'[flow'].added, spaces')
      BY <2>2, <2>5 DEF AllFit
    <2> QED BY <2>2, <2>4, <2>5, <2>6 DEF FitInv
  <1>4. ASSUME NEW g \in Targets, Reschedule(g) PROVE FitInv'
    <2>1. AllFit(code'.nodes, code'.added, code'.table)
      BY <1>4 DEF Reschedule, FitInv
    <2> QED BY <1>4, <1>s, <2>1, RescheduleEffect DEF Reschedule, Client, OthersStay
  <1>5. ASSUME NEW g \in Targets, Reduce(g) PROVE FitInv'
    <2>1. /\ g = flow /\ flow \in 1..Len(heap) /\ OthersStay(flow) /\ heap[flow] \in Graph
          /\ Parted(heap[flow]) /\ Kept(heap[flow])
          /\ heap'[flow].added = heap[flow].added /\ heap'[flow].nodes = heap[flow].nodes
      BY <1>0, <1>5, ReduceEffect DEF EdgesInv
    <2>2. /\ spaces' = Contract(spaces, Shrunk(heap[flow])) /\ sealed' = TRUE
          /\ flow # 0 /\ stage = "client" /\ Table = spaces /\ Table' = spaces'
          /\ UNCHANGED << flow, stage, code >>
      BY <1>0, <1>5, <2>1 DEF Reduce, Client, Table
    <2>3. \A x \in Spaces : spaces'[x] = "contracted" =>
                              x \in Shrunk(heap[flow]) \/ spaces[x] = "contracted"
      BY <1>0, <2>2, Contraction
    <2>4. Len(heap') = Len(heap) /\ \A i \in 1..Len(heap) : heap'[i].added = heap[i].added
      BY <2>1 DEF OthersStay
    <2>5. ASSUME NEW x \in Spaces, spaces'[x] = "contracted"
          PROVE  \E i \in 1..Len(heap) : x \in Used(heap[i].added)
      BY <2>1, <2>2, <2>3, <2>5, ShrunkFits DEF FitInv
    <2>6. ASSUME NEW x \in Used(heap[flow].added), spaces'[x] = "contracted"
          PROVE  Fits(heap[flow].nodes, x)
      <3>1. x \in Spaces
        BY <1>u, <2>1
      <3>2. CASE x \in Shrunk(heap[flow])
        BY <2>1, <3>2, ShrunkFits
      <3>3. CASE x \notin Shrunk(heap[flow])
        BY <2>2, <2>3, <2>6, <3>1, <3>3 DEF FitInv, AllFit
      <3> QED BY <3>2, <3>3
    <2>7. AllFit(heap'[flow'].nodes, heap'[flow'].added, spaces')
      BY <2>1, <2>2, <2>6 DEF AllFit
    <2> QED BY <2>1, <2>2, <2>4, <2>5, <2>7 DEF FitInv
  <1>6. ASSUME NEW g \in Targets, Allocate(g) PROVE FitInv'
    <2>1. AllFit(code'.nodes, code'.added, code'.table)
      BY <1>6 DEF Allocate, FitInv
    <2> QED BY <1>6, <1>s, <2>1, AllocateEffect DEF Allocate, Client, OthersStay
  <1>7. ASSUME NEW g \in Targets, Parallelize(g) PROVE FitInv'
    <2>1. AllFit(code'.nodes, code'.added, code'.table)
      BY <1>7 DEF Parallelize, FitInv
    <2> QED BY <1>7, <1>s, <2>1, ParallelizeEffect DEF Parallelize, Client, OthersStay
  <1>8. ASSUME NEW g \in Targets, Codegen(g) PROVE FitInv'
    <2>1. /\ g = flow /\ g \in 1..Len(heap) /\ OthersStay(g) /\ heap[g] \in Graph
          /\ code'.added = heap[g].added /\ code'.nodes = heap[g].nodes
          /\ code'.table = spaces
          /\ heap'[g] = IF "scheduled" \in flags THEN heap[g] ELSE Scheduled(heap[g])
      BY <1>0, <1>8, CodegenEffect
    <2>2. heap'[g].added = heap[g].added /\ heap'[g].nodes = heap[g].nodes
      BY <2>1, ScheduledGraph
    <2>3. AllFit(code'.nodes, code'.added, code'.table)
      BY <1>0, <1>8, <2>1 DEF Codegen, Client, FitInv
    <2> QED BY <1>8, <1>s, <2>1, <2>2, <2>3 DEF Codegen, Client, OthersStay
  <1>9. ASSUME NEW g \in Targets, Transform(g) PROVE FitInv'
    <2>1. /\ Len(heap') = Len(heap) + 1 /\ \A i \in 1..Len(heap) : heap'[i] = heap[i]
          /\ heap'[Variant'].added = heap[g].added
          /\ Fused(heap[g].nodes) = {} =>
               UNION heap'[Variant'].nodes = UNION heap[g].nodes
      BY <1>9, TransformEffect
    <2>2. /\ Table = spaces /\ Table' = spaces /\ sealed' = TRUE /\ stage' = "process"
          /\ UNCHANGED code
      BY <1>9 DEF Transform, Client, Table
    <2>3. \A x \in Spaces :
            Table'[x] = "contracted" => \E i \in 1..Len(heap') : x \in Used(heap'[i].added)
      BY <1>0, <2>1, <2>2, UseStays DEF FitInv
    <2>4. PICK S : heap'[Variant'].nodes = {S}
      BY <1>9, TransformEffect
    <2>5. "unfused" \in Rules => S = UNION heap[g].nodes
      BY <1>9, <2>1, <2>4 DEF Transform, MayTransform
    <2>6. AllFit(heap[g].nodes, heap[g].added, spaces)
      BY <1>0, <1>9 DEF Transform, Client, FitInv
    <2>7. AllFit({S}, heap[g].added, spaces)
      BY <2>5, <2>6, FusedFits DEF AllFit
    <2>8. AllFit(heap'[Variant'].nodes, heap'[Variant'].added, Table')
      BY <2>1, <2>2, <2>4, <2>7
    <2> QED BY <2>2, <2>3, <2>8 DEF FitInv
  <1>10. CASE ProcessVariant
    <2>1. /\ heap[Variant] \in Graph /\ Parted(heap[Variant]) /\ Variant' = Variant
          /\ Kept(heap[Variant])
          /\ Variant \in 1..Len(heap) /\ OthersStay(Variant)
          /\ heap'[Variant].added = heap[Variant].added
          /\ heap'[Variant].nodes = heap[Variant].nodes
      <3>1. stage # "client" /\ Kept(heap[Variant])
        BY <1>10 DEF ProcessVariant, EdgesInv
      <3> QED BY <1>0, <1>10, <3>1, ProcessEffect, ProcessedGraph
    <2>2. /\ spaces' = Contract(spaces, Shrunk(heap[Variant])) /\ Table = spaces
          /\ Table' = spaces' /\ stage = "process" /\ stage' = "compare"
          /\ UNCHANGED << code, sealed >>
      BY <1>10 DEF ProcessVariant, Table
    <2>3. \A x \in Spaces : spaces'[x] = "contracted" =>
                              x \in Shrunk(heap[Variant]) \/ spaces[x] = "contracted"
      BY <1>0, <2>2, Contraction
    <2>4. Len(heap') = Len(heap) /\ \A i \in 1..Len(heap) : heap'[i].added = heap[i].added
      BY <2>1 DEF OthersStay
    <2>5. ASSUME NEW x \in Spaces, spaces'[x] = "contracted"
          PROVE  \E i \in 1..Len(heap) : x \in Used(heap[i].added)
      BY <2>1, <2>2, <2>3, <2>5, ShrunkFits DEF FitInv
    <2>6. ASSUME NEW x \in Used(heap[Variant].added), spaces'[x] = "contracted"
          PROVE  Fits(heap[Variant].nodes, x)
      <3>1. x \in Spaces
        BY <1>u, <2>1
      <3>2. CASE x \in Shrunk(heap[Variant])
        BY <2>1, <3>2, ShrunkFits
      <3>3. CASE x \notin Shrunk(heap[Variant])
        BY <2>2, <2>3, <2>6, <3>1, <3>3 DEF FitInv, AllFit
      <3> QED BY <3>2, <3>3
    <2>7. AllFit(heap'[Variant'].nodes, heap'[Variant'].added, Table')
      BY <2>1, <2>2, <2>6 DEF AllFit
    <2> QED BY <2>1, <2>2, <2>4, <2>5, <2>7 DEF FitInv
  <1>11. CASE KeepBest
    <2>1. Table' = Table /\ Variant' = Variant
      BY <1>11, TableStays, KeepBestEffect
    <2>2. stage = "compare" /\ stage' = "finish" /\ UNCHANGED << heap, flow, sealed, code >>
      BY <1>11 DEF KeepBest
    <2>3. sealed
      BY <2>2 DEF FitInv
    <2> QED BY <2>1, <2>2, <2>3 DEF FitInv
  <1>12. CASE FinishTransform
    <2>1. /\ Table' = Table /\ Table' = spaces' /\ stage' = "client" /\ flow' = Variant
          /\ sealed /\ UNCHANGED << sealed, code >>
          /\ AllFit(heap[Variant].nodes, heap[Variant].added, Table)
      BY <1>12, TableStays DEF FinishTransform, Table, FitInv
    <2>2. /\ flow \in 1..Len(heap) /\ OthersStay(flow) /\ heap'[Variant] = heap[Variant]
          /\ heap'[flow].added = heap[flow].added
      BY <1>12, FinishEffect
    <2>3. Len(heap') = Len(heap) /\ \A i \in 1..Len(heap) : heap'[i].added = heap[i].added
      BY <2>2 DEF OthersStay
    <2>4. \A x \in Spaces :
            Table'[x] = "contracted" => \E i \in 1..Len(heap') : x \in Used(heap'[i].added)
      BY <2>1, <2>3 DEF FitInv
    <2>5. AllFit(heap'[flow'].nodes, heap'[flow'].added, spaces')
      BY <2>1, <2>2
    <2> QED BY <2>1, <2>4, <2>5 DEF FitInv
  <1>13. CASE UNCHANGED vars
    BY <1>13 DEF vars, FitInv, Variant, Table
  <1> QED BY <1>1, <1>2, <1>3, <1>4, <1>5, <1>6, <1>7, <1>8, <1>9, <1>10, <1>11, <1>12,
             <1>13 DEF Next

(* Every contracted space fits the code.                                   *)
LEMMA CodeFits ==
  ASSUME {"complete", "current", "own"} \subseteq Rules
  PROVE  Spec => []FitInv
  <1>1. Init => EdgesInv
    BY DEF Init, EdgesInv
  <1>2. TypeOK /\ TypeOK' /\ EdgesInv /\ [Next]_vars => EdgesInv'
    BY NextEdgesInv
  <1>3. Init => FitInv
    BY DEF Init, FitInv, AllFit, NoCode, Used, Table, Undeclared
  <1>4. TypeOK /\ EdgesInv /\ FitInv /\ [Next]_vars => FitInv'
    BY NextFitInv
  <1> QED BY <1>1, <1>2, <1>3, <1>4, TypeCorrect, PTL DEF Spec

(* A space is a scalar in the code only if one node of the code uses it,   *)
(* where each space is written by one computation: then labels that agree  *)
(* are those of one node.  The client changes no graph after a pass, passes *)
(* on the current graph only, and lets no two graphs use one space.        *)
THEOREM ContractionIsPrivate ==
  ASSUME {"complete", "current", "own"} \subseteq Rules, SingleWriter
  PROVE  Spec => []ContractedPrivately
  <1>1. FitInv => ContractedPrivately
    BY DEF FitInv, AllFit, Fits, Private, ContractedPrivately
  <1> QED BY <1>1, CodeFits, PTL

(* Whatever writes what: all nodes of the code that use a scalar write it  *)
(* and read it, if the client transforms unfused graphs, as well.          *)
THEOREM ContractionIsInPlace ==
  ASSUME {"complete", "current", "own", "unfused"} \subseteq Rules
  PROVE  Spec => []ContractedInPlace
  <1>0. "unfused" \in Rules
    OBVIOUS
  <1>1. FitInv => ContractedInPlace
    <2> SUFFICES ASSUME FitInv, NEW x \in Used(code.added), code.table[x] = "contracted",
                        NEW n \in code.nodes, x \in Used(n)
                 PROVE  (\E s \in n : x \in Writes[s]) /\ (\E s \in n : x \in Reads[s])
      BY DEF ContractedInPlace
    <2>1. InPlace(code.nodes, x)
      <3>1. AllFit(code.nodes, code.added, code.table)
        BY DEF FitInv
      <3> QED BY <1>0, <3>1 DEF AllFit, Fits
    <2> QED BY <2>1 DEF InPlace
  <1>2. {"complete", "current", "own"} \subseteq Rules
    OBVIOUS
  <1> QED BY <1>1, <1>2, CodeFits, PTL
=============================================================================
