------------------------------- MODULE Fusion -------------------------------
(***************************************************************************)
(* What fusing computations does to their loops (updateIterGraph in        *)
(* src/src/pdfg/FlowGraph.hpp, over src/src/pdfg/Digraph.hpp), and the     *)
(* schedules ScheduleVisitor reads off the result.                         *)
(*                                                                         *)
(* The client fuses the other computations, in their order, into the first *)
(* one.  The iteration graph is a tree: inner nodes are loops, labelled with *)
(* an iterator, leaves are statements.  A node is named here by the path   *)
(* to it, the positions of its ancestors and its own among their siblings; *)
(* nodes are only ever appended, so that paths do not change.              *)
(*                                                                         *)
(* Every computation writes a space of its own and reads spaces of earlier *)
(* ones: statement p also stands for the space it writes.  Tiling and      *)
(* aligned iterators are not in this module.                               *)
(***************************************************************************)
EXTENDS Integers, Sequences, FiniteSets, Functions, SequencesExt

CONSTANTS
  Iters,      (* iterators                                                 *)
  Programs    (* the sequences of computations that are fused              *)

(* nest: its loops, outermost first.  low: their lower bounds.  high: the  *)
(* last value of its iterators.  dims: the iterators that index the space  *)
(* it writes.  reads: the accesses, to the space of an earlier statement,  *)
(* with an offset for every dimension.                                     *)
Statement ==
  [ nest : Seq(Iters), low : Seq(Int), high : Nat, dims : SUBSET Iters,
    reads : SUBSET [of : Nat, off : [Iters -> Int]] ]

(* The labels of the nodes differ: no iterator is a number.  A nest names an *)
(* iterator once.  Three loops at most: so shifts[j - 2] is never past the  *)
(* end.                                                                    *)
ASSUME FusionAssumption ==
  /\ Iters \intersect Nat = {}
  /\ \A q \in Programs :
       /\ q \in Seq(Statement) /\ q # << >>
       /\ \A s \in DOMAIN q :
            /\ IsInjective(q[s].nest) /\ Len(q[s].nest) <= 3
            /\ Len(q[s].low) = Len(q[s].nest)
            /\ q[s].dims \subseteq Range(q[s].nest)
            /\ IsFiniteSet(q[s].reads) /\ \A r \in q[s].reads : r.of \in 1..(s - 1)

VARIABLES
  prog,       (* the statements                                            *)
  tree,       (* labels of the nodes: 0, an iterator or a statement        *)
  named,      (* the node that is called like an iterator: the first made  *)
  leaf,       (* the leaf of a statement                                   *)
  shift,      (* _shifts of a computation, << >> if it has none            *)
  mode,       (* where updateIterGraph is: "idle", "seek" or "check"       *)
  cur,        (* the computation that is being placed                      *)
  delta,      (* shifts                                                    *)
  level,      (* j + 1                                                     *)
  inode, inext, path, skips,
  todo,       (* producers that are not checked yet at this level          *)
  who         (* the producer that is being checked, 0: none               *)

place == << mode, cur, delta, level, inode, inext, path, skips, todo, who >>
vars == << prog, tree, named, leaf, shift, place >>

NoPath == << 0 >>

Stmts == DOMAIN prog

Nest(c) == prog[c].nest

-----------------------------------------------------------------------------
(* Integer tuples (IntTuple).                                              *)

Shorter(s, t) == IF Len(s) < Len(t) THEN Len(s) ELSE Len(t)

SumOf(s) == FoldFunction(LAMBDA x, y : x + y, 0, s)

(* operator-: as long as the shorter one.                                  *)
Minus(s, t) == [n \in 1..Shorter(s, t) |-> s[n] - t[n]]

(* operator+=: as long as the left one.                                    *)
AddTo(s, t) == [n \in DOMAIN s |-> IF n \in DOMAIN t THEN s[n] + t[n] ELSE s[n]]

(* max(), over a set: empty tuples do not count, the shortest one cuts.    *)
MaxTuple(S) ==
  LET T == S \ {<< >>}
  IN  IF T = {} THEN << >>
      ELSE [n \in 1..Min({Len(t) : t \in T}) |-> Max({t[n] : t \in T})]

-----------------------------------------------------------------------------
(* The shift of a computation.                                             *)

(* nodeBounds: the offsets with which its accesses use an iterator.        *)
Offsets(c, i) ==
  {r.off[i] : r \in {x \in prog[c].reads : i \in prog[x.of].dims}}
    \union (IF i \in prog[c].dims THEN {0} ELSE {})

NodeSpan(c) ==
  [n \in DOMAIN Nest(c) |->
     LET O == Offsets(c, Nest(c)[n])
     IN  IF O = {} THEN 0 ELSE Max(O) - Min(O)]

NodeMaxes(c) ==
  [n \in DOMAIN Nest(c) |->
     LET O == Offsets(c, Nest(c)[n]) IN IF O = {} THEN 0 ELSE Max(O)]

Producers(c) == {r.of : r \in prog[c].reads}

(* Steps 3 and 4: from the lower bounds and the span.                      *)
OwnShift(c) ==
  AddTo(Minus(prog[1].low, prog[c].low), NodeSpan(c))

(* Mutant: the largest offset is not added.                               *)
ShiftOf_NoMaxes(c) ==
  MaxTuple({OwnShift(c)} \union {shift[p] : p \in Producers(c)})

(* Mutant: the producers' shifts are not looked at.                       *)
ShiftOf_Own(c) == OwnShift(c)

(* Steps 5 and 6: no less than the producers' shifts.                      *)
ShiftOf(c) ==
  LET own == OwnShift(c)
      most == MaxTuple({own} \union {shift[p] : p \in Producers(c)})
  IN  IF own = most THEN own
      ELSE IF SumOf(NodeMaxes(c)) # 0 THEN AddTo(most, NodeMaxes(c))
      ELSE most

-----------------------------------------------------------------------------
(* The tree.                                                               *)

Kids(q) == {r \in DOMAIN tree : Len(r) = Len(q) + 1 /\ IsPrefix(q, r)}

(* Mutant: the position is counted from the loops only.                   *)
NewKid_Loops(q) == Append(q, Cardinality({r \in Kids(q) : tree[r] \in Iters}) + 1)

NewKid(q) == Append(q, Cardinality(Kids(q)) + 1)

IsLoop(q) == tree[q] \in Iters

(* The order of a depth first search.                                      *)
Before(q, r) ==
  \/ IsStrictPrefix(q, r)
  \/ \E k \in 1..Shorter(q, r) :
       /\ \A m \in 1..(k - 1) : q[m] = r[m]
       /\ q[k] < r[k]

(* Digraph::find: the first node under q with that label, where skipped    *)
(* nodes are neither found nor descended into.                             *)
Find(q, i, S) ==
  LET Hits == {r \in DOMAIN tree :
                 /\ IsPrefix(q, r) /\ tree[r] = i /\ r \notin S
                 /\ \A k \in (Len(q) + 1)..Len(r) : SubSeq(r, 1, k) \notin S}
  IN  IF Hits = {} THEN NoPath
      ELSE CHOOSE r \in Hits : \A s \in Hits \ {r} : Before(r, s)

(* find() appends to the path what it descended.  (A search that fails takes *)
(* one off, but then there is a new loop and the path is not read again.)   *)
Extend(p, q, r) == IF r = NoPath THEN p ELSE p \o SubSeq(r, Len(q) + 1, Len(r))

(* Mutant: nothing is skipped.                                            *)
SkipList_None(c) == {}

(* Step 7: internal nodes that do not appear in the schedule.  The labels  *)
(* of the loops are taken for their names.                                 *)
SkipList(c) ==
  {named[i] : i \in {tree[q] : q \in {r \in DOMAIN tree : IsLoop(r)}} \ Range(Nest(c))}

(* Where the producers are.  The leaf of computation 1 is looked up under  *)
(* the label of the node, which is not its own once it has children.       *)
ProducerPath(p) == IF p = 1 /\ cur > 2 THEN << >> ELSE leaf[p]

-----------------------------------------------------------------------------
(* iter_graph: the loops of the first computation and its leaf.            *)
Ones(k) == [n \in 1..k |-> 1]

Init ==
  /\ prog \in Programs
  /\ tree = LET n == Len(Nest(1))
            IN  [q \in {Ones(k) : k \in 0..(n + 1)} |->
                   IF q = << >> THEN 0 ELSE IF Len(q) > n THEN 1 ELSE Nest(1)[Len(q)]]
  /\ named = [i \in Iters |-> IF \E k \in DOMAIN Nest(1) : Nest(1)[k] = i
                                THEN Ones(CHOOSE k \in DOMAIN Nest(1) : Nest(1)[k] = i)
                                ELSE NoPath]
  /\ leaf = [s \in Stmts |-> IF s = 1 THEN Ones(Len(Nest(1)) + 1) ELSE NoPath]
  /\ shift = [s \in Stmts |-> << >>]
  /\ mode = "idle" /\ cur = 1 /\ delta = << >> /\ level = 1
  /\ inode = << >> /\ inext = NoPath /\ path = << >>
  /\ skips = {} /\ todo = {} /\ who = 0

(* Steps 1 to 7 for the next computation.                                  *)
Start ==
  /\ mode = "idle" /\ cur < Len(prog)
  /\ cur' = cur + 1
  /\ delta' = ShiftOf(cur + 1)
  /\ skips' = SkipList(cur + 1)
  /\ mode' = "seek"
  /\ level' = 1 /\ inode' = << >> /\ inext' = NoPath /\ path' = << >>
  /\ todo' = {} /\ who' = 0
  /\ UNCHANGED << prog, tree, named, leaf, shift >>

(* Step 8: the next loop of the schedule is looked for below the last one. *)
Seek ==
  /\ mode = "seek" /\ level <= Len(Nest(cur))
  /\ inext' = Find(inode, Nest(cur)[level], skips)
  /\ path' = Extend(path, inode, inext')
  /\ todo' = Producers(cur)
  /\ mode' = "check"
  /\ UNCHANGED << prog, tree, named, leaf, shift, cur, delta, level, inode, skips, who >>

(* The producers are checked one by one, in any order (a hash map).        *)
Check(p) ==
  /\ mode = "check" /\ who = 0 /\ p \in todo
  /\ who' = p
  /\ todo' = todo \ {p}
  /\ UNCHANGED << prog, tree, named, leaf, shift,
                  mode, cur, delta, level, inode, inext, path, skips >>

(* Mutant: the loop of the producer itself is passed over, too.           *)
TooEarly_OrSame ==
  /\ inext # NoPath
  /\ level <= Len(ProducerPath(who))
  /\ path[level] <= ProducerPath(who)[level]

(* Mutant: producers that are no deeper than this loop do not count.      *)
TooEarly_Deeper ==
  /\ inext # NoPath
  /\ level < Len(ProducerPath(who))
  /\ path[level] < ProducerPath(who)[level]

(* The loop comes before the producer's.                                   *)
TooEarly ==
  /\ inext # NoPath
  /\ level <= Len(ProducerPath(who))
  /\ path[level] < ProducerPath(who)[level]

(* Mutant: the loop is not added to the skip list.                        *)
SkipLoop_Forgets ==
  /\ mode = "check" /\ who # 0 /\ TooEarly
  /\ inext' = Find(inode, Nest(cur)[level], skips)
  /\ path' = Extend(SubSeq(path, 1, level - 1), inode, inext')
  /\ UNCHANGED << prog, tree, named, leaf, shift,
                  mode, cur, delta, level, inode, skips, todo, who >>

(* ... so it is skipped, and the next one found.                           *)
SkipLoop ==
  /\ mode = "check" /\ who # 0 /\ TooEarly
  /\ skips' = skips \union {inext}
  /\ inext' = Find(inode, Nest(cur)[level], skips')
  /\ path' = Extend(SubSeq(path, 1, level - 1), inode, inext')
  /\ UNCHANGED << prog, tree, named, leaf, shift,
                  mode, cur, delta, level, inode, todo, who >>

(* The last statement in the loop has another shift two loops further out.  *)
SiblingClash ==
  /\ inext # NoPath /\ level > 2 /\ delta # << >>
  /\ \E s \in 2..(cur - 1) :
       /\ leaf[s] = Append(inext, Cardinality(Kids(inext)))
       /\ shift[s] # << >>
       /\ shift[s][level - 2] \notin {0, delta[level - 2]}

(* Whether the loop further out is shifted.  shifts[j - 1] is read past the *)
(* end if computation 1 or a producer has a shorter tuple: either.          *)
OuterShifted == IF level - 1 \in DOMAIN delta THEN {delta[level - 1] # 0} ELSE BOOLEAN

Checked ==
  /\ mode = "check" /\ who # 0 /\ ~ TooEarly
  /\ \E outer \in OuterShifted :
       inext' = IF outer /\ SiblingClash THEN NoPath ELSE inext
  /\ who' = 0
  /\ UNCHANGED << prog, tree, named, leaf, shift,
                  mode, cur, delta, level, inode, path, skips, todo >>

Descended == mode = "check" /\ who = 0 /\ todo = {}

(* Mutant: the same level is looked for below the loop.                   *)
UseLoop_SameLevel ==
  /\ Descended /\ inext # NoPath
  /\ inode' = inext
  /\ mode' = "seek"
  /\ UNCHANGED << prog, tree, named, leaf, shift, cur, delta, level, inext, path, skips, todo, who >>

UseLoop ==
  /\ Descended /\ inext # NoPath
  /\ inode' = inext
  /\ level' = level + 1
  /\ mode' = "seek"
  /\ UNCHANGED << prog, tree, named, leaf, shift, cur, delta, inext, path, skips, todo, who >>

NewLoop ==
  /\ Descended /\ inext = NoPath
  /\ LET i == Nest(cur)[level]
         q == NewKid(inode)
     IN  /\ tree' = [r \in DOMAIN tree \union {q} |-> IF r = q THEN i ELSE tree[r]]
         /\ named' = [named EXCEPT ![i] = IF @ = NoPath THEN q ELSE @]
         /\ inode' = q
  /\ level' = level + 1
  /\ mode' = "seek"
  /\ UNCHANGED << prog, leaf, shift, cur, delta, inext, path, skips, todo, who >>

(* Steps 9 and 10: the leaf, and its shift if the shifts have a sum.       *)
InsertLeaf ==
  /\ mode = "seek" /\ level > Len(Nest(cur))
  /\ LET q == NewKid(inode)
     IN  /\ tree' = [r \in DOMAIN tree \union {q} |-> IF r = q THEN cur ELSE tree[r]]
         /\ leaf' = [leaf EXCEPT ![cur] = q]
  /\ shift' = [shift EXCEPT ![cur] = IF SumOf(delta) # 0 THEN delta ELSE << >>]
  /\ mode' = "idle"
  /\ UNCHANGED << prog, named, cur, delta, level, inode, inext, path, skips, todo, who >>

(* All computations are fused.                                             *)
Fused == mode = "idle" /\ cur = Len(prog) /\ UNCHANGED vars

Next ==
  \/ Start
  \/ Seek
  \/ \E p \in Stmts : Check(p)
  \/ SkipLoop
  \/ Checked
  \/ UseLoop
  \/ NewLoop
  \/ InsertLeaf
  \/ Fused

Spec == Init /\ [][Next]_vars

-----------------------------------------------------------------------------
(* ScheduleVisitor.                                                        *)

Placed == {s \in Stmts : leaf[s] # NoPath}

(* The loops around a leaf, outermost first.                               *)
LoopsOf(s) == [k \in 1..(Len(leaf[s]) - 1) |-> tree[SubSeq(leaf[s], 1, k)]]

(* applyShift: the n-th loop of a statement is moved by its n-th shift.    *)
Moved(s, n) == IF n \in DOMAIN shift[s] THEN shift[s][n] ELSE 0

(* When a statement runs at point u: positions alternate with iterators.   *)
Time(s, u) ==
  [k \in 1..(2 * Len(leaf[s]) - 1) |->
     IF k % 2 = 1 THEN leaf[s][(k + 1) \div 2]
     ELSE u[LoopsOf(s)[k \div 2]] + Moved(s, k \div 2)]

Earlier(s, t) ==
  \E k \in 1..Shorter(s, t) : s[k] < t[k] /\ \A m \in 1..(k - 1) : s[m] = t[m]

-----------------------------------------------------------------------------
(* Properties.                                                             *)

(* The iteration space of a statement.                                     *)
Points(s) ==
  {u \in [Range(Nest(s)) -> 0..prog[s].high] :
     \A n \in DOMAIN Nest(s) : prog[s].low[n] <= u[Nest(s)[n]]}

(* Statement c reads at point v, by access r, what was written at u.  It   *)
(* reads all along a dimension that is not one of its loops.               *)
Touches(r, c, u, v) ==
  \A i \in prog[r.of].dims : i \in Range(Nest(c)) => u[i] = v[i] + r.off[i]

(* The nodes make up a tree with a root, whose inner nodes are loops, whose *)
(* leaves are the statements placed so far, and whose children are numbered *)
(* without gaps; updateIterGraph's place in it is a path of nodes.          *)
TypeOK ==
  /\ << >> \in DOMAIN tree /\ tree[<< >>] = 0
  /\ \A q \in DOMAIN tree \ {<< >>} :
       /\ tree[q] \in Iters \union Placed
       /\ Front(q) \in DOMAIN tree
       /\ tree[Front(q)] \in Iters \union {0}
       /\ Last(q) > 1 => Append(Front(q), Last(q) - 1) \in DOMAIN tree
  /\ \A s \in Placed : tree[leaf[s]] = s
  /\ mode \in {"idle", "seek", "check"} /\ cur \in Stmts
  /\ level \in 1..(Len(Nest(cur)) + 1)
  /\ inode \in DOMAIN tree
  /\ inext \in DOMAIN tree \union {NoPath}
  /\ todo \subseteq Producers(cur) /\ who \in Producers(cur) \union {0}

(* A statement runs in the loops of its own schedule, in their order, and   *)
(* in no other: what fusing it must not change (steps 7 and 8).             *)
OwnLoops == \A s \in Placed : LoopsOf(s) = Nest(s)

(* The code of a statement comes after the code of the ones it reads: the   *)
(* loop it is put into does not end before a producer's begins (step 8).    *)
AfterProducers == \A c \in Placed : \A p \in Producers(c) : Before(leaf[p], leaf[c])

(* Wherever a statement reads an element that an earlier one wrote, it runs *)
(* after it wrote it: the shifts and the places found in the tree keep the  *)
(* flow of values (steps 3 to 6 and 8).                                     *)
FlowKept ==
  mode = "idle" =>
    \A c \in Placed : \A r \in prog[c].reads :
      \A u \in Points(r.of), v \in Points(c) :
        Touches(r, c, u, v) => Earlier(Time(r.of, u), Time(c, v))

(* Loops that a statement shares with a producer index what it reads, and  *)
(* its shift makes up for the distance at which it reads (steps 3 to 6).    *)
Synchronized ==
  \A c \in Placed : \A r \in prog[c].reads :
    \A n \in 1..(Shorter(leaf[c], leaf[r.of]) - 1) :
      SubSeq(leaf[c], 1, n) = SubSeq(leaf[r.of], 1, n) =>
        /\ Nest(c)[n] \in prog[r.of].dims
        /\ r.off[Nest(c)[n]] + Moved(r.of, n) <= Moved(c, n)

(* A loop that could hold a statement is passed over for one further on     *)
(* only if a producer is further on, at that depth: loops are shared        *)
(* wherever the values that are read allow it (step 8).  The third loop,    *)
(* which the rule for siblings may pass over, too, is left aside.           *)
Shared ==
  mode = "idle" =>
    \A c \in Placed \ {1} : \A n \in DOMAIN Nest(c) \ {3} :
      \A k \in 1..(leaf[c][n] - 1) :
      LET q == Append(SubSeq(leaf[c], 1, n - 1), k)
      IN  tree[q] = Nest(c)[n] =>
            \E p \in Producers(c) : n \in DOMAIN leaf[p] /\ leaf[p][n] > k

(* What is left to do: computations, whether one is being placed, loops of *)
(* its schedule, whether the next one is to be looked for, producers to    *)
(* check, whether one is being checked, and nodes not passed over yet.     *)
Left ==
  << Len(prog) - cur,
     IF mode = "idle" THEN 0 ELSE 1,
     Len(Nest(cur)) + 1 - level,
     IF mode = "seek" THEN 1 ELSE 0,
     Cardinality(todo),
     IF who = 0 THEN 0 ELSE 1,
     Cardinality(DOMAIN tree \ skips) >>

(* Every step of updateIterGraph leaves less to do, where what comes first *)
(* in Left counts most: a loop passed over is not found again, and nothing *)
(* that was done for a level is done again (step 8).                       *)
Advances == [][Earlier(Left', Left)]_vars

-----------------------------------------------------------------------------
(* Kinds of programs.                                                      *)

(* The nests have an iterator at one depth only.  (Finding 5 of the README *)
(* needs a program with one at two depths.)                                *)
OneDepth(q) ==
  \A s, t \in DOMAIN q :
    \A m \in DOMAIN q[s].nest, n \in DOMAIN q[t].nest :
      q[s].nest[m] = q[t].nest[n] => m = n

(* Spaces are indexed by all loops they are written in.                    *)
FullyIndexed(q) == \A c \in DOMAIN q : q[c].dims = Range(q[c].nest)

(* Spaces are read where they are written, and all loops of one depth      *)
(* begin at the same value.                                                *)
PointByPoint(q) ==
  \A c \in DOMAIN q :
    /\ \A r \in q[c].reads : \A i \in Iters : r.off[i] = 0
    /\ \A n \in DOMAIN q[c].low \intersect DOMAIN q[1].low : q[c].low[n] = q[1].low[n]

(* Spaces are read where they are written or before.                       *)
ReadsBack(q) == \A c \in DOMAIN q : \A r \in q[c].reads : \A i \in Iters : r.off[i] <= 0

(* The nests are as deep as the first one, and a statement begins no later, *)
(* or by no more than one of its reads reaches back.                       *)
Reaching(q) ==
  \A c \in DOMAIN q :
    /\ Len(q[c].nest) = Len(q[1].nest)
    /\ \A n \in DOMAIN q[c].nest :
         \/ q[c].low[n] <= q[1].low[n]
         \/ \E r \in q[c].reads :
              /\ q[c].nest[n] \in q[r.of].dims
              /\ q[c].low[n] + r.off[q[c].nest[n]] <= q[1].low[n]

(* How much later than the first statement a statement begins.             *)
Rise(q, c, n) == q[c].low[n] - q[1].low[n]

(* Along a loop, statement c reads p where it is written, or at offsets    *)
(* from -w to w.                                                           *)
Window(q, c, p, n, w) ==
  LET O == {r.off[q[c].nest[n]] : r \in {x \in q[c].reads : x.of = p}}
  IN  O = {0} \/ ({-w, w} \subseteq O /\ \A x \in O : -w <= x /\ x <= w)

(* The offsets along the n-th loop.                                        *)
OffsetsAlong(q, n) == UNION {{r.off[q[c].nest[n]] : r \in q[c].reads} : c \in DOMAIN q}

(* Statements of one nest read windows, of one radius for each loop, and   *)
(* begin as soon as all that they read has been written: what comes before *)
(* is where the neighbours of the first points are not there yet.          *)
Windowed(q) ==
  /\ \A c \in DOMAIN q : q[c].nest = q[1].nest
  /\ \A n \in DOMAIN q[1].nest :
       /\ \E w \in {1} \union OffsetsAlong(q, n) :
            /\ w >= 1
            /\ \A c \in DOMAIN q : \A r \in q[c].reads : Window(q, c, r.of, n, w)
       /\ \A c \in DOMAIN q :
            /\ Rise(q, c, n) >= 0
            /\ \A r \in q[c].reads : Rise(q, c, n) >= Rise(q, r.of, n) - r.off[q[c].nest[n]]
            /\ \/ Rise(q, c, n) = 0
               \/ \E r \in q[c].reads : Rise(q, c, n) = Rise(q, r.of, n) - r.off[q[c].nest[n]]

(* The programs for which steps 3 to 6 are proved to shift loops by enough. *)
(* (Finding 4 of the README has one of forward differences.)               *)
Regular(q) ==
  /\ FullyIndexed(q)
  /\ PointByPoint(q) \/ (ReadsBack(q) /\ Reaching(q)) \/ Windowed(q)
=============================================================================
