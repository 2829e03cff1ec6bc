-------------------------- MODULE DataReduceProofs --------------------------
(***************************************************************************)
(* What contraction keeps, for every sequence of computations.             *)
(***************************************************************************)
EXTENDS DataReduce, FlowProofs

(* Contraction runs after fusion and leaves its results alone: everything  *)
(* proved of updateIterGraph holds with the visitor behind it, too.        *)
THEOREM ReduceAfterFusion == ReduceSpec => Spec
<1>1. ReduceInit => Init
  BY DEF ReduceInit
<1>2. [ReduceNext]_reduceVars => [Next]_vars
  BY DEF ReduceNext, Reduce, reduceVars
<1>3. QED
  BY <1>1, <1>2, PTL DEF ReduceSpec, Spec

-----------------------------------------------------------------------------
(* What is contracted, and to what.                                        *)

ReduceInv ==
  space # 0 =>
    /\ mode = "idle" /\ cur = Len(prog) /\ space \in Stmts
    /\ \/ prog[space].dims = {} /\ kept = {}
       \/ \E t \in MaxTuples(space) : \E first \in prog[space].dims :
            kept = Contracted(space, t, first)

LEMMA SameProgram ==
  ASSUME prog' = prog
  PROVE  /\ Stmts' = Stmts
         /\ \A s : MaxTuples(s)' = MaxTuples(s)
         /\ \A s, t, first : Contracted(s, t, first)' = Contracted(s, t, first)
<1>1. Stmts' = Stmts
  BY DEF Stmts
<1>2. ASSUME NEW s
      PROVE  MaxTuples(s)' = MaxTuples(s)
  BY DEF MaxTuples, AbsMax, AccessOffsets, Stmts
<1>3. ASSUME NEW s, NEW t, NEW first
      PROVE  Contracted(s, t, first)' = Contracted(s, t, first)
  BY DEF Contracted
<1>4. QED
  BY <1>1, <1>2, <1>3

LEMMA ReduceInvariant == ReduceSpec => []ReduceInv
<1>1. ReduceInit => ReduceInv
  BY DEF ReduceInit, ReduceInv
<1>2. BaseInv /\ ReduceInv /\ [ReduceNext]_reduceVars => ReduceInv'
  <2> SUFFICES ASSUME BaseInv, ReduceInv, [ReduceNext]_reduceVars
               PROVE  ReduceInv'
    OBVIOUS
  <2>1. prog' = prog
    BY DEF ReduceNext, Reduce, reduceVars, vars, Next, Start, Seek, Check, SkipLoop, Checked,
           UseLoop, NewLoop, InsertLeaf, Fused
  <2>2. ASSUME NEW s \in Stmts, Reduce(s)
        PROVE  ReduceInv'
    <3>1. /\ mode' = "idle" /\ cur' = Len(prog') /\ space' = s
          /\ \E t \in MaxTuples(s) :
               IF prog[s].dims = {} THEN kept' = {}
               ELSE \E first \in prog[s].dims : kept' = Contracted(s, t, first)
      BY <2>2 DEF Reduce, vars, place
    <3>2. \/ prog[s].dims = {} /\ kept' = {}
          \/ \E t \in MaxTuples(s) : \E first \in prog[s].dims : kept' = Contracted(s, t, first)
      BY <3>1
    <3>3. QED
      BY <2>1, <3>1, <3>2, SameProgram DEF ReduceInv
  <2>3. ASSUME [Next]_vars, space' = space, kept' = kept
        PROVE  ReduceInv'
    <3>1. ASSUME space # 0
          PROVE  mode' = mode /\ cur' = cur
      <4>1. mode = "idle" /\ cur = Len(prog) /\ Len(prog) \in Nat
        BY <3>1, ProgramFacts DEF ReduceInv, BaseInv, ControlInv
      <4>2. QED
        BY <2>3, <4>1 DEF Next, Start, Seek, Check, SkipLoop, Checked, UseLoop, NewLoop,
           Descended, InsertLeaf, Fused, vars, place
    <3>2. QED
      BY <2>1, <2>3, <3>1, SameProgram DEF ReduceInv
  <2>4. QED
    BY <2>2, <2>3 DEF ReduceNext, reduceVars
<1>3. QED
  BY <1>1, <1>2, BaseInvariant, ReduceAfterFusion, PTL DEF ReduceSpec

(* A read reaches nowhere along an iterator that the contraction drops.    *)
LEMMA DroppedAreStill ==
  ASSUME prog \in Programs, ReduceInv, NoCancelling, space # 0,
         NEW c \in Stmts, NEW r \in prog[c].reads, r.of = space,
         NEW i \in prog[space].dims, i \notin kept
  PROVE  r.off[i] = 0
<1>1. PICK t \in MaxTuples(space) : \E first \in prog[space].dims :
        kept = Contracted(space, t, first)
  BY DEF ReduceInv
<1>2. t[i] = 0
  <2>1. CASE SumOf(t) = 0
    <3>1. DOMAIN t = prog[space].dims
      BY DEF MaxTuples
    <3>2. QED
      BY <2>1, <3>1 DEF NoCancelling
  <2>2. CASE SumOf(t) # 0
    BY <1>1, <2>2 DEF Contracted
  <2>3. QED
    BY <2>1, <2>2
<1>3. 0 \in AbsMax(space, i)
  BY <1>2 DEF MaxTuples
<1>4. r.off[i] \in AccessOffsets(space, i)
  BY DEF AccessOffsets
<1>5. Magnitude(r.off[i]) <= Magnitude(0)
  BY <1>3, <1>4 DEF AbsMax
<1>6. r.off[i] \in Int
  <2>1. space \in Stmts /\ i \in Iters
    <3>1. space \in Stmts
      BY DEF ReduceInv
    <3>2. QED
      BY <3>1, ProgramFacts DEF Statement
  <2>2. QED
    BY <2>1, StatementFacts
<1>7. QED
  BY <1>5, <1>6 DEF Magnitude

-----------------------------------------------------------------------------
(* Times, once more.                                                       *)

LEMMA Alternates ==
  ASSUME NEW k \in Nat \ {0}, NEW j \in 1..(2 * k - 1)
  PROVE  \/ \E m \in 1..k : j = 2 * m - 1
         \/ \E m \in 1..(k - 1) : j = 2 * m
<1>1. CASE j % 2 = 0
  <2>1. j = 2 * (j \div 2) /\ j \div 2 \in 1..(k - 1)
    BY <1>1
  <2>2. QED
    BY <2>1
<1>2. CASE j % 2 # 0
  <2>1. j = 2 * (j \div 2 + 1) - 1 /\ j \div 2 + 1 \in 1..k
    BY <1>2
  <2>2. QED
    BY <2>1
<1>3. QED
  BY <1>1, <1>2

LEMMA LeafIsDeep ==
  ASSUME BaseInv, NEW s \in Stmts, IsPlaced(s)
  PROVE  Len(leaf[s]) \in Nat \ {0}
<1>1. leaf[s] \in DOMAIN tree /\ tree[leaf[s]] = s
  BY DEF BaseInv, LeafInv
<1>2. s # 0
  BY ProgramFacts DEF BaseInv, ControlInv
<1>3. leaf[s] # << >>
  BY <1>1, <1>2 DEF BaseInv, TreeInv, Branches
<1>4. leaf[s] \in Seq(Nat)
  BY <1>1, NodeFacts
<1>5. QED
  BY <1>3, <1>4

LEMMA TimeIsInt ==
  ASSUME BaseInv, ShiftTyped, NEW s \in Stmts, leaf[s] \in DOMAIN tree, LoopsOf(s) = Nest(s),
         NEW u \in Points(s), NEW j \in 1..(2 * Len(leaf[s]) - 1)
  PROVE  Time(s, u)[j] \in Int
<1>1. /\ prog \in Programs /\ Len(leaf[s]) \in Nat
      /\ \A n \in 1..Len(leaf[s]) : leaf[s][n] \in Nat
  BY NodeFacts DEF BaseInv, ControlInv
<1>2. PICK k \in Nat \ {0} : k = Len(leaf[s])
  BY <1>1
<1>3. j \in 1..(2 * k - 1) /\ \A n \in 1..k : leaf[s][n] \in Nat
  BY <1>1, <1>2
<1>4. /\ \A m \in 1..k : Time(s, u)[2 * m - 1] = leaf[s][m]
      /\ \A m \in 1..(k - 1) : Time(s, u)[2 * m] = u[LoopsOf(s)[m]] + Moved(s, m)
  BY <1>2, TimeFacts
<1>5. ASSUME NEW m \in 1..(k - 1)
      PROVE  Time(s, u)[2 * m] \in Int
  <2>1. m \in DOMAIN LoopsOf(s)
    BY <1>2, <1>5 DEF LoopsOf
  <2>2. u[Nest(s)[m]] \in Int
    BY <1>1, <2>1, PointIsInt
  <2>3. QED
    BY <1>4, <2>2, MovedIsInt
<1>6. CASE \E m \in 1..k : j = 2 * m - 1
  BY <1>3, <1>4, <1>6
<1>7. CASE \E m \in 1..(k - 1) : j = 2 * m
  BY <1>5, <1>7
<1>8. QED
  BY <1>3, <1>6, <1>7, Alternates

(* Nothing is between two times that agree until the first goes ahead.     *)
LEMMA NothingBetween ==
  ASSUME NEW a, NEW b, NEW e, Len(b) \in Nat, Len(e) \in Nat, NEW k \in Nat \ {0},
         \A m \in 1..k : a[m] \in Int /\ b[m] \in Int /\ a[m] = e[m],
         a[k] < b[k], \A m \in 1..(k - 1) : a[m] = b[m]
  PROVE  ~ Earlier(b, e)
<1> SUFFICES ASSUME Earlier(b, e)
             PROVE  FALSE
  OBVIOUS
<1>1. PICK j \in 1..Shorter(b, e) : b[j] < e[j] /\ \A m \in 1..(j - 1) : b[m] = e[m]
  BY DEF Earlier
<1>2. j \in Nat \ {0}
  BY <1>1 DEF Shorter
<1>3. k \in 1..k /\ a[k] \in Int /\ b[k] \in Int /\ a[k] = e[k]
  OBVIOUS
<1>4. CASE j < k
  <2>1. j \in 1..k /\ j \in 1..(k - 1)
    BY <1>2, <1>4
  <2>2. a[j] = b[j] /\ a[j] = e[j] /\ b[j] \in Int
    BY <2>1
  <2>3. QED
    BY <1>1, <2>2
<1>5. CASE j = k
  BY <1>1, <1>3, <1>5
<1>6. CASE k < j
  <2>1. k \in 1..(j - 1)
    BY <1>2, <1>6
  <2>2. b[k] = e[k]
    BY <1>1, <2>1
  <2>3. QED
    BY <1>3, <2>2
<1>7. QED
  BY <1>2, <1>4, <1>5, <1>6

-----------------------------------------------------------------------------
(* The loops that are dropped are the outer ones.                          *)
LEMMA DroppedOuter ==
  ASSUME prog \in Programs, space \in Stmts, NEW c, InStep(c), NEW m \in DroppedLoops
  PROVE  \A n \in 1..m : n \in DroppedLoops
<1> DEFINE D == DroppedLoops
           d == Len(Nest(space))
<1>1. d \in Nat /\ DOMAIN Nest(space) = 1..d /\ D \in SUBSET (1..d) /\ m \in D
  BY StatementFacts DEF DroppedLoops
<1>2. \A n \in (1..d) \ D : n > Cardinality(D)
  BY <1>1 DEF InStep
<1> HIDE DEF D, d
<1>3. IsFiniteSet(D) /\ Cardinality(D) \in Nat /\ Cardinality(D) <= d
  <2>1. IsFiniteSet(1..d) /\ Cardinality(1..d) = d
    BY <1>1, FS_Interval
  <2>2. IsFiniteSet(D) /\ Cardinality(D) <= Cardinality(1..d)
    BY <1>1, <2>1, FS_Subset
  <2>3. Cardinality(D) \in Nat
    BY <2>2, FS_CardinalityType
  <2>4. QED
    BY <2>1, <2>2, <2>3
<1>4. PICK h \in Nat : h = Cardinality(D) /\ h <= d
  BY <1>3
<1>5. 1..h \in SUBSET D
  BY <1>1, <1>2, <1>4
<1>6. Cardinality(1..h) = h
  BY <1>4, FS_Interval
<1>7. 1..h = D
  BY <1>3, <1>4, <1>5, <1>6, FS_Subset
<1>8. \A n \in 1..m : n \in D
  BY <1>1, <1>7
<1>9. QED
  BY <1>8 DEF D

(* Loops that a reader shares with the writer, and that are dropped: what  *)
(* it reads was written in the same turn.                                  *)
LEMMA SameTurn ==
  ASSUME FullyIndexed(prog), BaseInv, ReduceInv, NoCancelling, space # 0,
         NEW c \in Stmts, NEW r \in prog[c].reads, r.of = space, InStep(c),
         LoopsOf(c) = Nest(c), LoopsOf(space) = Nest(space),
         leaf[c] \in DOMAIN tree, leaf[space] \in DOMAIN tree,
         NEW u \in Points(space), NEW v \in Points(c), Touches(r, c, u, v),
         NEW n \in DroppedLoops
  PROVE  /\ n \in Nat \ {0} /\ n < Len(leaf[c]) /\ n < Len(leaf[space])
         /\ leaf[c][n] = leaf[space][n]
         /\ u[LoopsOf(space)[n]] + Moved(space, n) = v[LoopsOf(c)[n]] + Moved(c, n)
<1>1. prog \in Programs /\ space \in Stmts
  BY DEF BaseInv, ControlInv, ReduceInv
<1>2. PICK P, C \in Paths : P = leaf[space] /\ C = leaf[c] /\ Len(P) \in Nat /\ Len(C) \in Nat
  BY <1>1, NodeFacts
<1>3. /\ n \in DOMAIN Nest(space) /\ Nest(space)[n] \notin kept
      /\ n < Len(C) /\ SubSeq(C, 1, n) = SubSeq(P, 1, n) /\ Moved(c, n) = Moved(space, n)
  BY <1>2 DEF InStep, DroppedLoops
<1>4. DOMAIN Nest(space) = 1..(Len(P) - 1)
  BY <1>2 DEF LoopsOf
<1>5. n \in Nat \ {0} /\ n < Len(P) /\ n \in 0..Len(P) /\ n \in 0..Len(C) /\ n \in 1..(Len(C) - 1)
  BY <1>2, <1>3, <1>4
<1>6. C[n] = P[n]
  <2>1. SubSeq(P, 1, n)[n] = P[n] /\ SubSeq(C, 1, n)[n] = C[n]
    BY <1>5, PrefixOfPath
  <2>2. QED
    BY <1>3, <2>1
<1>7. LoopsOf(c)[n] = LoopsOf(space)[n] /\ n \in DOMAIN LoopsOf(c)
  BY <1>2, <1>3, <1>4, <1>5 DEF LoopsOf
<1>8. PICK i : i = Nest(space)[n]
  OBVIOUS
<1>9. i \in prog[space].dims /\ i \notin kept /\ i \in Range(Nest(c)) /\ i \in Iters
  <2>1. i \in Range(Nest(space)) /\ i \in Range(Nest(c))
    BY <1>3, <1>7, <1>8 DEF Range
  <2>2. prog[space].dims = Range(Nest(space))
    BY <1>1 DEF FullyIndexed, Stmts, Nest
  <2>3. i \in Iters
    BY <1>1, <1>3, <1>8, StatementFacts
  <2>4. QED
    BY <1>3, <1>8, <2>1, <2>2, <2>3
<1>10. r.off[i] = 0
  BY <1>1, <1>9, DroppedAreStill
<1>11. u[i] = v[i] + r.off[i]
  BY <1>9 DEF Touches
<1>12. v[i] \in Int
  BY <1>1, <1>3, <1>7, <1>8, PointIsInt
<1>13. u[i] = v[i]
  BY <1>10, <1>11, <1>12
<1>14. QED
  BY <1>2, <1>3, <1>5, <1>6, <1>7, <1>8, <1>13

LEMMA ContractedInStep ==
  ASSUME FullyIndexed(prog), BaseInv, ShiftTyped, ReduceInv, OwnLoops
  PROVE  InStepContractionSafe
<1> SUFFICES ASSUME space # 0, NoCancelling,
                    NEW c \in Stmts, NEW r \in prog[c].reads, r.of = space, InStep(c),
                    NEW v \in Points(c), NEW u \in Points(space), Touches(r, c, u, v),
                    NEW w \in Points(space) \ {u}, SameElement(u, w),
                    Earlier(Time(space, u), Time(space, w))
             PROVE  ~ Earlier(Time(space, w), Time(c, v))
  BY DEF InStepContractionSafe, Unharmed
<1>1. prog \in Programs /\ space \in Stmts /\ mode = "idle" /\ cur = Len(prog)
  BY DEF BaseInv, ControlInv, ReduceInv
<1>2. IsPlaced(c) /\ IsPlaced(space)
  BY <1>1, ProgramFacts DEF IsPlaced
<1>3. /\ c \in Placed /\ space \in Placed
      /\ leaf[c] \in DOMAIN tree /\ leaf[space] \in DOMAIN tree
  BY <1>1, <1>2, PlacedFacts DEF BaseInv, LeafInv
<1>4. LoopsOf(c) = Nest(c) /\ LoopsOf(space) = Nest(space)
  BY <1>3 DEF OwnLoops
<1> DEFINE a == Time(space, u)
           b == Time(space, w)
           e == Time(c, v)
<1>5. PICK k \in 1..Shorter(a, b) : a[k] < b[k] /\ \A m \in 1..(k - 1) : a[m] = b[m]
  BY DEF Earlier
<1>6. PICK x, y \in Nat \ {0} : x = Len(leaf[space]) /\ y = Len(leaf[c])
  BY <1>1, <1>2, LeafIsDeep
<1>7. /\ Len(a) = 2 * x - 1
      /\ \A m \in 1..x : a[2 * m - 1] = leaf[space][m]
      /\ \A m \in 1..(x - 1) : a[2 * m] = u[LoopsOf(space)[m]] + Moved(space, m)
  BY <1>6, TimeFacts
<1>8. /\ Len(b) = 2 * x - 1
      /\ \A m \in 1..x : b[2 * m - 1] = leaf[space][m]
      /\ \A m \in 1..(x - 1) : b[2 * m] = w[LoopsOf(space)[m]] + Moved(space, m)
  BY <1>6, TimeFacts
<1>9. /\ Len(e) = 2 * y - 1
      /\ \A m \in 1..y : e[2 * m - 1] = leaf[c][m]
      /\ \A m \in 1..(y - 1) : e[2 * m] = v[LoopsOf(c)[m]] + Moved(c, m)
  BY <1>6, TimeFacts
<1>10. \A j \in 1..(2 * x - 1) : a[j] \in Int /\ b[j] \in Int
  BY <1>1, <1>3, <1>4, <1>6, TimeIsInt
<1> HIDE DEF a, b, e
<1>11. k \in 1..(2 * x - 1) /\ k \in Nat \ {0}
  BY <1>6, <1>7, <1>8 DEF Shorter
<1>12. PICK m \in 1..(x - 1) : k = 2 * m
  <2>1. ASSUME NEW m \in 1..x, k = 2 * m - 1
        PROVE  FALSE
    <3>1. a[k] = b[k] /\ a[k] \in Int
      BY <1>7, <1>8, <1>10, <1>11, <2>1
    <3>2. QED
      BY <1>5, <3>1
  <2>2. QED
    BY <1>6, <1>11, <2>1, Alternates
<1>13. m \in DroppedLoops
  <2>1. m \in DOMAIN Nest(space) /\ LoopsOf(space)[m] = Nest(space)[m]
    BY <1>4, <1>6, <1>12 DEF LoopsOf
  <2>2. a[k] = u[Nest(space)[m]] + Moved(space, m) /\ b[k] = w[Nest(space)[m]] + Moved(space, m)
    BY <1>7, <1>8, <1>12, <2>1
  <2>3. a[k] # b[k]
    BY <1>5, <1>10, <1>11
  <2>4. Nest(space)[m] \notin kept
    BY <2>2, <2>3 DEF SameElement
  <2>5. QED
    BY <2>1, <2>4 DEF DroppedLoops
<1>14. \A n \in 1..m : /\ n < y /\ n < x
                       /\ leaf[c][n] = leaf[space][n]
                       /\ u[LoopsOf(space)[n]] + Moved(space, n) = v[LoopsOf(c)[n]] + Moved(c, n)
  <2> TAKE n \in 1..m
  <2>1. n \in DroppedLoops
    BY <1>1, <1>13, DroppedOuter
  <2>2. QED
    BY <1>3, <1>4, <1>6, <2>1, SameTurn
<1>15. ASSUME NEW j \in 1..k
       PROVE  a[j] = e[j]
  <2>1. m \in Nat \ {0} /\ m < x
    BY <1>12
  <2>2. CASE \E n \in 1..x : j = 2 * n - 1
    <3>1. PICK n \in 1..x : j = 2 * n - 1
      BY <2>2
    <3>2. n \in 1..m
      <4>1. n \in Nat \ {0} /\ j <= 2 * m
        BY <1>12, <1>15, <2>1, <3>1
      <4>2. QED
        BY <2>1, <3>1, <4>1
    <3>3. n \in 1..y
      BY <1>6, <1>14, <2>1, <3>2
    <3>4. QED
      BY <1>7, <1>9, <1>14, <3>1, <3>2, <3>3
  <2>3. CASE \E n \in 1..(x - 1) : j = 2 * n
    <3>1. PICK n \in 1..(x - 1) : j = 2 * n
      BY <2>3
    <3>2. n \in 1..m
      <4>1. n \in Nat \ {0} /\ j <= 2 * m
        BY <1>12, <1>15, <2>1, <3>1
      <4>2. QED
        BY <2>1, <3>1, <4>1
    <3>3. n \in 1..(y - 1)
      BY <1>6, <1>14, <2>1, <3>2
    <3>4. a[2 * n] = u[LoopsOf(space)[n]] + Moved(space, n)
      BY <1>7, <3>1
    <3>5. e[2 * n] = v[LoopsOf(c)[n]] + Moved(c, n)
      BY <1>9, <3>3
    <3>6. QED
      BY <1>14, <3>1, <3>2, <3>4, <3>5
  <2>4. j \in 1..(2 * x - 1)
    BY <1>11, <1>15
  <2>5. QED
    BY <1>6, <2>2, <2>3, <2>4, Alternates
<1>16. ~ Earlier(b, e)
  <2>1. Len(b) \in Nat /\ Len(e) \in Nat
    BY <1>6, <1>8, <1>9
  <2>2. \A j \in 1..k : a[j] \in Int /\ b[j] \in Int /\ a[j] = e[j]
    BY <1>10, <1>11, <1>15
  <2>3. QED
    BY <1>5, <1>11, <2>1, <2>2, NothingBetween
<1>17. QED
  BY <1>16 DEF b, e

(* Where every space is indexed by the loops it is written in: contraction *)
(* is safe for the readers that run in step with the writer, whatever the  *)
(* sizes of the iteration spaces and whatever updateIterGraph has done.    *)
THEOREM ContractionInStep ==
  ReduceSpec => [](FullyIndexed(prog) /\ OwnLoops => InStepContractionSafe)
<1>1. BaseInv /\ ShiftTyped /\ ReduceInv
      => (FullyIndexed(prog) /\ OwnLoops => InStepContractionSafe)
  BY ContractedInStep
<1>2. QED
  BY <1>1, BaseInvariant, ShiftsAreTyped, ReduceInvariant, ReduceAfterFusion, PTL

(* With iterators that have their depths, without further conditions.      *)
THEOREM ContractionIsSafe ==
  ReduceSpec => [](FullyIndexed(prog) /\ OneDepth(prog) => InStepContractionSafe)
<1>1. QED
  BY ContractionInStep, OwnLoopsKept, ReduceAfterFusion, PTL
=============================================================================
