---------------------------- MODULE FusionProofs ----------------------------
(***************************************************************************)
(* What fusion keeps, for every sequence of computations.                  *)
(***************************************************************************)
EXTENDS FusionLemmas

(* Where updateIterGraph is.                                               *)
ControlInv ==
  /\ prog \in Programs
  /\ mode \in {"idle", "seek", "check"} /\ cur \in Stmts
  /\ mode # "idle" => cur > 1
  /\ level \in 1..(Len(Nest(cur)) + 1)
  /\ mode = "check" => level <= Len(Nest(cur))
  /\ inode \in DOMAIN tree /\ tree[inode] \in Iters \union {0}
  /\ inext \in DOMAIN tree \union {NoPath}
  /\ mode = "check" /\ inext # NoPath =>
       tree[inext] = Nest(cur)[level] /\ IsPrefix(inode, inext)
  /\ todo \subseteq Producers(cur) /\ who \in Producers(cur) \union {0}
  /\ skips \subseteq DOMAIN tree

(* Every statement placed so far has one leaf.                             *)
IsPlaced(s) == s < cur \/ (s = cur /\ mode = "idle")

LeafInv ==
  /\ DOMAIN leaf = Stmts
  /\ \A s \in Stmts : IF IsPlaced(s) THEN leaf[s] \in DOMAIN tree /\ tree[leaf[s]] = s
                      ELSE leaf[s] = NoPath
  /\ \A q \in DOMAIN tree : tree[q] \in Stmts => leaf[tree[q]] = q
  /\ leaf[1] = Ones(Len(Nest(1)) + 1)

(* A name is the name of a loop with that iterator, if there is one.       *)
NamedInv ==
  /\ DOMAIN named = Iters
  /\ \A i \in Iters : IF named[i] = NoPath THEN \A q \in DOMAIN tree : tree[q] # i
                      ELSE named[i] \in DOMAIN tree /\ tree[named[i]] = i

BaseInv == TreeInv /\ ControlInv /\ LeafInv /\ NamedInv

-----------------------------------------------------------------------------
(* The statement that is being placed is as deep as the loops it has used. *)
InLine == Len(inode) = level - 1

(* Its loops are its own.                                                  *)
LoopsInv ==
  \A n \in 1..(level - 1) : tree[SubSeq(inode, 1, n)] = Nest(cur)[n]

(* The path is the one to the node that was found, as long as there is one. *)
PathInv ==
  /\ mode = "check" /\ inext # NoPath => path = inext
  /\ mode = "seek" => path = inode \/ Kids(inode) = {}

(* What comes before producer p at depth n.                                *)
Precedes(q, p, n) == n \in DOMAIN leaf[p] /\ q[n] < leaf[p][n]

(* Loops that could be used are skipped for a producer.                    *)
SkipsInv ==
  \A s \in skips : \A n \in DOMAIN Nest(cur) :
    tree[s] = Nest(cur)[n] => \E p \in Producers(cur) : Precedes(s, p, n)

(* What was found is the first loop below inode that is not skipped.  Only  *)
(* the rule for siblings, at the third loop, gives it up.                  *)
FoundInv ==
  mode = "check" =>
    \A q : Hit(inode, Nest(cur)[level], skips, q) =>
      /\ inext # NoPath => inext[level] <= q[level]
      /\ inext = NoPath => level = 3

(* On the way to q, at depth n, no loop was passed over without need.      *)
NoNeedless(c, q, n) ==
  \A k \in 1..(q[n] - 1) :
    tree[Append(SubSeq(q, 1, n - 1), k)] = Nest(c)[n] =>
      \E p \in Producers(c) : n \in DOMAIN leaf[p] /\ leaf[p][n] > k

SharedInv == \A n \in 1..(level - 1) : n # 3 => NoNeedless(cur, inode, n)

(* r is further on than q where they differ.                               *)
Ahead(q, r) ==
  \E k \in 1..Shorter(q, r) : q[k] < r[k] /\ \A m \in 1..(k - 1) : q[m] = r[m]

(* The producers that have been checked do not come after the loop found.  *)
CheckedInv ==
  mode = "check" /\ inext # NoPath =>
    \A p \in Producers(cur) \ (todo \union {who}) :
      level \in DOMAIN leaf[p] => leaf[p][level] <= inext[level]

(* Producers are behind, or in the same loops.                             *)
AheadInv == \A p \in Producers(cur) : IsPrefix(inode, leaf[p]) \/ Ahead(leaf[p], inode)

(* The loop found last is the one of the last level.                       *)
LastInv ==
  /\ level - 1 <= Len(inode)
  /\ IF level = 1 THEN inode = << >> ELSE tree[inode] = Nest(cur)[level - 1]

PlaceInv ==
  mode # "idle" =>
    /\ LastInv
    /\ InLine => /\ LoopsInv /\ PathInv /\ SkipsInv /\ FoundInv
                 /\ SharedInv /\ CheckedInv /\ AheadInv

(* What this leaves behind for the statements placed so far.               *)
DoneInv ==
  \A c \in Placed \ {1} :
    LoopsOf(c) = Nest(c) =>
      /\ \A n \in DOMAIN Nest(c) : n # 3 => NoNeedless(c, leaf[c], n)
      /\ \A p \in Producers(c) : Ahead(leaf[p], leaf[c])

IInv == BaseInv /\ PlaceInv /\ DoneInv

-----------------------------------------------------------------------------
(* Types.                                                                  *)

LEMMA BaseInit ==
  ASSUME Init
  PROVE  BaseInv
<1> DEFINE n == Len(Nest(1))
<1>1. /\ prog \in Programs
      /\ tree = [q \in {Ones(k) : k \in 0..(n + 1)} |->
                   IF q = << >> THEN 0 ELSE IF Len(q) > n THEN 1 ELSE Nest(1)[Len(q)]]
  BY DEF Init
<1>2. /\ n \in Nat /\ Nest(1) \in Seq(Iters) /\ 1 \in Stmts
      /\ Stmts = 1..Len(prog) /\ Len(prog) \in Nat /\ Iters \intersect Nat = {}
      /\ IsInjective(Nest(1))
  BY <1>1, ProgramFacts, SMTT(30)
<1>3. \A k \in 1..n : Nest(1)[k] \in Iters
  BY <1>2
<1>4. TreeInv
  BY InitTree
<1> HIDE DEF n
<1>5. \A q \in DOMAIN tree : \E k \in 0..(n + 1) :
        /\ q = Ones(k)
        /\ tree[q] = IF k = 0 THEN 0 ELSE IF k > n THEN 1 ELSE Nest(1)[k]
  <2> TAKE q \in DOMAIN tree
  <2>1. PICK k \in 0..(n + 1) : q = Ones(k)
    BY <1>1
  <2>2. k \in Nat
    BY <1>2
  <2>3. Len(q) = k /\ (k = 0 <=> q = << >>)
    BY <2>1, <2>2, OnesFacts
  <2>4. QED
    BY <1>1, <2>1, <2>2, <2>3
<1>6. \A k \in 0..(n + 1) :
        /\ Ones(k) \in DOMAIN tree
        /\ tree[Ones(k)] = IF k = 0 THEN 0 ELSE IF k > n THEN 1 ELSE Nest(1)[k]
  <2> TAKE k \in 0..(n + 1)
  <2>1. Ones(k) \in DOMAIN tree /\ k \in Nat
    BY <1>1, <1>2
  <2>2. Len(Ones(k)) = k /\ (k = 0 <=> Ones(k) = << >>)
    BY <2>1, OnesFacts
  <2>3. QED
    BY <1>1, <2>1, <2>2
<1>7. ControlInv
  <2>1. << >> \in DOMAIN tree /\ tree[<< >>] = 0
    BY <1>4 DEF TreeInv, Branches
  <2>2. /\ mode = "idle" /\ cur = 1 /\ level = 1 /\ inode = << >> /\ inext = NoPath
        /\ skips = {} /\ todo = {} /\ who = 0
    BY DEF Init
  <2>3. level \in 1..(Len(Nest(cur)) + 1)
    BY <1>2, <2>2 DEF n
  <2>4. QED
    BY <1>1, <1>2, <2>1, <2>2, <2>3 DEF ControlInv
<1>8. LeafInv
  <2>1. leaf = [s \in Stmts |-> IF s = 1 THEN Ones(n + 1) ELSE NoPath] /\ mode = "idle" /\ cur = 1
    BY DEF Init, n
  <2>2. Ones(n + 1) \in DOMAIN tree /\ tree[Ones(n + 1)] = 1
    BY <1>2, <1>6
  <2>3. ASSUME NEW q \in DOMAIN tree, tree[q] \in Stmts
        PROVE  leaf[tree[q]] = q
    <3>1. PICK k \in 0..(n + 1) :
            /\ q = Ones(k)
            /\ tree[q] = IF k = 0 THEN 0 ELSE IF k > n THEN 1 ELSE Nest(1)[k]
      BY <1>5
    <3>2. k = n + 1
      BY <1>2, <1>3, <2>3, <3>1
    <3>3. QED
      BY <1>2, <2>1, <3>1, <3>2
  <2>4. \A s \in Stmts : IsPlaced(s) <=> s = 1
    BY <1>2, <2>1 DEF IsPlaced
  <2>5. QED
    BY <1>2, <2>1, <2>2, <2>3, <2>4 DEF LeafInv, n
<1>9. NamedInv
  <2>1. named = [i \in Iters |-> IF \E k \in DOMAIN Nest(1) : Nest(1)[k] = i
                                 THEN Ones(CHOOSE k \in DOMAIN Nest(1) : Nest(1)[k] = i)
                                 ELSE NoPath]
    BY DEF Init
  <2>2. DOMAIN Nest(1) = 1..n
    BY <1>2 DEF n
  <2>3. ASSUME NEW i \in Iters, \E k \in DOMAIN Nest(1) : Nest(1)[k] = i
        PROVE  named[i] \in DOMAIN tree /\ tree[named[i]] = i
    <3> DEFINE k == CHOOSE k \in DOMAIN Nest(1) : Nest(1)[k] = i
    <3>1. k \in 1..n /\ Nest(1)[k] = i
      BY <2>2, <2>3
    <3>2. named[i] = Ones(k)
      BY <2>1, <2>3
    <3> HIDE DEF k
    <3>3. QED
      BY <1>2, <1>6, <3>1, <3>2
  <2>4. ASSUME NEW i \in Iters, ~ \E k \in DOMAIN Nest(1) : Nest(1)[k] = i,
               NEW q \in DOMAIN tree, tree[q] = i
        PROVE  FALSE
    <3>1. PICK k \in 0..(n + 1) :
            tree[q] = IF k = 0 THEN 0 ELSE IF k > n THEN 1 ELSE Nest(1)[k]
      BY <1>5
    <3>2. k \in 1..n
      BY <1>2, <2>4, <3>1
    <3>3. QED
      BY <1>2, <2>2, <2>4, <3>1, <3>2
  <2>5. ASSUME NEW i \in Iters, named[i] = NoPath
        PROVE  ~ \E k \in DOMAIN Nest(1) : Nest(1)[k] = i
    BY <1>4, <2>3, <2>5, NoPathIsNoNode DEF TreeInv, Branches
  <2>6. ASSUME NEW i \in Iters, named[i] # NoPath
        PROVE  \E k \in DOMAIN Nest(1) : Nest(1)[k] = i
    BY <2>1, <2>6
  <2>7. QED
    BY <2>1, <2>3, <2>4, <2>5, <2>6 DEF NamedInv
<1>10. QED
  BY <1>4, <1>7, <1>8, <1>9 DEF BaseInv

(* The invariant says what TypeOK does, and more.                          *)
LEMMA BaseIsTyped ==
  ASSUME BaseInv
  PROVE  TypeOK
<1> USE DEF BaseInv
<1>1. << >> \in DOMAIN tree /\ tree[<< >>] = 0 /\ DOMAIN tree \subseteq Paths
  BY DEF TreeInv, Branches
<1>2. ASSUME NEW q \in DOMAIN tree \ {<< >>}
      PROVE  /\ tree[q] \in Iters \union Placed
             /\ Front(q) \in DOMAIN tree
             /\ tree[Front(q)] \in Iters \union {0}
             /\ Last(q) > 1 => Append(Front(q), Last(q) - 1) \in DOMAIN tree
  <2>1. q \in Paths /\ Len(q) - 1 \in 0..(Len(q) - 1) /\ Len(q) \in Nat \ {0}
    BY <1>1 DEF Paths
  <2>2. Front(q) \in DOMAIN tree /\ tree[Front(q)] \in Iters \union {0}
    BY <2>1 DEF Front, TreeInv, Branches
  <2>3. tree[q] \in Iters \union Placed
    <3>1. ASSUME tree[q] \in Stmts
          PROVE  tree[q] \in Placed
      <4>1. leaf[tree[q]] = q
        BY <3>1 DEF LeafInv
      <4>2. q # NoPath
        BY <2>1, NoPathIsNoNode
      <4>3. QED
        BY <3>1, <4>1, <4>2 DEF Placed
    <3>2. QED
      BY <3>1 DEF TreeInv, Labelled
  <2>4. ASSUME Last(q) > 1
        PROVE  Append(Front(q), Last(q) - 1) \in DOMAIN tree
    <3>1. PICK n \in Nat : Kids(Front(q)) = {Append(Front(q), k) : k \in 1..n}
      BY <2>2 DEF TreeInv, Gapless
    <3>2. Front(q) \in Paths /\ Len(Front(q)) = Len(q) - 1 /\ Front(q) \in Seq(Nat \ {0})
      <4>1. Len(q) - 1 \in 0..Len(q)
        BY <2>1
      <4>2. QED
        BY <2>1, <4>1, PrefixOfPath DEF Front, Paths
    <3>3. IsPrefix(Front(q), q)
      BY <2>1, <3>2, SubSeqFull DEF IsPrefix, Front
    <3>4. q \in Kids(Front(q))
      BY <2>1, <3>2, <3>3 DEF Kids
    <3>5. PICK k \in 1..n : q = Append(Front(q), k)
      BY <3>1, <3>4
    <3>6. Last(q) = k
      <4>1. Append(Front(q), k)[Len(Front(q)) + 1] = k
        BY <3>2, KidIsAppend
      <4>2. Len(Front(q)) + 1 = Len(q)
        BY <2>1, <3>2
      <4>3. QED
        BY <3>5, <4>1, <4>2 DEF Last
    <3>7. Last(q) - 1 \in 1..n
      BY <2>4, <3>6
    <3>8. Append(Front(q), Last(q) - 1) \in Kids(Front(q))
      BY <3>1, <3>7
    <3>9. QED
      BY <3>8 DEF Kids
  <2>5. QED
    BY <2>2, <2>3, <2>4
<1>3. \A s \in Placed : tree[leaf[s]] = s
  BY DEF LeafInv, Placed
<1>4. QED
  BY <1>1, <1>2, <1>3 DEF TypeOK, ControlInv

-----------------------------------------------------------------------------
(* The steps keep it.                                                      *)

(* What is skipped from the start are nodes.                               *)
LEMMA SkipListNodes ==
  ASSUME BaseInv, NEW c \in Stmts
  PROVE  SkipList(c) \subseteq {q \in DOMAIN tree : tree[q] \in Iters \ Range(Nest(c))}
<1>1. ASSUME NEW q \in DOMAIN tree, IsLoop(q), tree[q] \notin Range(Nest(c))
      PROVE  named[tree[q]] \in DOMAIN tree /\ tree[named[tree[q]]] = tree[q]
  BY <1>1 DEF BaseInv, NamedInv, IsLoop
<1>2. QED
  BY <1>1 DEF SkipList, IsLoop

LEMMA BaseStart ==
  ASSUME BaseInv, Start
  PROVE  BaseInv'
<1> USE DEF BaseInv
<1>1. /\ mode = "idle" /\ cur < Len(prog) /\ cur' = cur + 1
      /\ skips' = SkipList(cur + 1) /\ mode' = "seek"
      /\ level' = 1 /\ inode' = << >> /\ inext' = NoPath /\ todo' = {} /\ who' = 0
      /\ prog' = prog /\ tree' = tree /\ named' = named /\ leaf' = leaf
  BY DEF Start
<1>2. /\ Stmts = 1..Len(prog) /\ Len(prog) \in Nat /\ cur \in Stmts
      /\ \A c \in Stmts : Nest(c) \in Seq(Iters)
  BY ProgramFacts DEF ControlInv
<1>3. TreeInv'
  BY <1>1, ZenonT(30) DEF TreeInv, Branches, Labelled, Gapless, Stmts, Kids
<1>4. ControlInv'
  <2>1. cur' \in Stmts /\ cur' > 1
    BY <1>1, <1>2
  <2>2. skips' \subseteq DOMAIN tree'
    BY <1>1, <2>1, SkipListNodes
  <2>3. << >> \in DOMAIN tree /\ tree[<< >>] = 0
    BY DEF TreeInv, Branches
  <2>4. Len(Nest(cur')) \in Nat
    BY <1>2, <2>1
  <2>5. QED
    BY <1>1, <1>2, <2>1, <2>2, <2>3, <2>4 DEF ControlInv, Stmts, Nest, Producers
<1>5. LeafInv'
  <2>1. \A s \in Stmts : IsPlaced(s)' <=> IsPlaced(s)
    BY <1>1, <1>2 DEF IsPlaced
  <2>2. QED
    BY <1>1, <2>1 DEF LeafInv, Stmts, Nest
<1>6. NamedInv'
  BY <1>1 DEF NamedInv
<1>7. QED
  BY <1>3, <1>4, <1>5, <1>6

(* Steps that leave the tree and the statement alone.                      *)
LEMMA BaseUnchanged ==
  ASSUME BaseInv, UNCHANGED << prog, tree, named, leaf, cur >>,
         (mode # "idle" /\ mode' # "idle") \/ mode' = mode
  PROVE  TreeInv' /\ LeafInv' /\ NamedInv'
<1>1. TreeInv'
  BY ZenonT(30) DEF BaseInv, TreeInv, Branches, Labelled, Gapless, Stmts, Kids
<1>2. LeafInv'
  <2>1. \A s \in Stmts : IsPlaced(s)' <=> IsPlaced(s)
    BY DEF IsPlaced
  <2>2. QED
    BY <2>1 DEF BaseInv, LeafInv, Stmts, Nest
<1>3. NamedInv'
  BY DEF BaseInv, NamedInv
<1>4. QED
  BY <1>1, <1>2, <1>3

LEMMA BaseSeek ==
  ASSUME BaseInv, Seek
  PROVE  BaseInv'
<1> USE DEF BaseInv
<1>1. /\ mode = "seek" /\ level <= Len(Nest(cur))
      /\ inext' = Find(inode, Nest(cur)[level], skips)
      /\ todo' = Producers(cur) /\ mode' = "check"
      /\ UNCHANGED << prog, tree, named, leaf, cur, level, inode, skips, who >>
  BY DEF Seek
<1>2. TreeInv' /\ LeafInv' /\ NamedInv'
  BY <1>1, BaseUnchanged
<1>3. inext' # NoPath =>
        inext' \in DOMAIN tree /\ tree[inext'] = Nest(cur)[level] /\ IsPrefix(inode, inext')
  BY <1>1, FindResult DEF TreeInv, Hit
<1>4. ControlInv'
  BY <1>1, <1>3 DEF ControlInv, Stmts, Nest, Producers
<1>5. QED
  BY <1>2, <1>4

LEMMA BaseCheck ==
  ASSUME BaseInv, NEW p \in Stmts, Check(p)
  PROVE  BaseInv'
<1> USE DEF BaseInv
<1>1. TreeInv' /\ LeafInv' /\ NamedInv'
  BY BaseUnchanged DEF Check
<1>2. ControlInv'
  BY DEF Check, ControlInv, Stmts, Nest, Producers
<1>3. QED
  BY <1>1, <1>2

LEMMA BaseSkipLoop ==
  ASSUME BaseInv, SkipLoop
  PROVE  BaseInv'
<1> USE DEF BaseInv
<1>1. /\ mode = "check" /\ inext # NoPath
      /\ skips' = skips \union {inext}
      /\ inext' = Find(inode, Nest(cur)[level], skips')
      /\ UNCHANGED << prog, tree, named, leaf, mode, cur, level, inode, todo, who >>
  BY DEF SkipLoop, TooEarly
<1>2. TreeInv' /\ LeafInv' /\ NamedInv'
  BY <1>1, BaseUnchanged
<1>3. inext' # NoPath =>
        inext' \in DOMAIN tree /\ tree[inext'] = Nest(cur)[level] /\ IsPrefix(inode, inext')
  BY <1>1, FindResult DEF TreeInv, Hit
<1>4. ControlInv'
  BY <1>1, <1>3 DEF ControlInv, Stmts, Nest, Producers
<1>5. QED
  BY <1>2, <1>4

LEMMA BaseChecked ==
  ASSUME BaseInv, Checked
  PROVE  BaseInv'
<1> USE DEF BaseInv
<1>1. TreeInv' /\ LeafInv' /\ NamedInv'
  BY BaseUnchanged DEF Checked
<1>2. inext' \in {inext, NoPath}
  BY DEF Checked
<1>3. ControlInv'
  BY <1>2 DEF Checked, ControlInv, Stmts, Nest, Producers
<1>4. QED
  BY <1>1, <1>3

LEMMA BaseUseLoop ==
  ASSUME BaseInv, UseLoop
  PROVE  BaseInv'
<1> USE DEF BaseInv
<1>1. /\ mode = "check" /\ inext # NoPath /\ inode' = inext /\ level' = level + 1 /\ mode' = "seek"
      /\ UNCHANGED << prog, tree, named, leaf, cur, inext, todo, skips, who >>
  BY DEF UseLoop, Descended
<1>2. TreeInv' /\ LeafInv' /\ NamedInv'
  BY <1>1, BaseUnchanged
<1>3. Nest(cur) \in Seq(Iters) /\ level \in 1..Len(Nest(cur))
  BY <1>1, ProgramFacts DEF ControlInv
<1>4. inode' \in DOMAIN tree' /\ tree'[inode'] \in Iters \union {0}
  BY <1>1, <1>3 DEF ControlInv
<1>5. level' \in 1..(Len(Nest(cur)) + 1)
  BY <1>1, <1>3
<1>6. ControlInv'
  BY <1>1, <1>4, <1>5 DEF ControlInv, Stmts, Nest, Producers
<1>7. QED
  BY <1>2, <1>6

LEMMA BaseNewLoop ==
  ASSUME BaseInv, NewLoop
  PROVE  BaseInv'
<1> USE DEF BaseInv
<1> DEFINE i == Nest(cur)[level]
<1>1. PICK q : /\ q = NewKid(inode) /\ inode' = q
               /\ tree' = [r \in DOMAIN tree \union {q} |-> IF r = q THEN i ELSE tree[r]]
               /\ named' = [named EXCEPT ![i] = IF @ = NoPath THEN q ELSE @]
  BY DEF NewLoop
<1>2. /\ mode = "check" /\ inext = NoPath /\ level' = level + 1 /\ mode' = "seek"
      /\ UNCHANGED << prog, leaf, cur, inext, skips, todo, who >>
  BY DEF NewLoop, Descended
<1>3. Nest(cur) \in Seq(Iters) /\ level \in 1..Len(Nest(cur)) /\ Iters \intersect Nat = {}
  BY <1>2, ProgramFacts DEF ControlInv
<1>4. i \in Iters /\ i \notin Stmts
  <2>1. i \in Iters
    BY <1>3
  <2>2. Stmts \subseteq Nat
    BY ProgramFacts DEF ControlInv
  <2>3. QED
    BY <1>3, <2>1, <2>2
<1> HIDE DEF i
<1>5. /\ TreeInv' /\ DOMAIN tree' = DOMAIN tree \union {q} /\ tree'[q] = i
      /\ \A r \in DOMAIN tree : tree'[r] = tree[r]
  <2>1. inode \in DOMAIN tree /\ tree[inode] \in Iters \union {0} /\ i \in Iters \union Stmts
    BY <1>4 DEF ControlInv
  <2>2. TreeInv /\ prog' = prog
    BY <1>2
  <2> HIDE DEF BaseInv
  <2>3. QED
    BY ONLY <1>1, <2>1, <2>2, TreeGrows
<1>6. ControlInv'
  <2>1. level' \in 1..(Len(Nest(cur)) + 1)
    BY <1>2, <1>3
  <2>2. QED
    BY <1>1, <1>2, <1>4, <1>5, <2>1 DEF ControlInv, Stmts, Nest, Producers
<1>7. LeafInv'
  <2>1. \A s \in Stmts : IsPlaced(s)' <=> IsPlaced(s)
    BY <1>2 DEF IsPlaced
  <2>2. QED
    BY <1>2, <1>4, <1>5, <2>1 DEF LeafInv, Stmts, Nest
<1>8. NamedInv'
  <2>1. q # NoPath /\ q \notin DOMAIN tree
    BY <1>1, NewKidIsNew, NoPathIsNoNode DEF ControlInv
  <2>2. DOMAIN named' = Iters /\ named'[i] = (IF named[i] = NoPath THEN q ELSE named[i])
        /\ \A j \in Iters : j # i => named'[j] = named[j]
    BY <1>1, <1>4 DEF NamedInv
  <2>3. ASSUME NEW j \in Iters
        PROVE  IF named'[j] = NoPath THEN \A r \in DOMAIN tree' : tree'[r] # j
               ELSE named'[j] \in DOMAIN tree' /\ tree'[named'[j]] = j
    BY <1>4, <1>5, <2>1, <2>2 DEF NamedInv
  <2>4. QED
    BY <2>2, <2>3 DEF NamedInv
<1>9. QED
  BY <1>5, <1>6, <1>7, <1>8

LEMMA BaseInsertLeaf ==
  ASSUME BaseInv, InsertLeaf
  PROVE  BaseInv'
<1> USE DEF BaseInv
<1>1. PICK q : /\ q = NewKid(inode)
               /\ tree' = [r \in DOMAIN tree \union {q} |-> IF r = q THEN cur ELSE tree[r]]
               /\ leaf' = [leaf EXCEPT ![cur] = q]
  BY DEF InsertLeaf
<1>2. /\ mode = "seek" /\ mode' = "idle"
      /\ UNCHANGED << prog, named, cur, level, inode, inext, skips, todo, who >>
  BY DEF InsertLeaf
<1>3. /\ cur \in Stmts /\ Stmts = 1..Len(prog) /\ Len(prog) \in Nat /\ Iters \intersect Nat = {}
      /\ cur > 1 /\ 1 \in Stmts
  BY <1>2, ProgramFacts DEF ControlInv
<1>4. /\ TreeInv' /\ DOMAIN tree' = DOMAIN tree \union {q} /\ tree'[q] = cur
      /\ \A r \in DOMAIN tree : tree'[r] = tree[r]
  <2>1. inode \in DOMAIN tree /\ tree[inode] \in Iters \union {0} /\ cur \in Iters \union Stmts
    BY <1>3 DEF ControlInv
  <2>2. TreeInv /\ prog' = prog
    BY <1>2
  <2> HIDE DEF BaseInv
  <2>3. QED
    BY ONLY <1>1, <2>1, <2>2, TreeGrows
<1>5. ControlInv'
  BY <1>2, <1>4 DEF ControlInv, Stmts, Nest, Producers
<1>6. LeafInv'
  <2>1. \A s \in Stmts : IsPlaced(s)' <=> IsPlaced(s) \/ s = cur
    BY <1>2, <1>3 DEF IsPlaced
  <2>2. ~ IsPlaced(cur)
    BY <1>2, <1>3 DEF IsPlaced
  <2>3. DOMAIN leaf' = Stmts /\ leaf'[cur] = q /\ \A s \in Stmts : s # cur => leaf'[s] = leaf[s]
    BY <1>1, <1>3 DEF LeafInv
  <2>4. ASSUME NEW r \in DOMAIN tree, tree[r] \in Stmts
        PROVE  leaf'[tree'[r]] = r
    <3>1. leaf[tree[r]] = r /\ r # NoPath
      BY <2>4, NoPathIsNoNode DEF LeafInv, TreeInv, Branches
    <3>2. tree[r] # cur
      BY <1>3, <2>2, <3>1 DEF LeafInv
    <3>3. QED
      BY <1>4, <2>3, <2>4, <3>1, <3>2
  <2>5. ASSUME NEW s \in Stmts
        PROVE  IF IsPlaced(s)' THEN leaf'[s] \in DOMAIN tree' /\ tree'[leaf'[s]] = s
               ELSE leaf'[s] = NoPath
    BY <1>4, <2>1, <2>3 DEF LeafInv
  <2>6. leaf'[1] = Ones(Len(Nest(1)) + 1)
    BY <1>3, <2>3 DEF LeafInv
  <2>7. QED
    BY <1>2, <1>4, <2>3, <2>4, <2>5, <2>6 DEF LeafInv, Stmts, Nest
<1>7. NamedInv'
  <2>1. cur \notin Iters
    BY <1>3
  <2>2. QED
    BY <1>2, <1>4, <2>1 DEF NamedInv
<1>8. QED
  BY <1>4, <1>5, <1>6, <1>7

THEOREM BaseInvariant == Spec => []BaseInv
<1>1. Init => BaseInv
  BY BaseInit
<1>2. BaseInv /\ [Next]_vars => BaseInv'
  <2> SUFFICES ASSUME BaseInv, [Next]_vars
               PROVE  BaseInv'
    OBVIOUS
  <2>1. ASSUME UNCHANGED vars
        PROVE  BaseInv'
    <3>1. TreeInv' /\ LeafInv' /\ NamedInv'
      BY <2>1, BaseUnchanged DEF vars, place
    <3>2. ControlInv'
      BY <2>1 DEF BaseInv, vars, place, ControlInv, Stmts, Nest, Producers
    <3>3. QED
      BY <3>1, <3>2 DEF BaseInv
  <2>2. QED
    BY <2>1, BaseStart, BaseSeek, BaseCheck, BaseSkipLoop, BaseChecked, BaseUseLoop,
       BaseNewLoop, BaseInsertLeaf DEF Next, Fused
<1>3. QED
  BY <1>1, <1>2, PTL DEF Spec

(* The tree is one, and updateIterGraph's place in it is a node of it, for *)
(* every program: TypeOK.                                                  *)
THEOREM TypeCorrect == Spec => []TypeOK
<1>1. BaseInv => TypeOK
  BY BaseIsTyped
<1>2. QED
  BY <1>1, BaseInvariant, PTL

-----------------------------------------------------------------------------
(* Facts about nodes.                                                      *)

LEMMA NodeFacts ==
  ASSUME BaseInv, NEW q \in DOMAIN tree
  PROVE  /\ q \in Paths /\ q \in Seq(Nat) /\ Len(q) \in Nat
         /\ \A n \in 1..Len(q) : q[n] \in Nat \ {0}
         /\ SubSeq(q, 1, Len(q)) = q
<1>1. q \in Paths
  BY DEF BaseInv, TreeInv, Branches
<1>2. q \in Seq(Nat)
  BY <1>1, SeqMonotonic DEF Paths
<1>3. QED
  BY <1>1, <1>2, SubSeqFull DEF Paths

(* All positions before the one of a node are nodes, too.                  *)
LEMMA SiblingsBefore ==
  ASSUME BaseInv, NEW q \in DOMAIN tree, NEW n \in 1..Len(q)
  PROVE  /\ SubSeq(q, 1, n - 1) \in DOMAIN tree
         /\ SubSeq(q, 1, n) \in Kids(SubSeq(q, 1, n - 1))
         /\ \A k \in 1..q[n] :
              Append(SubSeq(q, 1, n - 1), k) \in Kids(SubSeq(q, 1, n - 1))
<1> DEFINE up == SubSeq(q, 1, n - 1)
           at == SubSeq(q, 1, n)
<1>1. /\ q \in Paths /\ q \in Seq(Nat) /\ Len(q) \in Nat
      /\ \A m \in 1..Len(q) : q[m] \in Nat \ {0}
      /\ SubSeq(q, 1, Len(q)) = q
  BY NodeFacts
<1>2. n \in 0..Len(q) /\ n - 1 \in 0..Len(q) /\ n - 1 \in 0..(Len(q) - 1)
  BY <1>1
<1>3. up \in DOMAIN tree
  BY <1>2 DEF BaseInv, TreeInv, Branches
<1>4. at \in DOMAIN tree
  <2>1. CASE n = Len(q)
    BY <1>1, <2>1
  <2>2. CASE n # Len(q)
    <3>1. n \in 0..(Len(q) - 1)
      <4>1. Len(q) \in Nat
        BY <1>1
      <4>2. QED
        BY <4>1, <2>2
    <3>2. QED
      BY <3>1 DEF BaseInv, TreeInv, Branches
  <2>3. QED
    BY <2>1, <2>2
<1>5. /\ up \in Paths /\ Len(up) = n - 1 /\ \A m \in 1..(n - 1) : up[m] = q[m]
      /\ at \in Paths /\ Len(at) = n /\ \A m \in 1..n : at[m] = q[m]
  BY <1>1, <1>2, PrefixOfPath
<1>6. up \in Seq(Nat) /\ at \in Seq(Nat)
  BY <1>3, <1>4, NodeFacts
<1> HIDE DEF up, at
<1>7. IsPrefix(up, at) /\ Len(at) = Len(up) + 1
  <2>1. Len(at) = Len(up) + 1 /\ Len(up) <= Len(at)
    BY ONLY <1>1, <1>2, <1>5
  <2>2. \A m \in 1..Len(up) : up[m] = at[m]
    <3>1. \A m \in 1..(n - 1) : m \in 1..n
      BY <1>1
    <3>2. QED
      BY ONLY <3>1, <1>5
  <2>3. IsPrefix(up, at) <=> Len(up) <= Len(at) /\ \A m \in 1..Len(up) : up[m] = at[m]
    BY <1>6, PrefixPoints
  <2>4. QED
    BY <2>1, <2>2, <2>3
<1>8. at \in Kids(up)
  BY <1>4, <1>7 DEF Kids
<1>9. PICK m \in Nat : Kids(up) = {Append(up, k) : k \in 1..m}
  BY <1>3 DEF BaseInv, TreeInv, Gapless
<1>10. q[n] <= m
  <2>1. PICK k \in 1..m : at = Append(up, k)
    BY <1>8, <1>9
  <2>2. Append(up, k)[Len(up) + 1] = k
    BY <1>5, KidIsAppend
  <2>3. at[n] = q[n] /\ Len(up) + 1 = n
    BY <1>5
  <2>4. QED
    BY <2>1, <2>2, <2>3
<1>11. \A k \in 1..q[n] : k \in 1..m
  BY <1>1, <1>10
<1>12. QED
  BY <1>3, <1>8, <1>9, <1>11 DEF up, at

(* Producers have been placed.                                             *)
LEMMA ProducersArePlaced ==
  ASSUME BaseInv, NEW c \in Stmts, c = cur \/ IsPlaced(c), NEW p \in Producers(c)
  PROVE  /\ p \in Stmts /\ p # c /\ IsPlaced(p) /\ leaf[p] \in DOMAIN tree /\ tree[leaf[p]] = p
         /\ p < c
<1>1. Stmts = 1..Len(prog) /\ Len(prog) \in Nat /\ p \in 1..(c - 1) /\ p \in Stmts
  BY ProgramFacts DEF BaseInv, ControlInv
<1>2. cur \in Stmts
  BY DEF BaseInv, ControlInv
<1>3. p < c /\ IsPlaced(p)
  BY <1>1, <1>2 DEF IsPlaced
<1>4. QED
  BY <1>1, <1>3 DEF BaseInv, LeafInv

LEMMA PlacedFacts ==
  ASSUME BaseInv
  PROVE  \A s \in Stmts : s \in Placed <=> IsPlaced(s)
BY NoPathIsNoNode DEF BaseInv, TreeInv, Branches, LeafInv, Placed

(* Two paths with a common end: what is ahead stays ahead further down.    *)
LEMMA AheadExtends ==
  ASSUME NEW q \in Seq(Nat), NEW r \in Seq(Nat), NEW t \in Seq(Nat),
         Ahead(q, r), IsPrefix(r, t)
  PROVE  Ahead(q, t)
<1>1. PICK k \in 1..Shorter(q, r) : q[k] < r[k] /\ \A m \in 1..(k - 1) : q[m] = r[m]
  BY DEF Ahead
<1>2. Len(r) <= Len(t) /\ \A m \in 1..Len(r) : r[m] = t[m]
  BY PrefixPoints
<1>3. k \in Nat \ {0} /\ k <= Len(q) /\ k <= Len(r)
  BY <1>1 DEF Shorter
<1>4. k \in 1..Shorter(q, t)
  BY <1>2, <1>3 DEF Shorter
<1>5. q[k] < t[k] /\ \A m \in 1..(k - 1) : q[m] = t[m]
  <2>1. \A m \in 1..k : m \in 1..Len(r) /\ t[m] = r[m]
    BY <1>2, <1>3
  <2>2. k \in 1..k /\ \A m \in 1..(k - 1) : m \in 1..k
    BY <1>3
  <2>3. QED
    BY <1>1, <2>1, <2>2
<1>6. QED
  BY <1>4, <1>5 DEF Ahead

(* A new child is ahead of everything below its parent.                    *)
LEMMA NewKidIsAhead ==
  ASSUME BaseInv, NEW q \in DOMAIN tree, NEW r \in DOMAIN tree, IsPrefix(q, r), q # r
  PROVE  Ahead(r, NewKid(q))
<1>1. PICK n \in Nat : /\ Kids(q) = {Append(q, k) : k \in 1..n}
                       /\ NewKid(q) = Append(q, n + 1)
  BY NewKidIsNew DEF BaseInv
<1>2. /\ q \in Paths /\ q \in Seq(Nat) /\ Len(q) \in Nat
      /\ r \in Paths /\ r \in Seq(Nat) /\ Len(r) \in Nat
  BY NodeFacts
<1>3. Len(q) <= Len(r) /\ \A m \in 1..Len(q) : q[m] = r[m]
  BY <1>2, PrefixPoints
<1>4. Len(q) < Len(r)
  BY <1>2, <1>3, SeqEqual
<1> DEFINE l == Len(q) + 1
<1>5. l \in 1..Len(r) /\ l - 1 = Len(q)
  BY <1>2, <1>4
<1>6. SubSeq(r, 1, Len(q)) = q
  BY <1>2, SubSeqFull DEF IsPrefix
<1>7. SubSeq(r, 1, l) \in Kids(q)
  BY <1>5, <1>6, SiblingsBefore
<1>8. r[l] <= n
  <2>1. PICK k \in 1..n : SubSeq(r, 1, l) = Append(q, k)
    BY <1>1, <1>7
  <2>2. Append(q, k)[l] = k
    BY <1>2, KidIsAppend
  <2>3. SubSeq(r, 1, l)[l] = r[l]
    <3>1. l \in 0..Len(r) /\ l \in 1..l
      BY <1>5
    <3>2. QED
      BY <1>2, <3>1, PrefixOfPath
  <2>4. QED
    BY <2>1, <2>2, <2>3
<1>9. /\ Append(q, n + 1) \in Paths /\ Len(Append(q, n + 1)) = l
      /\ Append(q, n + 1)[l] = n + 1
      /\ \A m \in 1..Len(q) : Append(q, n + 1)[m] = q[m]
  BY <1>2, KidIsAppend DEF Paths
<1>10. r[l] < Append(q, n + 1)[l]
  <2>1. r[l] \in Nat
    BY <1>2, <1>5
  <2>2. QED
    BY <1>8, <1>9, <2>1
<1>11. \A m \in 1..(l - 1) : r[m] = Append(q, n + 1)[m]
  BY <1>3, <1>9
<1>12. l \in 1..Shorter(r, Append(q, n + 1))
  BY <1>5, <1>9 DEF Shorter
<1>13. QED
  BY <1>1, <1>10, <1>11, <1>12 DEF Ahead

(* That no loop was passed over without need is a fact about the nodes     *)
(* that are there already.                                                 *)
LEMMA NoNeedlessStays ==
  ASSUME BaseInv, NEW c \in Stmts, NEW q \in DOMAIN tree, NEW r \in Seq(Nat), IsPrefix(q, r),
         NEW n \in 1..Len(q), NoNeedless(c, q, n), prog' = prog,
         \A x \in DOMAIN tree : tree'[x] = tree[x],
         \A p \in Producers(c) : leaf'[p] = leaf[p]
  PROVE  NoNeedless(c, r, n)'
<1>1. q \in Seq(Nat) /\ Len(q) \in Nat /\ Len(q) <= Len(r)
  BY NodeFacts, PrefixPoints
<1>2. \A m \in 1..Len(q) : r[m] = q[m]
  BY <1>1, PrefixPoints
<1>3. SubSeq(r, 1, n - 1) = SubSeq(q, 1, n - 1)
  <2>1. \A m \in 1..(n - 1) : m \in 1..Len(q) /\ r[m] = q[m] /\ q[m] \in Nat
    BY <1>1, <1>2, SMTT(30)
  <2>2. /\ SubSeq(r, 1, n - 1) \in Seq(Nat) /\ SubSeq(q, 1, n - 1) \in Seq(Nat)
        /\ Len(SubSeq(r, 1, n - 1)) = n - 1 /\ Len(SubSeq(q, 1, n - 1)) = n - 1
        /\ \A m \in 1..(n - 1) : SubSeq(r, 1, n - 1)[m] = r[m] /\ SubSeq(q, 1, n - 1)[m] = q[m]
    BY <2>1, SubSeqProperties
  <2>3. QED
    BY <2>1, <2>2, SeqEqual
<1>4. r[n] = q[n]
  BY <1>2
<1>5. ASSUME NEW k \in 1..(q[n] - 1)
      PROVE  Append(SubSeq(q, 1, n - 1), k) \in DOMAIN tree
  <2>1. q[n] \in Nat /\ k \in 1..q[n]
    BY <1>1
  <2>2. QED
    BY <2>1, SiblingsBefore DEF Kids
<1>6. \A k \in 1..(r[n] - 1) :
        tree'[Append(SubSeq(r, 1, n - 1), k)] = tree[Append(SubSeq(q, 1, n - 1), k)]
  BY <1>3, <1>4, <1>5
<1>7. Producers(c)' = Producers(c) /\ Nest(c)' = Nest(c)
  BY DEF Producers, Nest
<1>8. \A k \in 1..(r[n] - 1) :
        tree'[Append(SubSeq(r, 1, n - 1), k)] = Nest(c)[n] =>
          \E p \in Producers(c) : n \in DOMAIN leaf'[p] /\ leaf'[p][n] > k
  BY <1>4, <1>6 DEF NoNeedless
<1>9. QED
  BY <1>7, <1>8 DEF NoNeedless

-----------------------------------------------------------------------------
(* Placing a statement.                                                    *)

LEMMA LevelFacts ==
  ASSUME BaseInv, mode # "idle"
  PROVE  /\ cur \in Stmts /\ Nest(cur) \in Seq(Iters) /\ Len(Nest(cur)) \in Nat
         /\ DOMAIN Nest(cur) = 1..Len(Nest(cur)) /\ Len(Nest(cur)) <= 3
         /\ level \in Nat \ {0} /\ level <= Len(Nest(cur)) + 1
         /\ \A m, n \in DOMAIN Nest(cur) : Nest(cur)[m] = Nest(cur)[n] => m = n
         /\ \A n \in DOMAIN Nest(cur) : Nest(cur)[n] \in Iters /\ Nest(cur)[n] # 0
         /\ inode \in DOMAIN tree /\ tree[inode] \in Iters \union {0}
<1>1. /\ cur \in Stmts /\ Nest(cur) \in Seq(Iters) /\ Len(Nest(cur)) <= 3
      /\ IsInjective(Nest(cur)) /\ Iters \intersect Nat = {}
  BY ProgramFacts DEF BaseInv, ControlInv
<1>2. level \in 1..(Len(Nest(cur)) + 1)
  BY DEF BaseInv, ControlInv
<1>3. inode \in DOMAIN tree /\ tree[inode] \in Iters \union {0}
  BY DEF BaseInv, ControlInv
<1>4. QED
  BY <1>1, <1>2, <1>3 DEF IsInjective

(* The node reached is not a loop of the level that is looked for.         *)
LEMMA InodeIsNoHit ==
  ASSUME BaseInv, mode # "idle", LastInv, level <= Len(Nest(cur))
  PROVE  tree[inode] # Nest(cur)[level]
<1>1. CASE level = 1
  <2>1. tree[inode] = 0
    BY <1>1 DEF LastInv, BaseInv, TreeInv, Branches
  <2>2. Nest(cur)[level] # 0
    BY <1>1, LevelFacts
  <2>3. QED
    BY <2>1, <2>2
<1>2. CASE level # 1
  <2>1. level \in DOMAIN Nest(cur) /\ level - 1 \in DOMAIN Nest(cur) /\ level - 1 # level
    BY <1>2, LevelFacts
  <2>2. Nest(cur)[level - 1] # Nest(cur)[level]
    BY <2>1, LevelFacts
  <2>3. QED
    BY <1>2, <2>2 DEF LastInv
<1>3. QED
  BY <1>1, <1>2

(* What is found lies below it.                                            *)
LEMMA BelowInode ==
  ASSUME BaseInv, mode # "idle", LastInv, level <= Len(Nest(cur)),
         NEW r \in DOMAIN tree, IsPrefix(inode, r), tree[r] = Nest(cur)[level]
  PROVE  /\ Len(inode) < Len(r) /\ level <= Len(r)
         /\ \A k \in 1..Len(inode) : r[k] = inode[k]
         /\ SubSeq(r, 1, Len(inode)) = inode
         /\ Kids(inode) # {}
<1>1. /\ inode \in Seq(Nat) /\ r \in Seq(Nat) /\ Len(inode) \in Nat /\ Len(r) \in Nat
      /\ SubSeq(inode, 1, Len(inode)) = inode /\ inode \in DOMAIN tree /\ inode \in Paths
      /\ level \in Nat
  BY LevelFacts, NodeFacts
<1>2. Len(inode) <= Len(r) /\ \A k \in 1..Len(inode) : inode[k] = r[k]
  BY <1>1, PrefixPoints
<1>3. inode # r
  BY InodeIsNoHit
<1>4. Len(inode) < Len(r)
  BY <1>1, <1>2, <1>3, SeqEqual
<1>5. level <= Len(r)
  BY <1>1, <1>4 DEF LastInv
<1>6. SubSeq(r, 1, Len(inode)) = inode
  BY <1>1 DEF IsPrefix
<1>7. Kids(inode) # {}
  <2>1. Len(inode) + 1 \in 1..Len(r) /\ (Len(inode) + 1) - 1 = Len(inode)
    BY <1>1, <1>4
  <2>2. SubSeq(r, 1, Len(inode) + 1) \in Kids(SubSeq(r, 1, (Len(inode) + 1) - 1))
    BY <2>1, SiblingsBefore
  <2>3. QED
    BY <2>1, <2>2, <1>6
<1>8. QED
  BY <1>2, <1>4, <1>5, <1>6, <1>7

(* A search below inode finds the first loop of this level.                *)
LEMMA FoundFirst ==
  ASSUME BaseInv, mode # "idle", LastInv, level <= Len(Nest(cur)), InLine,
         NEW S, NEW f, f = Find(inode, Nest(cur)[level], S)
  PROVE  /\ f # NoPath => /\ Hit(inode, Nest(cur)[level], S, f)
                          /\ Kids(inode) # {}
                          /\ Extend(inode, inode, f) = f
         /\ \A r : Hit(inode, Nest(cur)[level], S, r) => f # NoPath /\ f[level] <= r[level]
<1> DEFINE i == Nest(cur)[level]
<1>1. Branches
  BY DEF BaseInv, TreeInv
<1>2. /\ f # NoPath => Hit(inode, i, S, f)
      /\ \A r : Hit(inode, i, S, r) => f # NoPath /\ (r = f \/ Before(f, r))
  BY <1>1, FindResult
<1>3. /\ inode \in Seq(Nat) /\ inode \in Paths /\ Len(inode) \in Nat /\ Len(inode) = level - 1
      /\ level \in Nat \ {0}
  BY LevelFacts, NodeFacts DEF InLine
<1>4. ASSUME NEW r, Hit(inode, i, S, r)
      PROVE  /\ r \in DOMAIN tree /\ r \in Seq(Nat) /\ r \in Paths
             /\ Len(r) \in Nat /\ level \in 1..Len(r) /\ r[level] \in Nat
             /\ \A k \in 1..(level - 1) : r[k] = inode[k]
             /\ SubSeq(r, 1, Len(inode)) = inode
             /\ Kids(inode) # {}
  <2>1. r \in DOMAIN tree /\ IsPrefix(inode, r) /\ tree[r] = i
    BY <1>4 DEF Hit
  <2>2. r \in Seq(Nat) /\ r \in Paths /\ Len(r) \in Nat /\ \A n \in 1..Len(r) : r[n] \in Nat \ {0}
    BY <2>1, NodeFacts
  <2>3. /\ level <= Len(r) /\ \A k \in 1..Len(inode) : r[k] = inode[k]
        /\ SubSeq(r, 1, Len(inode)) = inode
        /\ Kids(inode) # {}
    BY <2>1, BelowInode
  <2>4. level \in 1..Len(r)
    BY <1>3, <2>2, <2>3
  <2>5. QED
    BY <1>3, <2>1, <2>2, <2>3, <2>4
<1>5. ASSUME NEW r, Hit(inode, i, S, r)
      PROVE  f # NoPath /\ f[level] <= r[level]
  <2>1. f # NoPath /\ (r = f \/ Before(f, r)) /\ Hit(inode, i, S, f)
    BY <1>2, <1>5
  <2>2. /\ f \in Seq(Nat) /\ level \in 1..Len(f) /\ f[level] \in Nat /\ Len(f) \in Nat
        /\ \A k \in 1..(level - 1) : f[k] = inode[k]
    BY <1>4, <2>1
  <2>3. /\ r \in Seq(Nat) /\ level \in 1..Len(r) /\ r[level] \in Nat /\ Len(r) \in Nat
        /\ \A k \in 1..(level - 1) : r[k] = inode[k]
    BY <1>4, <1>5
  <2>4. CASE r = f
    BY <2>1, <2>2, <2>4
  <2>5. CASE IsStrictPrefix(f, r)
    <3>1. f[level] = r[level]
      BY <2>2, <2>3, <2>5, PrefixPoints DEF IsStrictPrefix
    <3>2. QED
      BY <2>1, <2>2, <3>1
  <2>6. ASSUME NEW k \in 1..Shorter(f, r), \A m \in 1..(k - 1) : f[m] = r[m], f[k] < r[k]
        PROVE  f[level] <= r[level]
    <3>1. k \in Nat \ {0}
      BY <2>2, <2>3 DEF Shorter
    <3>2. CASE k < level
      <4>1. k \in 1..(level - 1)
        BY <1>3, <3>1, <3>2
      <4>2. f[k] = r[k]
        BY <4>1, <2>2, <2>3
      <4>3. r[k] \in Nat
        BY <2>3, <4>1
      <4>4. QED
        BY <2>6, <4>2, <4>3
    <3>3. CASE k = level
      BY <2>2, <2>3, <2>6, <3>3
    <3>4. CASE level < k
      <4>1. level \in 1..(k - 1)
        BY <1>3, <3>1, <3>4
      <4>2. QED
        BY <2>2, <2>6, <4>1
    <3>5. QED
      BY <1>3, <3>1, <3>2, <3>3, <3>4
  <2>7. QED
    BY <2>1, <2>4, <2>5, <2>6 DEF Before
<1>6. ASSUME f # NoPath
      PROVE  Extend(inode, inode, f) = f
  <2>1. Hit(inode, i, S, f)
    BY <1>2, <1>6
  <2>2. /\ f \in Paths /\ f \in Seq(Nat) /\ Len(f) \in Nat /\ Len(inode) + 1 \in 1..Len(f)
        /\ SubSeq(f, 1, Len(inode)) = inode /\ SubSeq(f, 1, Len(f)) = f
    BY <1>3, <1>4, <2>1, NodeFacts
  <2>3. SubSeq(f, 1, Len(inode)) \o SubSeq(f, Len(inode) + 1, Len(f)) = SubSeq(f, 1, Len(f))
    <3>1. 1 \in 1..Len(f)+1 /\ Len(inode) \in (1 - 1)..Len(f) /\ Len(f) \in Len(inode)..Len(f)
      BY <1>3, <2>2
    <3>2. QED
      BY <2>2, <3>1, ConcatAdjacentSubSeq
  <2>4. QED
    BY <1>6, <2>2, <2>3 DEF Extend
<1>7. QED
  BY <1>2, <1>4, <1>5, <1>6

LEMMA PlaceStart ==
  ASSUME BaseInv, Start, BaseInv'
  PROVE  PlaceInv'
<1>1. /\ cur' = cur + 1 /\ skips' = SkipList(cur + 1) /\ mode' = "seek"
      /\ level' = 1 /\ inode' = << >> /\ path' = << >>
      /\ prog' = prog /\ tree' = tree /\ leaf' = leaf
      /\ mode = "idle" /\ cur < Len(prog)
  BY DEF Start
<1>2. cur' \in Stmts
  BY <1>1 DEF BaseInv, ControlInv, Stmts
<1>3. LastInv'
  BY <1>1 DEF LastInv
<1>4. LoopsInv' /\ SharedInv' /\ PathInv' /\ FoundInv' /\ CheckedInv'
  BY <1>1 DEF LoopsInv, SharedInv, PathInv, FoundInv, CheckedInv
<1>5. SkipsInv'
  <2>1. \A s \in skips' : tree[s] \notin Range(Nest(cur'))
    BY <1>1, <1>2, SkipListNodes
  <2>2. ASSUME NEW s \in skips', NEW n \in DOMAIN Nest(cur')
        PROVE  tree[s] # Nest(cur')[n]
    BY <2>1 DEF Range
  <2>3. QED
    BY <1>1, <2>2 DEF SkipsInv, Nest
<1>6. AheadInv'
  <2>1. ASSUME NEW p \in Producers(cur')
        PROVE  IsPrefix(<< >>, leaf[p])
    <3>1. leaf[p] \in Seq(Nat)
      <4>1. Stmts = 1..Len(prog) /\ Len(prog) \in Nat /\ cur \in Nat
            /\ Producers(cur') \subseteq 1..(cur' - 1) /\ Producers(cur') \subseteq Stmts
        BY <1>2, ProgramFacts, SMTT(30) DEF BaseInv, ControlInv
      <4>2. p \in Stmts /\ IsPlaced(p)
        BY <1>1, <4>1 DEF IsPlaced
      <4>3. QED
        BY <4>2, NodeFacts DEF BaseInv, LeafInv
    <3>2. << >> \in Seq(Nat) /\ Len(<< >>) = 0 /\ Len(leaf[p]) \in Nat
      BY <3>1
    <3>3. Len(<< >>) <= Len(leaf[p]) /\ \A k \in 1..Len(<< >>) : << >>[k] = leaf[p][k]
      BY <3>2
    <3>4. QED
      BY <3>1, <3>2, <3>3, PrefixPoints
  <2>2. QED
    BY <1>1, <2>1 DEF AheadInv, Producers
<1>7. QED
  BY <1>3, <1>4, <1>5, <1>6 DEF PlaceInv

LEMMA PlaceSeek ==
  ASSUME BaseInv, PlaceInv, Seek
  PROVE  PlaceInv'
<1>1. /\ mode = "seek" /\ level <= Len(Nest(cur))
      /\ inext' = Find(inode, Nest(cur)[level], skips)
      /\ path' = Extend(path, inode, inext')
      /\ todo' = Producers(cur) /\ mode' = "check"
      /\ UNCHANGED << prog, tree, named, leaf, cur, level, inode, skips, who >>
  BY DEF Seek
<1>2. LastInv
  BY <1>1 DEF PlaceInv
<1>3. LastInv'
  BY <1>1, <1>2 DEF LastInv, Nest
<1>4. ASSUME InLine'
      PROVE  /\ LoopsInv' /\ PathInv' /\ SkipsInv' /\ FoundInv'
             /\ SharedInv' /\ CheckedInv' /\ AheadInv'
  <2>1. InLine
    BY <1>1, <1>4 DEF InLine
  <2>2. LoopsInv /\ PathInv /\ SkipsInv /\ SharedInv /\ AheadInv
    BY <1>1, <2>1 DEF PlaceInv
  <2>3. PICK f : f = inext'
    OBVIOUS
  <2>4. /\ f # NoPath => /\ Hit(inode, Nest(cur)[level], skips, f)
                         /\ Kids(inode) # {}
                         /\ Extend(inode, inode, f) = f
        /\ \A r : Hit(inode, Nest(cur)[level], skips, r) => f # NoPath /\ f[level] <= r[level]
    <3>1. f = Find(inode, Nest(cur)[level], skips) /\ mode # "idle"
      BY <1>1, <2>3
    <3>2. QED
      BY <1>1, <1>2, <2>1, <3>1, FoundFirst
  <2>5. PathInv'
    BY <1>1, <2>2, <2>3, <2>4 DEF PathInv
  <2>6. FoundInv'
    BY <1>1, <2>3, <2>4 DEF FoundInv, Hit, Nest
  <2>7. LoopsInv' /\ SkipsInv' /\ SharedInv' /\ AheadInv'
    BY <1>1, <2>2 DEF LoopsInv, SkipsInv, SharedInv, AheadInv, NoNeedless, Precedes, Nest, Producers
  <2>8. CheckedInv'
    BY <1>1 DEF CheckedInv, Producers
  <2>9. QED
    BY <2>5, <2>6, <2>7, <2>8
<1>5. QED
  BY <1>3, <1>4 DEF PlaceInv

LEMMA PlaceCheck ==
  ASSUME BaseInv, PlaceInv, NEW p \in Stmts, Check(p)
  PROVE  PlaceInv'
<1>1. /\ mode = "check" /\ mode' = mode /\ p \in todo /\ who' = p /\ todo' = todo \ {p} /\ who = 0
      /\ UNCHANGED << prog, tree, leaf, cur, level, inode, inext, path, skips >>
  BY DEF Check
<1>2. LastInv'
  BY <1>1 DEF PlaceInv, LastInv, Nest
<1>3. ASSUME InLine'
      PROVE  /\ LoopsInv' /\ PathInv' /\ SkipsInv' /\ FoundInv'
             /\ SharedInv' /\ CheckedInv' /\ AheadInv'
  <2>1. InLine
    BY <1>1, <1>3 DEF InLine
  <2>2. /\ LoopsInv /\ PathInv /\ SkipsInv /\ FoundInv
        /\ SharedInv /\ CheckedInv /\ AheadInv
    BY <1>1, <2>1 DEF PlaceInv
  <2>3. LoopsInv' /\ SkipsInv' /\ SharedInv' /\ AheadInv'
    BY <1>1, <2>2 DEF LoopsInv, SkipsInv, SharedInv, AheadInv, NoNeedless, Precedes, Nest, Producers
  <2>4. PathInv' /\ FoundInv'
    BY <1>1, <2>2 DEF PathInv, FoundInv, Hit, Nest
  <2>5. CheckedInv'
    <3>1. ASSUME inext # NoPath, NEW r \in Producers(cur) \ (todo' \union {who'}),
                 level \in DOMAIN leaf[r]
          PROVE  leaf[r][level] <= inext[level]
      <4>1. r # 0
        <5>1. Producers(cur) \subseteq Stmts /\ Stmts = 1..Len(prog)
          BY ProgramFacts DEF BaseInv, ControlInv
        <5>2. QED
          BY <3>1, <5>1
      <4>2. r \in Producers(cur) \ (todo \union {who})
        BY <1>1, <3>1, <4>1
      <4>3. QED
        BY <1>1, <2>2, <3>1, <4>2 DEF CheckedInv
    <3>2. QED
      BY <1>1, <3>1 DEF CheckedInv, Producers
  <2>6. QED
    BY <2>2, <2>3, <2>4, <2>5
<1>4. QED
  BY <1>2, <1>3 DEF PlaceInv

(* The producer that is checked is one with a leaf of its own, or the first *)
(* computation, whose leaf is looked up under a wrong name.                *)
LEMMA ProducerPathFacts ==
  ASSUME BaseInv, mode # "idle", who # 0
  PROVE  /\ who \in Producers(cur)
         /\ \/ ProducerPath(who) = leaf[who]
            \/ who = 1 /\ ProducerPath(who) = << >>
BY DEF BaseInv, ControlInv, ProducerPath

LEMMA PlaceSkipLoop ==
  ASSUME BaseInv, PlaceInv, SkipLoop
  PROVE  PlaceInv'
<1>1. /\ mode = "check" /\ who # 0 /\ TooEarly /\ inext # NoPath
      /\ skips' = skips \union {inext}
      /\ inext' = Find(inode, Nest(cur)[level], skips')
      /\ path' = Extend(SubSeq(path, 1, level - 1), inode, inext')
      /\ UNCHANGED << prog, tree, named, leaf, mode, cur, level, inode, todo, who >>
  BY DEF SkipLoop, TooEarly
<1>2. LastInv /\ level <= Len(Nest(cur))
  BY <1>1 DEF PlaceInv, BaseInv, ControlInv
<1>3. LastInv'
  BY <1>1, <1>2 DEF LastInv, Nest
<1>4. ASSUME InLine'
      PROVE  /\ LoopsInv' /\ PathInv' /\ SkipsInv' /\ FoundInv'
             /\ SharedInv' /\ CheckedInv' /\ AheadInv'
  <2>1. InLine
    BY <1>1, <1>4 DEF InLine
  <2>2. /\ LoopsInv /\ PathInv /\ SkipsInv /\ FoundInv
        /\ SharedInv /\ CheckedInv /\ AheadInv
    BY <1>1, <2>1 DEF PlaceInv
  <2>3. PICK f, S : f = inext' /\ S = skips'
    OBVIOUS
  <2>4. /\ f # NoPath => /\ Hit(inode, Nest(cur)[level], S, f)
                         /\ Kids(inode) # {}
                         /\ Extend(inode, inode, f) = f
        /\ \A r : Hit(inode, Nest(cur)[level], S, r) => f # NoPath /\ f[level] <= r[level]
    <3>1. f = Find(inode, Nest(cur)[level], S) /\ mode # "idle"
      BY <1>1, <2>3
    <3>2. QED
      BY <1>1, <1>2, <2>1, <3>1, FoundFirst
  <2>5. /\ path = inext /\ inext \in DOMAIN tree /\ tree[inext] = Nest(cur)[level]
        /\ SubSeq(inext, 1, level - 1) = inode
        /\ level \in 1..Len(inext) /\ inext[level] \in Nat
    <3>1. path = inext /\ inext \in DOMAIN tree /\ tree[inext] = Nest(cur)[level] /\ IsPrefix(inode, inext)
      BY <1>1, <2>2 DEF PathInv, BaseInv, ControlInv
    <3>2. SubSeq(inext, 1, Len(inode)) = inode /\ level <= Len(inext)
      BY <1>1, <1>2, <3>1, BelowInode
    <3>3. level \in Nat \ {0} /\ Len(inext) \in Nat /\ \A n \in 1..Len(inext) : inext[n] \in Nat
      BY <1>1, <3>1, LevelFacts, NodeFacts
    <3>4. QED
      BY <2>1, <3>1, <3>2, <3>3 DEF InLine
  <2>6. PathInv'
    BY <1>1, <2>3, <2>4, <2>5 DEF PathInv
  <2>7. FoundInv'
    BY <1>1, <2>3, <2>4 DEF FoundInv, Hit, Nest
  <2>8. LoopsInv' /\ SharedInv' /\ AheadInv'
    BY <1>1, <2>2 DEF LoopsInv, SharedInv, AheadInv, NoNeedless, Nest, Producers
  <2>9. SkipsInv'
    <3>1. who \in Producers(cur) /\ Precedes(inext, who, level)
      <4>1. level <= Len(ProducerPath(who)) /\ path[level] < ProducerPath(who)[level]
        BY <1>1 DEF TooEarly
      <4>2. who \in Producers(cur) /\ ProducerPath(who) = leaf[who]
        <5>1. ~ (level <= Len(<< >>))
          BY <1>1, LevelFacts
        <5>2. QED
          BY <1>1, <4>1, <5>1, ProducerPathFacts
      <4>3. leaf[who] \in DOMAIN tree
        BY <1>1, <4>2, LevelFacts, ProducersArePlaced
      <4>4. level \in DOMAIN leaf[who]
        BY <1>1, <4>1, <4>2, <4>3, NodeFacts, LevelFacts
      <4>5. QED
        BY <2>5, <4>1, <4>2, <4>4 DEF Precedes
    <3>2. ASSUME NEW n \in DOMAIN Nest(cur), tree[inext] = Nest(cur)[n]
          PROVE  n = level
      <4>1. level \in DOMAIN Nest(cur)
        BY <1>1, <1>2, LevelFacts
      <4>2. Nest(cur)[n] = Nest(cur)[level]
        BY <2>5, <3>2
      <4>3. QED
        BY <1>1, <4>1, <4>2, LevelFacts
    <3>3. ASSUME NEW s \in skips', NEW n \in DOMAIN Nest(cur), tree[s] = Nest(cur)[n]
          PROVE  \E p \in Producers(cur) : Precedes(s, p, n)
      BY <1>1, <2>2, <3>1, <3>2, <3>3 DEF SkipsInv
    <3>4. QED
      BY <1>1, <3>3 DEF SkipsInv, Precedes, Nest, Producers
  <2>10. CheckedInv'
    <3>1. ASSUME f # NoPath
          PROVE  inext[level] <= f[level] /\ f[level] \in Nat
      <4>1. Hit(inode, Nest(cur)[level], skips, f)
        BY <1>1, <2>3, <2>4, <3>1 DEF Hit
      <4>2. inext[level] <= f[level]
        BY <1>1, <2>2, <4>1 DEF FoundInv
      <4>3. f \in DOMAIN tree /\ IsPrefix(inode, f) /\ tree[f] = Nest(cur)[level]
        BY <4>1 DEF Hit
      <4>4. level <= Len(f) /\ level \in Nat \ {0}
        BY <1>1, <1>2, <4>3, BelowInode, LevelFacts
      <4>5. f[level] \in Nat
        BY <4>3, <4>4, NodeFacts
      <4>6. QED
        BY <4>2, <4>5
    <3>2. ASSUME f # NoPath, NEW p \in Producers(cur) \ (todo \union {who}), level \in DOMAIN leaf[p]
          PROVE  leaf[p][level] <= f[level]
      <4>1. leaf[p][level] <= inext[level]
        BY <1>1, <2>2, <3>2 DEF CheckedInv
      <4>2. leaf[p][level] \in Nat
        <5>1. leaf[p] \in DOMAIN tree
          BY <1>1, LevelFacts, ProducersArePlaced
        <5>2. QED
          BY <3>2, <5>1, NodeFacts
      <4>3. QED
        BY <2>5, <3>1, <3>2, <4>1, <4>2
    <3>3. QED
      BY <1>1, <2>3, <3>2 DEF CheckedInv, Producers
  <2>11. QED
    BY <2>6, <2>7, <2>8, <2>9, <2>10
<1>5. QED
  BY <1>3, <1>4 DEF PlaceInv

LEMMA PlaceChecked ==
  ASSUME BaseInv, PlaceInv, Checked
  PROVE  PlaceInv'
<1>1. /\ mode = "check" /\ mode' = mode /\ who # 0 /\ ~ TooEarly /\ who' = 0
      /\ inext' = inext \/ (inext' = NoPath /\ SiblingClash)
      /\ UNCHANGED << prog, tree, leaf, cur, level, inode, path, skips, todo >>
  BY DEF Checked
<1>2. LastInv'
  BY <1>1 DEF PlaceInv, LastInv, Nest
<1>3. ASSUME InLine'
      PROVE  /\ LoopsInv' /\ PathInv' /\ SkipsInv' /\ FoundInv'
             /\ SharedInv' /\ CheckedInv' /\ AheadInv'
  <2>1. InLine /\ LastInv /\ level <= Len(Nest(cur))
    BY <1>1, <1>3 DEF InLine, PlaceInv, BaseInv, ControlInv
  <2>2. /\ LoopsInv /\ PathInv /\ SkipsInv /\ FoundInv
        /\ SharedInv /\ CheckedInv /\ AheadInv
    BY <1>1, <2>1 DEF PlaceInv
  <2>3. LoopsInv' /\ SkipsInv' /\ SharedInv' /\ AheadInv'
    BY <1>1, <2>2 DEF LoopsInv, SkipsInv, SharedInv, AheadInv, NoNeedless, Precedes, Nest, Producers
  <2>4. PathInv'
    BY <1>1, <2>2 DEF PathInv
  <2>5. FoundInv'
    <3>1. SiblingClash => level = 3
      BY <1>1, <2>1, LevelFacts DEF SiblingClash
    <3>2. QED
      BY <1>1, <2>2, <3>1 DEF FoundInv, Hit, Nest
  <2>6. CheckedInv'
    <3>1. ASSUME inext' # NoPath, NEW r \in Producers(cur) \ todo, level \in DOMAIN leaf[r]
          PROVE  leaf[r][level] <= inext[level]
      <4>1. inext # NoPath /\ inext \in DOMAIN tree
        BY <1>1, <3>1 DEF BaseInv, ControlInv
      <4>2. CASE r # who
        BY <1>1, <2>2, <3>1, <4>1, <4>2 DEF CheckedInv
      <4>3. CASE r = who
        <5>1. path = inext /\ tree[inext] = Nest(cur)[level] /\ IsPrefix(inode, inext)
          BY <1>1, <2>2, <4>1 DEF PathInv, BaseInv, ControlInv
        <5>2. level \in Nat \ {0} /\ level <= Len(inext) /\ Len(inext) \in Nat
          BY <1>1, <2>1, <4>1, <5>1, BelowInode, LevelFacts, NodeFacts
        <5>3. inext[level] \in Nat /\ inext[level] >= 1
          BY <4>1, <5>2, NodeFacts
        <5>4. leaf[r] \in DOMAIN tree
          BY <1>1, <3>1, LevelFacts, ProducersArePlaced
        <5>5. level \in 1..Len(leaf[r]) /\ leaf[r][level] \in Nat
          BY <3>1, <5>4, NodeFacts
        <5>6. CASE ProducerPath(who) = leaf[who]
          BY <1>1, <4>1, <4>3, <5>1, <5>3, <5>5, <5>6 DEF TooEarly
        <5>7. CASE who = 1
          <6>1. leaf[r] = Ones(Len(Nest(1)) + 1)
            BY <4>3, <5>7 DEF BaseInv, LeafInv
          <6>2. Len(Nest(1)) + 1 \in Nat
            <7>1. Nest(1) \in Seq(Iters)
              BY ProgramFacts DEF BaseInv, ControlInv
            <7>2. QED
              BY <7>1
          <6>3. leaf[r][level] = 1
            <7>1. \A k \in Nat : \A m \in 1..k : Len(Ones(k)) = k /\ Ones(k)[m] = 1
              BY OnesFacts
            <7>2. Len(leaf[r]) = Len(Nest(1)) + 1
              BY <6>1, <6>2, OnesFacts
            <7>3. level \in 1..(Len(Nest(1)) + 1)
              BY <5>5, <7>2
            <7>4. QED
              BY <6>1, <6>2, <7>1, <7>3
          <6>4. QED
            BY <5>3, <6>3
        <5>8. QED
          BY <1>1, <5>6, <5>7, ProducerPathFacts
      <4>4. QED
        BY <4>2, <4>3
    <3>2. QED
      BY <1>1, <3>1 DEF CheckedInv, Producers
  <2>7. QED
    BY <2>3, <2>4, <2>5, <2>6
<1>4. QED
  BY <1>2, <1>3 DEF PlaceInv

(* A prefix of a path has the same prefixes.                               *)
LEMMA PrefixOfPrefix ==
  ASSUME NEW q \in Seq(Nat), NEW r \in Seq(Nat), IsPrefix(q, r), NEW n \in 0..Len(q)
  PROVE  SubSeq(r, 1, n) = SubSeq(q, 1, n)
<1>1. Len(q) <= Len(r) /\ \A m \in 1..Len(q) : r[m] = q[m]
  BY PrefixPoints
<1>2. \A m \in 1..n : m \in 1..Len(q) /\ m \in 1..Len(r) /\ r[m] = q[m] /\ q[m] \in Nat
  <2>1. Len(q) \in Nat /\ Len(r) \in Nat /\ \A m \in 1..Len(q) : q[m] \in Nat
    OBVIOUS
  <2>2. \A m \in 1..n : m \in 1..Len(q) /\ m \in 1..Len(r)
    BY <1>1, <2>1
  <2>3. QED
    BY <1>1, <2>1, <2>2
<1>3. n \in Nat
  OBVIOUS
<1>4. /\ SubSeq(r, 1, n) \in Seq(Nat) /\ SubSeq(q, 1, n) \in Seq(Nat)
      /\ Len(SubSeq(r, 1, n)) = n /\ Len(SubSeq(q, 1, n)) = n
      /\ \A m \in 1..n : SubSeq(r, 1, n)[m] = r[m] /\ SubSeq(q, 1, n)[m] = q[m]
  BY <1>2, <1>3, SubSeqProperties
<1>5. QED
  BY <1>2, <1>4, SeqEqual

(* A producer of the statement that is being placed has another node.      *)
LEMMA ProducerApart ==
  ASSUME BaseInv, mode # "idle", NEW p \in Producers(cur)
  PROVE  /\ p \in Stmts /\ p # 0 /\ p # cur
         /\ leaf[p] \in DOMAIN tree /\ leaf[p] # inode
<1>1. /\ cur \in Stmts /\ tree[inode] \in Iters \union {0}
      /\ Iters \intersect Nat = {} /\ Stmts = 1..Len(prog) /\ Len(prog) \in Nat
  BY ProgramFacts DEF BaseInv, ControlInv
<1>2. p \in Stmts /\ p # cur /\ leaf[p] \in DOMAIN tree /\ tree[leaf[p]] = p
  BY <1>1, ProducersArePlaced
<1>3. p \in Nat /\ p # 0
  BY <1>1, <1>2
<1>4. QED
  BY <1>1, <1>2, <1>3

(* A loop of this level that was not taken was skipped for a producer.     *)
LEMMA PassedOver ==
  ASSUME BaseInv, mode = "check", LastInv, InLine, SkipsInv, FoundInv,
         NEW k \in Nat \ {0}, Append(inode, k) \in DOMAIN tree,
         tree[Append(inode, k)] = Nest(cur)[level],
         IF inext = NoPath THEN level # 3 ELSE inext[level] \in Nat /\ k < inext[level]
  PROVE  \E p \in Producers(cur) : level \in DOMAIN leaf[p] /\ leaf[p][level] > k
<1> DEFINE x == Append(inode, k)
<1>1. /\ level \in Nat \ {0} /\ Len(inode) = level - 1 /\ inode \in Paths /\ level \in DOMAIN Nest(cur)
  BY LevelFacts, NodeFacts DEF InLine, BaseInv, ControlInv
<1>2. IsPrefix(inode, x) /\ Len(x) = level /\ x[level] = k /\ SubSeq(x, 1, level) = x
  <2>1. IsPrefix(inode, x) /\ Len(x) = Len(inode) + 1 /\ x[Len(inode) + 1] = k
    BY <1>1, KidIsAppend
  <2>2. SubSeq(x, 1, Len(inode) + 1) = x
    BY <1>1, PrefixOfKid
  <2>3. Len(inode) + 1 = level
    BY <1>1
  <2>4. QED
    BY <2>1, <2>2, <2>3
<1>3. x \in skips
  <2>1. SUFFICES ASSUME x \notin skips PROVE FALSE
    OBVIOUS
  <2>2. \A m \in (Len(inode) + 1)..Len(x) : m = level
    BY <1>1, <1>2
  <2>3. Hit(inode, Nest(cur)[level], skips, x)
    BY <1>2, <2>1, <2>2 DEF Hit
  <2>4. /\ inext # NoPath => inext[level] <= k
        /\ inext = NoPath => level = 3
    BY <1>2, <2>3 DEF FoundInv
  <2>5. QED
    BY <2>4
<1>4. PICK p \in Producers(cur) : Precedes(x, p, level)
  BY <1>1, <1>3 DEF SkipsInv
<1>5. level \in DOMAIN leaf[p] /\ k < leaf[p][level]
  BY <1>2, <1>4 DEF Precedes
<1>6. leaf[p][level] \in Nat
  BY <1>5, ProducerApart, NodeFacts
<1>7. QED
  BY <1>5, <1>6

LEMMA PlaceUseLoop ==
  ASSUME BaseInv, PlaceInv, UseLoop
  PROVE  PlaceInv'
<1>1. /\ mode = "check" /\ who = 0 /\ todo = {} /\ inext # NoPath
      /\ inode' = inext /\ level' = level + 1 /\ mode' = "seek"
      /\ UNCHANGED << prog, tree, named, leaf, cur, inext, path, skips, todo, who >>
  BY DEF UseLoop, Descended
<1>2. /\ LastInv /\ level <= Len(Nest(cur)) /\ inext \in DOMAIN tree
      /\ tree[inext] = Nest(cur)[level] /\ IsPrefix(inode, inext)
  BY <1>1 DEF PlaceInv, BaseInv, ControlInv
<1>3. /\ level \in Nat \ {0} /\ cur \in Stmts /\ level \in DOMAIN Nest(cur)
      /\ inode \in DOMAIN tree /\ inode \in Seq(Nat) /\ inode \in Paths /\ Len(inode) \in Nat
      /\ SubSeq(inext, 1, Len(inext)) = inext
      /\ inext \in Seq(Nat) /\ inext \in Paths /\ Len(inext) \in Nat
      /\ \A n \in 1..Len(inext) : inext[n] \in Nat \ {0}
  BY <1>1, <1>2, LevelFacts, NodeFacts
<1>4. /\ Len(inode) < Len(inext) /\ level <= Len(inext)
      /\ \A k \in 1..Len(inode) : inext[k] = inode[k]
      /\ SubSeq(inext, 1, Len(inode)) = inode
  BY <1>1, <1>2, BelowInode
<1>5. LastInv'
  BY <1>1, <1>2, <1>3, <1>4 DEF LastInv, Nest
<1>6. ASSUME InLine'
      PROVE  /\ LoopsInv' /\ PathInv' /\ SkipsInv' /\ FoundInv'
             /\ SharedInv' /\ CheckedInv' /\ AheadInv'
  <2>1. Len(inext) = level
    BY <1>1, <1>3, <1>6 DEF InLine
  <2>2. Len(inode) = level - 1 /\ InLine
    BY <1>2, <1>3, <1>4, <2>1 DEF InLine, LastInv
  <2>3. /\ LoopsInv /\ PathInv /\ SkipsInv /\ FoundInv
        /\ SharedInv /\ CheckedInv /\ AheadInv
    BY <1>1, <2>2 DEF PlaceInv
  <2>4. \A n \in 1..(level - 1) : n \in 0..Len(inode) /\ n \in 1..Len(inode)
    BY <1>3, <2>2
  <2>5. LoopsInv'
    <3>1. ASSUME NEW n \in 1..level
          PROVE  tree[SubSeq(inext, 1, n)] = Nest(cur)[n]
      <4>1. CASE n = level
        BY <1>2, <1>3, <2>1, <4>1
      <4>2. CASE n # level
        <5>1. n \in 1..(level - 1)
          BY <1>3, <4>2
        <5>2. SubSeq(inext, 1, n) = SubSeq(inode, 1, n)
          BY <1>2, <1>3, <2>4, <5>1, PrefixOfPrefix
        <5>3. QED
          BY <2>3, <5>1, <5>2 DEF LoopsInv
      <4>3. QED
        BY <4>1, <4>2
    <3>2. level' - 1 = level
      BY <1>1, <1>3
    <3>3. QED
      BY <1>1, <3>1, <3>2 DEF LoopsInv, Nest
  <2>6. PathInv'
    BY <1>1, <2>3 DEF PathInv
  <2>7. SkipsInv'
    BY <1>1, <2>3 DEF SkipsInv, Precedes, Nest, Producers
  <2>8. FoundInv' /\ CheckedInv'
    BY <1>1 DEF FoundInv, CheckedInv
  <2>9. SharedInv'
    <3>1. ASSUME NEW n \in 1..(level - 1), n # 3
          PROVE  NoNeedless(cur, inext, n)'
      <4>1. NoNeedless(cur, inode, n) /\ n \in 1..Len(inode)
        BY <2>3, <2>4, <3>1 DEF SharedInv
      <4>2. prog' = prog /\ tree' = tree /\ leaf' = leaf
        BY <1>1
      <4>3. QED
        BY <1>1, <1>2, <1>3, <4>1, <4>2, NoNeedlessStays
    <3>2. ASSUME level # 3, NEW k \in 1..(inext[level] - 1),
                 tree[Append(SubSeq(inext, 1, level - 1), k)] = Nest(cur)[level]
          PROVE  \E p \in Producers(cur) : level \in DOMAIN leaf[p] /\ leaf[p][level] > k
      <4>1. SubSeq(inext, 1, level - 1) = inode
        BY <1>4, <2>2
      <4>2. level \in 1..Len(inext) /\ inext[level] \in Nat
        BY <1>3, <2>1
      <4>3. k \in 1..inext[level] /\ k \in Nat \ {0} /\ k < inext[level]
        BY <4>2
      <4>4. Append(inode, k) \in DOMAIN tree
        BY <1>2, <4>1, <4>2, <4>3, SiblingsBefore DEF Kids
      <4>5. QED
        BY <1>1, <1>2, <2>2, <2>3, <3>2, <4>1, <4>2, <4>3, <4>4, PassedOver
    <3>3. level # 3 => NoNeedless(cur, inext, level)
      BY <3>2 DEF NoNeedless
    <3>4. ASSUME NEW n \in 1..level, n # 3
          PROVE  NoNeedless(cur, inext, n)
      <4>1. CASE n = level
        BY <3>3, <3>4, <4>1
      <4>2. CASE n # level
        <5>1. n \in 1..(level - 1)
          BY <1>3, <4>2
        <5>2. NoNeedless(cur, inext, n)'
          BY <3>1, <3>4, <5>1
        <5>3. QED
          BY <1>1, <5>2 DEF NoNeedless, Nest, Producers
      <4>3. QED
        BY <4>1, <4>2
    <3>5. level' - 1 = level
      BY <1>1, <1>3
    <3>6. QED
      BY <1>1, <3>4, <3>5 DEF SharedInv, NoNeedless, Nest, Producers
  <2>10. AheadInv'
    <3>1. ASSUME NEW p \in Producers(cur)
          PROVE  IsPrefix(inext, leaf[p]) \/ Ahead(leaf[p], inext)
      <4>1. p # 0 /\ leaf[p] \in DOMAIN tree /\ leaf[p] # inode
        BY <1>1, ProducerApart
      <4>2. leaf[p] \in Seq(Nat) /\ Len(leaf[p]) \in Nat /\ \A m \in 1..Len(leaf[p]) : leaf[p][m] \in Nat
        BY <4>1, NodeFacts
      <4>3. CASE Ahead(leaf[p], inode)
        BY <1>2, <1>3, <4>2, <4>3, AheadExtends
      <4>4. CASE IsPrefix(inode, leaf[p])
        <5>1. Len(inode) <= Len(leaf[p]) /\ \A k \in 1..Len(inode) : inode[k] = leaf[p][k]
          BY <1>3, <4>2, <4>4, PrefixPoints
        <5>2. Len(inode) < Len(leaf[p])
          <6>1. Len(inode) = Len(leaf[p]) => inode = leaf[p]
            BY <1>3, <4>2, <5>1, SeqEqual
          <6>2. QED
            BY <1>3, <4>1, <4>2, <5>1, <6>1
        <5>3. level \in 1..Len(leaf[p])
          BY <1>3, <2>2, <4>2, <5>2
        <5>4. leaf[p][level] <= inext[level]
          BY <1>1, <2>3, <4>1, <5>3 DEF CheckedInv
        <5>5. \A m \in 1..(level - 1) : leaf[p][m] = inext[m]
          BY <1>4, <2>4, <5>1
        <5>6. CASE leaf[p][level] = inext[level]
          <6>1. \A m \in 1..Len(inext) : inext[m] = leaf[p][m]
            BY <1>3, <2>1, <5>5, <5>6
          <6>2. Len(inext) <= Len(leaf[p])
            BY <2>1, <5>3
          <6>3. QED
            BY <1>3, <4>2, <6>1, <6>2, PrefixPoints
        <5>7. CASE leaf[p][level] # inext[level]
          <6>1. leaf[p][level] < inext[level]
            <7>1. leaf[p][level] \in Nat /\ inext[level] \in Nat
              BY <1>3, <2>1, <4>2, <5>3
            <7>2. QED
              BY <5>4, <5>7, <7>1
          <6>2. level \in 1..Shorter(leaf[p], inext)
            BY <2>1, <5>3 DEF Shorter
          <6>3. QED
            BY <5>5, <6>1, <6>2 DEF Ahead
        <5>8. QED
          BY <5>6, <5>7
      <4>5. QED
        BY <2>3, <4>3, <4>4 DEF AheadInv
    <3>2. QED
      BY <1>1, <3>1 DEF AheadInv, Producers
  <2>11. QED
    BY <2>5, <2>6, <2>7, <2>8, <2>9, <2>10
<1>7. QED
  BY <1>5, <1>6 DEF PlaceInv

LEMMA PlaceNewLoop ==
  ASSUME BaseInv, PlaceInv, NewLoop, BaseInv'
  PROVE  PlaceInv'
<1> DEFINE i == Nest(cur)[level]
<1>1. PICK q : /\ q = NewKid(inode) /\ inode' = q
               /\ tree' = [r \in DOMAIN tree \union {q} |-> IF r = q THEN i ELSE tree[r]]
  BY DEF NewLoop
<1>2. /\ mode = "check" /\ inext = NoPath /\ level' = level + 1 /\ mode' = "seek"
      /\ UNCHANGED << prog, leaf, cur, inext, path, skips, todo, who >>
  BY DEF NewLoop, Descended
<1>3. /\ LastInv /\ level <= Len(Nest(cur))
  BY <1>2 DEF PlaceInv, BaseInv, ControlInv
<1>4. /\ level \in Nat \ {0} /\ cur \in Stmts /\ level \in DOMAIN Nest(cur) /\ i \in Iters
      /\ inode \in DOMAIN tree /\ inode \in Seq(Nat) /\ inode \in Paths /\ Len(inode) \in Nat
      /\ tree[inode] \in Iters \union {0}
  BY <1>2, <1>3, LevelFacts, NodeFacts
<1> HIDE DEF i
<1>5. /\ TreeInv' /\ DOMAIN tree' = DOMAIN tree \union {q} /\ tree'[q] = i
      /\ \A r \in DOMAIN tree : tree'[r] = tree[r]
      /\ Kids(q)' = {}
  <2>1. inode \in DOMAIN tree /\ tree[inode] \in Iters \union {0} /\ i \in Iters \union Stmts
    BY <1>4
  <2>2. TreeInv /\ prog' = prog
    BY <1>2 DEF BaseInv
  <2>3. QED
    BY ONLY <1>1, <2>1, <2>2, TreeGrows
<1>6. PICK n \in Nat : /\ Kids(inode) = {Append(inode, k) : k \in 1..n}
                       /\ q = Append(inode, n + 1)
  BY <1>1, <1>4, NewKidIsNew DEF BaseInv
<1>7. /\ Len(q) = Len(inode) + 1 /\ IsPrefix(inode, q) /\ q[Len(inode) + 1] = n + 1
      /\ q \in Paths /\ q \in Seq(Nat)
      /\ SubSeq(q, 1, Len(inode)) = inode /\ SubSeq(q, 1, Len(q)) = q
  <2>1. Len(q) = Len(inode) + 1 /\ IsPrefix(inode, q) /\ q[Len(inode) + 1] = n + 1 /\ q \in Paths
    BY <1>4, <1>6, KidIsAppend
  <2>2. /\ SubSeq(q, 1, Len(inode)) = inode /\ SubSeq(q, 1, Len(q)) = q
    BY <1>4, <1>6, <2>1, PrefixOfKid
  <2>3. q \in Seq(Nat)
    BY <2>1, SeqMonotonic DEF Paths
  <2>4. QED
    BY <2>1, <2>2, <2>3
<1>8. LastInv'
  <2>1. level' - 1 = level /\ level' # 1 /\ level <= Len(q)
    BY <1>2, <1>3, <1>4, <1>7 DEF LastInv
  <2>2. tree'[inode'] = Nest(cur)[level]
    BY <1>1, <1>5 DEF i
  <2>3. QED
    BY <1>1, <1>2, <2>1, <2>2 DEF LastInv, Nest
<1>9. ASSUME InLine'
      PROVE  /\ LoopsInv' /\ PathInv' /\ SkipsInv' /\ FoundInv'
             /\ SharedInv' /\ CheckedInv' /\ AheadInv'
  <2>1. Len(q) = level
    BY <1>1, <1>2, <1>4, <1>9 DEF InLine
  <2>2. Len(inode) = level - 1 /\ InLine
    BY <1>4, <1>7, <2>1, SMTT(30) DEF InLine
  <2>3. /\ LoopsInv /\ PathInv /\ SkipsInv /\ FoundInv
        /\ SharedInv /\ CheckedInv /\ AheadInv
    BY <1>2, <2>2 DEF PlaceInv
  <2>4. \A m \in 1..(level - 1) : m \in 0..Len(inode) /\ m \in 1..Len(inode) /\ m \in 0..(Len(q) - 1)
    BY <1>4, <2>1, <2>2
  <2>5. level' - 1 = level
    BY <1>2, <1>4
  <2>6. LoopsInv'
    <3>1. ASSUME NEW m \in 1..level
          PROVE  tree'[SubSeq(q, 1, m)] = Nest(cur)[m]
      <4>1. CASE m = level
        BY <1>5, <1>7, <2>1, <4>1 DEF i
      <4>2. CASE m # level
        <5>1. m \in 1..(level - 1)
          BY <1>4, <4>2
        <5>2. SubSeq(q, 1, m) = SubSeq(inode, 1, m)
          BY <1>4, <1>7, <2>4, <5>1, PrefixOfPrefix
        <5>3. SubSeq(inode, 1, m) \in DOMAIN tree
          <6>1. CASE m = Len(inode)
            BY <1>4, <6>1, NodeFacts
          <6>2. CASE m # Len(inode)
            <7>1. m \in 0..(Len(inode) - 1)
              BY <1>4, <2>4, <5>1, <6>2
            <7>2. QED
              BY <1>4, <7>1 DEF BaseInv, TreeInv, Branches
          <6>3. QED
            BY <6>1, <6>2
        <5>4. QED
          BY <1>5, <2>3, <5>1, <5>2, <5>3 DEF LoopsInv
      <4>3. QED
        BY <4>1, <4>2
    <3>2. QED
      BY <1>1, <1>2, <2>5, <3>1 DEF LoopsInv, Nest
  <2>7. PathInv'
    BY <1>1, <1>2, <1>5 DEF PathInv, Kids
  <2>8. SkipsInv'
    <3>1. \A s \in skips : tree'[s] = tree[s]
      BY <1>5 DEF BaseInv, ControlInv
    <3>2. QED
      BY <1>2, <2>3, <3>1 DEF SkipsInv, Precedes, Nest, Producers
  <2>9. FoundInv' /\ CheckedInv'
    BY <1>2 DEF FoundInv, CheckedInv
  <2>10. SharedInv'
    <3> PICK c, l : c = cur /\ l = level
      OBVIOUS
    <3>1. ASSUME NEW m \in 1..(level - 1), m # 3
          PROVE  NoNeedless(c, q, m)'
      <4>1. NoNeedless(c, inode, m) /\ m \in 1..Len(inode)
        BY <2>3, <2>4, <3>1 DEF SharedInv
      <4>2. prog' = prog /\ leaf' = leaf
        BY <1>2
      <4>3. QED
        BY <1>4, <1>5, <1>7, <4>1, <4>2, NoNeedlessStays
    <3>2. ASSUME level # 3, NEW k \in 1..n, tree'[Append(inode, k)] = Nest(cur)[level]
          PROVE  \E p \in Producers(cur) : level \in DOMAIN leaf[p] /\ leaf[p][level] > k
      <4>1. Append(inode, k) \in DOMAIN tree
        BY <1>6 DEF Kids
      <4>2. tree[Append(inode, k)] = Nest(cur)[level] /\ k \in Nat \ {0}
        BY <1>5, <3>2, <4>1
      <4>3. QED
        BY <1>2, <1>3, <2>2, <2>3, <3>2, <4>1, <4>2, PassedOver
    <3>3. ASSUME level # 3
          PROVE  NoNeedless(c, q, l)'
      <4>1. q[level] - 1 = n /\ SubSeq(q, 1, level - 1) = inode
        BY <1>7, <2>1, <2>2, SMTT(30)
      <4>2. QED
        BY <1>2, <1>4, <2>1, <3>2, <3>3, <4>1 DEF NoNeedless, Nest, Producers
    <3>4. ASSUME NEW m \in 1..level, m # 3
          PROVE  NoNeedless(c, q, m)'
      <4>1. CASE m = level
        BY <3>3, <3>4, <4>1
      <4>2. CASE m # level
        <5>1. m \in 1..(level - 1)
          BY <1>4, <4>2
        <5>2. QED
          BY <3>1, <3>4, <5>1
      <4>3. QED
        BY <4>1, <4>2
    <3>5. ASSUME NEW m \in 1..(level' - 1), m # 3
          PROVE  NoNeedless(cur, inode, m)'
      <4>1. m \in 1..level /\ cur' = c /\ inode' = q
        BY <1>1, <1>2, <2>5
      <4>2. NoNeedless(c, q, m)'
        BY <3>4, <3>5, <4>1
      <4>3. QED
        BY <4>1, <4>2 DEF NoNeedless, Nest, Producers
    <3>6. QED
      BY <3>5 DEF SharedInv
  <2>11. AheadInv'
    <3>1. ASSUME NEW p \in Producers(cur)
          PROVE  Ahead(leaf[p], q)
      <4>1. leaf[p] \in DOMAIN tree /\ leaf[p] # inode
        BY <1>2, ProducerApart
      <4>2. leaf[p] \in Seq(Nat)
        BY <4>1, NodeFacts
      <4>3. CASE Ahead(leaf[p], inode)
        BY <1>4, <1>7, <4>2, <4>3, AheadExtends
      <4>4. CASE IsPrefix(inode, leaf[p])
        BY <1>1, <1>4, <4>1, <4>4, NewKidIsAhead
      <4>5. QED
        BY <2>3, <4>3, <4>4 DEF AheadInv
    <3>2. QED
      BY <1>1, <1>2, <3>1 DEF AheadInv, Producers
  <2>12. QED
    BY <2>6, <2>7, <2>8, <2>9, <2>10, <2>11
<1>10. QED
  BY <1>8, <1>9 DEF PlaceInv

LEMMA PlaceInsertLeaf ==
  ASSUME InsertLeaf
  PROVE  PlaceInv'
BY DEF InsertLeaf, PlaceInv

-----------------------------------------------------------------------------
(* What is done stays done.                                                *)

(* The loops around a leaf are labels of nodes that are there.             *)
LEMMA LoopsStay ==
  ASSUME BaseInv, NEW s \in Stmts, leaf[s] \in DOMAIN tree, leaf'[s] = leaf[s],
         \A r \in DOMAIN tree : tree'[r] = tree[r]
  PROVE  LoopsOf(s)' = LoopsOf(s)
<1>1. leaf[s] \in Paths /\ Len(leaf[s]) \in Nat
  BY NodeFacts
<1>2. ASSUME NEW k \in 1..(Len(leaf[s]) - 1)
      PROVE  tree'[SubSeq(leaf[s], 1, k)] = tree[SubSeq(leaf[s], 1, k)]
  <2>1. k \in 0..(Len(leaf[s]) - 1)
    BY <1>1
  <2>2. SubSeq(leaf[s], 1, k) \in DOMAIN tree
    BY <2>1 DEF BaseInv, TreeInv, Branches
  <2>3. QED
    BY <2>2
<1>3. QED
  BY <1>2 DEF LoopsOf

(* A step that adds nodes and leaves at most keeps what is known of a       *)
(* statement that was placed before.                                       *)
LEMMA DoneStays ==
  ASSUME BaseInv, DoneInv, prog' = prog, NEW c \in Stmts, c # 1, IsPlaced(c),
         \A s \in Stmts : IsPlaced(s) => leaf'[s] = leaf[s],
         \A r \in DOMAIN tree : tree'[r] = tree[r],
         LoopsOf(c)' = Nest(c)
  PROVE  /\ \A n \in DOMAIN Nest(c) : n # 3 => NoNeedless(c, leaf[c], n)'
         /\ \A p \in Producers(c) : Ahead(leaf'[p], leaf'[c])
<1>1. c \in Placed /\ leaf[c] \in DOMAIN tree /\ leaf'[c] = leaf[c]
  BY PlacedFacts DEF BaseInv, LeafInv
<1>2. LoopsOf(c) = Nest(c)
  BY <1>1, LoopsStay
<1>3. /\ \A n \in DOMAIN Nest(c) : n # 3 => NoNeedless(c, leaf[c], n)
      /\ \A p \in Producers(c) : Ahead(leaf[p], leaf[c])
  BY <1>1, <1>2 DEF DoneInv
<1>4. \A p \in Producers(c) : leaf'[p] = leaf[p]
  BY ProducersArePlaced
<1>5. leaf[c] \in Seq(Nat) /\ Len(leaf[c]) \in Nat /\ IsPrefix(leaf[c], leaf[c])
  <2>1. leaf[c] \in Seq(Nat) /\ Len(leaf[c]) \in Nat
    BY <1>1, NodeFacts
  <2>2. QED
    BY <2>1, PrefixPoints
<1>6. \A n \in DOMAIN Nest(c) : n \in 1..Len(leaf[c])
  <2>1. DOMAIN Nest(c) = 1..(Len(leaf[c]) - 1)
    BY <1>2 DEF LoopsOf
  <2>2. QED
    BY <1>5, <2>1
<1> PICK q : q = leaf[c]
  OBVIOUS
<1>7. ASSUME NEW n \in DOMAIN Nest(c), n # 3
      PROVE  NoNeedless(c, q, n)'
  BY <1>1, <1>3, <1>4, <1>5, <1>6, <1>7, NoNeedlessStays
<1>8. ASSUME NEW n \in DOMAIN Nest(c), n # 3
      PROVE  NoNeedless(c, leaf[c], n)'
  BY <1>1, <1>7, <1>8 DEF NoNeedless
<1>9. QED
  BY <1>1, <1>3, <1>4, <1>8

(* Steps that do not place a statement.                                    *)
LEMMA DoneUnchanged ==
  ASSUME BaseInv, DoneInv, prog' = prog, leaf' = leaf,
         \A r \in DOMAIN tree : tree'[r] = tree[r]
  PROVE  DoneInv'
<1>1. ASSUME NEW c \in Placed \ {1}, LoopsOf(c)' = Nest(c)
      PROVE  /\ \A n \in DOMAIN Nest(c) : n # 3 => NoNeedless(c, leaf[c], n)'
             /\ \A p \in Producers(c) : Ahead(leaf'[p], leaf'[c])
  <2>1. c \in Stmts /\ c # 1 /\ IsPlaced(c)
    BY PlacedFacts DEF Placed
  <2>2. \A s \in Stmts : IsPlaced(s) => leaf'[s] = leaf[s]
    OBVIOUS
  <2>3. QED
    BY <1>1, <2>1, <2>2, DoneStays
<1>2. Placed' = Placed
  BY DEF Placed, Stmts
<1>3. ASSUME NEW c \in Placed \ {1}, LoopsOf(c)' = Nest(c), NEW n \in DOMAIN Nest(c), n # 3
      PROVE  NoNeedless(c, leaf[c], n)'
  BY <1>1, <1>3
<1>4. \A c \in Placed \ {1} : LoopsOf(c)' = Nest(c) =>
        /\ \A n \in DOMAIN Nest(c) : n # 3 => NoNeedless(c, leaf[c], n)'
        /\ \A p \in Producers(c) : Ahead(leaf'[p], leaf'[c])
  BY <1>1
<1>5. \A c : Nest(c)' = Nest(c) /\ Producers(c)' = Producers(c)
  BY DEF Nest, Producers
<1>6. QED
  BY <1>2, <1>4, <1>5 DEF DoneInv

(* The leaf of a statement is behind the ones of its producers, and its    *)
(* loops are shared, if they are its own.                                  *)
LEMMA DoneInsertLeaf ==
  ASSUME BaseInv, PlaceInv, DoneInv, InsertLeaf
  PROVE  DoneInv'
<1>1. PICK c, q : /\ c = cur /\ q = NewKid(inode)
                  /\ tree' = [r \in DOMAIN tree \union {q} |-> IF r = q THEN cur ELSE tree[r]]
                  /\ leaf' = [leaf EXCEPT ![cur] = q]
  BY DEF InsertLeaf
<1>2. /\ mode = "seek" /\ level > Len(Nest(cur)) /\ prog' = prog /\ LastInv
  BY DEF InsertLeaf, PlaceInv
<1>3. /\ c \in Stmts /\ Nest(c) \in Seq(Iters) /\ Len(Nest(c)) \in Nat
      /\ DOMAIN Nest(c) = 1..Len(Nest(c)) /\ level = Len(Nest(c)) + 1
      /\ inode \in DOMAIN tree /\ tree[inode] \in Iters \union {0}
      /\ inode \in Seq(Nat) /\ inode \in Paths /\ Len(inode) \in Nat
  BY <1>1, <1>2, LevelFacts, NodeFacts
<1>4. /\ DOMAIN tree' = DOMAIN tree \union {q}
      /\ \A r \in DOMAIN tree : tree'[r] = tree[r]
  <2>1. TreeInv /\ c \in Iters \union Stmts /\ prog' = prog
    BY <1>1, <1>2, <1>3 DEF BaseInv
  <2>2. /\ inode \in DOMAIN tree /\ tree[inode] \in Iters \union {0} /\ q = NewKid(inode)
        /\ tree' = [r \in DOMAIN tree \union {q} |-> IF r = q THEN c ELSE tree[r]]
    BY <1>1, <1>3
  <2>3. QED
    BY ONLY <2>1, <2>2, TreeGrows
<1>5. PICK n \in Nat : /\ Kids(inode) = {Append(inode, k) : k \in 1..n}
                       /\ q = Append(inode, n + 1)
  BY <1>1, <1>3, NewKidIsNew DEF BaseInv
<1>6. /\ Len(q) = Len(inode) + 1 /\ IsPrefix(inode, q) /\ q \in Paths /\ q \in Seq(Nat)
      /\ q # NoPath
  <2>1. Len(q) = Len(inode) + 1 /\ IsPrefix(inode, q) /\ q \in Paths
    BY <1>3, <1>5, KidIsAppend
  <2>2. q \in Seq(Nat) /\ q # NoPath
    BY <2>1, SeqMonotonic, NoPathIsNoNode DEF Paths
  <2>3. QED
    BY <2>1, <2>2
<1>7. /\ DOMAIN leaf = Stmts /\ leaf[c] = NoPath /\ ~ IsPlaced(c)
      /\ leaf'[c] = q /\ \A s \in Stmts : s # c => leaf'[s] = leaf[s]
  <2>1. ~ IsPlaced(c)
    BY <1>1, <1>2, <1>3, ProgramFacts DEF IsPlaced, BaseInv, ControlInv
  <2>2. QED
    BY <1>1, <1>3, <2>1 DEF BaseInv, LeafInv
<1>8. Placed' = Placed \union {c} /\ c \notin Placed
  BY <1>2, <1>3, <1>6, <1>7 DEF Placed, Stmts
<1>9. \A s : Nest(s)' = Nest(s) /\ Producers(s)' = Producers(s)
  BY <1>2 DEF Nest, Producers
<1>10. ASSUME NEW d \in Placed \ {1}, LoopsOf(d)' = Nest(d)
       PROVE  /\ \A m \in DOMAIN Nest(d) : m # 3 => NoNeedless(d, leaf[d], m)'
              /\ \A p \in Producers(d) : Ahead(leaf'[p], leaf'[d])
  <2>1. d \in Stmts /\ d # 1 /\ IsPlaced(d)
    BY PlacedFacts DEF Placed
  <2>2. \A s \in Stmts : IsPlaced(s) => leaf'[s] = leaf[s]
    BY <1>7
  <2>3. QED
    BY <1>2, <1>4, <1>10, <2>1, <2>2, DoneStays
<1>11. ASSUME LoopsOf(c)' = Nest(c)
       PROVE  /\ \A m \in DOMAIN Nest(c) : m # 3 => NoNeedless(c, leaf[c], m)'
              /\ \A p \in Producers(c) : Ahead(leaf'[p], leaf'[c])
  <2>1. Len(inode) = Len(Nest(c))
    <3>1. DOMAIN Nest(c) = 1..(Len(q) - 1)
      BY <1>7, <1>11 DEF LoopsOf
    <3>2. Len(q) - 1 = Len(inode)
      BY <1>3, <1>6
    <3>3. QED
      BY <1>3, <3>1, <3>2
  <2>2. SharedInv /\ AheadInv
    BY <1>2, <1>3, <2>1 DEF PlaceInv, InLine
  <2>3. ASSUME NEW p \in Producers(c)
        PROVE  Ahead(leaf'[p], leaf'[c])
    <3>1. p \in Stmts /\ p # c /\ leaf[p] \in DOMAIN tree /\ leaf[p] # inode
      BY <1>1, <1>2, ProducerApart
    <3>2. leaf[p] \in Seq(Nat)
      BY <3>1, NodeFacts
    <3>3. CASE Ahead(leaf[p], inode)
      BY <1>3, <1>6, <1>7, <3>1, <3>2, <3>3, AheadExtends
    <3>4. CASE IsPrefix(inode, leaf[p])
      BY <1>1, <1>3, <1>7, <3>1, <3>4, NewKidIsAhead
    <3>5. QED
      BY <1>1, <2>2, <3>3, <3>4 DEF AheadInv
  <2>4. ASSUME NEW m \in DOMAIN Nest(c), m # 3
        PROVE  NoNeedless(c, q, m)'
    <3>1. m \in 1..Len(inode) /\ NoNeedless(c, inode, m)
      BY <1>1, <1>3, <2>1, <2>2, <2>4 DEF SharedInv
    <3>2. \A p \in Producers(c) : leaf'[p] = leaf[p]
      BY <1>1, <1>2, <1>7, ProducerApart
    <3>3. QED
      BY <1>2, <1>3, <1>4, <1>6, <3>1, <3>2, NoNeedlessStays
  <2>5. ASSUME NEW m \in DOMAIN Nest(c), m # 3
        PROVE  NoNeedless(c, leaf[c], m)'
    BY <1>7, <2>4, <2>5 DEF NoNeedless
  <2>6. QED
    BY <2>3, <2>5
<1>12. ASSUME NEW d \in Placed' \ {1}, LoopsOf(d)' = Nest(d)
       PROVE  /\ \A m \in DOMAIN Nest(d) : m # 3 => NoNeedless(d, leaf[d], m)'
              /\ \A p \in Producers(d) : Ahead(leaf'[p], leaf'[d])
  <2>1. CASE d = c
    BY <1>11, <1>12, <2>1 DEF NoNeedless
  <2>2. CASE d # c
    BY <1>8, <1>10, <1>12, <2>2
  <2>3. QED
    BY <2>1, <2>2
<1>13. \A d \in Placed' \ {1} : LoopsOf(d)' = Nest(d) =>
         /\ \A m \in DOMAIN Nest(d) : m # 3 => NoNeedless(d, leaf[d], m)'
         /\ \A p \in Producers(d) : Ahead(leaf'[p], leaf'[d])
  BY <1>12
<1>14. QED
  BY <1>9, <1>13 DEF DoneInv

LEMMA InvInit ==
  ASSUME Init
  PROVE  PlaceInv /\ DoneInv
<1>1. mode = "idle" /\ \A s \in Stmts : s # 1 => leaf[s] = NoPath
  BY DEF Init
<1>2. QED
  BY <1>1 DEF PlaceInv, DoneInv, Placed

LEMMA InvNext ==
  ASSUME IInv, [Next]_vars
  PROVE  IInv'
<1> USE DEF IInv
<1>1. BaseInv'
  <2>1. ASSUME UNCHANGED vars
        PROVE  BaseInv'
    BY <2>1, BaseUnchanged DEF vars, place, BaseInv, ControlInv, Stmts, Nest, Producers
  <2>2. QED
    BY <2>1, BaseStart, BaseSeek, BaseCheck, BaseSkipLoop, BaseChecked, BaseUseLoop,
       BaseNewLoop, BaseInsertLeaf DEF Next, Fused
<1>2. ASSUME UNCHANGED vars
      PROVE  PlaceInv'
  BY <1>2 DEF vars, place, PlaceInv, LastInv, InLine, LoopsInv, PathInv, SkipsInv, FoundInv, Hit,
     SharedInv, CheckedInv, AheadInv, NoNeedless, Precedes, Nest, Producers, Kids
<1>3. PlaceInv'
  BY <1>1, <1>2, PlaceStart, PlaceSeek, PlaceCheck, PlaceSkipLoop, PlaceChecked, PlaceUseLoop,
     PlaceNewLoop, PlaceInsertLeaf DEF Next, Fused
<1>4. ASSUME NewLoop
      PROVE  DoneInv'
  <2>1. inode \in DOMAIN tree /\ TreeInv
    BY DEF BaseInv, ControlInv
  <2>2. NewKid(inode) \notin DOMAIN tree
    BY <2>1, NewKidIsNew
  <2>3. prog' = prog /\ leaf' = leaf /\ \A r \in DOMAIN tree : tree'[r] = tree[r]
    BY <1>4, <2>2 DEF NewLoop
  <2>4. QED
    BY <2>3, DoneUnchanged
<1>5. ASSUME prog' = prog /\ leaf' = leaf /\ tree' = tree
      PROVE  DoneInv'
  BY <1>5, DoneUnchanged
<1>6. DoneInv'
  <2>1. \/ prog' = prog /\ leaf' = leaf /\ tree' = tree
        \/ NewLoop \/ InsertLeaf
    BY DEF Next, Start, Seek, Check, SkipLoop, Checked, UseLoop, Fused, vars
  <2>2. QED
    BY <1>4, <1>5, <2>1, DoneInsertLeaf
<1>7. QED
  BY <1>1, <1>3, <1>6

(* The inductive invariant.                                                *)
THEOREM Invariant == Spec => []IInv
<1>1. Init => IInv
  BY BaseInit, InvInit DEF IInv
<1>2. IInv /\ [Next]_vars => IInv'
  BY InvNext
<1>3. QED
  BY <1>1, <1>2, PTL DEF Spec

-----------------------------------------------------------------------------
(* The statements that run in their own loops.                             *)

(* As long as every statement runs in the loops of its own schedule, loops *)
(* are shared wherever the values that are read allow it: Shared.          *)
THEOREM LoopsAreShared == Spec => [](OwnLoops => Shared)
<1>1. IInv /\ OwnLoops => Shared
  BY DEF IInv, DoneInv, OwnLoops, Shared, NoNeedless
<1>2. QED
  BY <1>1, Invariant, PTL

(* And the code of a statement comes after the code of its producers:      *)
(* AfterProducers.                                                         *)
THEOREM CodeAfterProducers == Spec => [](OwnLoops => AfterProducers)
<1>1. IInv /\ OwnLoops => AfterProducers
  <2> SUFFICES ASSUME IInv, OwnLoops, NEW c \in Placed, NEW p \in Producers(c)
               PROVE  Before(leaf[p], leaf[c])
    BY DEF AfterProducers
  <2>1. c \in Stmts /\ Producers(c) \subseteq 1..(c - 1)
    BY ProgramFacts DEF Placed, IInv, BaseInv, ControlInv
  <2>2. c # 1
    BY <2>1
  <2>3. Ahead(leaf[p], leaf[c])
    BY <2>2 DEF IInv, DoneInv, OwnLoops
  <2>4. QED
    BY <2>3 DEF Ahead, Before
<1>2. QED
  BY <1>1, Invariant, PTL

-----------------------------------------------------------------------------
(* Programs that have an iterator at one depth only.                       *)

(* A loop is as deep in the tree as it is in the nests, and so is what     *)
(* updateIterGraph finds.                                                  *)
DepthInv ==
  \A q \in DOMAIN tree : tree[q] \in Iters =>
    \E s \in Stmts : Len(q) \in DOMAIN Nest(s) /\ Nest(s)[Len(q)] = tree[q]

OwnInv == DepthInv /\ OwnLoops /\ (mode # "idle" => InLine)

LEMMA DepthFound ==
  ASSUME OneDepth(prog), BaseInv, DepthInv, NEW q \in DOMAIN tree,
         NEW c \in Stmts, NEW n \in DOMAIN Nest(c), tree[q] = Nest(c)[n]
  PROVE  Len(q) = n
<1>1. tree[q] \in Iters
  <2>1. Nest(c) \in Seq(Iters)
    BY ProgramFacts DEF BaseInv, ControlInv
  <2>2. QED
    BY <2>1
<1>2. PICK s \in Stmts : Len(q) \in DOMAIN Nest(s) /\ Nest(s)[Len(q)] = tree[q]
  BY <1>1 DEF DepthInv
<1>3. prog \in Programs
  BY DEF BaseInv, ControlInv
<1>4. QED
  BY <1>2, <1>3 DEF OneDepth, Nest, Stmts

LEMMA OwnInit ==
  ASSUME Init
  PROVE  OwnInv
<1> DEFINE n == Len(Nest(1))
<1>1. /\ prog \in Programs
      /\ tree = [q \in {Ones(k) : k \in 0..(n + 1)} |->
                   IF q = << >> THEN 0 ELSE IF Len(q) > n THEN 1 ELSE Nest(1)[Len(q)]]
      /\ leaf = [s \in Stmts |-> IF s = 1 THEN Ones(n + 1) ELSE NoPath]
      /\ mode = "idle"
  BY DEF Init
<1>2. /\ n \in Nat /\ Nest(1) \in Seq(Iters) /\ 1 \in Stmts /\ Iters \intersect Nat = {}
      /\ DOMAIN Nest(1) = 1..n
  BY <1>1, ProgramFacts
<1> HIDE DEF n
<1>3. \A k \in 0..(n + 1) :
        /\ k \in Nat /\ Len(Ones(k)) = k /\ Ones(k) \in DOMAIN tree
        /\ tree[Ones(k)] = IF k = 0 THEN 0 ELSE IF k > n THEN 1 ELSE Nest(1)[k]
  <2> TAKE k \in 0..(n + 1)
  <2>1. k \in Nat /\ Ones(k) \in DOMAIN tree
    BY <1>1, <1>2
  <2>2. Len(Ones(k)) = k /\ (k = 0 <=> Ones(k) = << >>)
    BY <2>1, OnesFacts
  <2>3. QED
    BY <1>1, <2>1, <2>2
<1>4. DepthInv
  <2>1. ASSUME NEW q \in DOMAIN tree, tree[q] \in Iters
        PROVE  \E s \in Stmts : Len(q) \in DOMAIN Nest(s) /\ Nest(s)[Len(q)] = tree[q]
    <3>1. PICK k \in 0..(n + 1) : q = Ones(k)
      BY <1>1
    <3>2. Len(q) = k /\ tree[q] = (IF k = 0 THEN 0 ELSE IF k > n THEN 1 ELSE Nest(1)[k])
      BY <1>3, <3>1
    <3>3. k \in 1..n
      BY <1>2, <2>1, <3>2
    <3>4. QED
      BY <1>2, <3>2, <3>3
  <2>2. QED
    BY <2>1 DEF DepthInv
<1>5. OwnLoops
  <2>1. \A s \in Placed : s = 1
    BY <1>1 DEF Placed
  <2>2. leaf[1] = Ones(n + 1) /\ n + 1 \in 0..(n + 1) /\ n + 1 \in Nat
    BY <1>1, <1>2
  <2>3. Len(leaf[1]) - 1 = n
    BY <1>2, <1>3, <2>2
  <2>4. \A k \in 1..n : tree[SubSeq(leaf[1], 1, k)] = Nest(1)[k]
    <3> TAKE k \in 1..n
    <3>1. k \in 0..(n + 1) /\ k # 0 /\ ~ (k > n)
      BY <1>2
    <3>2. SubSeq(Ones(n + 1), 1, k) = Ones(k)
      BY <2>2, <3>1, OnesFacts
    <3>3. QED
      BY <1>3, <2>2, <3>1, <3>2
  <2>5. LoopsOf(1) = [k \in 1..n |-> Nest(1)[k]]
    BY <2>3, <2>4 DEF LoopsOf
  <2>6. Nest(1) = [k \in 1..n |-> Nest(1)[k]]
    BY <1>2
  <2>7. QED
    BY <2>1, <2>5, <2>6 DEF OwnLoops
<1>6. QED
  BY <1>1, <1>4, <1>5 DEF OwnInv

(* Steps that leave the tree and the leaves alone.                         *)
LEMMA OwnUnchanged ==
  ASSUME DepthInv, OwnLoops, prog' = prog, tree' = tree, leaf' = leaf
  PROVE  DepthInv' /\ OwnLoops'
BY DEF DepthInv, OwnLoops, LoopsOf, Placed, Stmts, Nest

LEMMA OwnUseLoop ==
  ASSUME OneDepth(prog), IInv, OwnInv, UseLoop
  PROVE  OwnInv'
<1>1. /\ mode = "check" /\ inext # NoPath /\ inode' = inext /\ level' = level + 1
      /\ prog' = prog /\ tree' = tree /\ leaf' = leaf
  BY DEF UseLoop, Descended
<1>2. /\ inext \in DOMAIN tree /\ tree[inext] = Nest(cur)[level] /\ cur \in Stmts
      /\ level \in DOMAIN Nest(cur) /\ level \in Nat
  BY <1>1, LevelFacts DEF IInv, BaseInv, ControlInv
<1>3. Len(inext) = level
  BY <1>2, DepthFound DEF IInv, OwnInv
<1>4. InLine'
  BY <1>1, <1>2, <1>3 DEF InLine
<1>5. QED
  BY <1>1, <1>4, OwnUnchanged DEF OwnInv

LEMMA OwnNewLoop ==
  ASSUME IInv, OwnInv, NewLoop
  PROVE  OwnInv'
<1>1. PICK q, i : /\ q = NewKid(inode) /\ inode' = q /\ i = Nest(cur)[level]
                  /\ tree' = [r \in DOMAIN tree \union {q} |-> IF r = q THEN i ELSE tree[r]]
  BY DEF NewLoop
<1>2. /\ mode = "check" /\ level' = level + 1 /\ prog' = prog /\ leaf' = leaf
  BY DEF NewLoop, Descended
<1>3. /\ level \in Nat /\ cur \in Stmts /\ level \in DOMAIN Nest(cur) /\ inode \in DOMAIN tree
      /\ inode \in Paths /\ Len(inode) \in Nat /\ Len(inode) = level - 1
  BY <1>2, LevelFacts, NodeFacts DEF IInv, OwnInv, InLine, BaseInv, ControlInv
<1>4. q \notin DOMAIN tree /\ Len(q) = level
  <2>1. PICK n \in Nat : q = Append(inode, n + 1) /\ q \notin DOMAIN tree
    BY <1>1, <1>3, NewKidIsNew DEF IInv, BaseInv
  <2>2. Len(q) = Len(inode) + 1
    BY <1>3, <2>1, KidIsAppend
  <2>3. QED
    BY <1>3, <2>1, <2>2
<1>5. DOMAIN tree' = DOMAIN tree \union {q} /\ tree'[q] = i /\ \A r \in DOMAIN tree : tree'[r] = tree[r]
  BY <1>1, <1>4
<1>6. DepthInv'
  <2>1. ASSUME NEW r \in DOMAIN tree', tree'[r] \in Iters
        PROVE  \E s \in Stmts : Len(r) \in DOMAIN Nest(s) /\ Nest(s)[Len(r)] = tree'[r]
    <3>1. CASE r = q
      BY <1>1, <1>3, <1>4, <1>5, <3>1
    <3>2. CASE r # q
      BY <1>5, <2>1, <3>2 DEF OwnInv, DepthInv
    <3>3. QED
      BY <3>1, <3>2
  <2>2. QED
    BY <1>2, <2>1 DEF DepthInv, Stmts, Nest
<1>7. OwnLoops'
  <2>1. Placed' = Placed
    BY <1>2 DEF Placed, Stmts
  <2>2. ASSUME NEW s \in Placed
        PROVE  LoopsOf(s)' = Nest(s)
    <3>1. s \in Stmts /\ leaf[s] \in DOMAIN tree
      BY PlacedFacts DEF IInv, BaseInv, LeafInv, Placed
    <3>2. LoopsOf(s)' = LoopsOf(s)
      BY <1>2, <1>5, <3>1, LoopsStay DEF IInv
    <3>3. QED
      BY <3>2 DEF OwnInv, OwnLoops
  <2>3. QED
    BY <1>2, <2>1, <2>2 DEF OwnLoops, Nest
<1>8. InLine'
  BY <1>1, <1>2, <1>3, <1>4 DEF InLine
<1>9. QED
  BY <1>6, <1>7, <1>8 DEF OwnInv

LEMMA OwnInsertLeaf ==
  ASSUME IInv, OwnInv, InsertLeaf
  PROVE  OwnInv'
<1>1. PICK c, q : /\ c = cur /\ q = NewKid(inode)
                  /\ tree' = [r \in DOMAIN tree \union {q} |-> IF r = q THEN c ELSE tree[r]]
                  /\ leaf' = [leaf EXCEPT ![c] = q]
  BY DEF InsertLeaf
<1>2. /\ mode = "seek" /\ level > Len(Nest(cur)) /\ prog' = prog /\ mode' = "idle"
  BY DEF InsertLeaf
<1>3. /\ c \in Stmts /\ Nest(c) \in Seq(Iters) /\ Len(Nest(c)) \in Nat
      /\ DOMAIN Nest(c) = 1..Len(Nest(c)) /\ level = Len(Nest(c)) + 1
      /\ inode \in DOMAIN tree /\ Len(inode) = level - 1
      /\ inode \in Seq(Nat) /\ inode \in Paths /\ Len(inode) \in Nat
      /\ LoopsInv
  BY <1>1, <1>2, LevelFacts, NodeFacts DEF IInv, OwnInv, InLine, PlaceInv
<1>4. PICK n \in Nat : q = Append(inode, n + 1) /\ q \notin DOMAIN tree
  BY <1>1, <1>3, NewKidIsNew DEF IInv, BaseInv
<1>5. Len(q) = Len(inode) + 1 /\ IsPrefix(inode, q) /\ q \in Paths /\ q \in Seq(Nat)
  <2>1. Len(q) = Len(inode) + 1 /\ IsPrefix(inode, q) /\ q \in Paths
    BY <1>3, <1>4, KidIsAppend, SMTT(30)
  <2>2. QED
    BY <2>1, SeqMonotonic DEF Paths
<1>6. DOMAIN tree' = DOMAIN tree \union {q} /\ tree'[q] = c /\ \A r \in DOMAIN tree : tree'[r] = tree[r]
  BY <1>1, <1>4
<1>7. DOMAIN leaf = Stmts /\ leaf'[c] = q /\ \A s \in Stmts : s # c => leaf'[s] = leaf[s]
  BY <1>1, <1>3 DEF IInv, BaseInv, LeafInv
<1>8. DepthInv'
  <2>1. c \notin Iters
    BY <1>3, ProgramFacts DEF IInv, BaseInv, ControlInv
  <2>2. QED
    BY <1>2, <1>6, <2>1 DEF OwnInv, DepthInv, Stmts, Nest
<1>9. LoopsOf(c)' = Nest(c)
  <2>1. Len(q) - 1 = Len(Nest(c)) /\ Len(inode) = Len(Nest(c))
    BY <1>3, <1>5
  <2>2. ASSUME NEW k \in 1..Len(Nest(c))
        PROVE  tree'[SubSeq(q, 1, k)] = Nest(c)[k]
    <3>1. k \in 1..(level - 1) /\ k \in 0..Len(inode)
      BY <1>3, <2>1
    <3>2. SubSeq(q, 1, k) = SubSeq(inode, 1, k)
      BY <1>3, <1>5, <3>1, PrefixOfPrefix
    <3>3. SubSeq(inode, 1, k) \in DOMAIN tree
      <4>1. CASE k = Len(inode)
        BY <1>3, <4>1, NodeFacts DEF IInv
      <4>2. CASE k # Len(inode)
        <5>1. k \in 0..(Len(inode) - 1)
          <6>1. Len(inode) \in Nat /\ k \in 0..Len(inode) /\ k # Len(inode)
            BY <1>3, <3>1, <4>2
          <6>2. QED
            BY ONLY <6>1
        <5>2. QED
          BY <1>3, <5>1 DEF IInv, BaseInv, TreeInv, Branches
      <4>3. QED
        BY <4>1, <4>2
    <3>4. QED
      BY <1>1, <1>3, <1>6, <3>1, <3>2, <3>3 DEF LoopsInv
  <2>3. LoopsOf(c)' = [k \in 1..Len(Nest(c)) |-> Nest(c)[k]]
    BY <1>7, <2>1, <2>2 DEF LoopsOf
  <2>4. Nest(c) = [k \in 1..Len(Nest(c)) |-> Nest(c)[k]]
    BY <1>3
  <2>5. QED
    BY <2>3, <2>4
<1>10. OwnLoops'
  <2>1. ASSUME NEW s \in Placed', s # c
        PROVE  LoopsOf(s)' = Nest(s)
    <3>1. s \in Stmts /\ s \in Placed
      BY <1>2, <1>7, <2>1 DEF Placed, Stmts
    <3>2. leaf[s] \in DOMAIN tree
      BY <3>1, PlacedFacts DEF IInv, BaseInv, LeafInv
    <3>3. LoopsOf(s)' = LoopsOf(s)
      BY <1>6, <1>7, <2>1, <3>1, <3>2, LoopsStay DEF IInv
    <3>4. QED
      BY <3>1, <3>3 DEF OwnInv, OwnLoops
  <2>2. QED
    BY <1>2, <1>9, <2>1 DEF OwnLoops, Nest
<1>11. QED
  BY <1>2, <1>8, <1>10 DEF OwnInv

(* Every statement runs in the loops of its own schedule, if iterators are *)
(* at one depth each: OwnLoops.                                            *)
THEOREM OwnLoopsKept == Spec => [](OneDepth(prog) => OwnLoops)
<1>1. Init => OwnInv
  BY OwnInit
<1>2. IInv /\ (OneDepth(prog) => OwnInv) /\ [Next]_vars => (OneDepth(prog) => OwnInv)'
  <2> SUFFICES ASSUME IInv, OneDepth(prog) => OwnInv, [Next]_vars, OneDepth(prog)'
               PROVE  OwnInv'
    OBVIOUS
  <2>1. prog' = prog
    BY DEF Next, Start, Seek, Check, SkipLoop, Checked, UseLoop, NewLoop, InsertLeaf, Fused, vars, place
  <2>2. OneDepth(prog) /\ OwnInv
    BY <2>1 DEF OneDepth
  <2>3. ASSUME prog' = prog, tree' = tree, leaf' = leaf, inode' = inode, level' = level,
               mode # "idle" \/ mode' = mode
        PROVE  OwnInv'
    BY <2>2, <2>3, OwnUnchanged DEF OwnInv, InLine
  <2>4. CASE Start
    <3>1. prog' = prog /\ tree' = tree /\ leaf' = leaf /\ inode' = << >> /\ level' = 1
      BY <2>4 DEF Start
    <3>2. InLine'
      BY <3>1 DEF InLine
    <3>3. QED
      BY <2>2, <3>1, <3>2, OwnUnchanged DEF OwnInv
  <2>5. CASE Seek \/ (\E p \in Stmts : Check(p)) \/ SkipLoop \/ Checked
    BY <2>3, <2>5 DEF Seek, Check, SkipLoop, Checked
  <2>6. CASE UNCHANGED vars
    BY <2>3, <2>6 DEF vars, place
  <2>7. QED
    BY <2>2, <2>4, <2>5, <2>6, OwnUseLoop, OwnNewLoop, OwnInsertLeaf DEF Next, Fused
<1>3. OwnInv => OwnLoops
  BY DEF OwnInv
<1>4. QED
  BY <1>1, <1>2, <1>3, Invariant, PTL DEF Spec

(* So these programs share their loops, and keep the order of their code.  *)
THEOREM SharedKept == Spec => [](OneDepth(prog) => Shared /\ AfterProducers)
<1>1. QED
  BY OwnLoopsKept, LoopsAreShared, CodeAfterProducers, PTL

-----------------------------------------------------------------------------
(* What is left to do.                                                     *)

(* A loop that was found is not one that is skipped.                       *)
FreshInv == mode = "check" /\ inext # NoPath => inext \notin skips

LEMMA FoundIsFresh ==
  ASSUME BaseInv, NEW q, NEW i, NEW S, Find(q, i, S) # NoPath
  PROVE  Find(q, i, S) \notin S
<1>1. Hit(q, i, S, Find(q, i, S))
  BY FindResult DEF BaseInv, TreeInv
<1>2. QED
  BY <1>1 DEF Hit

LEMMA Fresh == Spec => []FreshInv
<1>1. Init => FreshInv
  BY DEF Init, FreshInv
<1>2. BaseInv /\ FreshInv /\ [Next]_vars => FreshInv'
  <2> SUFFICES ASSUME BaseInv, FreshInv, [Next]_vars
               PROVE  FreshInv'
    OBVIOUS
  <2>1. CASE Seek
    BY <2>1, FoundIsFresh DEF Seek, FreshInv
  <2>2. CASE SkipLoop
    BY <2>2, FoundIsFresh DEF SkipLoop, FreshInv
  <2>3. ASSUME skips' = skips, inext' \in {inext, NoPath}, mode' = mode
        PROVE  FreshInv'
    BY <2>3 DEF FreshInv
  <2>4. ASSUME mode' # "check"
        PROVE  FreshInv'
    BY <2>4 DEF FreshInv
  <2>5. CASE Checked
    BY <2>3, <2>5 DEF Checked
  <2>6. CASE (\E p \in Stmts : Check(p)) \/ Fused \/ UNCHANGED vars
    BY <2>3, <2>6 DEF Check, Fused, vars, place
  <2>7. CASE Start \/ UseLoop \/ NewLoop \/ InsertLeaf
    BY <2>4, <2>7 DEF Start, UseLoop, NewLoop, InsertLeaf
  <2>8. QED
    BY <2>1, <2>2, <2>5, <2>6, <2>7 DEF Next
<1>3. QED
  BY <1>1, <1>2, BaseInvariant, PTL DEF Spec

LEMMA LeftFacts ==
  /\ Len(Left) = 7 /\ Len(Left') = 7
  /\ Left[1] = Len(prog) - cur /\ Left'[1] = Len(prog') - cur'
  /\ Left[2] = (IF mode = "idle" THEN 0 ELSE 1) /\ Left'[2] = (IF mode' = "idle" THEN 0 ELSE 1)
  /\ Left[3] = Len(Nest(cur)) + 1 - level /\ Left'[3] = Len(Nest(cur)') + 1 - level'
  /\ Left[4] = (IF mode = "seek" THEN 1 ELSE 0) /\ Left'[4] = (IF mode' = "seek" THEN 1 ELSE 0)
  /\ Left[5] = Cardinality(todo) /\ Left'[5] = Cardinality(todo')
  /\ Left[6] = (IF who = 0 THEN 0 ELSE 1) /\ Left'[6] = (IF who' = 0 THEN 0 ELSE 1)
  /\ Left[7] = Cardinality(DOMAIN tree \ skips) /\ Left'[7] = Cardinality(DOMAIN tree' \ skips')
BY DEF Left

LEMMA LessAt ==
  ASSUME NEW k \in 1..7, Left'[k] < Left[k], \A m \in 1..(k - 1) : Left'[m] = Left[m]
  PROVE  Earlier(Left', Left)
<1>1. PICK s, t : s = Left' /\ t = Left
  OBVIOUS
<1>2. Len(s) = 7 /\ Len(t) = 7
  BY <1>1, LeftFacts
<1>3. k \in 1..Shorter(s, t)
  BY <1>2 DEF Shorter
<1>4. Earlier(s, t)
  BY <1>1, <1>3 DEF Earlier
<1>5. QED
  BY <1>1, <1>4

(* A set without one of its elements, for the counts in Left.              *)
LEMMA CountsLess ==
  ASSUME NEW S, IsFiniteSet(S), NEW x \in S
  PROVE  Cardinality(S \ {x}) < Cardinality(S)
<1>1. Cardinality(S \ {x}) = Cardinality(S) - 1
  BY FS_RemoveElement
<1>2. Cardinality(S) \in Nat
  BY FS_CardinalityType
<1>3. QED
  BY <1>1, <1>2

LEMMA LeftTyped ==
  ASSUME BaseInv
  PROVE  /\ cur \in Nat /\ Len(prog) \in Nat /\ level \in Nat /\ Len(Nest(cur)) \in Nat
         /\ cur <= Len(prog) /\ level <= Len(Nest(cur)) + 1
         /\ IsFiniteSet(todo) /\ IsFiniteSet(DOMAIN tree \ skips)
<1>1. /\ prog \in Programs /\ cur \in Stmts /\ level \in 1..(Len(Nest(cur)) + 1)
      /\ todo \subseteq Producers(cur)
  BY DEF BaseInv, ControlInv
<1>2. /\ Stmts = 1..Len(prog) /\ Len(prog) \in Nat /\ Nest(cur) \in Seq(Iters)
      /\ Producers(cur) \subseteq 1..(cur - 1)
  BY <1>1, ProgramFacts
<1>3. cur \in Nat /\ Len(Nest(cur)) \in Nat
  BY <1>1, <1>2
<1>4. IsFiniteSet(todo)
  <2>1. IsFiniteSet(1..(cur - 1))
    BY <1>3, FS_Interval
  <2>2. QED
    BY <1>1, <1>2, <2>1, FS_Subset
<1>5. IsFiniteSet(DOMAIN tree)
  BY DEF BaseInv, TreeInv, Branches
<1>6. QED
  BY <1>1, <1>2, <1>3, <1>4, <1>5, FS_Subset

(* What is left are natural numbers.                                       *)
LEMMA LeftIsNat ==
  ASSUME BaseInv
  PROVE  Left \in Seq(Nat)
<1>1. Cardinality(todo) \in Nat /\ Cardinality(DOMAIN tree \ skips) \in Nat
  BY LeftTyped, FS_CardinalityType
<1>2. Len(prog) - cur \in Nat /\ Len(Nest(cur)) + 1 - level \in Nat
  BY LeftTyped
<1>3. /\ (IF mode = "idle" THEN 0 ELSE 1) \in Nat /\ (IF mode = "seek" THEN 1 ELSE 0) \in Nat
      /\ (IF who = 0 THEN 0 ELSE 1) \in Nat
  OBVIOUS
<1>4. QED
  BY <1>1, <1>2, <1>3 DEF Left

LEMMA StepAdvances ==
  ASSUME BaseInv, FreshInv, Next
  PROVE  Earlier(Left', Left) \/ UNCHANGED vars
<1>1. /\ cur \in Nat /\ Len(prog) \in Nat /\ level \in Nat /\ Len(Nest(cur)) \in Nat
      /\ IsFiniteSet(todo) /\ IsFiniteSet(DOMAIN tree \ skips)
  BY LeftTyped
<1>2. CASE Start
  <2>1. prog' = prog /\ cur' = cur + 1
    BY <1>2 DEF Start
  <2>2. Left'[1] < Left[1]
    BY <1>1, <2>1, LeftFacts
  <2>3. PICK k \in 1..7 : k = 1
    OBVIOUS
  <2>4. QED
    BY <2>2, <2>3, LessAt
<1>3. CASE InsertLeaf
  <2>1. prog' = prog /\ cur' = cur /\ mode # "idle" /\ mode' = "idle"
    BY <1>3 DEF InsertLeaf
  <2>2. Left'[1] = Left[1] /\ Left'[2] < Left[2]
    BY <2>1, LeftFacts
  <2>3. PICK k \in 1..7 : k = 2 /\ \A m \in 1..(k - 1) : m = 1
    OBVIOUS
  <2>4. QED
    BY <2>2, <2>3, LessAt
<1>4. CASE UseLoop \/ NewLoop
  <2>1. /\ prog' = prog /\ cur' = cur /\ mode # "idle" /\ mode' # "idle"
        /\ level' = level + 1
    BY <1>4 DEF UseLoop, NewLoop, Descended
  <2>2. Nest(cur)' = Nest(cur)
    BY <2>1 DEF Nest
  <2>3. Left'[1] = Left[1] /\ Left'[2] = Left[2] /\ Left'[3] < Left[3]
    BY <1>1, <2>1, <2>2, LeftFacts
  <2>4. PICK k \in 1..7 : k = 3 /\ \A m \in 1..(k - 1) : m = 1 \/ m = 2
    OBVIOUS
  <2>5. QED
    BY <2>3, <2>4, LessAt
<1>5. CASE Seek
  <2>1. /\ prog' = prog /\ cur' = cur /\ mode = "seek" /\ mode' = "check" /\ level' = level
    BY <1>5 DEF Seek
  <2>2. Nest(cur)' = Nest(cur)
    BY <2>1 DEF Nest
  <2>3. Left'[1] = Left[1] /\ Left'[2] = Left[2] /\ Left'[3] = Left[3] /\ Left'[4] < Left[4]
    BY <2>1, <2>2, LeftFacts
  <2>4. PICK k \in 1..7 : k = 4 /\ \A m \in 1..(k - 1) : m = 1 \/ m = 2 \/ m = 3
    OBVIOUS
  <2>5. QED
    BY <2>3, <2>4, LessAt
<1>6. ASSUME NEW p \in Stmts, Check(p)
      PROVE  Earlier(Left', Left)
  <2>1. /\ prog' = prog /\ cur' = cur /\ mode' = mode /\ level' = level
        /\ p \in todo /\ todo' = todo \ {p}
    BY <1>6 DEF Check
  <2>2. Nest(cur)' = Nest(cur)
    BY <2>1 DEF Nest
  <2>3. Cardinality(todo') < Cardinality(todo)
    BY <1>1, <2>1, CountsLess
  <2>4. /\ Left'[1] = Left[1] /\ Left'[2] = Left[2] /\ Left'[3] = Left[3] /\ Left'[4] = Left[4]
        /\ Left'[5] < Left[5]
    BY <2>1, <2>2, <2>3, LeftFacts
  <2>5. PICK k \in 1..7 : k = 5 /\ \A m \in 1..(k - 1) : m = 1 \/ m = 2 \/ m = 3 \/ m = 4
    OBVIOUS
  <2>6. QED
    BY <2>4, <2>5, LessAt
<1>7. CASE Checked
  <2>1. /\ prog' = prog /\ cur' = cur /\ mode' = mode /\ level' = level /\ todo' = todo
        /\ who # 0 /\ who' = 0
    BY <1>7 DEF Checked
  <2>2. Nest(cur)' = Nest(cur)
    BY <2>1 DEF Nest
  <2>3. /\ Left'[1] = Left[1] /\ Left'[2] = Left[2] /\ Left'[3] = Left[3] /\ Left'[4] = Left[4]
        /\ Left'[5] = Left[5] /\ Left'[6] < Left[6]
    BY <2>1, <2>2, LeftFacts
  <2>4. PICK k \in 1..7 :
          k = 6 /\ \A m \in 1..(k - 1) : m = 1 \/ m = 2 \/ m = 3 \/ m = 4 \/ m = 5
    OBVIOUS
  <2>5. QED
    BY <2>3, <2>4, LessAt
<1>8. CASE SkipLoop
  <2>1. /\ prog' = prog /\ cur' = cur /\ mode' = mode /\ level' = level /\ todo' = todo
        /\ who' = who /\ tree' = tree /\ skips' = skips \union {inext}
        /\ mode = "check" /\ inext # NoPath
    BY <1>8 DEF SkipLoop, TooEarly
  <2>2. Nest(cur)' = Nest(cur)
    BY <2>1 DEF Nest
  <2>3. inext \in DOMAIN tree \ skips
    BY <2>1 DEF FreshInv, BaseInv, ControlInv
  <2>4. Cardinality(DOMAIN tree' \ skips') < Cardinality(DOMAIN tree \ skips)
    <3>1. DOMAIN tree' \ skips' = (DOMAIN tree \ skips) \ {inext}
      BY <2>1
    <3>2. QED
      BY <1>1, <2>3, <3>1, CountsLess
  <2>5. /\ Left'[1] = Left[1] /\ Left'[2] = Left[2] /\ Left'[3] = Left[3] /\ Left'[4] = Left[4]
        /\ Left'[5] = Left[5] /\ Left'[6] = Left[6] /\ Left'[7] < Left[7]
    BY <2>1, <2>2, <2>4, LeftFacts
  <2>6. PICK k \in 1..7 :
          k = 7 /\ \A m \in 1..(k - 1) : m = 1 \/ m = 2 \/ m = 3 \/ m = 4 \/ m = 5 \/ m = 6
    OBVIOUS
  <2>7. QED
    BY <2>5, <2>6, LessAt
<1>9. QED
  BY <1>2, <1>3, <1>4, <1>5, <1>6, <1>7, <1>8 DEF Next, Fused

(* Every step of updateIterGraph leaves less to do, and what is left are   *)
(* seven natural numbers, for every program: fusing it ends after finitely *)
(* many steps.                                                             *)
THEOREM FusionAdvances == Spec => Advances /\ [](Left \in Seq(Nat))
<1>1. BaseInv /\ FreshInv /\ [Next]_vars => [Earlier(Left', Left)]_vars
  BY StepAdvances
<1>2. Spec => Advances
  BY <1>1, BaseInvariant, Fresh, PTL DEF Spec, Advances
<1>3. BaseInv => Left \in Seq(Nat)
  BY LeftIsNat
<1>4. QED
  BY <1>2, <1>3, BaseInvariant, PTL
=============================================================================
