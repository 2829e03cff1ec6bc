---------------------------- MODULE FusionLemmas ----------------------------
(***************************************************************************)
(* What the operators of Fusion do with paths and with the tree.           *)
(***************************************************************************)
EXTENDS Fusion, TLAPS, FiniteSetTheorems, SequenceTheorems

(* Positions are counted from 1.                                           *)
Paths == Seq(Nat \ {0})

-----------------------------------------------------------------------------
(* Least elements.                                                         *)

(* A set of natural numbers that is not empty has a least one.             *)
LEMMA LeastNat ==
  ASSUME NEW T \in SUBSET Nat, T # {}
  PROVE  \E m \in T : \A k \in T : m <= k
<1>1. PICK m \in T : \A k \in T : ~ (<< k, m >> \in OpToRel(<, Nat))
  BY NatLessThanWellFounded, WFMin
<1>2. \A k \in T : ~ (k < m)
  BY <1>1 DEF OpToRel
<1>3. QED
  BY <1>2

(* A prefix agrees with the path, position by position.                    *)
LEMMA PrefixPoints ==
  ASSUME NEW q \in Seq(Nat), NEW r \in Seq(Nat)
  PROVE  IsPrefix(q, r) <=> Len(q) <= Len(r) /\ \A k \in 1..Len(q) : q[k] = r[k]
<1>1. SubSeq(q, 1, Len(q)) = q
  BY SubSeqFull
<1>2. CASE Len(q) <= Len(r)
  <2>1. \A i \in 1..Len(q) : r[i] \in Nat
    BY <1>2
  <2>2. /\ SubSeq(r, 1, Len(q)) \in Seq(Nat)
        /\ Len(SubSeq(r, 1, Len(q))) = Len(q)
        /\ \A i \in 1..Len(q) : SubSeq(r, 1, Len(q))[i] = r[i]
    BY <2>1, <1>2
  <2>3. q = SubSeq(r, 1, Len(q)) <=> \A k \in 1..Len(q) : q[k] = r[k]
    BY <2>2, SeqEqual
  <2>4. QED
    BY <1>1, <1>2, <2>3 DEF IsPrefix
<1>3. CASE ~ (Len(q) <= Len(r))
  BY <1>3 DEF IsPrefix
<1>4. QED
  BY <1>2, <1>3

(* Two paths differ at a first position, or one is a prefix of the other.  *)
LEMMA FirstDifference ==
  ASSUME NEW q \in Seq(Nat), NEW r \in Seq(Nat), ~ IsPrefix(q, r), ~ IsPrefix(r, q)
  PROVE  \E k \in 1..Shorter(q, r) :
           q[k] # r[k] /\ \A m \in 1..(k - 1) : q[m] = r[m]
<1> DEFINE D == {k \in 1..Shorter(q, r) : q[k] # r[k]}
<1>1. Shorter(q, r) \in Nat /\ Shorter(q, r) <= Len(q) /\ Shorter(q, r) <= Len(r)
  BY DEF Shorter
<1>2. D # {}
  <2>1. CASE Len(q) <= Len(r)
    BY <2>1, PrefixPoints DEF Shorter
  <2>2. CASE Len(r) < Len(q)
    <3>1. Len(r) <= Len(q) /\ Shorter(q, r) = Len(r)
      BY <2>2 DEF Shorter
    <3>2. PICK k \in 1..Len(r) : r[k] # q[k]
      BY <3>1, PrefixPoints
    <3>3. QED
      BY <3>1, <3>2
  <2>3. QED
    BY <2>1, <2>2
<1>3. PICK k \in D : \A m \in D : k <= m
  <2>1. D \subseteq Nat
    BY <1>1
  <2>2. QED
    BY <2>1, <1>2, LeastNat
<1>4. \A m \in 1..(k - 1) : q[m] = r[m]
  BY <1>1, <1>3
<1>5. QED
  BY <1>3, <1>4

-----------------------------------------------------------------------------
(* The order of a depth first search is a strict total order.              *)

LEMMA BeforeTotal ==
  ASSUME NEW q \in Seq(Nat), NEW r \in Seq(Nat), q # r
  PROVE  Before(q, r) \/ Before(r, q)
<1>1. CASE IsPrefix(q, r) \/ IsPrefix(r, q)
  BY <1>1 DEF Before, IsStrictPrefix
<1>2. CASE ~ IsPrefix(q, r) /\ ~ IsPrefix(r, q)
  <2>1. PICK k \in 1..Shorter(q, r) :
               q[k] # r[k] /\ \A m \in 1..(k - 1) : q[m] = r[m]
    BY <1>2, FirstDifference
  <2>2. Shorter(q, r) = Shorter(r, q) /\ q[k] \in Nat /\ r[k] \in Nat
    BY DEF Shorter
  <2>3. q[k] < r[k] \/ r[k] < q[k]
    BY <2>1, <2>2
  <2>4. QED
    BY <2>1, <2>2, <2>3 DEF Before
<1>3. QED
  BY <1>1, <1>2

LEMMA BeforeTransitive ==
  ASSUME NEW q \in Seq(Nat), NEW r \in Seq(Nat), NEW s \in Seq(Nat),
         Before(q, r), Before(r, s)
  PROVE  Before(q, s)
<1>1. \A x, y \in Seq(Nat) :
        IsStrictPrefix(x, y) <=>
          Len(x) < Len(y) /\ \A k \in 1..Len(x) : x[k] = y[k]
  <2> TAKE x, y \in Seq(Nat)
  <2>1. CASE Len(x) = Len(y)
    BY <2>1, PrefixPoints, SeqEqual DEF IsStrictPrefix
  <2>2. CASE Len(x) # Len(y)
    BY <2>2, PrefixPoints DEF IsStrictPrefix
  <2>3. QED
    BY <2>1, <2>2
<1>2. CASE IsStrictPrefix(q, r) /\ IsStrictPrefix(r, s)
  <2>1. IsStrictPrefix(q, s)
    BY <1>1, <1>2
  <2>2. QED
    BY <2>1 DEF Before
<1>3. \A x, y \in Seq(Nat) : \A n :
        n \in 1..Shorter(x, y) <=> n \in Nat \ {0} /\ n <= Len(x) /\ n <= Len(y)
  BY DEF Shorter
<1>4. ASSUME IsStrictPrefix(q, r), NEW k \in 1..Shorter(r, s),
             \A m \in 1..(k - 1) : r[m] = s[m], r[k] < s[k]
      PROVE  Before(q, s)
  <2>1. k \in Nat \ {0} /\ k <= Len(r) /\ k <= Len(s)
    BY <1>3
  <2>2. CASE k <= Len(q)
    <3>1. q[k] < s[k] /\ \A m \in 1..(k - 1) : q[m] = s[m]
      BY <2>1, <2>2, <1>1, <1>4
    <3>2. QED
      BY <3>1, <2>1, <2>2, <1>3 DEF Before
  <2>3. CASE k > Len(q)
    <3>1. IsStrictPrefix(q, s)
      BY <2>1, <2>3, <1>1, <1>4, SMTT(30)
    <3>2. QED
      BY <3>1 DEF Before
  <2>4. QED
    BY <2>1, <2>2, <2>3
<1>5. ASSUME IsStrictPrefix(r, s), NEW k \in 1..Shorter(q, r),
             \A m \in 1..(k - 1) : q[m] = r[m], q[k] < r[k]
      PROVE  Before(q, s)
  <2>1. k \in Nat \ {0} /\ k <= Len(q) /\ k <= Len(r)
    BY <1>3
  <2>2. k <= Len(s) /\ q[k] < s[k] /\ \A m \in 1..(k - 1) : q[m] = s[m]
    BY <2>1, <1>1, <1>5
  <2>3. QED
    BY <2>1, <2>2, <1>3 DEF Before
<1>6. ASSUME NEW k \in 1..Shorter(q, r), \A m \in 1..(k - 1) : q[m] = r[m], q[k] < r[k],
             NEW l \in 1..Shorter(r, s), \A m \in 1..(l - 1) : r[m] = s[m], r[l] < s[l]
      PROVE  Before(q, s)
  <2>1. /\ k \in Nat \ {0} /\ k <= Len(q) /\ k <= Len(r)
        /\ l \in Nat \ {0} /\ l <= Len(r) /\ l <= Len(s)
    BY <1>3
  <2>2. CASE k <= l
    <3>1. q[k] \in Nat /\ r[k] \in Nat /\ s[k] \in Nat
      BY <2>1, <2>2
    <3>2. q[k] < s[k] /\ \A m \in 1..(k - 1) : q[m] = s[m]
      <4>1. \A m \in 1..(k - 1) : m \in 1..(l - 1)
        BY <2>1, <2>2
      <4>2. \A m \in 1..(k - 1) : q[m] = s[m]
        BY <4>1, <1>6
      <4>3. CASE k = l
        BY <4>2, <4>3, <3>1, <1>6
      <4>4. CASE k < l
        <5>1. k \in 1..(l - 1)
          BY <4>4, <2>1
        <5>2. r[k] = s[k]
          BY <5>1, <1>6
        <5>3. QED
          BY <4>2, <5>2, <1>6
      <4>5. QED
        BY <4>3, <4>4, <2>1, <2>2
    <3>3. k \in 1..Shorter(q, s)
      <4>1. k <= Len(s)
        BY <2>1, <2>2
      <4>2. QED
        BY <4>1, <2>1, <1>3
    <3>4. QED
      BY <3>2, <3>3 DEF Before
  <2>3. CASE l < k
    <3>1. q[l] < s[l] /\ \A m \in 1..(l - 1) : q[m] = s[m]
      BY <2>1, <2>3, <1>6
    <3>2. l \in 1..Shorter(q, s)
      BY <2>1, <2>3, <1>3
    <3>3. QED
      BY <3>1, <3>2 DEF Before
  <2>4. QED
    BY <2>1, <2>2, <2>3
<1>7. QED
  BY <1>2, <1>4, <1>5, <1>6 DEF Before

(* A finite set of paths that is not empty has a first one.                *)
FirstIn(r, T) == r \in T /\ \A s \in T \ {r} : Before(r, s)

LEMMA FirstPath ==
  ASSUME NEW S \in SUBSET Seq(Nat), IsFiniteSet(S), S # {}
  PROVE  \E r \in S : \A s \in S \ {r} : Before(r, s)
<1> DEFINE HasFirst(T) == \E r \in T : FirstIn(r, T)
           Bad == {n \in Nat : \E T \in SUBSET S :
                                 T # {} /\ Cardinality(T) = n /\ ~ HasFirst(T)}
<1>1. ASSUME Bad # {} PROVE FALSE
  <2>1. PICK n \in Bad : \A m \in Bad : n <= m
    <3>1. Bad \subseteq Nat
      OBVIOUS
    <3>2. QED
      BY <3>1, <1>1, LeastNat
  <2>2. PICK T \in SUBSET S : T # {} /\ Cardinality(T) = n /\ ~ HasFirst(T)
    BY <2>1
  <2>3. PICK x \in T : TRUE
    BY <2>2
  <2>4. IsFiniteSet(T)
    BY FS_Subset
  <2>5. Cardinality(T \ {x}) = n - 1 /\ n - 1 \in Nat
    <3>1. IsFiniteSet(T \ {x})
      BY <2>4, FS_RemoveElement
    <3>2. Cardinality(T \ {x}) \in Nat
      BY <3>1, FS_CardinalityType
    <3>3. QED
      BY <2>2, <2>3, <2>4, <3>2, FS_RemoveElement
  <2>6. T \ {x} # {}
    BY <2>2, <2>3 DEF FirstIn
  <2>7. HasFirst(T \ {x})
    <3>1. n \in Nat
      BY <2>1
    <3>2. n - 1 \notin Bad
      <4> HIDE DEF Bad
      <4>1. QED
        BY <3>1, <2>1
    <3>3. T \ {x} \in SUBSET S
      BY <2>2
    <3> HIDE DEF HasFirst
    <3>4. QED
      BY <3>2, <3>3, <2>5, <2>6
  <2>8. PICK r \in T \ {x} : FirstIn(r, T \ {x})
    BY <2>7
  <2>9. r \in Seq(Nat) /\ x \in Seq(Nat) /\ r # x
    BY <2>3, <2>8
  <2>10. CASE Before(r, x)
    BY <2>2, <2>8, <2>10 DEF FirstIn
  <2>11. CASE Before(x, r)
    <3>1. \A s \in T \ {x} : Before(x, s)
      BY <2>8, <2>9, <2>11, BeforeTransitive DEF FirstIn
    <3>2. QED
      BY <2>2, <2>3, <3>1 DEF FirstIn
  <2>12. QED
    BY <2>9, <2>10, <2>11, BeforeTotal
<1>2. Cardinality(S) \in Nat
  BY FS_CardinalityType
<1>3. HasFirst(S)
  BY <1>1, <1>2
<1>4. QED
  BY <1>3 DEF FirstIn

-----------------------------------------------------------------------------
(* Children.                                                               *)

(* A path that is longer by one position is the path with that position    *)
(* appended.                                                               *)
LEMMA KidIsAppend ==
  ASSUME NEW q \in Paths, NEW r \in Paths
  PROVE  /\ \A k \in Nat \ {0} :
              /\ Append(q, k) \in Paths /\ Len(Append(q, k)) = Len(q) + 1
              /\ IsPrefix(q, Append(q, k)) /\ Append(q, k)[Len(q) + 1] = k
         /\ Len(r) = Len(q) + 1 /\ IsPrefix(q, r) =>
              r = Append(q, r[Len(q) + 1]) /\ r[Len(q) + 1] \in Nat \ {0}
<1>1. q \in Seq(Nat) /\ r \in Seq(Nat)
  BY SeqMonotonic, Nat \ {0} \subseteq Nat DEF Paths
<1>2. ASSUME NEW k \in Nat \ {0}
      PROVE  /\ Append(q, k) \in Paths /\ Append(q, k) \in Seq(Nat)
             /\ Len(Append(q, k)) = Len(q) + 1
             /\ \A m \in 1..Len(q) : Append(q, k)[m] = q[m]
             /\ Append(q, k)[Len(q) + 1] = k
  BY <1>1 DEF Paths
<1>3. ASSUME NEW k \in Nat \ {0}
      PROVE  IsPrefix(q, Append(q, k))
  <2> DEFINE t == Append(q, k)
  <2>1. t \in Seq(Nat) /\ Len(q) <= Len(t) /\ \A m \in 1..Len(q) : q[m] = t[m]
    BY <1>1, <1>2
  <2> HIDE DEF t
  <2>2. IsPrefix(q, t)
    BY <1>1, <2>1, PrefixPoints
  <2>3. QED
    BY <2>2 DEF t
<1>4. ASSUME Len(r) = Len(q) + 1, IsPrefix(q, r)
      PROVE  r = Append(q, r[Len(q) + 1]) /\ r[Len(q) + 1] \in Nat \ {0}
  <2>1. r[Len(q) + 1] \in Nat \ {0}
    BY <1>4 DEF Paths
  <2>2. \A m \in 1..Len(q) : r[m] = q[m]
    BY <1>1, <1>4, PrefixPoints
  <2>3. \A m \in 1..Len(r) : r[m] = Append(q, r[Len(q) + 1])[m]
    BY <1>2, <1>4, <2>1, <2>2
  <2>4. r = Append(q, r[Len(q) + 1])
    BY <1>1, <1>2, <1>4, <2>1, <2>3, SeqEqual
  <2>5. QED
    BY <2>1, <2>4
<1>5. QED
  BY <1>2, <1>3, <1>4

(* Prefixes of paths are paths.                                            *)
LEMMA PrefixOfPath ==
  ASSUME NEW q \in Paths, NEW n \in 0..Len(q)
  PROVE  /\ SubSeq(q, 1, n) \in Paths /\ Len(SubSeq(q, 1, n)) = n
         /\ \A m \in 1..n : SubSeq(q, 1, n)[m] = q[m]
<1>1. \A m \in 1..n : q[m] \in Nat \ {0}
  BY DEF Paths
<1>2. QED
  BY <1>1, SubSeqProperties DEF Paths

(* The prefixes of a child are the prefixes of its parent, and itself.     *)
LEMMA PrefixOfKid ==
  ASSUME NEW q \in Paths, NEW k \in Nat \ {0}
  PROVE  /\ \A n \in 0..Len(q) : SubSeq(Append(q, k), 1, n) = SubSeq(q, 1, n)
         /\ SubSeq(Append(q, k), 1, Len(q)) = q
         /\ SubSeq(Append(q, k), 1, Len(q) + 1) = Append(q, k)
<1>1. /\ Append(q, k) \in Paths /\ Len(Append(q, k)) = Len(q) + 1
      /\ \A m \in 1..Len(q) : Append(q, k)[m] = q[m]
  BY DEF Paths
<1>2. ASSUME NEW n \in 0..Len(q)
      PROVE  SubSeq(Append(q, k), 1, n) = SubSeq(q, 1, n)
  <2>1. n \in 0..Len(Append(q, k))
    BY <1>1 DEF Paths
  <2>2. \A m \in 1..n : SubSeq(Append(q, k), 1, n)[m] = SubSeq(q, 1, n)[m]
    BY <1>1, <2>1, PrefixOfPath DEF Paths
  <2>3. /\ SubSeq(Append(q, k), 1, n) \in Seq(Nat \ {0})
        /\ SubSeq(q, 1, n) \in Seq(Nat \ {0})
        /\ Len(SubSeq(Append(q, k), 1, n)) = n /\ Len(SubSeq(q, 1, n)) = n
    BY <1>1, <2>1, PrefixOfPath DEF Paths
  <2>4. QED
    BY <2>2, <2>3, SeqEqual
<1>3. SubSeq(q, 1, Len(q)) = q /\ Len(q) \in 0..Len(q)
  BY SubSeqFull DEF Paths
<1>4. SubSeq(Append(q, k), 1, Len(q) + 1) = Append(q, k)
  BY <1>1, SubSeqFull DEF Paths
<1>5. QED
  BY <1>2, <1>3, <1>4

-----------------------------------------------------------------------------
(* The tree.                                                               *)

(* The nodes are finitely many paths from the root, each with all of its   *)
(* prefixes, which are loops or the root.                                  *)
Branches ==
  /\ DOMAIN tree \subseteq Paths /\ IsFiniteSet(DOMAIN tree)
  /\ << >> \in DOMAIN tree /\ tree[<< >>] = 0
  /\ \A q \in DOMAIN tree : \A n \in 0..(Len(q) - 1) :
       SubSeq(q, 1, n) \in DOMAIN tree /\ tree[SubSeq(q, 1, n)] \in Iters \union {0}

Labelled == \A q \in DOMAIN tree \ {<< >>} : tree[q] \in Iters \union Stmts

(* Children are numbered without gaps.                                     *)
Gapless ==
  \A q \in DOMAIN tree : \E n \in Nat : Kids(q) = {Append(q, k) : k \in 1..n}

TreeInv == Branches /\ Labelled /\ Gapless

LEMMA KidNumbers ==
  ASSUME NEW q \in Paths, NEW n \in Nat, Kids(q) = {Append(q, k) : k \in 1..n}
  PROVE  NewKid(q) = Append(q, n + 1)
<1> DEFINE f == [k \in 1..n |-> Append(q, k)]
<1>1. \A k, l \in 1..n : Append(q, k) = Append(q, l) => k = l
  BY KidIsAppend
<1>2. f \in Bijection(1..n, Kids(q))
  BY <1>1 DEF Bijection, Injection, Surjection, IsInjective
<1>3. Cardinality(Kids(q)) = n
  BY <1>2, FS_CountingElements DEF ExistsBijection
<1>4. QED
  BY <1>3 DEF NewKid

(* A new child is a new node, is behind all other children, and has none   *)
(* itself.                                                                 *)
LEMMA NewKidIsNew ==
  ASSUME TreeInv, NEW p \in DOMAIN tree
  PROVE  \E n \in Nat :
           /\ Kids(p) = {Append(p, k) : k \in 1..n}
           /\ NewKid(p) = Append(p, n + 1)
           /\ NewKid(p) \in Paths /\ NewKid(p) \notin DOMAIN tree
           /\ \A r \in DOMAIN tree : ~ IsPrefix(NewKid(p), r)
<1>1. PICK n \in Nat : Kids(p) = {Append(p, k) : k \in 1..n}
  BY DEF TreeInv, Gapless
<1>2. p \in Paths
  BY DEF TreeInv, Branches
<1>3. NewKid(p) = Append(p, n + 1)
  BY <1>1, <1>2, KidNumbers
<1>4. NewKid(p) \in Paths /\ Len(NewKid(p)) = Len(p) + 1
  BY <1>2, <1>3, KidIsAppend
<1>5. NewKid(p) \notin DOMAIN tree
  <2>1. SUFFICES ASSUME NewKid(p) \in DOMAIN tree PROVE FALSE
    OBVIOUS
  <2>2. NewKid(p) \in Kids(p)
    BY <1>2, <1>3, <2>1, KidIsAppend DEF Kids
  <2>3. PICK k \in 1..n : Append(p, n + 1) = Append(p, k)
    BY <1>1, <1>3, <2>2
  <2>4. QED
    BY <1>2, <2>3, KidIsAppend
<1>6. ASSUME NEW r \in DOMAIN tree, IsPrefix(NewKid(p), r)
      PROVE  FALSE
  <2>1. r \in Paths /\ Len(NewKid(p)) <= Len(r)
    BY <1>6 DEF IsPrefix, TreeInv, Branches
  <2>2. SubSeq(r, 1, Len(NewKid(p))) = NewKid(p)
    BY <1>4, <1>6, SubSeqFull DEF IsPrefix, Paths
  <2>3. CASE Len(NewKid(p)) = Len(r)
    BY <1>5, <2>1, <2>2, <2>3, SubSeqFull DEF Paths
  <2>4. CASE Len(NewKid(p)) < Len(r)
    <3>1. Len(NewKid(p)) \in 0..(Len(r) - 1)
      BY <1>4, <2>1, <2>4 DEF Paths
    <3>2. SubSeq(r, 1, Len(NewKid(p))) \in DOMAIN tree
      BY <3>1 DEF TreeInv, Branches
    <3>3. QED
      BY <1>5, <2>2, <3>2
  <2>5. QED
    BY <1>4, <2>1, <2>3, <2>4 DEF Paths
<1>7. QED
  BY <1>1, <1>3, <1>4, <1>5, <1>6

(* The tree stays one when a loop or the root gets a new child.            *)
LEMMA TreeGrows ==
  ASSUME TreeInv, NEW p \in DOMAIN tree, tree[p] \in Iters \union {0},
         NEW l \in Iters \union Stmts, prog' = prog, NEW New, New = NewKid(p),
         tree' = [r \in DOMAIN tree \union {New} |-> IF r = New THEN l ELSE tree[r]]
  PROVE  /\ TreeInv'
         /\ DOMAIN tree' = DOMAIN tree \union {New}
         /\ tree'[New] = l
         /\ \A r \in DOMAIN tree : tree'[r] = tree[r]
         /\ Kids(New)' = {}
<1>1. PICK n \in Nat :
        /\ Kids(p) = {Append(p, k) : k \in 1..n}
        /\ New = Append(p, n + 1)
        /\ New \in Paths /\ New \notin DOMAIN tree
        /\ \A r \in DOMAIN tree : ~ IsPrefix(New, r)
  BY NewKidIsNew
<1>2. p \in Paths /\ DOMAIN tree \subseteq Paths
  BY DEF TreeInv, Branches
<1>3. /\ DOMAIN tree' = DOMAIN tree \union {New}
      /\ tree'[New] = l
      /\ \A r \in DOMAIN tree : tree'[r] = tree[r]
  BY <1>1
<1>4. New # << >> /\ Len(New) = Len(p) + 1 /\ Len(p) \in Nat
  BY <1>1, <1>2, KidIsAppend DEF Paths
<1>5. Branches'
  <2>1. IsFiniteSet(DOMAIN tree')
    BY <1>3, FS_AddElement DEF TreeInv, Branches
  <2>2. << >> \in DOMAIN tree' /\ tree'[<< >>] = 0
    BY <1>3 DEF TreeInv, Branches
  <2>3. ASSUME NEW q \in DOMAIN tree, NEW k \in 0..(Len(q) - 1)
        PROVE  SubSeq(q, 1, k) \in DOMAIN tree' /\ tree'[SubSeq(q, 1, k)] \in Iters \union {0}
    BY <1>3, <2>3 DEF TreeInv, Branches
  <2>4. ASSUME NEW k \in 0..(Len(New) - 1)
        PROVE  SubSeq(New, 1, k) \in DOMAIN tree' /\ tree'[SubSeq(New, 1, k)] \in Iters \union {0}
    <3>1. k \in 0..Len(p) /\ n + 1 \in Nat \ {0}
      BY <1>4
    <3>2. SubSeq(New, 1, k) = SubSeq(p, 1, k)
      BY <1>1, <1>2, <3>1, PrefixOfKid
    <3>3. CASE k = Len(p)
      <4>1. SubSeq(p, 1, k) = p
        BY <1>2, <3>3, SubSeqFull DEF Paths
      <4>2. QED
        BY <1>3, <3>2, <4>1
    <3>4. CASE k # Len(p)
      <4>1. k \in 0..(Len(p) - 1)
        BY <1>4, <3>1, <3>4
      <4>2. QED
        BY <2>3, <3>2, <4>1
    <3>5. QED
      BY <3>3, <3>4
  <2>5. DOMAIN tree' \subseteq Paths
    BY <1>1, <1>2, <1>3
  <2>6. \A q \in DOMAIN tree' : \A k \in 0..(Len(q) - 1) :
          SubSeq(q, 1, k) \in DOMAIN tree' /\ tree'[SubSeq(q, 1, k)] \in Iters \union {0}
    BY <1>3, <2>3, <2>4
  <2>7. QED
    BY <2>1, <2>2, <2>5, <2>6 DEF Branches
<1>6. Labelled'
  BY <1>3, <1>4 DEF TreeInv, Labelled, Stmts
<1>7. ASSUME NEW q \in DOMAIN tree, q # p
      PROVE  Kids(q)' = Kids(q)
  <2>1. ~ (Len(New) = Len(q) + 1 /\ IsPrefix(q, New))
    <3>1. SUFFICES ASSUME Len(New) = Len(q) + 1, IsPrefix(q, New) PROVE FALSE
      OBVIOUS
    <3>2. q \in Paths /\ Len(q) = Len(p)
      BY <1>2, <1>4, <3>1 DEF Paths
    <3>3. SubSeq(q, 1, Len(q)) = SubSeq(New, 1, Len(p)) /\ SubSeq(q, 1, Len(q)) = q
      BY <3>1, <3>2, SubSeqFull DEF IsPrefix, Paths
    <3>4. SubSeq(New, 1, Len(p)) = p
      BY <1>1, <1>2, PrefixOfKid
    <3>5. QED
      BY <1>7, <3>3, <3>4
  <2>2. QED
    BY <1>3, <2>1 DEF Kids
<1>8. Kids(p)' = Kids(p) \union {New}
  <2>1. Len(New) = Len(p) + 1 /\ IsPrefix(p, New)
    BY <1>1, <1>2, KidIsAppend
  <2>2. QED
    BY <1>3, <2>1 DEF Kids
<1>9. Kids(New)' = {}
  <2>1. Len(New) # Len(New) + 1
    BY <1>4
  <2>2. QED
    BY <1>1, <1>3, <2>1 DEF Kids
<1>10. Gapless'
  <2>1. ASSUME NEW q \in DOMAIN tree, q # p
        PROVE  \E m \in Nat : Kids(q)' = {Append(q, k) : k \in 1..m}
    BY <1>7, <2>1 DEF TreeInv, Gapless
  <2>2. Kids(p)' = {Append(p, k) : k \in 1..(n + 1)}
    BY <1>1, <1>8
  <2>3. Kids(New)' = {Append(New, k) : k \in 1..0}
    BY <1>9
  <2>4. \A q \in DOMAIN tree' : \E m \in Nat : Kids(q)' = {Append(q, k) : k \in 1..m}
    <3> TAKE q \in DOMAIN tree'
    <3>1. CASE q \in DOMAIN tree /\ q # p
      BY <2>1, <3>1
    <3>2. CASE q = p
      <4>1. n + 1 \in Nat
        OBVIOUS
      <4>2. QED
        BY <2>2, <3>2, <4>1
    <3>3. CASE q = New
      <4>1. 0 \in Nat
        OBVIOUS
      <4>2. QED
        BY <2>3, <3>3, <4>1
    <3>4. QED
      BY <1>3, <3>1, <3>2, <3>3
  <2>5. QED
    BY <2>4 DEF Gapless
<1>11. QED
  BY <1>3, <1>5, <1>6, <1>9, <1>10 DEF TreeInv

-----------------------------------------------------------------------------
(* Searching the tree.                                                     *)

(* A node that a search may find.                                          *)
Hit(q, i, S, r) ==
  /\ r \in DOMAIN tree /\ IsPrefix(q, r) /\ tree[r] = i /\ r \notin S
  /\ \A k \in (Len(q) + 1)..Len(r) : SubSeq(r, 1, k) \notin S

LEMMA NoPathIsNoNode == NoPath \notin Paths
BY DEF NoPath, Paths

(* A search finds the first of them, or nothing if there is none.          *)
LEMMA FindResult ==
  ASSUME Branches, NEW q, NEW i, NEW S
  PROVE  /\ Find(q, i, S) # NoPath => Hit(q, i, S, Find(q, i, S))
         /\ \A r : Hit(q, i, S, r) =>
              /\ Find(q, i, S) # NoPath
              /\ r = Find(q, i, S) \/ Before(Find(q, i, S), r)
<1> DEFINE Hits == {r \in DOMAIN tree :
                     /\ IsPrefix(q, r) /\ tree[r] = i /\ r \notin S
                     /\ \A k \in (Len(q) + 1)..Len(r) : SubSeq(r, 1, k) \notin S}
           First == CHOOSE r \in Hits : \A s \in Hits \ {r} : Before(r, s)
<1>1. Find(q, i, S) = IF Hits = {} THEN NoPath ELSE First
  BY DEF Find
<1>2. \A r : r \in Hits <=> Hit(q, i, S, r)
  BY DEF Hit
<1>3. Hits \subseteq Paths /\ Hits \in SUBSET Seq(Nat) /\ IsFiniteSet(Hits)
  <2>1. Hits \in SUBSET DOMAIN tree /\ IsFiniteSet(DOMAIN tree) /\ DOMAIN tree \subseteq Paths
    BY DEF Branches
  <2>2. IsFiniteSet(Hits)
    BY <2>1, FS_Subset
  <2>3. Paths \subseteq Seq(Nat)
    BY SeqMonotonic DEF Paths
  <2>4. QED
    BY <2>1, <2>2, <2>3
<1>4. CASE Hits = {}
  BY <1>1, <1>2, <1>4
<1>5. CASE Hits # {}
  <2> HIDE DEF Hits
  <2>1. \E r \in Hits : \A s \in Hits \ {r} : Before(r, s)
    BY <1>3, <1>5, FirstPath
  <2>2. First \in Hits /\ \A s \in Hits \ {First} : Before(First, s)
    BY <2>1
  <2>3. Find(q, i, S) = First /\ First # NoPath
    BY <1>1, <1>3, <1>5, <2>2, NoPathIsNoNode
  <2>4. QED
    BY <1>2, <2>2, <2>3
<1>6. QED
  BY <1>4, <1>5

-----------------------------------------------------------------------------
(* Programs, and the tree of the first computation.                        *)

LEMMA ProgramFacts ==
  ASSUME prog \in Programs
  PROVE  /\ prog \in Seq(Statement) /\ Len(prog) \in Nat \ {0}
         /\ Stmts = 1..Len(prog) /\ 1 \in Stmts
         /\ \A c \in Stmts :
              /\ prog[c] \in Statement
              /\ Nest(c) \in Seq(Iters) /\ IsInjective(Nest(c)) /\ Len(Nest(c)) <= 3
              /\ Producers(c) \subseteq 1..(c - 1) /\ Producers(c) \subseteq Stmts
         /\ Iters \intersect Nat = {}
<1>1. prog \in Seq(Statement) /\ prog # << >>
  BY FusionAssumption
<1>2. Len(prog) \in Nat \ {0} /\ Stmts = 1..Len(prog) /\ 1 \in Stmts
  BY <1>1 DEF Stmts
<1>3. ASSUME NEW c \in Stmts
      PROVE  /\ prog[c] \in Statement
             /\ Nest(c) \in Seq(Iters) /\ IsInjective(Nest(c)) /\ Len(Nest(c)) <= 3
             /\ Producers(c) \subseteq 1..(c - 1) /\ Producers(c) \subseteq Stmts
  <2>1. prog[c] \in Statement
    BY <1>1, <1>2
  <2>2. Nest(c) \in Seq(Iters)
    BY <2>1 DEF Nest, Statement
  <2>3. IsInjective(Nest(c)) /\ Len(Nest(c)) <= 3
    BY FusionAssumption DEF Nest, Stmts
  <2>4. \A r \in prog[c].reads : r.of \in 1..(c - 1)
    BY FusionAssumption DEF Stmts
  <2>5. Producers(c) \subseteq 1..(c - 1)
    BY <2>4 DEF Producers
  <2>6. 1..(c - 1) \subseteq Stmts
    BY <1>2
  <2>7. QED
    BY <2>1, <2>2, <2>3, <2>5, <2>6
<1>4. QED
  BY <1>1, <1>2, <1>3, FusionAssumption

LEMMA OnesFacts ==
  ASSUME NEW k \in Nat
  PROVE  /\ Ones(k) \in Paths /\ Len(Ones(k)) = k
         /\ \A m \in 1..k : Ones(k)[m] = 1
         /\ Append(Ones(k), 1) = Ones(k + 1)
         /\ \A m \in 0..k : SubSeq(Ones(k), 1, m) = Ones(m)
         /\ k = 0 <=> Ones(k) = << >>
<1>1. ASSUME NEW n \in Nat
      PROVE  /\ Ones(n) \in Paths /\ Len(Ones(n)) = n /\ \A m \in 1..n : Ones(n)[m] = 1
             /\ Ones(n) \in Seq(Nat \ {0})
  BY DEF Ones, Paths
<1>2. Append(Ones(k), 1) = Ones(k + 1)
  <2>1. /\ Append(Ones(k), 1) \in Seq(Nat \ {0}) /\ Len(Append(Ones(k), 1)) = k + 1
        /\ \A m \in 1..(k + 1) : Append(Ones(k), 1)[m] = 1
    BY <1>1
  <2>2. k + 1 \in Nat
    OBVIOUS
  <2>3. \A m \in 1..(k + 1) : Append(Ones(k), 1)[m] = Ones(k + 1)[m]
    BY <1>1, <2>1, <2>2
  <2>4. QED
    BY <1>1, <2>1, <2>2, <2>3, SeqEqual
<1>3. ASSUME NEW m \in 0..k
      PROVE  SubSeq(Ones(k), 1, m) = Ones(m)
  <2>1. m \in 0..Len(Ones(k)) /\ m \in Nat
    BY <1>1
  <2>2. /\ SubSeq(Ones(k), 1, m) \in Paths /\ Len(SubSeq(Ones(k), 1, m)) = m
        /\ \A l \in 1..m : SubSeq(Ones(k), 1, m)[l] = Ones(k)[l]
    BY <1>1, <2>1, PrefixOfPath
  <2>3. \A l \in 1..m : SubSeq(Ones(k), 1, m)[l] = Ones(m)[l]
    <3>1. \A l \in 1..m : l \in 1..k /\ Ones(m)[l] = 1 /\ Ones(k)[l] = 1
      BY <1>1, <2>1
    <3>2. QED
      BY <2>2, <3>1
  <2>4. QED
    BY <1>1, <2>1, <2>2, <2>3, SeqEqual DEF Paths
<1>4. k = 0 <=> Ones(k) = << >>
  BY <1>1
<1>5. QED
  BY <1>1, <1>2, <1>3, <1>4

LEMMA InitTree ==
  ASSUME Init
  PROVE  TreeInv
<1> DEFINE n == Len(Nest(1))
           Nodes == {Ones(k) : k \in 0..(n + 1)}
<1>1. /\ prog \in Programs
      /\ tree = [q \in Nodes |->
                   IF q = << >> THEN 0 ELSE IF Len(q) > n THEN 1 ELSE Nest(1)[Len(q)]]
  BY DEF Init
<1>2. n \in Nat /\ Nest(1) \in Seq(Iters) /\ 1 \in Stmts
  BY <1>1, ProgramFacts
<1> HIDE DEF n
<1>3. \A k \in 0..(n + 1) :
        /\ Ones(k) \in Paths /\ Len(Ones(k)) = k /\ Ones(k) \in Nodes
        /\ k = 0 <=> Ones(k) = << >>
        /\ tree[Ones(k)] = IF k = 0 THEN 0 ELSE IF k > n THEN 1 ELSE Nest(1)[k]
  <2> TAKE k \in 0..(n + 1)
  <2>1. k \in Nat /\ Ones(k) \in Nodes
    BY <1>2
  <2>2. Ones(k) \in Paths /\ Len(Ones(k)) = k /\ (k = 0 <=> Ones(k) = << >>)
    BY <2>1, OnesFacts
  <2>3. QED
    BY <1>1, <2>1, <2>2
<1>4. DOMAIN tree = Nodes
  BY <1>1
<1>5. IsFiniteSet(Nodes)
  <2> DEFINE f == [k \in 0..(n + 1) |-> Ones(k)]
  <2>1. f \in Surjection(0..(n + 1), Nodes)
    BY DEF Surjection
  <2>2. IsFiniteSet(0..(n + 1))
    BY <1>2, FS_Interval
  <2>3. QED
    BY <2>1, <2>2, FS_Surjection
<1>6. \A k \in 1..n : Nest(1)[k] \in Iters
  BY <1>2 DEF n
<1>7. Branches
  <2>1. Ones(0) = << >> /\ 0 \in 0..(n + 1)
    BY <1>2, OnesFacts
  <2>2. ASSUME NEW k \in 0..(n + 1), NEW m \in 0..(Len(Ones(k)) - 1)
        PROVE  SubSeq(Ones(k), 1, m) \in Nodes /\ tree[SubSeq(Ones(k), 1, m)] \in Iters \union {0}
    <3>1. m \in 0..n /\ m \in 0..(n + 1) /\ k \in Nat /\ m \in 0..k
      BY <1>2, <1>3
    <3>2. SubSeq(Ones(k), 1, m) = Ones(m)
      BY <3>1, OnesFacts
    <3>3. Ones(m) \in Nodes /\ tree[Ones(m)] \in Iters \union {0}
      BY <1>2, <1>3, <1>6, <3>1
    <3>4. QED
      BY <3>2, <3>3
  <2>3. QED
    BY <1>3, <1>4, <1>5, <2>1, <2>2 DEF Branches
<1>8. Labelled
  <2>1. ASSUME NEW k \in 0..(n + 1), Ones(k) # << >>
        PROVE  tree[Ones(k)] \in Iters \union Stmts
    BY <1>2, <1>3, <1>6, <2>1
  <2>2. QED
    BY <1>4, <2>1 DEF Labelled
<1>9. Gapless
  <2>1. ASSUME NEW k \in 0..(n + 1)
        PROVE  \E m \in Nat : Kids(Ones(k)) = {Append(Ones(k), l) : l \in 1..m}
    <3>1. k \in Nat /\ Append(Ones(k), 1) = Ones(k + 1)
      <4>1. k \in Nat
        BY <1>2
      <4>2. QED
        BY <4>1, OnesFacts
    <3>2. \A r : r \in Kids(Ones(k)) <=> k <= n /\ r = Ones(k + 1)
      <4>1. ASSUME k <= n
            PROVE  Ones(k + 1) \in Kids(Ones(k))
        <5>1. k + 1 \in 0..(n + 1)
          BY <1>2, <4>1
        <5>2. IsPrefix(Ones(k), Append(Ones(k), 1))
          BY <1>3, KidIsAppend
        <5>3. QED
          BY <1>3, <1>4, <3>1, <5>1, <5>2 DEF Kids
      <4>2. ASSUME NEW r \in Kids(Ones(k))
            PROVE  k <= n /\ r = Ones(k + 1)
        <5>1. PICK l \in 0..(n + 1) : r = Ones(l)
          BY <1>4 DEF Kids
        <5>2. l = k + 1
          BY <1>3, <5>1 DEF Kids
        <5>3. QED
          BY <1>2, <5>1, <5>2
      <4>3. QED
        BY <4>1, <4>2
    <3>3. CASE k <= n
      <4>1. Kids(Ones(k)) = {Append(Ones(k), l) : l \in 1..1}
        BY <3>1, <3>2, <3>3
      <4>2. QED
        BY <4>1
    <3>4. CASE ~ (k <= n)
      <4>1. Kids(Ones(k)) = {Append(Ones(k), l) : l \in 1..0}
        BY <3>2, <3>4
      <4>2. QED
        BY <4>1
    <3>5. QED
      BY <3>3, <3>4
  <2>2. ASSUME NEW q \in Nodes
        PROVE  \E m \in Nat : Kids(q) = {Append(q, l) : l \in 1..m}
    <3>1. PICK k \in 0..(n + 1) : q = Ones(k)
      OBVIOUS
    <3>2. QED
      BY <2>1, <3>1, SMTT(30)
  <2>3. QED
    BY <1>4, <2>2 DEF Gapless
<1>10. QED
  BY <1>7, <1>8, <1>9 DEF TreeInv
=============================================================================
