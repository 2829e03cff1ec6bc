----------------------------- MODULE FlowProofs -----------------------------
(***************************************************************************)
(* The flow of values after fusion.                                        *)
(***************************************************************************)
EXTENDS FusionProofs

-----------------------------------------------------------------------------
(* Largest and smallest elements.                                          *)

LEMMA FiniteMax ==
  ASSUME NEW S \in SUBSET Int, IsFiniteSet(S), S # {}
  PROVE  Max(S) \in S /\ \A x \in S : x <= Max(S)
<1> DEFINE HasMax(T) == \E m \in T : \A x \in T : x <= m
           Bad == {n \in Nat : \E T \in SUBSET S : T # {} /\ Cardinality(T) = n /\ ~ HasMax(T)}
<1>1. ASSUME Bad # {} PROVE FALSE
  <2>1. PICK n \in Bad : \A k \in Bad : n <= k
    <3>1. Bad \in SUBSET Nat
      OBVIOUS
    <3>2. QED
      BY <3>1, <1>1, LeastNat
  <2>2. PICK T \in SUBSET S : T # {} /\ Cardinality(T) = n /\ ~ HasMax(T)
    BY <2>1
  <2>3. PICK x \in T : x \in Int
    BY <2>2
  <2>4. IsFiniteSet(T)
    BY FS_Subset
  <2>5. IsFiniteSet(T \ {x}) /\ Cardinality(T \ {x}) = n - 1
    BY <2>2, <2>3, <2>4, FS_RemoveElement
  <2>6. n - 1 \in Nat
    BY <2>5, FS_CardinalityType
  <2>7. T \ {x} # {}
    BY <2>2, <2>3
  <2>8. HasMax(T \ {x})
    <3>1. SUFFICES ASSUME ~ HasMax(T \ {x}) PROVE FALSE
      OBVIOUS
    <3>2. n - 1 \in Bad
      BY <2>5, <2>6, <2>7, <3>1
    <3>3. QED
      BY <2>1, <2>6, <3>2
  <2>9. PICK m \in T \ {x} : \A y \in T \ {x} : y <= m
    BY <2>8
  <2>10. CASE x <= m
    BY <2>2, <2>9, <2>10
  <2>11. CASE ~ (x <= m)
    <3>1. m \in Int /\ \A y \in T : y \in Int
      BY <2>9
    <3>2. \A y \in T : y <= x
      BY <2>3, <2>9, <2>11, <3>1
    <3>3. QED
      BY <2>2, <2>3, <3>2
  <2>12. QED
    BY <2>10, <2>11
<1>2. HasMax(S)
  <2>1. Cardinality(S) \in Nat
    BY FS_CardinalityType
  <2>2. QED
    BY <1>1, <2>1
<1> HIDE DEF HasMax
<1>3. \E m \in S : \A y \in S : m >= y
  BY <1>2 DEF HasMax
<1>4. Max(S) \in S /\ \A y \in S : Max(S) >= y
  BY <1>3 DEF Max
<1>5. QED
  BY <1>4

LEMMA FiniteMin ==
  ASSUME NEW S \in SUBSET Int, IsFiniteSet(S), S # {}
  PROVE  Min(S) \in S /\ \A x \in S : Min(S) <= x
<1> DEFINE T == {-x : x \in S}
           f == [x \in S |-> -x]
<1>1. T \in SUBSET Int /\ T # {}
  OBVIOUS
<1>2. f \in Surjection(S, T)
  BY DEF Surjection
<1>3. IsFiniteSet(T)
  BY <1>2, FS_Surjection
<1>4. Max(T) \in T /\ \A x \in T : x <= Max(T)
  BY <1>1, <1>3, FiniteMax
<1>5. PICK m \in S : \A x \in S : -x <= -m
  BY <1>4
<1>6. \A x \in S : m <= x
  BY <1>5
<1>7. QED
  BY <1>6 DEF Min

(* The largest values of a finite set of tuples.                           *)
LEMMA MaxTupleFacts ==
  ASSUME NEW S \in SUBSET Seq(Int), IsFiniteSet(S)
  PROVE  /\ MaxTuple(S) \in Seq(Int)
         /\ \A t \in S \ {<< >>} :
              /\ Len(MaxTuple(S)) <= Len(t)
              /\ \A n \in 1..Len(MaxTuple(S)) : t[n] <= MaxTuple(S)[n]
         /\ \A n \in 1..Len(MaxTuple(S)) :
              \E t \in S \ {<< >>} : n \in DOMAIN t /\ t[n] = MaxTuple(S)[n]
         /\ S \ {<< >>} # {} => \E t \in S \ {<< >>} : Len(t) = Len(MaxTuple(S))
         /\ S \ {<< >>} = {} => MaxTuple(S) = << >>
<1> DEFINE T == S \ {<< >>}
           L == {Len(t) : t \in T}
           Values(n) == {t[n] : t \in T}
           least == Min(L)
<1>1. CASE T = {}
  <2>1. MaxTuple(S) = << >>
    BY <1>1 DEF MaxTuple
  <2>2. QED
    BY <1>1, <2>1
<1>2. CASE T # {}
  <2>1. IsFiniteSet(T)
    BY FS_Subset
  <2>2. \A t \in T : t \in Seq(Int) /\ Len(t) \in Nat
    OBVIOUS
  <2>3. least \in L /\ \A k \in L : least <= k
    <3>1. L \in SUBSET Nat /\ L # {}
      BY <1>2, <2>2
    <3>2. \E m \in L : \A k \in L : m <= k
      BY <3>1, LeastNat
    <3>3. QED
      BY <3>2 DEF Min
  <2>4. least \in Nat /\ \A t \in T : least <= Len(t)
    BY <2>2, <2>3
  <2>5. MaxTuple(S) = [n \in 1..least |-> Max(Values(n))]
    BY <1>2 DEF MaxTuple
  <2> HIDE DEF least
  <2>6. ASSUME NEW n \in 1..least
        PROVE  Max(Values(n)) \in Values(n) /\ \A x \in Values(n) : x <= Max(Values(n))
    <3>1. \A t \in T : n \in 1..Len(t) /\ t[n] \in Int
      BY <2>2, <2>4
    <3>2. Values(n) \in SUBSET Int /\ Values(n) # {}
      BY <1>2, <3>1
    <3>3. [t \in T |-> t[n]] \in Surjection(T, Values(n))
      BY DEF Surjection
    <3>4. IsFiniteSet(Values(n))
      BY <2>1, <3>3, FS_Surjection
    <3>5. QED
      BY <3>2, <3>4, FiniteMax
  <2>7. \A n \in 1..least : \E t \in T : n \in DOMAIN t /\ t[n] = Max(Values(n)) /\ t[n] \in Int
    <3> TAKE n \in 1..least
    <3>1. Max(Values(n)) \in Values(n)
      BY <2>6
    <3>2. PICK t \in T : t[n] = Max(Values(n))
      BY <3>1
    <3>3. n \in 1..Len(t)
      BY <2>2, <2>4
    <3>4. n \in DOMAIN t /\ t[n] \in Int
      BY <2>2, <3>3
    <3>5. QED
      BY <3>2, <3>4
  <2>8. \A t \in T : \A n \in 1..least : t[n] <= Max(Values(n))
    BY <2>6
  <2> HIDE DEF Values, T
  <2>9. MaxTuple(S) \in Seq(Int) /\ Len(MaxTuple(S)) = least
    BY <2>4, <2>5, <2>7
  <2>10. \E t \in T : Len(t) = least
    BY <2>3
  <2>11. QED
    BY <1>2, <2>4, <2>5, <2>7, <2>8, <2>9, <2>10 DEF T
<1>3. QED
  BY <1>1, <1>2

-----------------------------------------------------------------------------
(* Sums.                                                                   *)

(* The sums of the values of s over the subsets of A, as the fold builds   *)
(* them up.                                                                *)
AnyOf(t) == CHOOSE x \in t : TRUE

Sums(s, A, f) ==
  f = [t \in SUBSET A |-> IF t = {} THEN 0 ELSE s[AnyOf(t)] + f[t \ {AnyOf(t)}]]

LEMMA SumUnfolds ==
  ASSUME NEW s
  PROVE  SumOf(s) = (CHOOSE f : Sums(s, DOMAIN s, f))[DOMAIN s]
BY DEF SumOf, FoldFunction, FoldFunctionOnSet, MapThenFoldSet, Sums, AnyOf

LEMMA AnyElement ==
  ASSUME NEW t, t # {}, IsFiniteSet(t)
  PROVE  /\ AnyOf(t) \in t /\ IsFiniteSet(t \ {AnyOf(t)})
         /\ Cardinality(t) \in Nat \ {0} /\ Cardinality(t \ {AnyOf(t)}) = Cardinality(t) - 1
<1>1. AnyOf(t) \in t
  BY DEF AnyOf
<1>2. IsFiniteSet(t \ {AnyOf(t)}) /\ Cardinality(t \ {AnyOf(t)}) = Cardinality(t) - 1
  BY <1>1, FS_RemoveElement
<1>3. Cardinality(t) \in Nat /\ Cardinality(t \ {AnyOf(t)}) \in Nat
  BY <1>2, FS_CardinalityType
<1>4. QED
  BY <1>1, <1>2, <1>3

(* They do not depend on A.                                                *)
LEMMA SumsAgree ==
  ASSUME NEW s, NEW A, NEW B, NEW f, NEW g, Sums(s, A, f), Sums(s, B, g),
         IsFiniteSet(A), NEW t0 \in SUBSET (A \intersect B)
  PROVE  f[t0] = g[t0]
<1> DEFINE Bad == {n \in Nat : \E t \in SUBSET (A \intersect B) :
                                 Cardinality(t) = n /\ f[t] # g[t]}
<1>1. ASSUME Bad # {} PROVE FALSE
  <2>1. PICK n \in Bad : \A k \in Bad : n <= k
    <3>1. Bad \in SUBSET Nat
      OBVIOUS
    <3>2. QED
      BY <3>1, <1>1, LeastNat
  <2>2. PICK t \in SUBSET (A \intersect B) : Cardinality(t) = n /\ f[t] # g[t]
    BY <2>1
  <2>3. t \in SUBSET A /\ t \in SUBSET B /\ IsFiniteSet(t)
    BY FS_Subset
  <2>4. /\ f[t] = IF t = {} THEN 0 ELSE s[AnyOf(t)] + f[t \ {AnyOf(t)}]
        /\ g[t] = IF t = {} THEN 0 ELSE s[AnyOf(t)] + g[t \ {AnyOf(t)}]
    BY <2>3 DEF Sums
  <2>5. t # {}
    BY <2>2, <2>4
  <2>6. /\ n - 1 \in Nat /\ n \in Nat
        /\ Cardinality(t \ {AnyOf(t)}) = n - 1 /\ t \ {AnyOf(t)} \in SUBSET (A \intersect B)
    <3>1. /\ AnyOf(t) \in t /\ Cardinality(t) \in Nat \ {0}
          /\ Cardinality(t \ {AnyOf(t)}) = Cardinality(t) - 1
      BY <2>3, <2>5, AnyElement
    <3>2. n \in Nat \ {0} /\ Cardinality(t \ {AnyOf(t)}) = n - 1
      BY <2>2, <3>1
    <3>3. t \ {AnyOf(t)} \in SUBSET (A \intersect B)
      OBVIOUS
    <3>4. QED
      BY <3>2, <3>3
  <2>7. f[t \ {AnyOf(t)}] # g[t \ {AnyOf(t)}]
    BY <2>2, <2>4, <2>5
  <2>8. n - 1 \in Bad
    BY <2>6, <2>7
  <2>9. QED
    BY <2>1, <2>6, <2>8
<1>2. IsFiniteSet(t0)
  BY FS_Subset
<1>3. Cardinality(t0) \in Nat
  BY <1>2, FS_CardinalityType
<1>4. QED
  BY <1>1, <1>3

LEMMA SumsExist ==
  ASSUME NEW s, NEW S, IsFiniteSet(S)
  PROVE  \E f : Sums(s, S, f)
<1> DEFINE Bad == {n \in Nat : \E A \in SUBSET S : Cardinality(A) = n /\ ~ \E f : Sums(s, A, f)}
<1>1. ASSUME Bad # {} PROVE FALSE
  <2>1. PICK n \in Bad : \A k \in Bad : n <= k
    <3>1. Bad \in SUBSET Nat
      OBVIOUS
    <3>2. QED
      BY <3>1, <1>1, LeastNat
  <2>2. PICK A \in SUBSET S : Cardinality(A) = n /\ ~ \E f : Sums(s, A, f)
    BY <2>1
  <2>3. IsFiniteSet(A)
    BY FS_Subset
  <2>4. ASSUME NEW x \in A
        PROVE  \E f : Sums(s, A \ {x}, f)
    <3>1. Cardinality(A \ {x}) = n - 1 /\ IsFiniteSet(A \ {x})
      BY <2>2, <2>3, FS_RemoveElement
    <3>2. n - 1 \in Nat /\ n \in Nat
      BY <3>1, FS_CardinalityType
    <3>3. n - 1 \notin Bad
      BY <2>1, <3>2
    <3>4. A \ {x} \in SUBSET S
      OBVIOUS
    <3>5. QED
      BY <3>1, <3>2, <3>3, <3>4
  <2> DEFINE G(x) == CHOOSE f : Sums(s, A \ {x}, f)
             h == [t \in SUBSET A |-> IF t = {} THEN 0 ELSE s[AnyOf(t)] + G(AnyOf(t))[t \ {AnyOf(t)}]]
  <2>5. \A x \in A : Sums(s, A \ {x}, G(x))
    BY <2>4
  <2> HIDE DEF G
  <2>6. ASSUME NEW t \in SUBSET A, t # {}
        PROVE  G(AnyOf(t))[t \ {AnyOf(t)}] = h[t \ {AnyOf(t)}]
    <3> DEFINE x == AnyOf(t)
               u == t \ {x}
               y == AnyOf(u)
    <3>1. x \in t /\ x \in A /\ u \in SUBSET (A \ {x}) /\ u \in SUBSET A
      BY <2>6 DEF AnyOf
    <3>2. Sums(s, A \ {x}, G(x))
      BY <2>5, <3>1
    <3>3. G(x)[u] = IF u = {} THEN 0 ELSE s[y] + G(x)[u \ {y}]
      BY <3>1, <3>2 DEF Sums
    <3>4. h[u] = IF u = {} THEN 0 ELSE s[y] + G(y)[u \ {y}]
      BY <3>1
    <3>5. ASSUME u # {}
          PROVE  G(x)[u \ {y}] = G(y)[u \ {y}]
      <4>1. y \in u /\ y \in A
        BY <3>1, <3>5 DEF AnyOf
      <4>2. Sums(s, A \ {y}, G(y))
        BY <2>5, <4>1
      <4>3. u \ {y} \in SUBSET ((A \ {x}) \intersect (A \ {y}))
        BY <3>1
      <4>4. IsFiniteSet(A \ {x})
        BY <2>3, FS_Subset
      <4> HIDE DEF x, u, y
      <4>5. QED
        BY <3>2, <4>2, <4>3, <4>4, SumsAgree
    <3>6. QED
      BY <3>3, <3>4, <3>5
  <2>7. Sums(s, A, h)
    <3>1. h = [t \in SUBSET A |-> IF t = {} THEN 0 ELSE s[AnyOf(t)] + h[t \ {AnyOf(t)}]]
      BY <2>6
    <3> HIDE DEF h
    <3>2. QED
      BY <3>1 DEF Sums
  <2>8. QED
    BY <2>2, <2>7
<1>2. Cardinality(S) \in Nat
  BY FS_CardinalityType
<1>3. QED
  BY <1>1, <1>2

(* A sum of natural numbers is zero if they all are.                       *)
LEMMA SumIsZero ==
  ASSUME NEW S, IsFiniteSet(S), NEW s \in [S -> Nat], SumOf(s) = 0
  PROVE  \A x \in S : s[x] = 0
<1>1. PICK f : Sums(s, S, f) /\ SumOf(s) = f[S]
  BY SumsExist, SumUnfolds
<1> DEFINE Good(t) == f[t] \in Nat /\ \A x \in t : s[x] <= f[t]
           Bad == {n \in Nat : \E t \in SUBSET S : Cardinality(t) = n /\ ~ Good(t)}
<1>2. ASSUME Bad # {} PROVE FALSE
  <2>1. PICK n \in Bad : \A k \in Bad : n <= k
    <3>1. Bad \in SUBSET Nat
      OBVIOUS
    <3>2. QED
      BY <3>1, <1>2, LeastNat
  <2>2. PICK t \in SUBSET S : Cardinality(t) = n /\ ~ Good(t)
    BY <2>1
  <2>3. IsFiniteSet(t)
    BY FS_Subset
  <2>4. f[t] = IF t = {} THEN 0 ELSE s[AnyOf(t)] + f[t \ {AnyOf(t)}]
    BY <1>1 DEF Sums
  <2>5. t # {}
    BY <2>2, <2>4
  <2>6. /\ n - 1 \in Nat /\ n \in Nat /\ AnyOf(t) \in t
        /\ Cardinality(t \ {AnyOf(t)}) = n - 1 /\ t \ {AnyOf(t)} \in SUBSET S
    BY <2>2, <2>3, <2>5, AnyElement
  <2>7. Good(t \ {AnyOf(t)})
    <3>1. n - 1 \notin Bad
      BY <2>1, <2>6
    <3>2. QED
      BY <2>6, <3>1
  <2>8. s[AnyOf(t)] \in Nat
    BY <2>6
  <2>9. Good(t)
    <3> DEFINE y == AnyOf(t)
    <3>1. /\ f[t \ {y}] \in Nat
          /\ \A x \in t \ {y} : s[x] <= f[t \ {y}]
      BY <2>7
    <3>2. f[t] = s[y] + f[t \ {y}] /\ s[y] \in Nat
      BY <2>4, <2>5, <2>8
    <3>3. \A x \in t : s[x] \in Nat
      OBVIOUS
    <3> HIDE DEF y, Good
    <3>4. f[t] \in Nat /\ s[y] <= f[t] /\ f[t \ {y}] <= f[t]
      BY ONLY <3>1, <3>2
    <3>5. ASSUME NEW x \in t PROVE s[x] <= f[t]
      <4>1. CASE x = y
        BY <4>1, <3>4
      <4>2. CASE x \in t \ {y}
        <5>1. s[x] <= f[t \ {y}] /\ s[x] \in Nat
          BY <4>2, <3>1, <3>3
        <5>2. QED
          BY ONLY <5>1, <3>1, <3>4
      <4>3. QED
        BY <3>5, <4>1, <4>2
    <3>6. QED
      BY <3>4, <3>5 DEF Good
  <2>10. QED
    BY <2>2, <2>9
<1>3. Good(S)
  <2>1. Cardinality(S) \in Nat
    BY FS_CardinalityType
  <2>2. QED
    BY <1>2, <2>1
<1>4. QED
  BY <1>1, <1>3

-----------------------------------------------------------------------------
(* Shifts.                                                                 *)

LEMMA AddToFacts ==
  ASSUME NEW s \in Seq(Int), NEW D, NEW t \in [D -> Int]
  PROVE  /\ AddTo(s, t) \in Seq(Int) /\ Len(AddTo(s, t)) = Len(s)
         /\ \A n \in 1..Len(s) : AddTo(s, t)[n] = IF n \in D THEN s[n] + t[n] ELSE s[n]
<1>1. /\ DOMAIN s = 1..Len(s) /\ Len(s) \in Nat
      /\ AddTo(s, t) = [n \in 1..Len(s) |-> IF n \in D THEN s[n] + t[n] ELSE s[n]]
  BY DEF AddTo
<1>2. \A n \in 1..Len(s) : (IF n \in D THEN s[n] + t[n] ELSE s[n]) \in Int
  OBVIOUS
<1>3. QED
  BY <1>1, <1>2

LEMMA MinusFacts ==
  ASSUME NEW s \in Seq(Int), NEW t \in Seq(Int)
  PROVE  /\ Minus(s, t) \in Seq(Int) /\ Len(Minus(s, t)) = Shorter(s, t)
         /\ \A n \in 1..Shorter(s, t) : Minus(s, t)[n] = s[n] - t[n]
<1>1. Shorter(s, t) \in Nat /\ Shorter(s, t) <= Len(s) /\ Shorter(s, t) <= Len(t)
  BY DEF Shorter
<1>2. \A n \in 1..Shorter(s, t) : s[n] - t[n] \in Int
  BY <1>1, SMTT(30)
<1>3. Minus(s, t) = [n \in 1..Shorter(s, t) |-> s[n] - t[n]]
  BY DEF Minus
<1>4. ASSUME NEW k \in Nat, NEW f, f = [n \in 1..k |-> s[n] - t[n]],
             \A n \in 1..k : s[n] - t[n] \in Int
      PROVE  f \in Seq(Int) /\ Len(f) = k /\ \A n \in 1..k : f[n] = s[n] - t[n]
  BY <1>4
<1>5. QED
  BY <1>1, <1>2, <1>3, <1>4

(* Computations, their accesses and their bounds.                          *)
LEMMA StatementFacts ==
  ASSUME prog \in Programs, NEW c \in Stmts
  PROVE  /\ Nest(c) \in Seq(Iters) /\ Len(Nest(c)) \in Nat /\ DOMAIN Nest(c) = 1..Len(Nest(c))
         /\ prog[c].low \in Seq(Int) /\ Len(prog[c].low) = Len(Nest(c))
         /\ prog[c].high \in Nat /\ IsFiniteSet(prog[c].reads)
         /\ \A r \in prog[c].reads :
              r.of \in Producers(c) /\ r.of \in Stmts /\ \A i \in Iters : r.off[i] \in Int
<1>1. prog[c] \in Statement /\ Nest(c) \in Seq(Iters) /\ Producers(c) \subseteq Stmts
  BY ProgramFacts
<1>2. Len(prog[c].low) = Len(Nest(c)) /\ IsFiniteSet(prog[c].reads)
  BY FusionAssumption DEF Stmts, Nest
<1>3. /\ prog[c].low \in Seq(Int) /\ prog[c].high \in Nat
      /\ prog[c].reads \in SUBSET [of : Nat, off : [Iters -> Int]]
  BY <1>1 DEF Statement
<1>4. \A r \in prog[c].reads : r.of \in Producers(c) /\ \A i \in Iters : r.off[i] \in Int
  BY <1>3 DEF Producers
<1>5. QED
  BY <1>1, <1>2, <1>3, <1>4

LEMMA OffsetsFacts ==
  ASSUME prog \in Programs, NEW c \in Stmts, NEW i \in Iters
  PROVE  Offsets(c, i) \in SUBSET Int /\ IsFiniteSet(Offsets(c, i))
<1> DEFINE R == {x \in prog[c].reads : i \in prog[x.of].dims}
           O == {r.off[i] : r \in R}
           Z == IF i \in prog[c].dims THEN {0} ELSE {}
<1>1. IsFiniteSet(prog[c].reads) /\ \A r \in prog[c].reads : r.off[i] \in Int
  BY StatementFacts
<1>2. IsFiniteSet(R)
  BY <1>1, FS_Subset
<1>3. [r \in R |-> r.off[i]] \in Surjection(R, O)
  BY DEF Surjection
<1>4. IsFiniteSet(O)
  BY <1>2, <1>3, FS_Surjection
<1>5. IsFiniteSet(Z)
  BY FS_Singleton, FS_EmptySet
<1>6. IsFiniteSet(O \union Z)
  BY <1>4, <1>5, FS_Union
<1>7. O \union Z \in SUBSET Int
  BY <1>1
<1>8. QED
  BY <1>6, <1>7 DEF Offsets

LEMMA SpanFacts ==
  ASSUME prog \in Programs, NEW c \in Stmts
  PROVE  /\ NodeSpan(c) \in [DOMAIN Nest(c) -> Int]
         /\ NodeMaxes(c) \in [DOMAIN Nest(c) -> Int]
         /\ \A n \in DOMAIN Nest(c) : Offsets(c, Nest(c)[n]) # {} =>
              /\ Max(Offsets(c, Nest(c)[n])) \in Offsets(c, Nest(c)[n])
              /\ Min(Offsets(c, Nest(c)[n])) \in Offsets(c, Nest(c)[n])
              /\ \A x \in Offsets(c, Nest(c)[n]) :
                   /\ x \in Int /\ x <= Max(Offsets(c, Nest(c)[n]))
                   /\ Min(Offsets(c, Nest(c)[n])) <= x
<1>1. \A n \in DOMAIN Nest(c) : Nest(c)[n] \in Iters
  BY StatementFacts
<1>2. ASSUME NEW n \in DOMAIN Nest(c), NEW O, O = Offsets(c, Nest(c)[n]), O # {}
      PROVE  /\ O \in SUBSET Int /\ Max(O) \in O /\ Min(O) \in O
             /\ Max(O) \in Int /\ Min(O) \in Int
             /\ \A x \in O : x \in Int /\ x <= Max(O) /\ Min(O) <= x
  <2>1. O \in SUBSET Int /\ IsFiniteSet(O)
    BY <1>1, <1>2, OffsetsFacts
  <2>2. QED
    BY <1>2, <2>1, FiniteMax, FiniteMin
<1>3. QED
  BY <1>2 DEF NodeSpan, NodeMaxes

LEMMA OwnShiftFacts ==
  ASSUME prog \in Programs, NEW c \in Stmts
  PROVE  /\ OwnShift(c) \in Seq(Int)
         /\ Len(OwnShift(c)) = Shorter(prog[1].low, prog[c].low)
         /\ \A n \in 1..Len(OwnShift(c)) :
              OwnShift(c)[n] = (prog[1].low[n] - prog[c].low[n]) + NodeSpan(c)[n]
<1>1. 1 \in Stmts
  BY ProgramFacts
<1>2. /\ prog[1].low \in Seq(Int) /\ prog[c].low \in Seq(Int)
      /\ Len(prog[c].low) = Len(Nest(c)) /\ DOMAIN Nest(c) = 1..Len(Nest(c))
  BY <1>1, StatementFacts
<1>3. NodeSpan(c) \in [DOMAIN Nest(c) -> Int]
  BY SpanFacts
<1> DEFINE m == Minus(prog[1].low, prog[c].low)
<1>4. /\ m \in Seq(Int) /\ Len(m) = Shorter(prog[1].low, prog[c].low)
      /\ \A n \in 1..Shorter(prog[1].low, prog[c].low) : m[n] = prog[1].low[n] - prog[c].low[n]
  BY <1>2, MinusFacts
<1>5. \A n \in 1..Len(m) : n \in DOMAIN Nest(c)
  BY <1>2, <1>4 DEF Shorter
<1> HIDE DEF m
<1>6. /\ AddTo(m, NodeSpan(c)) \in Seq(Int) /\ Len(AddTo(m, NodeSpan(c))) = Len(m)
      /\ \A n \in 1..Len(m) : AddTo(m, NodeSpan(c))[n] = m[n] + NodeSpan(c)[n]
  BY <1>3, <1>4, <1>5, AddToFacts, SMTT(30)
<1>7. QED
  BY <1>4, <1>6 DEF OwnShift, m

(* Every shift is a tuple of numbers.                                      *)
ShiftTyped ==
  /\ DOMAIN shift = Stmts
  /\ \A s \in Stmts : shift[s] \in Seq(Int)
  /\ mode # "idle" => delta \in Seq(Int)

LEMMA CandidatesFacts ==
  ASSUME prog \in Programs, NEW c \in Stmts, \A s \in Stmts : shift[s] \in Seq(Int),
         NEW C, C = {OwnShift(c)} \union {shift[p] : p \in Producers(c)}
  PROVE  C \in SUBSET Seq(Int) /\ IsFiniteSet(C)
<1>1. Producers(c) \subseteq 1..(c - 1) /\ Producers(c) \subseteq Stmts /\ c \in Nat
  BY ProgramFacts
<1>2. IsFiniteSet(Producers(c))
  <2>1. IsFiniteSet(1..(c - 1))
    BY <1>1, FS_Interval
  <2>2. QED
    BY <1>1, <2>1, FS_Subset
<1> DEFINE P == {shift[p] : p \in Producers(c)}
<1>3. [p \in Producers(c) |-> shift[p]] \in Surjection(Producers(c), P)
  BY DEF Surjection
<1>4. IsFiniteSet(P) /\ IsFiniteSet({OwnShift(c)})
  BY <1>2, <1>3, FS_Surjection, FS_Singleton
<1>5. OwnShift(c) \in Seq(Int)
  BY OwnShiftFacts
<1>6. C \in SUBSET Seq(Int)
  BY <1>1, <1>5
<1>7. IsFiniteSet(C)
  BY <1>4, FS_Union
<1>8. QED
  BY <1>6, <1>7

LEMMA ShiftOfTyped ==
  ASSUME prog \in Programs, NEW c \in Stmts, \A s \in Stmts : shift[s] \in Seq(Int)
  PROVE  ShiftOf(c) \in Seq(Int)
<1> DEFINE C == {OwnShift(c)} \union {shift[p] : p \in Producers(c)}
           most == MaxTuple(C)
<1>1. C \in SUBSET Seq(Int) /\ IsFiniteSet(C)
  BY CandidatesFacts
<1>2. most \in Seq(Int)
  BY <1>1, MaxTupleFacts
<1>3. OwnShift(c) \in Seq(Int)
  BY OwnShiftFacts
<1>4. AddTo(most, NodeMaxes(c)) \in Seq(Int)
  BY <1>2, SpanFacts, AddToFacts
<1>5. QED
  BY <1>2, <1>3, <1>4 DEF ShiftOf

LEMMA ShiftsAreTyped == Spec => []ShiftTyped
<1>1. Init => ShiftTyped
  BY DEF Init, ShiftTyped
<1>2. BaseInv /\ ShiftTyped /\ [Next]_vars => ShiftTyped'
  <2> SUFFICES ASSUME BaseInv, ShiftTyped, [Next]_vars
               PROVE  ShiftTyped'
    OBVIOUS
  <2>1. CASE Start
    <3>1. prog \in Programs /\ cur + 1 \in Stmts
      BY <2>1, ProgramFacts DEF Start, BaseInv, ControlInv
    <3>2. ShiftOf(cur + 1) \in Seq(Int)
      BY <3>1, ShiftOfTyped DEF ShiftTyped
    <3>3. QED
      BY <2>1, <3>2 DEF Start, ShiftTyped, Stmts
  <2>2. CASE InsertLeaf
    <3>1. delta \in Seq(Int) /\ << >> \in Seq(Int)
      BY <2>2 DEF InsertLeaf, ShiftTyped
    <3>2. \A s \in Stmts : shift'[s] \in {shift[s], delta, << >>}
      BY <2>2 DEF InsertLeaf, ShiftTyped
    <3>3. QED
      BY <2>2, <3>1, <3>2 DEF InsertLeaf, ShiftTyped, Stmts
  <2>3. ASSUME UNCHANGED << prog, shift, delta >>, mode # "idle" \/ mode' = mode
        PROVE  ShiftTyped'
    BY <2>3 DEF ShiftTyped, Stmts
  <2>4. QED
    BY <2>1, <2>2, <2>3 DEF Next, Seek, Check, SkipLoop, Checked, UseLoop, NewLoop, Descended,
       Fused, vars, place
<1>3. QED
  BY <1>1, <1>2, BaseInvariant, PTL DEF Spec

-----------------------------------------------------------------------------
(* When statements run.                                                    *)

(* A time alternates between positions and values of iterators.            *)
LEMMA TimeFacts ==
  ASSUME NEW s, NEW u, Len(leaf[s]) \in Nat \ {0}
  PROVE  /\ Len(Time(s, u)) = 2 * Len(leaf[s]) - 1
         /\ \A m \in 1..Len(leaf[s]) : Time(s, u)[2 * m - 1] = leaf[s][m]
         /\ \A m \in 1..(Len(leaf[s]) - 1) :
              Time(s, u)[2 * m] = u[LoopsOf(s)[m]] + Moved(s, m)
<1>1. PICK k \in Nat \ {0} : k = Len(leaf[s])
  OBVIOUS
<1>2. Time(s, u) = [j \in 1..(2 * k - 1) |->
                      IF j % 2 = 1 THEN leaf[s][(j + 1) \div 2]
                      ELSE u[LoopsOf(s)[j \div 2]] + Moved(s, j \div 2)]
  BY <1>1 DEF Time
<1>3. ASSUME NEW m \in 1..k
      PROVE  Time(s, u)[2 * m - 1] = leaf[s][m]
  <2>1. 2 * m - 1 \in 1..(2 * k - 1) /\ (2 * m - 1) % 2 = 1 /\ ((2 * m - 1) + 1) \div 2 = m
    OBVIOUS
  <2>2. QED
    BY <1>2, <2>1
<1>4. ASSUME NEW m \in 1..(k - 1)
      PROVE  Time(s, u)[2 * m] = u[LoopsOf(s)[m]] + Moved(s, m)
  <2>1. 2 * m \in 1..(2 * k - 1) /\ (2 * m) % 2 # 1 /\ (2 * m) \div 2 = m
    OBVIOUS
  <2>2. QED
    BY <1>2, <2>1
<1>5. DOMAIN Time(s, u) = 1..(2 * k - 1) /\ 2 * k - 1 \in Nat
  BY <1>2
<1>6. Len(Time(s, u)) = 2 * k - 1
  BY <1>5
<1>7. QED
  BY <1>1, <1>3, <1>4, <1>6

(* Two statements whose leaves differ first at position k: one is earlier  *)
(* if the iterators of the loops they share are not later.                 *)
LEMMA EarlierByLoops ==
  ASSUME NEW p, NEW c, NEW u, NEW v,
         Len(leaf[p]) \in Nat, Len(leaf[c]) \in Nat,
         NEW k \in 1..Shorter(leaf[p], leaf[c]),
         leaf[p][k] \in Nat, leaf[c][k] \in Nat, leaf[p][k] < leaf[c][k],
         \A m \in 1..(k - 1) : leaf[p][m] = leaf[c][m],
         \A m \in 1..(k - 1) :
           /\ u[LoopsOf(p)[m]] + Moved(p, m) \in Int
           /\ v[LoopsOf(c)[m]] + Moved(c, m) \in Int
           /\ u[LoopsOf(p)[m]] + Moved(p, m) <= v[LoopsOf(c)[m]] + Moved(c, m)
  PROVE  Earlier(Time(p, u), Time(c, v))
<1> DEFINE t == Time(p, u)
           w == Time(c, v)
           D == {j \in 1..(2 * k - 1) : t[j] # w[j]}
<1>1. PICK a, b \in Nat \ {0} : a = Len(leaf[p]) /\ b = Len(leaf[c]) /\ k \in Nat \ {0} /\ k <= a /\ k <= b
  BY DEF Shorter
<1>2. /\ Len(t) = 2 * a - 1
      /\ \A m \in 1..a : t[2 * m - 1] = leaf[p][m]
      /\ \A m \in 1..(a - 1) : t[2 * m] = u[LoopsOf(p)[m]] + Moved(p, m)
  BY <1>1, TimeFacts
<1>3. /\ Len(w) = 2 * b - 1
      /\ \A m \in 1..b : w[2 * m - 1] = leaf[c][m]
      /\ \A m \in 1..(b - 1) : w[2 * m] = v[LoopsOf(c)[m]] + Moved(c, m)
  BY <1>1, TimeFacts
<1> HIDE DEF t, w
<1>4. t[2 * k - 1] < w[2 * k - 1]
  <2>1. k \in 1..a /\ k \in 1..b
    BY <1>1
  <2>2. t[2 * k - 1] = leaf[p][k] /\ w[2 * k - 1] = leaf[c][k]
    BY <1>2, <1>3, <2>1
  <2>3. QED
    BY <2>2
<1>5. D \in SUBSET Nat /\ D # {}
  <2>1. 2 * k - 1 \in 1..(2 * k - 1) /\ k \in 1..a /\ k \in 1..b
    BY <1>1
  <2>2. leaf[p][k] # leaf[c][k]
    OBVIOUS
  <2>3. 2 * k - 1 \in D
    BY <1>2, <1>3, <2>1, <2>2
  <2>4. QED
    BY <1>1, <2>3, SMTT(30)
<1>6. PICK j \in D : \A i \in D : j <= i
  BY <1>5, LeastNat
<1>7. j \in 1..Shorter(t, w)
  BY <1>1, <1>2, <1>3, <1>6, SMTT(30) DEF Shorter
<1>8. \A i \in 1..(j - 1) : t[i] = w[i]
  BY <1>1, <1>6
<1>9. t[j] < w[j]
  <2>1. CASE j = 2 * k - 1
    BY <1>4, <2>1
  <2>2. ASSUME NEW m \in 1..(k - 1), j = 2 * m - 1
        PROVE  FALSE
    <3>1. m \in 1..a /\ m \in 1..b
      <4>1. m \in Nat \ {0} /\ m < k
        BY <1>1
      <4>2. QED
        BY <1>1, <4>1
    <3>2. QED
      BY <1>2, <1>3, <1>6, <2>2, <3>1
  <2>3. ASSUME NEW m \in 1..(k - 1), j = 2 * m
        PROVE  t[j] < w[j]
    <3>1. m \in 1..(a - 1) /\ m \in 1..(b - 1)
      <4>1. m \in Nat \ {0} /\ m < k
        BY <1>1
      <4>2. QED
        BY <1>1, <4>1, SMTT(30)
    <3>2. /\ t[j] = u[LoopsOf(p)[m]] + Moved(p, m)
          /\ w[j] = v[LoopsOf(c)[m]] + Moved(c, m)
      BY <1>2, <1>3, <2>3, <3>1
    <3>3. t[j] # w[j]
      BY <1>6
    <3>4. QED
      BY <3>2, <3>3
  <2>4. j = 2 * k - 1 \/ (\E m \in 1..(k - 1) : j = 2 * m - 1 \/ j = 2 * m)
    <3>1. j \in 1..(2 * k - 1) /\ k \in Nat
      BY <1>1, <1>6
    <3>2. CASE j % 2 = 0
      <4>1. j = 2 * (j \div 2) /\ j \div 2 \in 1..(k - 1)
        BY <3>1, <3>2
      <4>2. QED
        BY <4>1
    <3>3. CASE j % 2 # 0
      <4>1. j = 2 * (j \div 2 + 1) - 1 /\ j \div 2 + 1 \in 1..k
        BY <3>1, <3>3
      <4>2. PICK m \in 1..k : j = 2 * m - 1
        BY <4>1
      <4>3. m = k \/ m \in 1..(k - 1)
        BY <3>1
      <4>4. QED
        BY <4>2, <4>3
    <3>4. QED
      BY <3>1, <3>2, <3>3
  <2>5. QED
    BY <2>1, <2>2, <2>3, <2>4
<1>10. QED
  BY <1>7, <1>8, <1>9 DEF Earlier, t, w

(* The points of a statement, and what its shift moves.                    *)
LEMMA MovedIsInt ==
  ASSUME ShiftTyped, NEW s \in Stmts, NEW n
  PROVE  Moved(s, n) \in Int
BY DEF ShiftTyped, Moved

LEMMA PointIsInt ==
  ASSUME prog \in Programs, NEW s \in Stmts, NEW u \in Points(s), NEW n \in DOMAIN Nest(s)
  PROVE  u[Nest(s)[n]] \in Int
<1>1. Nest(s)[n] \in Range(Nest(s))
  BY DEF Range
<1>2. u[Nest(s)[n]] \in 0..prog[s].high /\ prog[s].high \in Nat
  BY <1>1, StatementFacts DEF Points
<1>3. QED
  BY <1>2

(* The loops around two leaves are the same until they differ.             *)
LEMMA SharedLoops ==
  ASSUME BaseInv, NEW p \in Stmts, NEW c \in Stmts,
         leaf[p] \in DOMAIN tree, leaf[c] \in DOMAIN tree,
         NEW k \in 1..Shorter(leaf[p], leaf[c]), \A m \in 1..(k - 1) : leaf[p][m] = leaf[c][m],
         NEW n \in 1..(k - 1)
  PROVE  /\ n \in 1..(Shorter(leaf[c], leaf[p]) - 1)
         /\ SubSeq(leaf[c], 1, n) = SubSeq(leaf[p], 1, n)
         /\ n \in DOMAIN LoopsOf(p) /\ n \in DOMAIN LoopsOf(c)
         /\ LoopsOf(p)[n] = LoopsOf(c)[n]
<1>1. PICK P, C \in Paths : P = leaf[p] /\ C = leaf[c] /\ Len(P) \in Nat /\ Len(C) \in Nat
  BY NodeFacts
<1>2. n \in Nat \ {0} /\ k \in Nat /\ n < k /\ k <= Len(P) /\ k <= Len(C)
  BY <1>1 DEF Shorter
<1>3. n \in 0..Len(P) /\ n \in 0..Len(C) /\ n \in 1..(Len(P) - 1) /\ n \in 1..(Len(C) - 1)
  BY <1>1, <1>2
<1>4. /\ SubSeq(P, 1, n) \in Paths /\ Len(SubSeq(P, 1, n)) = n
      /\ \A m \in 1..n : SubSeq(P, 1, n)[m] = P[m]
      /\ SubSeq(C, 1, n) \in Paths /\ Len(SubSeq(C, 1, n)) = n
      /\ \A m \in 1..n : SubSeq(C, 1, n)[m] = C[m]
  BY <1>3, PrefixOfPath
<1>5. \A m \in 1..n : P[m] = C[m]
  BY <1>1, <1>2
<1>6. SubSeq(C, 1, n) = SubSeq(P, 1, n)
  BY <1>4, <1>5, SeqEqual DEF Paths
<1>7. n \in DOMAIN LoopsOf(p) /\ n \in DOMAIN LoopsOf(c) /\ LoopsOf(p)[n] = LoopsOf(c)[n]
  BY <1>1, <1>3, <1>6 DEF LoopsOf
<1>8. n \in 1..(Shorter(leaf[c], leaf[p]) - 1)
  BY <1>1, <1>3 DEF Shorter
<1>9. QED
  BY <1>1, <1>6, <1>7, <1>8

(* As long as the statements run in their own loops: where the shifts are  *)
(* large enough, every read comes after the write of what it reads, for    *)
(* iteration spaces of any size.                                           *)
LEMMA FlowOfShifts ==
  ASSUME IInv, ShiftTyped, OwnLoops, Synchronized
  PROVE  FlowKept
<1> SUFFICES ASSUME mode = "idle", NEW c \in Placed, NEW r \in prog[c].reads,
                    NEW u \in Points(r.of), NEW v \in Points(c), Touches(r, c, u, v)
             PROVE  Earlier(Time(r.of, u), Time(c, v))
  BY DEF FlowKept
<1>1. PICK p : p = r.of
  OBVIOUS
<1>2. prog \in Programs /\ c \in Stmts /\ IsPlaced(c) /\ BaseInv
  BY PlacedFacts DEF IInv, BaseInv, ControlInv, Placed
<1>3. p \in Producers(c) /\ \A i \in Iters : r.off[i] \in Int
  BY <1>1, <1>2, StatementFacts
<1>4. /\ p \in Stmts /\ IsPlaced(p) /\ leaf[p] \in DOMAIN tree /\ leaf[c] \in DOMAIN tree
      /\ p < c
  BY <1>2, <1>3, ProducersArePlaced DEF BaseInv, LeafInv
<1>5. p \in Placed /\ c # 1
  BY <1>2, <1>4, PlacedFacts, ProgramFacts
<1>6. LoopsOf(p) = Nest(p) /\ LoopsOf(c) = Nest(c) /\ Ahead(leaf[p], leaf[c])
  BY <1>3, <1>5 DEF OwnLoops, IInv, DoneInv
<1>7. PICK k \in 1..Shorter(leaf[p], leaf[c]) :
        leaf[p][k] < leaf[c][k] /\ \A m \in 1..(k - 1) : leaf[p][m] = leaf[c][m]
  BY <1>6 DEF Ahead
<1>8. ASSUME NEW m \in 1..(k - 1)
      PROVE  /\ u[LoopsOf(p)[m]] + Moved(p, m) \in Int
             /\ v[LoopsOf(c)[m]] + Moved(c, m) \in Int
             /\ u[LoopsOf(p)[m]] + Moved(p, m) <= v[LoopsOf(c)[m]] + Moved(c, m)
  <2>1. /\ m \in 1..(Shorter(leaf[c], leaf[p]) - 1)
        /\ SubSeq(leaf[c], 1, m) = SubSeq(leaf[p], 1, m)
        /\ m \in DOMAIN Nest(p) /\ m \in DOMAIN Nest(c) /\ Nest(p)[m] = Nest(c)[m]
    BY <1>2, <1>4, <1>6, <1>7, <1>8, SharedLoops
  <2> DEFINE i == Nest(c)[m]
  <2>2. i \in prog[p].dims /\ r.off[i] + Moved(p, m) <= Moved(c, m)
    BY <1>1, <2>1 DEF Synchronized
  <2>3. u[i] = v[i] + r.off[i]
    <3>1. i \in Range(Nest(c))
      BY <2>1 DEF Range
    <3>2. QED
      BY <1>1, <2>2, <3>1 DEF Touches
  <2>4. u[i] \in Int /\ v[i] \in Int
    BY <1>1, <1>2, <1>4, <2>1, PointIsInt
  <2>5. Moved(p, m) \in Int /\ Moved(c, m) \in Int
    BY <1>2, <1>4, MovedIsInt
  <2>6. r.off[i] \in Int
    <3>1. i \in Iters
      BY <1>2, <2>1, StatementFacts
    <3>2. QED
      BY <1>3, <3>1
  <2>7. LoopsOf(p)[m] = i /\ LoopsOf(c)[m] = i
    BY <1>6, <2>1
  <2> HIDE DEF i
  <2>8. QED
    BY <2>2, <2>3, <2>4, <2>5, <2>6, <2>7
<1>9. /\ Len(leaf[p]) \in Nat /\ Len(leaf[c]) \in Nat
      /\ leaf[p][k] \in Nat /\ leaf[c][k] \in Nat
  <2>1. /\ Len(leaf[p]) \in Nat /\ Len(leaf[c]) \in Nat
        /\ \A n \in 1..Len(leaf[p]) : leaf[p][n] \in Nat
        /\ \A n \in 1..Len(leaf[c]) : leaf[c][n] \in Nat
    BY <1>2, <1>4, NodeFacts
  <2>2. k \in 1..Len(leaf[p]) /\ k \in 1..Len(leaf[c])
    BY <2>1 DEF Shorter
  <2>3. QED
    BY <2>1, <2>2
<1>10. QED
  BY <1>1, <1>7, <1>8, <1>9, EarlierByLoops

(* What TLC checks of the shifts on small programs is enough for FlowKept  *)
(* in iteration spaces of every size.                                      *)
THEOREM FlowFromShifts == Spec => [](OwnLoops /\ Synchronized => FlowKept)
<1>1. IInv /\ ShiftTyped => (OwnLoops /\ Synchronized => FlowKept)
  BY FlowOfShifts
<1>2. QED
  BY <1>1, Invariant, ShiftsAreTyped, PTL

-----------------------------------------------------------------------------
(* What the shifts have to make up for.                                    *)

(* The shift of a statement makes up for the distance at which it reads,   *)
(* along every loop that a producer has at the same depth.                 *)
Enough ==
  \A c \in Placed : \A r \in prog[c].reads :
    \A n \in DOMAIN Nest(c) \intersect DOMAIN Nest(r.of) :
      Nest(c)[n] = Nest(r.of)[n] => r.off[Nest(c)[n]] + Moved(r.of, n) <= Moved(c, n)

LEMMA EnoughIsSynchronized ==
  ASSUME FullyIndexed(prog), BaseInv, OwnLoops, Enough
  PROVE  Synchronized
<1> SUFFICES ASSUME NEW c \in Placed, NEW r \in prog[c].reads,
                    NEW n \in 1..(Shorter(leaf[c], leaf[r.of]) - 1),
                    SubSeq(leaf[c], 1, n) = SubSeq(leaf[r.of], 1, n)
             PROVE  /\ Nest(c)[n] \in prog[r.of].dims
                    /\ r.off[Nest(c)[n]] + Moved(r.of, n) <= Moved(c, n)
  BY DEF Synchronized
<1>1. PICK p : p = r.of
  OBVIOUS
<1>2. prog \in Programs /\ c \in Stmts /\ IsPlaced(c)
  BY PlacedFacts DEF BaseInv, ControlInv, Placed
<1>3. p \in Producers(c) /\ p \in Stmts
  BY <1>1, <1>2, StatementFacts
<1>4. IsPlaced(p) /\ leaf[p] \in DOMAIN tree /\ leaf[c] \in DOMAIN tree
  BY <1>2, <1>3, ProducersArePlaced DEF BaseInv, LeafInv
<1>5. LoopsOf(p) = Nest(p) /\ LoopsOf(c) = Nest(c)
  BY <1>2, <1>3, <1>4, PlacedFacts DEF OwnLoops
<1>6. n \in 1..(Len(leaf[p]) - 1) /\ n \in 1..(Len(leaf[c]) - 1) /\ n \in Nat
  <2>1. Len(leaf[p]) \in Nat /\ Len(leaf[c]) \in Nat
    BY <1>4, NodeFacts
  <2>2. QED
    BY <1>1, <2>1 DEF Shorter
<1>7. LoopsOf(p)[n] = LoopsOf(c)[n] /\ n \in DOMAIN LoopsOf(p) /\ n \in DOMAIN LoopsOf(c)
  BY <1>1, <1>6 DEF LoopsOf
<1>8. Nest(c)[n] = Nest(p)[n] /\ Nest(p)[n] \in Range(Nest(p))
  <2>1. Nest(p) \in Seq(Iters)
    BY <1>2, <1>3, StatementFacts
  <2>2. QED
    BY <1>5, <1>7, <2>1 DEF Range
<1>9. prog[p].dims = Range(Nest(p))
  BY <1>3 DEF FullyIndexed, Nest, Stmts
<1>10. n \in DOMAIN Nest(c) \intersect DOMAIN Nest(r.of)
  BY <1>1, <1>5, <1>7
<1>11. r.off[Nest(c)[n]] + Moved(r.of, n) <= Moved(c, n)
  BY <1>1, <1>8, <1>10 DEF Enough
<1>12. QED
  BY <1>1, <1>8, <1>9, <1>11

-----------------------------------------------------------------------------
(* Programs that read back.                                                *)

(* No statement is shifted less than one it reads.                         *)
Growing ==
  \A c \in Placed : \A p \in Producers(c) : \A n \in Nat : Moved(p, n) <= Moved(c, n)

LEMMA GrowingIsEnough ==
  ASSUME ReadsBack(prog), BaseInv, ShiftTyped, Growing
  PROVE  Enough
<1> SUFFICES ASSUME NEW c \in Placed, NEW r \in prog[c].reads,
                    NEW n \in DOMAIN Nest(c) \intersect DOMAIN Nest(r.of)
             PROVE  r.off[Nest(c)[n]] + Moved(r.of, n) <= Moved(c, n)
  BY DEF Enough
<1>1. PICK p : p = r.of
  OBVIOUS
<1>2. prog \in Programs /\ c \in Stmts
  BY DEF BaseInv, ControlInv, Placed
<1>3. /\ p \in Producers(c) /\ p \in Stmts /\ \A i \in Iters : r.off[i] \in Int
      /\ n \in Nat /\ Nest(c)[n] \in Iters
  BY <1>1, <1>2, StatementFacts
<1>4. r.off[Nest(c)[n]] <= 0
  BY <1>2, <1>3 DEF ReadsBack, Stmts
<1>5. Moved(p, n) \in Int /\ Moved(c, n) \in Int /\ Moved(p, n) <= Moved(c, n)
  BY <1>2, <1>3, MovedIsInt DEF Growing
<1>6. r.off[Nest(c)[n]] \in Int
  BY <1>3
<1>7. QED
  BY <1>1, <1>4, <1>5, <1>6

(* The offsets reach from somewhere before to the place itself.            *)
LEMMA BackwardSpan ==
  ASSUME FullyIndexed(prog), ReadsBack(prog), prog \in Programs,
         NEW c \in Stmts, NEW n \in DOMAIN Nest(c)
  PROVE  /\ NodeMaxes(c)[n] = 0
         /\ NodeSpan(c)[n] \in Nat
         /\ \A r \in prog[c].reads :
              Nest(c)[n] \in prog[r.of].dims => NodeSpan(c)[n] >= - r.off[Nest(c)[n]]
<1> DEFINE i == Nest(c)[n]
           O == Offsets(c, i)
<1>1. i \in Iters /\ i \in prog[c].dims
  <2>1. Nest(c) \in Seq(Iters) /\ i \in Range(Nest(c))
    BY StatementFacts DEF Range
  <2>2. QED
    BY <2>1 DEF FullyIndexed, Nest, Stmts
<1>2. \A r \in prog[c].reads : r.off[i] <= 0 /\ r.off[i] \in Int
  BY <1>1, StatementFacts DEF ReadsBack, Stmts
<1>3. 0 \in O /\ \A x \in O : x <= 0
  BY <1>1, <1>2 DEF Offsets
<1>4. /\ Max(O) \in O /\ Min(O) \in O
      /\ \A x \in O : x \in Int /\ x <= Max(O) /\ Min(O) <= x
  BY <1>3, SpanFacts
<1>5. Max(O) = 0 /\ Min(O) \in Int /\ Min(O) <= 0
  BY <1>3, <1>4
<1>6. NodeMaxes(c)[n] = Max(O) /\ NodeSpan(c)[n] = Max(O) - Min(O)
  BY <1>3 DEF NodeMaxes, NodeSpan
<1>7. ASSUME NEW r \in prog[c].reads, i \in prog[r.of].dims
      PROVE  r.off[i] \in O
  BY <1>7 DEF Offsets
<1> HIDE DEF O
<1>8. QED
  BY <1>2, <1>4, <1>5, <1>6, <1>7

(* Shifts are not negative, and the one that is worked out is no less than *)
(* those of the producers.                                                 *)
Shift(s) == s \in Seq(Int) /\ Len(s) = Len(Nest(1)) /\ \A n \in 1..Len(s) : s[n] >= 0

GrowInv ==
  /\ \A s \in Stmts : shift[s] = << >> \/ Shift(shift[s])
  /\ mode # "idle" =>
       /\ Shift(delta)
       /\ \A p \in Producers(cur) : \A n \in DOMAIN shift[p] : shift[p][n] <= delta[n]
  /\ Growing

LEMMA ReachingOwnShift ==
  ASSUME FullyIndexed(prog), ReadsBack(prog), Reaching(prog), prog \in Programs, NEW c \in Stmts
  PROVE  Shift(OwnShift(c))
<1>1. 1 \in Stmts /\ Len(Nest(c)) = Len(Nest(1))
  BY ProgramFacts DEF Reaching, Stmts, Nest
<1>2. /\ OwnShift(c) \in Seq(Int)
      /\ Len(OwnShift(c)) = Shorter(prog[1].low, prog[c].low)
      /\ \A n \in 1..Len(OwnShift(c)) :
           OwnShift(c)[n] = (prog[1].low[n] - prog[c].low[n]) + NodeSpan(c)[n]
  BY OwnShiftFacts
<1>3. /\ Len(prog[1].low) = Len(Nest(1)) /\ Len(prog[c].low) = Len(Nest(1))
      /\ prog[1].low \in Seq(Int) /\ prog[c].low \in Seq(Int) /\ Len(Nest(1)) \in Nat
      /\ DOMAIN Nest(c) = 1..Len(Nest(1))
  BY <1>1, StatementFacts
<1>4. Len(OwnShift(c)) = Len(Nest(1))
  BY <1>2, <1>3 DEF Shorter
<1>5. ASSUME NEW n \in 1..Len(Nest(1))
      PROVE  OwnShift(c)[n] >= 0
  <2>1. prog[1].low[n] \in Int /\ prog[c].low[n] \in Int /\ n \in DOMAIN Nest(c)
    BY <1>3, SMTT(30)
  <2>2. /\ NodeSpan(c)[n] \in Nat
        /\ \A r \in prog[c].reads :
             Nest(c)[n] \in prog[r.of].dims => NodeSpan(c)[n] >= - r.off[Nest(c)[n]]
    BY <2>1, BackwardSpan
  <2>3. \/ prog[c].low[n] <= prog[1].low[n]
        \/ \E r \in prog[c].reads :
             /\ Nest(c)[n] \in prog[r.of].dims
             /\ prog[c].low[n] + r.off[Nest(c)[n]] <= prog[1].low[n]
    BY <2>1 DEF Reaching, Nest, Stmts
  <2>4. OwnShift(c)[n] = (prog[1].low[n] - prog[c].low[n]) + NodeSpan(c)[n]
    BY <1>2, <1>4
  <2>5. CASE prog[c].low[n] <= prog[1].low[n]
    BY <2>1, <2>2, <2>4, <2>5
  <2>6. ASSUME NEW r \in prog[c].reads, Nest(c)[n] \in prog[r.of].dims,
               prog[c].low[n] + r.off[Nest(c)[n]] <= prog[1].low[n]
        PROVE  OwnShift(c)[n] >= 0
    <3>1. r.off[Nest(c)[n]] \in Int
      BY <2>1, StatementFacts
    <3>2. NodeSpan(c)[n] >= - r.off[Nest(c)[n]]
      BY <2>2, <2>6
    <3>3. QED
      BY <2>1, <2>2, <2>4, <2>6, <3>1, <3>2, SMTT(30)
  <2>7. QED
    BY <2>3, <2>5, <2>6
<1>6. QED
  BY <1>2, <1>4, <1>5 DEF Shift

LEMMA ReachingShiftOf ==
  ASSUME FullyIndexed(prog), ReadsBack(prog), Reaching(prog), prog \in Programs, NEW c \in Stmts,
         \A s \in Stmts : shift[s] = << >> \/ Shift(shift[s])
  PROVE  /\ Shift(ShiftOf(c))
         /\ \A p \in Producers(c) : \A n \in DOMAIN shift[p] : shift[p][n] <= ShiftOf(c)[n]
<1> DEFINE C == {OwnShift(c)} \union {shift[p] : p \in Producers(c)}
           most == MaxTuple(C)
           d == Len(Nest(1))
<1>1. d \in Nat /\ Producers(c) \subseteq Stmts
  BY ProgramFacts, StatementFacts
<1>2. Shift(OwnShift(c)) /\ \A t \in C : t = << >> \/ Shift(t)
  BY <1>1, ReachingOwnShift
<1>3. C \in SUBSET Seq(Int) /\ IsFiniteSet(C)
  <2>1. << >> \in Seq(Int)
    OBVIOUS
  <2>2. ASSUME NEW s \in Stmts
        PROVE  shift[s] \in Seq(Int)
    BY <2>1 DEF Shift
  <2>3. QED
    BY <2>2, CandidatesFacts
<1>4. OwnShift(c) \in C /\ \A p \in Producers(c) : shift[p] \in C
  OBVIOUS
<1> HIDE DEF C
<1>5. /\ most \in Seq(Int)
      /\ \A t \in C \ {<< >>} : \A n \in 1..Len(most) : t[n] <= most[n]
      /\ C \ {<< >>} # {} => \E t \in C \ {<< >>} : Len(t) = Len(most)
      /\ C \ {<< >>} = {} => most = << >>
  BY <1>3, MaxTupleFacts
<1>6. Len(most) = d
  <2>1. CASE C \ {<< >>} = {}
    <3>1. OwnShift(c) = << >> /\ most = << >>
      BY <1>4, <1>5, <2>1
    <3>2. QED
      BY <1>2, <3>1 DEF Shift
  <2>2. CASE C \ {<< >>} # {}
    BY <1>2, <1>5, <2>2 DEF Shift
  <2>3. QED
    BY <2>1, <2>2
<1>7. \A t \in C : \A n \in DOMAIN t : n \in 1..d /\ t[n] <= most[n]
  <2> TAKE t \in C
  <2>1. CASE t = << >>
    BY <2>1
  <2>2. CASE t # << >>
    <3>1. t \in Seq(Int) /\ Len(t) = d
      BY <1>2, <2>2 DEF Shift
    <3>2. QED
      BY <1>5, <1>6, <2>2, <3>1
  <2>3. QED
    BY <2>1, <2>2
<1>8. Shift(most)
  <2>1. ASSUME NEW n \in 1..d
        PROVE  most[n] >= 0
    <3>1. n \in DOMAIN OwnShift(c) /\ OwnShift(c)[n] >= 0 /\ OwnShift(c)[n] \in Int
      BY <1>2 DEF Shift
    <3>2. OwnShift(c)[n] <= most[n] /\ most[n] \in Int
      BY <1>4, <1>5, <1>6, <1>7, <3>1
    <3>3. QED
      BY <3>1, <3>2
  <2>2. QED
    BY <1>5, <1>6, <2>1 DEF Shift
<1>9. \A p \in Producers(c) : \A n \in DOMAIN shift[p] : shift[p][n] <= most[n]
  BY <1>4, <1>7
<1>10. Len(AddTo(most, NodeMaxes(c))) = d /\ AddTo(most, NodeMaxes(c)) \in Seq(Int)
       /\ \A n \in 1..d : AddTo(most, NodeMaxes(c))[n] = most[n]
  <2>1. NodeMaxes(c) \in [DOMAIN Nest(c) -> Int]
    BY SpanFacts
  <2>2. /\ AddTo(most, NodeMaxes(c)) \in Seq(Int) /\ Len(AddTo(most, NodeMaxes(c))) = d
        /\ \A n \in 1..d : AddTo(most, NodeMaxes(c))[n] =
                             IF n \in DOMAIN Nest(c) THEN most[n] + NodeMaxes(c)[n] ELSE most[n]
    BY <1>5, <1>6, <2>1, AddToFacts, SMTT(30)
  <2>3. \A n \in DOMAIN Nest(c) : NodeMaxes(c)[n] = 0
    BY BackwardSpan
  <2>4. \A n \in 1..d : most[n] \in Int
    BY <1>5, <1>6
  <2>5. QED
    BY <2>2, <2>3, <2>4
<1>11. \A s : Shift(s) /\ (\A n \in 1..d : s[n] = most[n]) =>
         \A p \in Producers(c) : \A n \in DOMAIN shift[p] : shift[p][n] <= s[n]
  BY <1>4, <1>7, <1>9
<1>12. Shift(AddTo(most, NodeMaxes(c)))
  BY <1>6, <1>8, <1>10 DEF Shift
<1>13. ShiftOf(c) = most \/ ShiftOf(c) = AddTo(most, NodeMaxes(c))
  BY DEF ShiftOf, C
<1> HIDE DEF most, d
<1>14. QED
  BY <1>8, <1>9, <1>10, <1>11, <1>12, <1>13

LEMMA GrowingUnchanged ==
  ASSUME GrowInv, prog' = prog, shift' = shift, leaf' = leaf, cur' = cur, delta' = delta,
         mode # "idle" \/ mode' = mode
  PROVE  GrowInv'
BY DEF GrowInv, Growing, Shift, Placed, Stmts, Producers, Moved, Nest

LEMMA GrowingInit ==
  ASSUME Init
  PROVE  GrowInv
<1>1. prog \in Programs /\ mode = "idle" /\ \A s \in Stmts : shift[s] = << >>
  BY DEF Init
<1>2. \A s \in Stmts : Producers(s) \subseteq Stmts
  BY <1>1, ProgramFacts
<1>3. \A s \in Stmts : \A n \in Nat : Moved(s, n) = 0
  BY <1>1 DEF Moved
<1>4. Growing
  BY <1>2, <1>3 DEF Growing, Placed
<1>5. QED
  BY <1>1, <1>4 DEF GrowInv

LEMMA GrowingStart ==
  ASSUME FullyIndexed(prog), ReadsBack(prog), Reaching(prog), BaseInv, GrowInv, Start
  PROVE  GrowInv'
<1>1. PICK c : c = cur + 1
  OBVIOUS
<1>2. /\ prog \in Programs /\ c \in Stmts
      /\ prog' = prog /\ shift' = shift /\ leaf' = leaf
      /\ cur' = c /\ delta' = ShiftOf(c)
  BY <1>1, ProgramFacts DEF Start, BaseInv, ControlInv
<1>3. PICK t : t = ShiftOf(c)
  OBVIOUS
<1>4. /\ Shift(t)
      /\ \A p \in Producers(c) : \A n \in DOMAIN shift[p] : shift[p][n] <= t[n]
  BY <1>2, <1>3, ReachingShiftOf DEF GrowInv
<1>5. delta' = t /\ Shift(t)' /\ \A s \in Stmts : shift[s] = << >> \/ Shift(shift[s])'
  BY <1>2, <1>3, <1>4 DEF Shift, Nest, GrowInv
<1>6. (\A s \in Stmts : shift[s] = << >> \/ Shift(shift[s]))'
  BY <1>2, <1>5 DEF Stmts, Shift, Nest, GrowInv
<1>7. (Shift(delta) /\ \A p \in Producers(cur) : \A n \in DOMAIN shift[p] : shift[p][n] <= delta[n])'
  BY <1>2, <1>4, <1>5 DEF Shift, Nest, Producers
<1>8. Growing'
  BY <1>2 DEF GrowInv, Growing, Placed, Stmts, Producers, Moved
<1>9. QED
  BY <1>6, <1>7, <1>8 DEF GrowInv

(* A statement that is placed gets the shift worked out for it, or none    *)
(* where that is no shift at all.                                          *)
LEMMA GrowingInsertLeaf ==
  ASSUME BaseInv, ShiftTyped, GrowInv, InsertLeaf
  PROVE  GrowInv'
<1>1. /\ mode # "idle" /\ mode' = "idle" /\ prog' = prog /\ cur \in Stmts
      /\ Shift(delta) /\ prog \in Programs /\ DOMAIN shift = Stmts /\ DOMAIN leaf = Stmts
      /\ \A p \in Producers(cur) : \A n \in DOMAIN shift[p] : shift[p][n] <= delta[n]
  BY DEF InsertLeaf, BaseInv, ControlInv, LeafInv, GrowInv, ShiftTyped
<1>2. PICK c : c = cur
  OBVIOUS
<1>3. PICK new : new = IF SumOf(delta) # 0 THEN delta ELSE << >>
  OBVIOUS
<1>4. \A s \in Stmts : shift'[s] = IF s = c THEN new ELSE shift[s]
  BY <1>1, <1>2, <1>3 DEF InsertLeaf
<1>5. \A s \in Stmts : s # c => leaf'[s] = leaf[s]
  BY <1>1, <1>2 DEF InsertLeaf
<1>6. new = << >> \/ Shift(new)
  BY <1>1, <1>3
<1>7. (\A s \in Stmts : shift[s] = << >> \/ Shift(shift[s]))'
  BY <1>1, <1>4, <1>6 DEF GrowInv, Shift, Nest, Stmts
<1>8. Len(Nest(1)) \in Nat
  BY <1>1, ProgramFacts, StatementFacts
<1>9. ASSUME NEW p \in Producers(c), NEW n \in Nat
      PROVE  Moved(p, n) <= IF n \in DOMAIN new THEN new[n] ELSE 0
  <2>1. p \in Stmts /\ p # c
    BY <1>1, <1>2, <1>9, ProducersArePlaced
  <2>2. shift[p] = << >> \/ Shift(shift[p])
    BY <2>1 DEF GrowInv
  <2>3. DOMAIN delta = 1..Len(Nest(1)) /\ delta \in [1..Len(Nest(1)) -> Nat]
    BY <1>1, <1>8 DEF Shift
  <2>4. CASE n \in DOMAIN shift[p]
    <3>1. Shift(shift[p]) /\ n \in 1..Len(Nest(1)) /\ Moved(p, n) = shift[p][n]
      BY <1>8, <2>2, <2>4 DEF Shift, Moved
    <3>2. shift[p][n] <= delta[n] /\ shift[p][n] \in Int /\ shift[p][n] >= 0
      BY <1>1, <1>2, <1>9, <2>4, <3>1 DEF Shift
    <3>3. CASE new = delta
      BY <2>3, <3>1, <3>2, <3>3
    <3>4. CASE new = << >> /\ SumOf(delta) = 0
      <4>1. IsFiniteSet(1..Len(Nest(1)))
        BY <1>8, FS_Interval
      <4>2. delta[n] = 0
        BY <2>3, <3>1, <3>4, <4>1, SumIsZero
      <4>3. n \notin DOMAIN new
        BY <3>4
      <4>4. QED
        BY <3>1, <3>2, <4>2, <4>3
    <3>5. QED
      BY <1>3, <3>3, <3>4
  <2>5. CASE n \notin DOMAIN shift[p]
    <3>1. Moved(p, n) = 0
      BY <2>5 DEF Moved
    <3>2. n \in DOMAIN new => new[n] \in Int /\ new[n] >= 0
      BY <1>6 DEF Shift
    <3>3. QED
      BY <3>1, <3>2
  <2>6. QED
    BY <2>4, <2>5
<1>10. Growing'
  <2>1. SUFFICES ASSUME NEW k \in Stmts, leaf'[k] # NoPath, NEW p \in Producers(k), NEW n \in Nat
                 PROVE  Moved(p, n)' <= Moved(k, n)'
    BY <1>1 DEF Growing, Placed, Stmts, Producers
  <2>2. CASE k = c
    <3>1. p \in Stmts /\ p # c
      BY <1>1, <1>2, <2>2, ProducersArePlaced
    <3>2. Moved(p, n)' = Moved(p, n) /\ Moved(k, n)' = IF n \in DOMAIN new THEN new[n] ELSE 0
      BY <1>4, <2>2, <3>1 DEF Moved
    <3>3. QED
      BY <1>9, <2>2, <3>2
  <2>3. CASE k # c
    <3>1. k \in Placed /\ IsPlaced(k)
      BY <1>5, <2>1, <2>3, PlacedFacts DEF Placed
    <3>2. p \in Stmts /\ IsPlaced(p)
      BY <3>1, ProducersArePlaced
    <3>3. p # c
      <4>1. p < cur /\ cur \in Int
        BY <1>1, <3>2, ProgramFacts DEF IsPlaced
      <4>2. QED
        BY <1>2, <4>1
    <3>4. Moved(p, n)' = Moved(p, n) /\ Moved(k, n)' = Moved(k, n)
      BY <1>4, <2>3, <3>2, <3>3 DEF Moved
    <3>5. QED
      BY <3>1, <3>4 DEF GrowInv, Growing
  <2>4. QED
    BY <2>2, <2>3
<1>11. QED
  BY <1>1, <1>7, <1>10 DEF GrowInv

LEMMA SameProgramNext ==
  ASSUME [Next]_vars
  PROVE  prog' = prog
BY DEF Next, Start, Seek, Check, SkipLoop, Checked, UseLoop, NewLoop, InsertLeaf, Fused, vars, place

(* Programs in which every space is read no further than where it is       *)
(* written, and no statement begins later than the first one by more than  *)
(* it reads back: the shifts are large enough.                             *)
THEOREM BackwardReads ==
  Spec => [](FullyIndexed(prog) /\ ReadsBack(prog) /\ Reaching(prog) /\ OwnLoops => Synchronized)
<1> DEFINE Kind == FullyIndexed(prog) /\ ReadsBack(prog) /\ Reaching(prog)
<1>1. Init => GrowInv
  BY GrowingInit
<1>2. BaseInv /\ ShiftTyped /\ (Kind => GrowInv) /\ [Next]_vars => (Kind => GrowInv)'
  <2> SUFFICES ASSUME BaseInv, ShiftTyped, Kind => GrowInv, [Next]_vars, Kind'
               PROVE  GrowInv'
    OBVIOUS
  <2>1. Kind
    BY SameProgramNext DEF FullyIndexed, ReadsBack, Reaching
  <2>2. GrowInv
    BY <2>1
  <2>3. CASE Start
    BY <2>1, <2>2, <2>3, GrowingStart
  <2>4. CASE InsertLeaf
    BY <2>2, <2>4, GrowingInsertLeaf
  <2>5. ASSUME UNCHANGED << prog, shift, leaf, cur, delta >>, mode # "idle" \/ mode' = mode
        PROVE  GrowInv'
    BY <2>2, <2>5, GrowingUnchanged
  <2>6. QED
    BY <2>3, <2>4, <2>5 DEF Next, Seek, Check, SkipLoop, Checked, UseLoop, NewLoop, Descended,
       Fused, vars, place
<1>3. BaseInv /\ ShiftTyped /\ GrowInv /\ Kind /\ OwnLoops => Synchronized
  BY GrowingIsEnough, EnoughIsSynchronized DEF GrowInv
<1> HIDE DEF Kind
<1>4. Spec => [](Kind /\ OwnLoops => Synchronized)
  BY <1>1, <1>2, <1>3, BaseInvariant, ShiftsAreTyped, PTL DEF Spec
<1>5. QED
  BY <1>4 DEF Kind

-----------------------------------------------------------------------------
(* Programs that read point by point.                                      *)

Still(s) == s \in Seq(Int) /\ \A n \in DOMAIN s : s[n] = 0

(* No loop is shifted, in nests of whatever depths.                        *)
StillInv ==
  /\ DOMAIN shift = Stmts
  /\ \A s \in Stmts : Still(shift[s])
  /\ mode # "idle" => Still(delta)

LEMMA StillSpan ==
  ASSUME PointByPoint(prog), prog \in Programs, NEW c \in Stmts, NEW n \in DOMAIN Nest(c)
  PROVE  NodeMaxes(c)[n] = 0 /\ NodeSpan(c)[n] = 0
<1> DEFINE i == Nest(c)[n]
           O == Offsets(c, i)
<1>1. i \in Iters
  BY StatementFacts
<1>2. \A x \in O : x = 0
  BY <1>1 DEF Offsets, PointByPoint, Stmts
<1>3. O # {} => Max(O) \in O /\ Min(O) \in O
  BY SpanFacts
<1>4. /\ NodeMaxes(c)[n] = IF O = {} THEN 0 ELSE Max(O)
      /\ NodeSpan(c)[n] = IF O = {} THEN 0 ELSE Max(O) - Min(O)
  BY DEF NodeMaxes, NodeSpan
<1> HIDE DEF O
<1>5. QED
  BY <1>2, <1>3, <1>4

LEMMA StillShiftOf ==
  ASSUME PointByPoint(prog), prog \in Programs, NEW c \in Stmts, \A s \in Stmts : Still(shift[s])
  PROVE  Still(ShiftOf(c))
<1> DEFINE C == {OwnShift(c)} \union {shift[p] : p \in Producers(c)}
           most == MaxTuple(C)
<1>1. Producers(c) \subseteq Stmts /\ 1 \in Stmts
  BY ProgramFacts
<1>2. Still(OwnShift(c))
  <2>1. /\ OwnShift(c) \in Seq(Int)
        /\ Len(OwnShift(c)) = Shorter(prog[1].low, prog[c].low)
        /\ \A n \in 1..Len(OwnShift(c)) :
             OwnShift(c)[n] = (prog[1].low[n] - prog[c].low[n]) + NodeSpan(c)[n]
    BY OwnShiftFacts
  <2>2. /\ prog[1].low \in Seq(Int) /\ prog[c].low \in Seq(Int)
        /\ Len(prog[c].low) = Len(Nest(c)) /\ DOMAIN Nest(c) = 1..Len(Nest(c))
    BY <1>1, StatementFacts
  <2>3. ASSUME NEW n \in 1..Len(OwnShift(c))
        PROVE  OwnShift(c)[n] = 0
    <3>1. n \in DOMAIN prog[1].low /\ n \in DOMAIN prog[c].low /\ n \in DOMAIN Nest(c)
      <4> DEFINE low == prog[1].low
                 own == prog[c].low
                 len == Len(OwnShift(c))
      <4>1. low \in Seq(Int) /\ own \in Seq(Int) /\ len = Shorter(low, own) /\ n \in 1..len
        BY <2>1, <2>2, <2>3
      <4>2. Len(low) \in Nat /\ Len(own) \in Nat
            /\ DOMAIN low = 1..Len(low) /\ DOMAIN own = 1..Len(own)
        BY <4>1, LenProperties
      <4>3. Len(own) = Len(Nest(c)) /\ DOMAIN Nest(c) = 1..Len(Nest(c))
        BY <2>2
      <4> HIDE DEF low, own, len
      <4>4. n \in 1..Len(low) /\ n \in 1..Len(own)
        BY <4>1, <4>2 DEF Shorter
      <4>5. n \in DOMAIN low /\ n \in DOMAIN own /\ n \in DOMAIN Nest(c)
        BY <4>2, <4>3, <4>4
      <4>6. QED
        BY <4>5 DEF low, own
    <3>2. prog[c].low[n] = prog[1].low[n] /\ prog[c].low[n] \in Int
      BY <2>2, <3>1 DEF PointByPoint, Stmts
    <3>3. NodeSpan(c)[n] = 0
      BY <3>1, StillSpan
    <3>4. QED
      BY <2>1, <3>2, <3>3
  <2>4. QED
    BY <2>1, <2>3 DEF Still
<1>3. \A t \in C : Still(t)
  BY <1>1, <1>2
<1>4. C \in SUBSET Seq(Int) /\ IsFiniteSet(C)
  <2>1. \A s \in Stmts : shift[s] \in Seq(Int)
    BY DEF Still
  <2>2. QED
    BY <2>1, CandidatesFacts
<1> HIDE DEF C
<1>5. /\ most \in Seq(Int)
      /\ \A n \in 1..Len(most) : \E t \in C \ {<< >>} : n \in DOMAIN t /\ t[n] = most[n]
  BY <1>4, MaxTupleFacts
<1>6. Still(most)
  BY <1>3, <1>5, SMTT(30) DEF Still
<1>7. Still(AddTo(most, NodeMaxes(c)))
  <2>1. NodeMaxes(c) \in [DOMAIN Nest(c) -> Int]
    BY SpanFacts
  <2>2. /\ AddTo(most, NodeMaxes(c)) \in Seq(Int) /\ Len(AddTo(most, NodeMaxes(c))) = Len(most)
        /\ \A n \in 1..Len(most) : AddTo(most, NodeMaxes(c))[n] =
                             IF n \in DOMAIN Nest(c) THEN most[n] + NodeMaxes(c)[n] ELSE most[n]
    BY <1>5, <2>1, AddToFacts, SMTT(30)
  <2>3. \A n \in DOMAIN Nest(c) : NodeMaxes(c)[n] = 0
    BY StillSpan
  <2>4. \A n \in 1..Len(most) : most[n] = 0
    BY <1>6 DEF Still
  <2>5. \A n \in 1..Len(most) : AddTo(most, NodeMaxes(c))[n] = 0
    BY <2>2, <2>3, <2>4
  <2>6. QED
    BY <2>2, <2>5 DEF Still
<1>8. ShiftOf(c) \in {OwnShift(c), most, AddTo(most, NodeMaxes(c))}
  BY DEF ShiftOf, C
<1> HIDE DEF most
<1>9. QED
  BY <1>2, <1>6, <1>7, <1>8

LEMMA StillInvariant == Spec => [](PointByPoint(prog) => StillInv)
<1>1. Init => StillInv
  BY DEF Init, StillInv, Still
<1>2. /\ BaseInv /\ (PointByPoint(prog) => StillInv) /\ [Next]_vars
      => (PointByPoint(prog) => StillInv)'
  <2> SUFFICES ASSUME BaseInv, PointByPoint(prog) => StillInv, [Next]_vars, PointByPoint(prog)'
               PROVE  StillInv'
    OBVIOUS
  <2>5. PointByPoint(prog) /\ StillInv
    BY SameProgramNext DEF PointByPoint
  <2>1. CASE Start
    <3>1. prog \in Programs /\ cur + 1 \in Stmts
      BY <2>1, ProgramFacts DEF Start, BaseInv, ControlInv
    <3>2. PICK t : t = ShiftOf(cur + 1)
      OBVIOUS
    <3>3. Still(t)
      BY <2>5, <3>1, <3>2, StillShiftOf DEF StillInv
    <3>4. QED
      BY <2>1, <2>5, <3>2, <3>3 DEF Start, StillInv, Still, Stmts
  <2>2. CASE InsertLeaf
    <3>1. Still(delta) /\ Still(<< >>)
      BY <2>2, <2>5 DEF InsertLeaf, StillInv, Still
    <3>2. \A s \in Stmts : shift'[s] \in {shift[s], delta, << >>}
      BY <2>2, <2>5 DEF InsertLeaf, StillInv
    <3>3. \A s \in Stmts : Still(shift'[s])
      BY <2>5, <3>1, <3>2 DEF StillInv
    <3>4. prog' = prog /\ mode' = "idle" /\ DOMAIN shift' = DOMAIN shift
      BY <2>2 DEF InsertLeaf
    <3>5. QED
      BY <2>5, <3>3, <3>4 DEF StillInv, Still, Stmts
  <2>3. ASSUME UNCHANGED << prog, shift, delta >>, mode # "idle" \/ mode' = mode
        PROVE  StillInv'
    BY <2>3, <2>5 DEF StillInv, Still, Stmts
  <2>4. QED
    BY <2>1, <2>2, <2>3 DEF Next, Seek, Check, SkipLoop, Checked, UseLoop, NewLoop, Descended,
       Fused, vars, place
<1>3. QED
  BY <1>1, <1>2, BaseInvariant, PTL DEF Spec

(* Programs that read point by point, in nests of different depths: no     *)
(* loop has to be shifted.                                                 *)
THEOREM PointReads ==
  Spec => [](FullyIndexed(prog) /\ PointByPoint(prog) /\ OwnLoops => Synchronized)
<1>1. BaseInv /\ StillInv => Growing
  <2> SUFFICES ASSUME BaseInv, StillInv, NEW c \in Placed, NEW p \in Producers(c), NEW n \in Nat
               PROVE  Moved(p, n) <= Moved(c, n)
    BY DEF Growing
  <2>1. c \in Stmts /\ p \in Stmts
    BY ProgramFacts DEF Placed, BaseInv, ControlInv
  <2>2. Moved(p, n) = 0 /\ Moved(c, n) = 0
    BY <2>1 DEF Moved, StillInv, Still
  <2>3. QED
    BY <2>2
<1>2. PointByPoint(prog) => ReadsBack(prog)
  BY DEF PointByPoint, ReadsBack
<1>3. BaseInv /\ ShiftTyped /\ StillInv
      => (FullyIndexed(prog) /\ PointByPoint(prog) /\ OwnLoops => Synchronized)
  BY <1>1, <1>2, GrowingIsEnough, EnoughIsSynchronized
<1>4. QED
  BY <1>3, BaseInvariant, StillInvariant, ShiftsAreTyped, PTL
-----------------------------------------------------------------------------
(* Programs of windows.                                                    *)

(* What the windows of radius w say of statement c at the n-th loop: what  *)
(* is read around itself has begun w before, and the statement begins with *)
(* the first one, with one it reads in place, or w after one that it reads *)
(* around itself.                                                          *)
Around(c, n, w) ==
  /\ Rise(prog, c, n) \in Nat
  /\ NodeMaxes(c)[n] \in {0, w} /\ NodeSpan(c)[n] = 2 * NodeMaxes(c)[n]
  /\ \A r \in prog[c].reads :
       /\ r.off[Nest(c)[n]] \in Int /\ r.off[Nest(c)[n]] <= NodeMaxes(c)[n]
       /\ \/ r.off[Nest(c)[n]] = 0 /\ Rise(prog, c, n) >= Rise(prog, r.of, n)
          \/ NodeMaxes(c)[n] = w /\ Rise(prog, c, n) >= Rise(prog, r.of, n) + w
  /\ NodeMaxes(c)[n] = w => \E r \in prog[c].reads : Rise(prog, c, n) >= Rise(prog, r.of, n) + w
  /\ \/ Rise(prog, c, n) = 0
     \/ \E r \in prog[c].reads :
          \/ r.off[Nest(c)[n]] = 0 /\ Rise(prog, c, n) = Rise(prog, r.of, n)
          \/ NodeMaxes(c)[n] = w /\ Rise(prog, c, n) = Rise(prog, r.of, n) + w

LEMMA WindowNest ==
  ASSUME Windowed(prog), prog \in Programs, NEW c \in Stmts
  PROVE  /\ Nest(c) = Nest(1) /\ Len(Nest(1)) \in Nat /\ DOMAIN Nest(1) = 1..Len(Nest(1))
         /\ \A n \in DOMAIN Nest(1) :
              /\ Nest(1)[n] \in Iters
              /\ n \in DOMAIN prog[c].low /\ n \in DOMAIN prog[1].low
              /\ prog[c].low[n] \in Int /\ prog[1].low[n] \in Int
<1>1. 1 \in Stmts
  BY ProgramFacts
<1>2. Nest(c) = Nest(1)
  BY DEF Windowed, Nest, Stmts
<1>3. /\ Nest(1) \in Seq(Iters) /\ Len(Nest(1)) \in Nat /\ DOMAIN Nest(1) = 1..Len(Nest(1))
      /\ prog[1].low \in Seq(Int) /\ Len(prog[1].low) = Len(Nest(1))
      /\ prog[c].low \in Seq(Int) /\ Len(prog[c].low) = Len(Nest(1))
  BY <1>1, <1>2, StatementFacts
<1>4. QED
  BY <1>2, <1>3

LEMMA WindowAround ==
  ASSUME FullyIndexed(prog), Windowed(prog), prog \in Programs, NEW n \in DOMAIN Nest(1)
  PROVE  \E w \in Nat \ {0} : \A c \in Stmts : Around(c, n, w)
<1> DEFINE i == Nest(1)[n]
           Rises(c) == prog[c].low[n] - prog[1].low[n]
<1>1. /\ 1 \in Stmts
      /\ \A c \in Stmts : /\ Nest(c) = Nest(1) /\ n \in DOMAIN Nest(c) /\ Nest(c)[n] = i
                          /\ Rise(prog, c, n) = Rises(c) /\ Rises(c) \in Int
      /\ i \in Iters
  <2>1. 1 \in Stmts
    BY ProgramFacts
  <2>2. QED
    BY <2>1, WindowNest DEF Rise
<1>2. PICK w \in {1} \union OffsetsAlong(prog, n) :
        w >= 1 /\ \A c \in Stmts : \A r \in prog[c].reads : Window(prog, c, r.of, n, w)
  BY DEF Windowed, Stmts, Nest
<1>3. w \in Nat \ {0}
  <2>1. CASE w = 1
    BY <2>1
  <2>2. CASE w \in OffsetsAlong(prog, n)
    <3>1. PICK c \in Stmts : \E r \in prog[c].reads : w = r.off[Nest(c)[n]]
      BY <2>2 DEF OffsetsAlong, Stmts, Nest
    <3>2. w \in Int
      BY <1>1, <3>1, StatementFacts
    <3>3. QED
      BY <1>2, <3>2
  <2>3. QED
    BY <1>2, <2>1, <2>2
<1>4. ASSUME NEW c \in Stmts
      PROVE  Around(c, n, w)
  <2> DEFINE O == Offsets(c, i)
             M == NodeMaxes(c)[n]
             R == prog[c].reads
  <2>1. /\ n \in DOMAIN Nest(c) /\ Nest(c)[n] = i /\ i \in Iters
        /\ \A r \in R : r.of \in Stmts /\ r.off[i] \in Int
    BY <1>1, StatementFacts
  <2>2. i \in prog[c].dims /\ \A r \in R : i \in prog[r.of].dims
    <3>1. \A s \in Stmts : prog[s].dims = Range(Nest(s))
      BY DEF FullyIndexed, Stmts, Nest
    <3>2. \A s \in Stmts : i \in Range(Nest(s))
      BY <1>1 DEF Range
    <3>3. QED
      BY <2>1, <3>1, <3>2
  <2>3. O = {r.off[i] : r \in R} \union {0}
    BY <2>2 DEF Offsets
  <2>4. /\ Max(O) \in O /\ Min(O) \in O
        /\ \A x \in O : x \in Int /\ x <= Max(O) /\ Min(O) <= x
        /\ M = Max(O) /\ NodeSpan(c)[n] = Max(O) - Min(O)
    <3>1. O # {} /\ O = Offsets(c, Nest(c)[n])
      BY <2>1, <2>3
    <3>2. QED
      BY <2>1, <3>1, SpanFacts DEF NodeMaxes, NodeSpan
  <2>5. ASSUME NEW r \in R
        PROVE  \/ r.off[i] = 0
               \/ /\ \E x \in R : x.of = r.of /\ x.off[i] = -w
                  /\ \E x \in R : x.of = r.of /\ x.off[i] = w
                  /\ -w <= r.off[i] /\ r.off[i] <= w
    <3> DEFINE P == {x.off[i] : x \in {y \in R : y.of = r.of}}
    <3>1. P = {0} \/ ({-w, w} \subseteq P /\ \A x \in P : -w <= x /\ x <= w)
      <4>1. Window(prog, c, r.of, n, w) /\ prog[c].nest[n] = i
        BY <1>2, <2>1 DEF Nest
      <4>2. QED
        BY <4>1 DEF Window
    <3>2. r.off[i] \in P
      OBVIOUS
    <3>3. ASSUME {-w, w} \subseteq P
          PROVE  /\ \E x \in R : x.of = r.of /\ x.off[i] = -w
                 /\ \E x \in R : x.of = r.of /\ x.off[i] = w
      BY <3>3
    <3> HIDE DEF P
    <3>4. QED
      BY <3>1, <3>2, <3>3
  <2>6. \A r \in R : Rises(c) >= Rises(r.of) - r.off[i]
    BY <1>1, <2>1 DEF Windowed, Stmts, Nest
  <2>7. Rises(c) >= 0 /\ (Rises(c) = 0 \/ \E r \in R : Rises(c) = Rises(r.of) - r.off[i])
    BY <1>1, <2>1 DEF Windowed, Stmts, Nest
  <2>8. \A r \in R : Rises(r.of) \in Int /\ r.off[i] \in O
    BY <1>1, <2>1, <2>3
  <2>9. Rises(c) \in Int
    BY <1>1
  <2> HIDE DEF O, R, Rises
  <2>10. CASE \A r \in R : r.off[i] = 0
    <3>1. Max(O) = 0 /\ Min(O) = 0
      BY <2>3, <2>4, <2>10
    <3>2. M = 0 /\ NodeSpan(c)[n] = 2 * M
      BY <2>4, <3>1
    <3>3. \A r \in R : Rises(c) >= Rises(r.of)
      BY <2>6, <2>8, <2>9, <2>10
    <3>4. Rises(c) = 0 \/ \E r \in R : r.off[i] = 0 /\ Rises(c) = Rises(r.of)
      BY <2>7, <2>8, <2>9, <2>10
    <3>5. QED
      BY <1>1, <1>3, <2>1, <2>7, <2>9, <2>10, <3>2, <3>3, <3>4 DEF Around, R
  <2>11. CASE \E r \in R : r.off[i] # 0
    <3>1. PICK a, b \in R : a.off[i] = -w /\ b.off[i] = w
      BY <2>5, <2>11
    <3>2. \A x \in O : -w <= x /\ x <= w
      BY <1>3, <2>3, <2>5
    <3>3. -w \in O /\ w \in O
      BY <2>8, <3>1
    <3>4. Max(O) = w /\ Min(O) = -w
      <4>1. PICK x, y : x = Max(O) /\ y = Min(O)
        OBVIOUS
      <4>2. x \in Int /\ x <= w /\ w <= x /\ y \in Int /\ -w <= y /\ y <= -w
        BY <2>4, <3>2, <3>3, <4>1
      <4>3. x = w /\ y = -w
        BY <1>3, <4>2
      <4>4. QED
        BY <4>1, <4>3
    <3>5. M = w /\ NodeSpan(c)[n] = 2 * M
      BY <1>3, <2>4, <3>4
    <3>6. ASSUME NEW r \in R
          PROVE  \/ r.off[i] = 0 /\ Rises(c) >= Rises(r.of)
                 \/ Rises(c) >= Rises(r.of) + w
      <4>1. CASE r.off[i] = 0
        BY <2>6, <2>8, <2>9, <4>1
      <4>2. CASE r.off[i] # 0
        <5>1. PICK x \in R : x.of = r.of /\ x.off[i] = -w
          BY <2>5, <4>2
        <5>2. Rises(c) >= Rises(r.of) - x.off[i]
          BY <2>6, <5>1
        <5>3. QED
          BY <1>3, <2>8, <2>9, <5>1, <5>2
      <4>3. QED
        BY <4>1, <4>2
    <3>7. \E r \in R : Rises(c) >= Rises(r.of) + w
      <4>1. Rises(c) >= Rises(a.of) - a.off[i]
        BY <2>6
      <4>2. QED
        BY <1>3, <2>8, <2>9, <3>1, <4>1
    <3>8. ASSUME Rises(c) # 0
          PROVE  \E r \in R : \/ r.off[i] = 0 /\ Rises(c) = Rises(r.of)
                              \/ Rises(c) = Rises(r.of) + w
      <4>1. PICK r \in R : Rises(c) = Rises(r.of) - r.off[i]
        BY <2>7, <3>8
      <4>2. CASE r.off[i] = 0
        BY <2>8, <4>1, <4>2
      <4>3. CASE r.off[i] # 0
        <5>1. Rises(c) >= Rises(r.of) + w
          BY <3>6, <4>3
        <5>2. -w <= r.off[i]
          BY <2>5, <4>3
        <5>3. Rises(c) = Rises(r.of) + w
          <6>1. r.off[i] \in Int /\ Rises(r.of) \in Int
            BY <2>1, <2>8
          <6>2. QED
            BY <1>3, <2>9, <4>1, <5>1, <5>2, <6>1
        <5>4. QED
          BY <5>3
      <4>4. QED
        BY <4>2, <4>3
    <3>9. \A r \in R : r.off[i] \in Int /\ r.off[i] <= w
      BY <2>4, <2>8, <3>2
    <3>10. Rises(c) \in Nat
      BY <2>7, <2>9
    <3>11. \A s \in Stmts : Rise(prog, s, n) = Rises(s)
      BY <1>1
    <3>12. \A r \in R : r.of \in Stmts
      BY <2>1
    <3> HIDE DEF M
    <3>13. QED
      BY <2>1, <3>5, <3>6, <3>7, <3>8, <3>9, <3>10, <3>11, <3>12 DEF Around, R, M
  <2>12. QED
    BY <2>10, <2>11
<1>5. QED
  BY <1>3, <1>4

(* A statement begins with the first one or at least w later.              *)
LEMMA RiseIsFar ==
  ASSUME prog \in Programs, NEW n, NEW w \in Nat, \A c \in Stmts : Around(c, n, w)
  PROVE  \A c \in Stmts : Rise(prog, c, n) = 0 \/ Rise(prog, c, n) >= w
<1> DEFINE Bad == {c \in Stmts : ~ (Rise(prog, c, n) = 0 \/ Rise(prog, c, n) >= w)}
<1>1. ASSUME Bad # {} PROVE FALSE
  <2>1. Bad \in SUBSET Nat
    BY ProgramFacts
  <2>2. PICK c \in Bad : \A k \in Bad : c <= k
    BY <1>1, <2>1, LeastNat
  <2>3. /\ c \in Stmts /\ Rise(prog, c, n) # 0 /\ ~ (Rise(prog, c, n) >= w)
        /\ Around(c, n, w)
    BY <2>2
  <2>4. PICK r \in prog[c].reads : \/ Rise(prog, c, n) = Rise(prog, r.of, n)
                                   \/ Rise(prog, c, n) = Rise(prog, r.of, n) + w
    BY <2>3 DEF Around
  <2>5. r.of \in 1..(c - 1) /\ r.of \in Stmts /\ c \in Nat
    BY <2>3, ProgramFacts, StatementFacts
  <2>6. r.of \notin Bad
    BY <2>2, <2>5
  <2>7. Rise(prog, r.of, n) \in Nat /\ (Rise(prog, r.of, n) = 0 \/ Rise(prog, r.of, n) >= w)
    BY <2>5, <2>6 DEF Around
  <2>8. QED
    BY <2>3, <2>4, <2>7
<1>2. QED
  BY <1>1

(* A value for the n-th shift of c that keeps in step: the statement is    *)
(* moved by no less than it begins later, not at all if it begins with the *)
(* first one, and by enough for what it reads.                             *)
Fits(c, n, x) ==
  /\ Rise(prog, c, n) <= x
  /\ Rise(prog, c, n) = 0 => x = 0
  /\ \A r \in prog[c].reads : Moved(r.of, n) + r.off[Nest(c)[n]] <= x

(* Steps 3 to 6 for one loop: own is what c needs for itself, most the     *)
(* largest of that and the shifts of its producers.                        *)
LEMMA WindowShift ==
  ASSUME NEW c, NEW n, NEW w \in Nat \ {0}, Around(c, n, w),
         \A r \in prog[c].reads :
           /\ Rise(prog, r.of, n) \in Nat /\ Moved(r.of, n) \in Int
           /\ Rise(prog, r.of, n) = 0 \/ Rise(prog, r.of, n) >= w
           /\ Rise(prog, r.of, n) <= Moved(r.of, n)
           /\ Rise(prog, r.of, n) = 0 => Moved(r.of, n) = 0,
         NEW own \in Int, own = NodeSpan(c)[n] - Rise(prog, c, n),
         NEW most \in Int, own <= most,
         \A r \in prog[c].reads : Moved(r.of, n) = 0 \/ Moved(r.of, n) <= most,
         own = most \/ \E r \in prog[c].reads : Moved(r.of, n) = most
  PROVE  /\ Fits(c, n, most + NodeMaxes(c)[n]) /\ most + NodeMaxes(c)[n] \in Nat
         /\ own = most => Fits(c, n, own) /\ own \in Nat
<1> DEFINE a == Rise(prog, c, n)
           M == NodeMaxes(c)[n]
           R == prog[c].reads
           i == Nest(c)[n]
           A(r) == Rise(prog, r.of, n)
           S(r) == Moved(r.of, n)
<1>1. /\ a \in Nat /\ M \in {0, w} /\ M \in Int /\ own = 2 * M - a
      /\ \A r \in R : /\ r.off[i] \in Int /\ r.off[i] <= M
                      /\ (r.off[i] = 0 /\ a >= A(r)) \/ (M = w /\ a >= A(r) + w)
      /\ M = w => \E r \in R : a >= A(r) + w
      /\ a = 0 \/ \E r \in R : (r.off[i] = 0 /\ a = A(r)) \/ (M = w /\ a = A(r) + w)
  BY DEF Around
<1>2. \A r \in R : /\ A(r) \in Nat /\ S(r) \in Int /\ S(r) >= 0
                   /\ A(r) = 0 \/ A(r) >= w
                   /\ A(r) <= S(r) /\ (A(r) = 0 => S(r) = 0)
                   /\ S(r) = 0 \/ S(r) <= most
  OBVIOUS
<1>3. own = most \/ \E r \in R : S(r) = most
  OBVIOUS
<1>4. Fits(c, n, most + M) <=>
        /\ a <= most + M /\ (a = 0 => most + M = 0)
        /\ \A r \in R : S(r) + r.off[i] <= most + M
  BY DEF Fits
<1>5. Fits(c, n, own) <=>
        /\ a <= own /\ (a = 0 => own = 0)
        /\ \A r \in R : S(r) + r.off[i] <= own
  BY DEF Fits
<1> HIDE DEF a, M, R, i, A, S
<1>6. ASSUME a = 0
      PROVE  M = 0 /\ own = 0 /\ most = 0 /\ \A r \in R : S(r) = 0 /\ r.off[i] = 0
  <2>1. M = 0
    BY <1>1, <1>2, <1>6
  <2>2. own = 0
    BY <1>1, <1>6, <2>1
  <2>3. \A r \in R : S(r) = 0 /\ r.off[i] = 0
    BY <1>1, <1>2, <1>6, <2>1
  <2>4. QED
    BY <1>3, <2>1, <2>2, <2>3
<1>7. most >= 0
  <2>1. CASE \E r \in R : S(r) <= most
    BY <1>2, <2>1
  <2>2. CASE \A r \in R : S(r) = 0
    <3>1. \A r \in R : A(r) = 0
      BY <1>1, <1>2, <2>2
    <3>2. a <= w /\ (M = 0 => a = 0)
      BY <1>1, <3>1
    <3>3. own >= 0
      <4>1. CASE M = 0
        BY <1>1, <3>2, <4>1
      <4>2. CASE M = w
        BY <1>1, <3>2, <4>2
      <4>3. QED
        BY <1>1, <4>1, <4>2
    <3>4. QED
      BY <3>3
  <2>3. QED
    BY <1>2, <2>1, <2>2
<1>8. \A r \in R : S(r) <= most
  BY <1>2, <1>7
<1>9. a <= most + M
  <2>1. CASE a = 0
    BY <1>1, <1>7, <2>1
  <2>2. CASE a # 0
    <3>1. PICK r \in R : (r.off[i] = 0 /\ a = A(r)) \/ (M = w /\ a = A(r) + w)
      BY <1>1, <2>2
    <3>2. QED
      BY <1>1, <1>2, <1>8, <3>1
  <2>3. QED
    BY <2>1, <2>2
<1>10. \A r \in R : S(r) + r.off[i] <= most + M
  BY <1>1, <1>2, <1>8
<1>11. Fits(c, n, most + M) /\ most + M \in Nat
  <2>1. most + M \in Nat
    BY <1>1, <1>7
  <2>2. a = 0 => most + M = 0
    BY <1>6
  <2>3. QED
    BY <1>4, <1>9, <1>10, <2>1, <2>2
<1>12. ASSUME own = most
       PROVE  Fits(c, n, own) /\ own \in Nat
  <2>1. ASSUME M = w
        PROVE  a = w /\ own = w
    <3>1. a >= w /\ own = 2 * w - a
      BY <1>1, <1>2, <2>1
    <3>2. PICK r \in R : (r.off[i] = 0 /\ a = A(r)) \/ a = A(r) + w
      BY <1>1, <3>1
    <3>3. S(r) <= own /\ A(r) <= S(r) /\ A(r) \in Nat /\ S(r) \in Int /\ (A(r) = 0 \/ A(r) >= w)
      BY <1>2, <1>8, <1>12
    <3>4. CASE a = A(r)
      BY <1>1, <3>1, <3>3, <3>4
    <3>5. CASE a = A(r) + w
      BY <1>1, <3>1, <3>3, <3>5
    <3>6. QED
      BY <3>2, <3>4, <3>5
  <2>2. ASSUME M = 0
        PROVE  a = 0
    <3>1. SUFFICES ASSUME a # 0 PROVE FALSE
      OBVIOUS
    <3>2. PICK r \in R : a = A(r)
      BY <1>1, <2>2, <3>1
    <3>3. A(r) <= own
      BY <1>2, <1>8, <1>12, <3>2
    <3>4. QED
      BY <1>1, <2>2, <3>1, <3>2, <3>3
  <2>3. CASE M = 0
    <3>1. own = 0 /\ \A r \in R : S(r) + r.off[i] <= own
      BY <1>6, <2>2, <2>3
    <3>2. QED
      BY <1>5, <2>2, <2>3, <3>1
  <2>4. CASE M = w
    <3>1. a = w /\ own = w /\ a # 0
      BY <2>1, <2>4
    <3>2. ASSUME NEW r \in R
          PROVE  S(r) + r.off[i] <= own
      <4>1. CASE r.off[i] = 0
        BY <1>2, <1>8, <1>12, <4>1
      <4>2. CASE a >= A(r) + w
        <5>1. A(r) = 0 /\ S(r) = 0
          BY <1>2, <3>1, <4>2
        <5>2. QED
          BY <1>1, <2>4, <3>1, <5>1
      <4>3. QED
        BY <1>1, <4>1, <4>2
    <3>3. QED
      BY <1>5, <3>1, <3>2
  <2>5. QED
    BY <1>1, <2>3, <2>4
<1>13. QED
  BY <1>11, <1>12 DEF M

WindowInv ==
  /\ \A s \in Stmts : shift[s] = << >> \/ Shift(shift[s])
  /\ \A s \in Placed : \A n \in DOMAIN Nest(s) : Fits(s, n, Moved(s, n))
  /\ mode # "idle" => Shift(delta) /\ \A n \in DOMAIN Nest(cur) : Fits(cur, n, delta[n])

(* The candidates for a shift, and the largest of them.                    *)
LEMMA WindowMost ==
  ASSUME Windowed(prog), prog \in Programs, NEW c \in Stmts,
         \A s \in Stmts : shift[s] = << >> \/ Shift(shift[s]),
         NEW most, most = MaxTuple({OwnShift(c)} \union {shift[p] : p \in Producers(c)})
  PROVE  /\ OwnShift(c) \in Seq(Int) /\ Len(OwnShift(c)) = Len(Nest(1))
         /\ most \in Seq(Int) /\ Len(most) = Len(Nest(1))
         /\ \A n \in DOMAIN Nest(1) :
              /\ OwnShift(c)[n] = NodeSpan(c)[n] - Rise(prog, c, n)
              /\ OwnShift(c)[n] \in Int /\ most[n] \in Int
              /\ OwnShift(c)[n] <= most[n]
              /\ \A p \in Producers(c) : Moved(p, n) = 0 \/ Moved(p, n) <= most[n]
              /\ OwnShift(c)[n] = most[n] \/ \E p \in Producers(c) : Moved(p, n) = most[n]
<1> DEFINE C == {OwnShift(c)} \union {shift[p] : p \in Producers(c)}
           T == C \ {<< >>}
           d == Len(Nest(1))
<1>1. /\ d \in Nat /\ Producers(c) \subseteq Stmts /\ 1 \in Stmts
      /\ DOMAIN Nest(1) = 1..d /\ DOMAIN Nest(c) = 1..d /\ Len(Nest(c)) = d
  BY ProgramFacts, WindowNest
<1>2. /\ OwnShift(c) \in Seq(Int)
      /\ Len(OwnShift(c)) = Shorter(prog[1].low, prog[c].low)
      /\ \A n \in 1..Len(OwnShift(c)) :
           OwnShift(c)[n] = (prog[1].low[n] - prog[c].low[n]) + NodeSpan(c)[n]
  BY OwnShiftFacts
<1>3. Len(prog[1].low) = d /\ Len(prog[c].low) = d
  BY <1>1, StatementFacts
<1>4. Len(OwnShift(c)) = d
  BY <1>1, <1>2, <1>3 DEF Shorter
<1>5. \A n \in 1..d : OwnShift(c)[n] = NodeSpan(c)[n] - Rise(prog, c, n) /\ OwnShift(c)[n] \in Int
  <2> TAKE n \in 1..d
  <2>1. prog[c].low[n] \in Int /\ prog[1].low[n] \in Int /\ NodeSpan(c)[n] \in Int
    BY <1>1, WindowNest, SpanFacts
  <2>2. OwnShift(c)[n] = (prog[1].low[n] - prog[c].low[n]) + NodeSpan(c)[n]
    BY <1>2, <1>4
  <2>3. QED
    BY <2>1, <2>2 DEF Rise
<1>6. C \in SUBSET Seq(Int) /\ IsFiniteSet(C)
  <2>1. << >> \in Seq(Int)
    OBVIOUS
  <2>2. ASSUME NEW s \in Stmts
        PROVE  shift[s] \in Seq(Int)
    BY <2>1 DEF Shift
  <2>3. QED
    BY <2>2, CandidatesFacts
<1>7. \A t \in T : /\ t \in Seq(Int) /\ Len(t) = d
                   /\ t = OwnShift(c) \/ \E p \in Producers(c) : t = shift[p]
  <2> TAKE t \in T
  <2>1. CASE t = OwnShift(c)
    BY <1>2, <1>4, <2>1
  <2>2. ASSUME NEW p \in Producers(c), t = shift[p]
        PROVE  t \in Seq(Int) /\ Len(t) = d
    BY <1>1, <2>2 DEF Shift
  <2>3. QED
    BY <2>1, <2>2
<1>8. /\ OwnShift(c) \in T \union {<< >>}
      /\ \A p \in Producers(c) : shift[p] \in T \union {<< >>}
  OBVIOUS
<1> HIDE DEF C, T
<1>9. /\ most \in Seq(Int)
      /\ \A t \in T : \A n \in 1..Len(most) : t[n] <= most[n]
      /\ \A n \in 1..Len(most) : \E t \in T : n \in DOMAIN t /\ t[n] = most[n]
      /\ T # {} => \E t \in T : Len(t) = Len(most)
      /\ T = {} => most = << >>
  BY <1>6, MaxTupleFacts DEF C, T
<1>10. Len(most) = d
  <2>1. CASE T = {}
    <3>1. OwnShift(c) = << >> /\ most = << >>
      BY <1>8, <1>9, <2>1
    <3>2. QED
      BY <1>4, <3>1
  <2>2. CASE T # {}
    <3>1. PICK t \in T : Len(t) = Len(most)
      BY <1>9, <2>2
    <3>2. Len(t) = d
      BY <1>7, SMT
    <3>3. QED
      BY <3>1, <3>2, Zenon
  <2>3. QED
    BY <2>1, <2>2
<1> HIDE DEF d
<1>11. ASSUME NEW n \in 1..d
       PROVE  /\ most[n] \in Int /\ OwnShift(c)[n] <= most[n]
              /\ \A p \in Producers(c) : Moved(p, n) = 0 \/ Moved(p, n) <= most[n]
              /\ OwnShift(c)[n] = most[n] \/ \E p \in Producers(c) : Moved(p, n) = most[n]
  <2>1. OwnShift(c) # << >>
    BY <1>1, <1>4
  <2>2. most[n] \in Int /\ OwnShift(c)[n] <= most[n]
    BY <1>8, <1>9, <1>10, <2>1
  <2>3. ASSUME NEW p \in Producers(c)
        PROVE  Moved(p, n) = 0 \/ Moved(p, n) <= most[n]
    <3>1. CASE n \in DOMAIN shift[p]
      <4>1. shift[p] # << >> /\ shift[p] \in T
        BY <1>8, <3>1
      <4>2. shift[p][n] <= most[n]
        BY <1>9, <1>10, <4>1
      <4>3. QED
        BY <3>1, <4>2 DEF Moved
    <3>2. CASE n \notin DOMAIN shift[p]
      BY <3>2 DEF Moved
    <3>3. QED
      BY <3>1, <3>2
  <2>4. PICK t \in T : n \in DOMAIN t /\ t[n] = most[n]
    BY <1>9, <1>10
  <2>5. ASSUME NEW p \in Producers(c), t = shift[p]
        PROVE  Moved(p, n) = most[n]
    BY <2>4, <2>5 DEF Moved
  <2>6. QED
    BY <1>7, <2>2, <2>3, <2>4, <2>5
<1>12. QED
  BY <1>1, <1>2, <1>4, <1>5, <1>9, <1>10, <1>11 DEF d

LEMMA WindowShiftOf ==
  ASSUME FullyIndexed(prog), Windowed(prog), prog \in Programs, NEW c \in Stmts,
         \A s \in Stmts : shift[s] = << >> \/ Shift(shift[s]),
         \A p \in Producers(c) : \A n \in DOMAIN Nest(p) : Fits(p, n, Moved(p, n))
  PROVE  Shift(ShiftOf(c)) /\ \A n \in DOMAIN Nest(c) : Fits(c, n, ShiftOf(c)[n])
<1> DEFINE most == MaxTuple({OwnShift(c)} \union {shift[p] : p \in Producers(c)})
           own == OwnShift(c)
           more == AddTo(most, NodeMaxes(c))
           d == Len(Nest(1))
<1>1. /\ own \in Seq(Int) /\ Len(own) = d
      /\ most \in Seq(Int) /\ Len(most) = d
      /\ \A n \in DOMAIN Nest(1) :
           /\ own[n] = NodeSpan(c)[n] - Rise(prog, c, n)
           /\ own[n] \in Int /\ most[n] \in Int
           /\ own[n] <= most[n]
           /\ \A p \in Producers(c) : Moved(p, n) = 0 \/ Moved(p, n) <= most[n]
           /\ own[n] = most[n] \/ \E p \in Producers(c) : Moved(p, n) = most[n]
  BY WindowMost
<1>2. /\ d \in Nat /\ DOMAIN Nest(1) = 1..d /\ Producers(c) \subseteq Stmts
      /\ \A s \in Stmts : DOMAIN Nest(s) = 1..d
  BY ProgramFacts, WindowNest
<1>3. NodeMaxes(c) \in [1..d -> Int]
  BY <1>2, SpanFacts
<1>4. ShiftOf(c) = IF own = most THEN own
                   ELSE IF SumOf(NodeMaxes(c)) # 0 THEN more ELSE most
  BY DEF ShiftOf
<1> HIDE DEF most, own
<1>5. more \in Seq(Int) /\ Len(more) = d /\ \A n \in 1..d : more[n] = most[n] + NodeMaxes(c)[n]
  <2>1. PICK D : D = 1..d
    OBVIOUS
  <2>2. most \in Seq(Int) /\ Len(most) = d /\ NodeMaxes(c) \in [D -> Int]
    BY <1>1, <1>3, <2>1
  <2>3. /\ more \in Seq(Int) /\ Len(more) = Len(most)
        /\ \A n \in 1..Len(most) : more[n] = IF n \in D THEN most[n] + NodeMaxes(c)[n] ELSE most[n]
    BY <2>2, AddToFacts, SMTT(30)
  <2> HIDE DEF more
  <2>4. QED
    BY <2>1, <2>2, <2>3
<1> HIDE DEF more, d
<1>6. ASSUME NEW n \in 1..d
      PROVE  /\ Fits(c, n, more[n]) /\ more[n] \in Nat /\ NodeMaxes(c)[n] \in Nat
             /\ own[n] = most[n] => Fits(c, n, own[n]) /\ own[n] \in Nat
  <2>1. PICK w \in Nat \ {0} : \A s \in Stmts : Around(s, n, w)
    BY <1>2, WindowAround
  <2>2. \A s \in Stmts : Rise(prog, s, n) = 0 \/ Rise(prog, s, n) >= w
    BY <2>1, RiseIsFar
  <2>3. ASSUME NEW r \in prog[c].reads
        PROVE  /\ r.of \in Producers(c)
               /\ Rise(prog, r.of, n) \in Nat /\ Moved(r.of, n) \in Int
               /\ Rise(prog, r.of, n) = 0 \/ Rise(prog, r.of, n) >= w
               /\ Rise(prog, r.of, n) <= Moved(r.of, n)
               /\ Rise(prog, r.of, n) = 0 => Moved(r.of, n) = 0
    <3>1. PICK p : p = r.of
      OBVIOUS
    <3>2. p \in Producers(c) /\ p \in Stmts
      BY <3>1, StatementFacts
    <3>3. Rise(prog, p, n) \in Nat /\ Fits(p, n, Moved(p, n))
      BY <1>2, <2>1, <3>2 DEF Around
    <3>4. Moved(p, n) \in Int
      <4>1. CASE n \in DOMAIN shift[p]
        <5>1. shift[p] \in Seq(Int)
          BY <3>2, <4>1 DEF Shift
        <5>2. shift[p][n] \in Int
          BY <4>1, <5>1
        <5>3. QED
          BY <4>1, <5>2 DEF Moved
      <4>2. CASE n \notin DOMAIN shift[p]
        BY <4>2 DEF Moved
      <4>3. QED
        BY <4>1, <4>2
    <3>5. QED
      BY <2>2, <3>1, <3>2, <3>3, <3>4 DEF Fits
  <2>4. Around(c, n, w)
    BY <2>1
  <2>5. \A p \in Producers(c) : \E r \in prog[c].reads : r.of = p
    BY DEF Producers
  <2>6. PICK x, y \in Int : x = own[n] /\ y = most[n]
    BY <1>1, <1>2
  <2>7. /\ x = NodeSpan(c)[n] - Rise(prog, c, n) /\ x <= y
        /\ \A r \in prog[c].reads : Moved(r.of, n) = 0 \/ Moved(r.of, n) <= y
        /\ x = y \/ \E r \in prog[c].reads : Moved(r.of, n) = y
    <3>1. x = NodeSpan(c)[n] - Rise(prog, c, n) /\ x <= y
      BY <1>1, <1>2, <2>6
    <3>2. \A r \in prog[c].reads : Moved(r.of, n) = 0 \/ Moved(r.of, n) <= y
      BY <1>1, <1>2, <2>3, <2>6
    <3>3. x = y \/ \E p \in Producers(c) : Moved(p, n) = y
      BY <1>1, <1>2, <2>6
    <3>4. QED
      BY <2>5, <3>1, <3>2, <3>3
  <2>8. /\ Fits(c, n, y + NodeMaxes(c)[n]) /\ y + NodeMaxes(c)[n] \in Nat
        /\ x = y => Fits(c, n, x) /\ x \in Nat
    BY <2>3, <2>4, <2>7, WindowShift
  <2>9. NodeMaxes(c)[n] \in Nat
    BY <2>4 DEF Around
  <2>10. QED
    BY <1>5, <2>6, <2>8, <2>9
<1>7. Shift(more) /\ \A n \in 1..d : Fits(c, n, more[n])
  BY <1>5, <1>6 DEF Shift, d
<1>8. ASSUME own = most
      PROVE  Shift(own) /\ \A n \in 1..d : Fits(c, n, own[n])
  BY <1>1, <1>6, <1>8 DEF Shift, d
<1>9. ASSUME SumOf(NodeMaxes(c)) = 0
      PROVE  Shift(most) /\ \A n \in 1..d : Fits(c, n, most[n])
  <2>1. \A n \in 1..d : NodeMaxes(c)[n] = 0
    <3>1. IsFiniteSet(1..d)
      <4>1. d \in Int
        BY <1>2
      <4>2. QED
        BY <4>1, FS_Interval
    <3>2. NodeMaxes(c) \in [1..d -> Nat]
      BY <1>3, <1>6
    <3>3. QED
      BY <1>9, <3>1, <3>2, SumIsZero
  <2>2. \A n \in 1..d : most[n] \in Int
    BY <1>1, <1>2
  <2>3. \A n \in 1..d : more[n] = most[n]
    BY <1>5, <2>1, <2>2
  <2>4. \A n \in 1..d : Fits(c, n, most[n]) /\ most[n] \in Nat
    BY <1>6, <2>3
  <2>5. most \in Seq(Int) /\ Len(most) = d
    BY <1>1
  <2>6. Shift(most)
    BY <2>4, <2>5 DEF Shift, d
  <2>7. QED
    BY <2>4, <2>6
<1>10. QED
  BY <1>2, <1>4, <1>7, <1>8, <1>9

LEMMA WindowStart ==
  ASSUME FullyIndexed(prog), Windowed(prog), BaseInv, WindowInv, Start
  PROVE  WindowInv'
<1>1. PICK c : c = cur + 1
  OBVIOUS
<1>2. /\ prog \in Programs /\ c \in Stmts /\ mode = "idle" /\ cur < c
      /\ prog' = prog /\ shift' = shift /\ leaf' = leaf
      /\ cur' = c /\ delta' = ShiftOf(c)
  BY <1>1, ProgramFacts DEF Start, BaseInv, ControlInv
<1>3. ASSUME NEW p \in Producers(c)
      PROVE  p \in Placed
  <2>1. p \in 1..(c - 1) /\ p \in Stmts /\ cur \in Nat
    BY <1>2, ProgramFacts DEF BaseInv, ControlInv
  <2>2. IsPlaced(p)
    BY <1>1, <1>2, <2>1 DEF IsPlaced
  <2>3. QED
    BY <2>1, <2>2, PlacedFacts
<1>4. PICK t : t = ShiftOf(c)
  OBVIOUS
<1>5. Shift(t) /\ \A n \in DOMAIN Nest(c) : Fits(c, n, t[n])
  BY <1>2, <1>3, <1>4, WindowShiftOf DEF WindowInv
<1>6. (\A s \in Stmts : shift[s] = << >> \/ Shift(shift[s]))'
  BY <1>2 DEF Stmts, Shift, Nest, WindowInv
<1>7. (\A s \in Placed : \A n \in DOMAIN Nest(s) : Fits(s, n, Moved(s, n)))'
  BY <1>2 DEF WindowInv, Placed, Stmts, Nest, Fits, Moved
<1>8. delta' = t /\ Shift(t)' /\ \A n \in DOMAIN Nest(c)' : Fits(c, n, t[n])'
  BY <1>2, <1>4, <1>5 DEF Shift, Nest, Fits, Moved
<1>9. (Shift(delta) /\ \A n \in DOMAIN Nest(cur) : Fits(cur, n, delta[n]))'
  BY <1>2, <1>8 DEF Shift, Nest, Fits, Moved
<1>10. QED
  BY <1>6, <1>7, <1>9 DEF WindowInv

LEMMA WindowInsertLeaf ==
  ASSUME Windowed(prog), BaseInv, ShiftTyped, WindowInv, InsertLeaf
  PROVE  WindowInv'
<1>1. /\ mode # "idle" /\ mode' = "idle" /\ prog' = prog /\ cur \in Stmts
      /\ Shift(delta) /\ prog \in Programs /\ DOMAIN shift = Stmts /\ DOMAIN leaf = Stmts
      /\ \A n \in DOMAIN Nest(cur) : Fits(cur, n, delta[n])
  BY DEF InsertLeaf, BaseInv, ControlInv, LeafInv, WindowInv, ShiftTyped
<1>2. PICK c : c = cur
  OBVIOUS
<1>3. PICK new : new = IF SumOf(delta) # 0 THEN delta ELSE << >>
  OBVIOUS
<1>4. \A s \in Stmts : shift'[s] = IF s = c THEN new ELSE shift[s]
  BY <1>1, <1>2, <1>3 DEF InsertLeaf
<1>5. \A s \in Stmts : s # c => leaf'[s] = leaf[s]
  BY <1>1, <1>2 DEF InsertLeaf
<1>6. new = << >> \/ Shift(new)
  BY <1>1, <1>3
<1>7. (\A s \in Stmts : shift[s] = << >> \/ Shift(shift[s]))'
  BY <1>1, <1>4, <1>6 DEF WindowInv, Shift, Nest, Stmts
<1>8. DOMAIN Nest(c) = 1..Len(Nest(1)) /\ Len(Nest(1)) \in Nat
  BY <1>1, <1>2, WindowNest
<1>9. ASSUME NEW n \in DOMAIN Nest(c)
      PROVE  Moved(c, n)' = delta[n]
  <2>1. Moved(c, n)' = IF n \in DOMAIN new THEN new[n] ELSE 0
    BY <1>1, <1>2, <1>4 DEF Moved
  <2>2. DOMAIN delta = 1..Len(Nest(1)) /\ delta \in [1..Len(Nest(1)) -> Nat]
    BY <1>1, <1>8 DEF Shift
  <2>3. CASE new = delta
    BY <1>8, <1>9, <2>1, <2>2, <2>3
  <2>4. CASE new = << >> /\ SumOf(delta) = 0
    <3>1. IsFiniteSet(1..Len(Nest(1)))
      BY <1>8, FS_Interval
    <3>2. delta[n] = 0
      BY <1>8, <1>9, <2>2, <2>4, <3>1, SumIsZero
    <3>3. n \notin DOMAIN new
      BY <2>4
    <3>4. QED
      BY <2>1, <3>2, <3>3
  <2>5. QED
    BY <1>3, <2>3, <2>4
<1>10. ASSUME NEW s \in Stmts, s = c \/ IsPlaced(s), NEW r \in prog[s].reads, NEW n
       PROVE  Moved(r.of, n)' = Moved(r.of, n)
  <2>1. PICK p : p = r.of
    OBVIOUS
  <2>2. p \in Producers(s)
    BY <1>1, <2>1, StatementFacts
  <2>3. p \in Stmts /\ IsPlaced(p)
    BY <1>2, <1>10, <2>2, ProducersArePlaced
  <2>4. p # c
    <3>1. p < cur /\ cur \in Int
      BY <1>1, <2>3, ProgramFacts DEF IsPlaced
    <3>2. QED
      BY <1>2, <3>1
  <2>5. QED
    BY <1>4, <2>1, <2>3, <2>4 DEF Moved
<1>11. ASSUME NEW s \in Stmts, s = c \/ IsPlaced(s), NEW n, NEW x, Fits(s, n, x)
       PROVE  Fits(s, n, x)'
  BY <1>1, <1>10, <1>11 DEF Fits, Nest
<1>12. ASSUME NEW s \in Stmts, leaf'[s] # NoPath, NEW n \in DOMAIN Nest(s)
       PROVE  Fits(s, n, Moved(s, n))'
  <2>1. CASE s = c
    <3>1. Fits(c, n, delta[n])
      BY <1>1, <1>2, <1>12, <2>1
    <3>2. PICK x : x = delta[n]
      OBVIOUS
    <3>3. Fits(c, n, x)' /\ Moved(c, n)' = x
      BY <1>1, <1>2, <1>9, <1>11, <1>12, <2>1, <3>1, <3>2
    <3>4. QED
      BY <2>1, <3>3 DEF Fits
  <2>2. CASE s # c
    <3>1. s \in Placed /\ IsPlaced(s)
      BY <1>5, <1>12, <2>2, PlacedFacts DEF Placed
    <3>2. PICK x : x = Moved(s, n)
      OBVIOUS
    <3>3. Moved(s, n)' = x
      BY <1>4, <1>12, <2>2, <3>2 DEF Moved
    <3>4. Fits(s, n, x)'
      BY <1>11, <1>12, <3>1, <3>2 DEF WindowInv
    <3>5. QED
      BY <3>3, <3>4 DEF Fits
  <2>3. QED
    BY <2>1, <2>2
<1>13. (\A s \in Placed : \A n \in DOMAIN Nest(s) : Fits(s, n, Moved(s, n)))'
  BY <1>1, <1>12 DEF Placed, Stmts, Nest
<1>14. QED
  BY <1>1, <1>7, <1>13 DEF WindowInv

LEMMA WindowIsEnough ==
  ASSUME Windowed(prog), BaseInv, WindowInv
  PROVE  Enough
<1> SUFFICES ASSUME NEW c \in Placed, NEW r \in prog[c].reads, NEW n \in DOMAIN Nest(c)
             PROVE  r.off[Nest(c)[n]] + Moved(r.of, n) <= Moved(c, n)
  BY DEF Enough
<1>1. prog \in Programs /\ c \in Stmts
  BY DEF BaseInv, ControlInv, Placed
<1>2. /\ r.off[Nest(c)[n]] \in Int /\ r.of \in Stmts /\ n \in 1..Len(Nest(1))
  <2>1. Nest(c)[n] \in Iters
    BY <1>1, StatementFacts
  <2>2. QED
    BY <1>1, <2>1, StatementFacts, WindowNest
<1>3. \A s \in Stmts : Moved(s, n) \in Int
  <2>1. << >> \in Seq(Int)
    OBVIOUS
  <2>2. \A s \in Stmts : shift[s] \in Seq(Int)
    BY <2>1 DEF WindowInv, Shift
  <2>3. QED
    BY <2>2 DEF Moved
<1>4. Moved(r.of, n) + r.off[Nest(c)[n]] <= Moved(c, n)
  BY DEF WindowInv, Fits
<1>5. QED
  BY <1>1, <1>2, <1>3, <1>4

(* Stencils that begin as soon as their neighbours have been written: the  *)
(* shifts are large enough, for every radius and any number of statements. *)
THEOREM WindowedReads ==
  Spec => [](FullyIndexed(prog) /\ Windowed(prog) /\ OwnLoops => Synchronized)
<1> DEFINE Kind == FullyIndexed(prog) /\ Windowed(prog)
<1>1. ASSUME Init, Kind
      PROVE  WindowInv
  <2>1. prog \in Programs /\ mode = "idle" /\ \A s \in Stmts : shift[s] = << >>
    BY <1>1 DEF Init
  <2>2. \A s \in Placed : s = 1
    BY <1>1 DEF Init, Placed
  <2>3. 1 \in Stmts /\ \A n : Moved(1, n) = 0
    BY <2>1, ProgramFacts DEF Moved
  <2>4. prog[1].reads = {}
    <3>1. Producers(1) = {}
      BY <2>1, <2>3, ProgramFacts
    <3>2. QED
      BY <3>1 DEF Producers
  <2>5. ASSUME NEW n \in DOMAIN Nest(1)
        PROVE  Rise(prog, 1, n) = 0
    BY <1>1, <2>1, <2>3, WindowNest DEF Rise
  <2>6. QED
    BY <2>1, <2>2, <2>3, <2>4, <2>5 DEF WindowInv, Fits
<1>2. BaseInv /\ ShiftTyped /\ (Kind => WindowInv) /\ [Next]_vars => (Kind => WindowInv)'
  <2> SUFFICES ASSUME BaseInv, ShiftTyped, Kind => WindowInv, [Next]_vars, Kind'
               PROVE  WindowInv'
    OBVIOUS
  <2>1. Kind
    BY SameProgramNext DEF FullyIndexed, Windowed
  <2>2. WindowInv
    BY <2>1
  <2>3. CASE Start
    BY <2>1, <2>2, <2>3, WindowStart
  <2>4. CASE InsertLeaf
    BY <2>1, <2>2, <2>4, WindowInsertLeaf
  <2>5. ASSUME UNCHANGED << prog, shift, leaf, cur, delta >>, mode # "idle" \/ mode' = mode
        PROVE  WindowInv'
    BY <2>2, <2>5 DEF WindowInv, Shift, Placed, Stmts, Nest, Fits, Moved
  <2>6. QED
    BY <2>3, <2>4, <2>5 DEF Next, Seek, Check, SkipLoop, Checked, UseLoop, NewLoop, Descended,
       Fused, vars, place
<1>3. BaseInv /\ WindowInv /\ Kind /\ OwnLoops => Synchronized
  BY WindowIsEnough, EnoughIsSynchronized
<1> HIDE DEF Kind
<1>4. Spec => [](Kind /\ OwnLoops => Synchronized)
  BY <1>1, <1>2, <1>3, BaseInvariant, ShiftsAreTyped, PTL DEF Spec
<1>5. QED
  BY <1>4 DEF Kind

-----------------------------------------------------------------------------
(* All kinds together.                                                     *)

(* In a program of one of these kinds the shifts that updateIterGraph      *)
(* works out are large enough (steps 3 to 6), as long as the statements    *)
(* run in their own loops.                                                 *)
THEOREM ShiftsAreEnough == Spec => [](Regular(prog) /\ OwnLoops => Synchronized)
<1>1. Regular(prog) =>
        \/ FullyIndexed(prog) /\ PointByPoint(prog)
        \/ FullyIndexed(prog) /\ ReadsBack(prog) /\ Reaching(prog)
        \/ FullyIndexed(prog) /\ Windowed(prog)
  BY DEF Regular
<1>2. QED
  BY <1>1, PointReads, BackwardReads, WindowedReads, PTL

(* So wherever an iterator has one depth, every value is written before it *)
(* is read, in iteration spaces of every size.                             *)
THEOREM RegularFlow == Spec => [](Regular(prog) /\ OneDepth(prog) => Synchronized /\ FlowKept)
<1>1. QED
  BY ShiftsAreEnough, OwnLoopsKept, FlowFromShifts, PTL
=============================================================================
