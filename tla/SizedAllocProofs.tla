-------------------------- MODULE SizedAllocProofs --------------------------
(***************************************************************************)
(* Theorems about Sizes and SizedAlloc: the parser reads from the text of  *)
(* a size what was meant, for any number of loops and all of their bounds; *)
(* so what is proved of the allocator for given sizes carries over to      *)
(* sizes read from texts, and every buffer has room for its spaces.        *)
(*                                                                         *)
(* All of Sizes works through a sequence from the left.  The first part    *)
(* shows of any such fold what it makes of a sequence with one element     *)
(* more, and that is all the rest uses of it.  The second follows the text *)
(* of a size through fixParens, infixToPostfix and compute: Pending says   *)
(* what there is on the stacks when a part of it that is worth v has been  *)
(* read.                                                                   *)
(***************************************************************************)
EXTENDS SizedAlloc, MemAllocProofs, SequenceTheorems

-----------------------------------------------------------------------------
(* Numbers.                                                                *)

(* A set of natural numbers that is not empty has a least one.             *)
LEMMA LeastNat ==
  ASSUME NEW T \in SUBSET Nat, T # {}
  PROVE  \E m \in T : \A k \in T : m <= k
<1>1. PICK m \in T : \A k \in T : ~ (<< k, m >> \in OpToRel(<, Nat))
  BY NatLessThanWellFounded, WFMin
<1>2. \A k \in T : ~ (k < m)
  BY <1>1 DEF OpToRel
<1>3. QED
  BY <1>2

(* The element that bounds a set is its maximum.                           *)
LEMMA MaxIs ==
  ASSUME NEW T \in SUBSET Nat, NEW m \in T, \A k \in T : k <= m
  PROVE  Max(T) = m
<1>1. \E x \in T : \A y \in T : x >= y
  <2>1. \A y \in T : m >= y
    OBVIOUS
  <2>2. QED
    BY <2>1
<1>2. Max(T) \in T /\ \A y \in T : Max(T) >= y
  BY <1>1 DEF Max
<1>3. Max(T) \in Nat /\ m \in Nat /\ Max(T) >= m /\ Max(T) <= m
  BY <1>2
<1>4. QED
  BY ONLY <1>3

(* A set of positions that is not empty has a maximum.                     *)
LEMMA MaxExists ==
  ASSUME NEW n \in Nat, NEW T \in SUBSET (1..n), T # {}
  PROVE  Max(T) \in T /\ \A k \in T : k <= Max(T)
<1> DEFINE Bounding == {m \in Nat : \A k \in T : k <= m}
<1>1. n \in Bounding
  OBVIOUS
<1>2. PICK m \in Bounding : \A k \in Bounding : m <= k
  BY <1>1, LeastNat
<1>3. m \in T
  <2>1. SUFFICES ASSUME m \notin T PROVE FALSE
    OBVIOUS
  <2>2. ASSUME NEW k \in T PROVE k \in Nat \ {0} /\ k <= m /\ k # m
    BY <1>2, <2>1
  <2>3. m > 0 /\ m - 1 \in Nat
    <3>1. PICK k \in T : TRUE
      OBVIOUS
    <3>2. k \in Nat \ {0} /\ k <= m
      BY <2>2
    <3>3. QED
      BY <3>2
  <2>4. m - 1 \in Bounding
    BY <2>2, <2>3
  <2>5. QED
    BY <1>2, <2>3, <2>4
<1>4. QED
  BY <1>2, <1>3, MaxIs

-----------------------------------------------------------------------------
(* Folds.  A fold from the left is a function on the sets of positions     *)
(* that takes a step at the last of them.                                  *)

Stepping(X, T) == [X -> [T -> X]]

Unrolled(h, base, seq, n, f) ==
  f = [s \in SUBSET (1..n) |-> IF s = {} THEN base ELSE h[f[s \ {Max(s)}]][seq[Max(s)]]]

(* There is such a function, ...                                           *)
LEMMA FoldExists ==
  ASSUME NEW X, NEW T, NEW base \in X, NEW h \in Stepping(X, T), NEW seq \in Seq(T)
  PROVE  \E f \in [SUBSET (1..Len(seq)) -> X] : Unrolled(h, base, seq, Len(seq), f)
<1> DEFINE Has(n) == \E f \in [SUBSET (1..n) -> X] : Unrolled(h, base, seq, n, f)
           Bad == {n \in 0..Len(seq) : ~ Has(n)}
<1>0. Len(seq) \in Nat
  OBVIOUS
<1>1. ASSUME Bad # {} PROVE FALSE
  <2>1. PICK n \in Bad : \A k \in Bad : n <= k
    <3>1. Bad \in SUBSET Nat
      BY <1>0
    <3>2. QED
      BY <3>1, <1>1, LeastNat
  <2>2. n # 0
    <3>1. Unrolled(h, base, seq, 0, [s \in SUBSET (1..0) |-> base])
      <4>1. \A s \in SUBSET (1..0) : s = {}
        OBVIOUS
      <4>2. QED
        BY <4>1 DEF Unrolled
    <3>2. [s \in SUBSET (1..0) |-> base] \in [SUBSET (1..0) -> X]
      OBVIOUS
    <3>3. Has(0)
      BY <3>1, <3>2
    <3>4. QED
      BY <3>3, <2>1
  <2>3. n \in 1..Len(seq) /\ n - 1 \in 0..Len(seq) /\ n \in Nat
    BY <1>0, <2>1, <2>2
  <2>4. PICK f \in [SUBSET (1..(n - 1)) -> X] : Unrolled(h, base, seq, n - 1, f)
    <3>1. n - 1 \notin Bad
      <4>1. ~ (n <= n - 1)
        BY <2>3
      <4> HIDE DEF Bad
      <4>2. QED
        BY <2>1, <4>1
    <3>2. Has(n - 1)
      BY <2>3, <3>1
    <3>3. QED
      BY <3>2
  <2> DEFINE g == [s \in SUBSET (1..n) |-> IF n \in s THEN h[f[s \ {n}]][seq[n]] ELSE f[s]]
  <2>5. \A s \in SUBSET (1..n) : s \ {n} \in SUBSET (1..(n - 1))
    BY <2>3
  <2>6. g \in [SUBSET (1..n) -> X]
    <3>1. ASSUME NEW s \in SUBSET (1..n) PROVE g[s] \in X
      <4>1. CASE n \in s
        <5>1. f[s \ {n}] \in X
          BY <2>5
        <5>2. seq[n] \in T
          BY <2>3, ElementOfSeq
        <5>3. g[s] = h[f[s \ {n}]][seq[n]]
          BY <4>1
        <5>4. h[f[s \ {n}]][seq[n]] \in X
          <6>1. \A x \in X : \A t \in T : h[x][t] \in X
            BY DEF Stepping
          <6>2. QED
            BY ONLY <6>1, <5>1, <5>2
        <5>5. QED
          BY <5>3, <5>4
      <4>2. CASE n \notin s
        <5>1. s \ {n} = s
          BY <4>2
        <5>2. s \in SUBSET (1..(n - 1))
          BY <2>5, <5>1
        <5>3. QED
          BY <4>2, <5>2
      <4>3. QED
        BY <4>1, <4>2
    <3>2. QED
      BY <3>1
  <2>7. ASSUME NEW s \in SUBSET (1..n)
        PROVE  g[s] = IF s = {} THEN base ELSE h[g[s \ {Max(s)}]][seq[Max(s)]]
    <3>1. CASE n \in s
      <4>1. Max(s) = n
        <5>1. \A k \in s : k <= n
          BY <2>3
        <5>2. s \in SUBSET Nat
          BY <2>3
        <5>3. QED
          BY <3>1, <5>1, <5>2, MaxIs
      <4>2. g[s \ {n}] = f[s \ {n}]
        OBVIOUS
      <4>3. QED
        BY <3>1, <4>1, <4>2
    <3>2. CASE n \notin s
      <4>1. s \in SUBSET (1..(n - 1)) /\ g[s] = f[s]
        BY <2>5, <3>2
      <4>2. f[s] = IF s = {} THEN base ELSE h[f[s \ {Max(s)}]][seq[Max(s)]]
        BY <2>4, <4>1 DEF Unrolled
      <4>3. g[s \ {Max(s)}] = f[s \ {Max(s)}]
        BY <3>2
      <4>4. QED
        BY <4>1, <4>2, <4>3
    <3>3. QED
      BY <3>1, <3>2
  <2>8. Unrolled(h, base, seq, n, g)
    <3>1. g = [s \in SUBSET (1..n) |-> IF s = {} THEN base ELSE h[g[s \ {Max(s)}]][seq[Max(s)]]]
      BY <2>7
    <3> HIDE DEF g
    <3>2. QED
      BY <3>1 DEF Unrolled
  <2>9. Has(n)
    BY <2>6, <2>8
  <2>10. QED
    BY <2>1, <2>9
<1>2. Len(seq) \in 0..Len(seq)
  BY <1>0
<1>3. QED
  BY <1>1, <1>2

(* ... typed like its steps.                                               *)
LEMMA FoldTyped ==
  ASSUME NEW X, NEW T, NEW base \in X, NEW h \in Stepping(X, T), NEW seq \in Seq(T),
         NEW s \in SUBSET (1..Len(seq)), s # {}, NEW f \in [SUBSET (1..Len(seq)) -> X]
  PROVE  seq[Max(s)] \in T /\ f[s \ {Max(s)}] \in X
<1>1. Len(seq) \in Nat
  OBVIOUS
<1>2. Max(s) \in 1..Len(seq)
  BY <1>1, MaxExists
<1>3. s \ {Max(s)} \in SUBSET (1..Len(seq))
  OBVIOUS
<1>4. QED
  BY <1>2, <1>3, ElementOfSeq

(* Positions 1..n without the last of them are 1..n-1.                     *)
LEMMA UpTo ==
  ASSUME NEW n \in Nat \ {0}
  PROVE  Max(1..n) = n /\ (1..n) \ {n} = 1..(n - 1) /\ 1..n # {}
<1>1. n \in 1..n /\ 1..n \in SUBSET Nat /\ \A k \in 1..n : k <= n
  OBVIOUS
<1>2. Max(1..n) = n
  BY <1>1, MaxIs
<1>3. QED
  BY <1>1, <1>2

(* What it takes along the initial segments.                               *)
Steps(h, X, base, seq, f) ==
  /\ f[1..0] = base
  /\ \A n \in 1..Len(seq) :
       f[1..(n - 1)] \in X => f[1..n] = h[f[1..(n - 1)]][seq[n]]

RunOf(h, base, seq) == (CHOOSE f : Unrolled(h, base, seq, Len(seq), f))[1..Len(seq)]

(* It takes the elements in turn, ...                                      *)
LEMMA UnrolledSteps ==
  ASSUME NEW X, NEW T, NEW base \in X, NEW h \in Stepping(X, T), NEW seq \in Seq(T),
         NEW f, Unrolled(h, base, seq, Len(seq), f)
  PROVE  Steps(h, X, base, seq, f)
<1>1. Len(seq) \in Nat
  OBVIOUS
<1>2. f[1..0] = base
  BY DEF Unrolled
<1>3. ASSUME NEW n \in 1..Len(seq)
      PROVE  f[1..n] = h[f[1..(n - 1)]][seq[n]]
  <2>1. 1..n \in SUBSET (1..Len(seq)) /\ n \in Nat \ {0}
    BY <1>1
  <2>2. Max(1..n) = n /\ (1..n) \ {n} = 1..(n - 1) /\ 1..n # {}
    BY <2>1, UpTo
  <2>3. f[1..n] = h[f[(1..n) \ {Max(1..n)}]][seq[Max(1..n)]]
    BY <2>1, <2>2 DEF Unrolled
  <2>4. QED
    BY <2>2, <2>3
<1>4. QED
  BY <1>2, <1>3 DEF Steps

(* The steps leave no choice.                                              *)
LEMMA SameSteps ==
  ASSUME NEW X, NEW T, NEW base \in X, NEW h \in Stepping(X, T),
         NEW seq \in Seq(T), NEW longer \in Seq(T), Len(seq) <= Len(longer),
         \A n \in 1..Len(seq) : longer[n] = seq[n],
         NEW f, Steps(h, X, base, seq, f), NEW g, Steps(h, X, base, longer, g)
  PROVE  f[1..Len(seq)] \in X /\ g[1..Len(seq)] = f[1..Len(seq)]
<1> DEFINE Good(n) == f[1..n] \in X /\ g[1..n] = f[1..n]
           Bad == {n \in 0..Len(seq) : ~ Good(n)}
<1>0. Len(seq) \in Nat /\ Len(longer) \in Nat /\ Len(seq) <= Len(longer)
  OBVIOUS
<1>1. ASSUME Bad # {} PROVE FALSE
  <2>1. PICK n \in Bad : \A k \in Bad : n <= k
    <3>1. Bad \in SUBSET Nat
      BY <1>0
    <3>2. QED
      BY <3>1, <1>1, LeastNat
  <2>2. n # 0
    <3>1. Good(0)
      <4>1. f[1..0] = base /\ g[1..0] = base
        BY DEF Steps
      <4>2. QED
        BY <4>1
    <3>2. QED
      BY <2>1, <3>1
  <2>3. n \in 1..Len(seq) /\ n \in 1..Len(longer) /\ n - 1 \in 0..Len(seq) /\ ~ (n <= n - 1)
    <3>1. n \in 0..Len(seq)
      BY <2>1
    <3>2. QED
      BY ONLY <1>0, <2>2, <3>1
  <2>4. Good(n - 1)
    <3>1. n - 1 \notin Bad
      <4> HIDE DEF Bad
      <4>1. QED
        BY <2>1, <2>3
    <3>2. QED
      BY <2>3, <3>1
  <2>5. f[1..n] = h[f[1..(n - 1)]][seq[n]]
    BY <2>3, <2>4 DEF Steps
  <2>6. g[1..n] = h[f[1..(n - 1)]][seq[n]]
    BY <2>3, <2>4 DEF Steps
  <2>7. seq[n] \in T
    BY <2>3, ElementOfSeq
  <2>8. h[f[1..(n - 1)]][seq[n]] \in X
    BY <2>4, <2>7 DEF Stepping
  <2>9. Good(n)
    BY <2>5, <2>6, <2>8
  <2>10. QED
    BY <2>1, <2>9
<1>2. Len(seq) \in 0..Len(seq)
  BY <1>0
<1>3. QED
  BY <1>1, <1>2

(* The run over an empty sequence is the base, and that over a longer one  *)
(* takes one more step.                                                    *)
LEMMA RunLaws ==
  ASSUME NEW X, NEW T, NEW base \in X, NEW h \in Stepping(X, T), NEW seq \in Seq(T)
  PROVE  /\ RunOf(h, base, << >>) = base
         /\ RunOf(h, base, seq) \in X
         /\ \A t \in T : RunOf(h, base, Append(seq, t)) = h[RunOf(h, base, seq)][t]
         /\ \A f : Steps(h, X, base, seq, f) => f[1..Len(seq)] = RunOf(h, base, seq)
<1> DEFINE Run(q) == CHOOSE f : Unrolled(h, base, q, Len(q), f)
<1>1. ASSUME NEW q \in Seq(T) PROVE Steps(h, X, base, q, Run(q))
  <2>1. \E f : Unrolled(h, base, q, Len(q), f)
    BY FoldExists
  <2>2. Unrolled(h, base, q, Len(q), Run(q))
    BY <2>1
  <2> HIDE DEF Run
  <2>3. QED
    BY <2>2, UnrolledSteps
<1>2. \A q : RunOf(h, base, q) = Run(q)[1..Len(q)]
  BY DEF RunOf
<1> HIDE DEF Run
<1>3. RunOf(h, base, << >>) = base
  <2>1. << >> \in Seq(T) /\ Len(<< >>) = 0
    OBVIOUS
  <2>2. QED
    BY <1>1, <1>2, <2>1 DEF Steps
<1>4. ASSUME NEW f, Steps(h, X, base, seq, f)
      PROVE  f[1..Len(seq)] = RunOf(h, base, seq) /\ RunOf(h, base, seq) \in X
  <2>1. Steps(h, X, base, seq, Run(seq)) /\ RunOf(h, base, seq) = Run(seq)[1..Len(seq)]
    BY <1>1, <1>2
  <2>2. Len(seq) <= Len(seq)
    OBVIOUS
  <2>3. f[1..Len(seq)] \in X /\ Run(seq)[1..Len(seq)] = f[1..Len(seq)]
    BY <1>4, <2>1, <2>2, SameSteps
  <2>4. QED
    BY <2>1, <2>3
<1>5. RunOf(h, base, seq) \in X
  BY <1>1, <1>4
<1>6. ASSUME NEW t \in T
      PROVE  RunOf(h, base, Append(seq, t)) = h[RunOf(h, base, seq)][t]
  <2> DEFINE longer == Append(seq, t)
             m == Len(seq)
  <2>1. /\ longer \in Seq(T) /\ Len(longer) = m + 1 /\ m \in Nat
        /\ \A n \in 1..m : longer[n] = seq[n]
        /\ longer[m + 1] = t
    OBVIOUS
  <2> HIDE DEF longer
  <2>2. Steps(h, X, base, longer, Run(longer)) /\ Steps(h, X, base, seq, Run(seq))
    BY <1>1, <2>1
  <2>3. Run(seq)[1..m] \in X /\ Run(longer)[1..m] = Run(seq)[1..m]
    <3>1. Len(seq) <= Len(longer) /\ \A n \in 1..Len(seq) : longer[n] = seq[n]
      BY <2>1
    <3>2. QED
      BY <2>1, <2>2, <3>1, SameSteps
  <2>4. m + 1 \in 1..Len(longer) /\ (m + 1) - 1 = m
    BY <2>1
  <2>5. Run(longer)[1..(m + 1)] = h[Run(longer)[1..m]][longer[m + 1]]
    BY <2>2, <2>3, <2>4 DEF Steps
  <2>6. QED
    BY <1>2, <2>1, <2>3, <2>5 DEF longer
<1>7. QED
  BY <1>3, <1>4, <1>5, <1>6

(* Over no element it is where it started.                                 *)
LEMMA RunOfNone ==
  ASSUME NEW X, NEW T, NEW base \in X, NEW h \in Stepping(X, T)
  PROVE  RunOf(h, base, << >>) = base
<1>1. \A q \in Seq(T) : RunOf(h, base, q) \in X /\ RunOf(h, base, << >>) = base
  BY RunLaws
<1>2. << >> \in Seq(T)
  BY EmptySeq
<1>3. QED
  BY <1>1, <1>2

-----------------------------------------------------------------------------
(* Tokens and texts.                                                       *)

Marks == {"num", "(", ")", "+", "-", "*", "/"}

Token == [op : Marks, val : Int]

Digits(n) == [op |-> "num", val |-> n]
Mark(m) == [op |-> m, val |-> 0]

(* Numbers and symbols are tokens.                                         *)
LEMMA TokenFacts ==
  /\ \A n \in Int : Digits(n) \in Token /\ Num(n) = << Digits(n) >> /\ Num(n) \in Seq(Token)
  /\ \A m \in Marks : Mark(m) \in Token /\ Sym(m) = << Mark(m) >> /\ Sym(m) \in Seq(Token)
<1>1. ASSUME NEW n \in Int PROVE Digits(n) \in Token /\ Num(n) = << Digits(n) >>
  BY DEF Digits, Num, Token, Marks
<1>2. ASSUME NEW m \in Marks PROVE Mark(m) \in Token /\ Sym(m) = << Mark(m) >>
  BY DEF Mark, Sym, Token
<1>3. \A t \in Token : << t >> \in Seq(Token)
  OBVIOUS
<1>4. QED
  BY <1>1, <1>2, <1>3

(* What the fields of a bound are.                                         *)
LEMMA BoundFacts ==
  ASSUME NEW b \in LoopBounds
  PROVE  /\ b.low \in Int /\ b.base \in Nat /\ b.arg \in Nat /\ b.closed \in BOOLEAN
         /\ b.oper \in {"", "+", "-", "/"}
         /\ b.oper = "/" => b.arg > 0
BY DEF LoopBounds, BoundSpace

(* The numbers of a bound are integers.                                    *)
LEMMA BoundNumbers ==
  ASSUME NEW b \in LoopBounds
  PROVE  b.base \in Int /\ b.arg \in Int /\ -b.low \in Int
<1>1. b.base \in Nat
  BY BoundFacts
<1>2. b.arg \in Nat
  BY BoundFacts
<1>3. b.low \in Int
  BY BoundFacts
<1>4. b.base \in Int
  BY <1>1
<1>5. b.arg \in Int
  BY <1>2
<1>6. -b.low \in Int
  BY <1>3
<1>7. QED
  BY <1>4, <1>5, <1>6

(* The text within the parentheses of a factor.                            *)
Inner(b) == IF b.closed THEN Difference(b) \o Sym("+") \o Num(1) ELSE Difference(b)

(* The text of one loop.                                                   *)
LEMMA FactorTyped ==
  ASSUME NEW b \in LoopBounds
  PROVE  /\ Upper(b) \in Seq(Token) /\ Difference(b) \in Seq(Token) /\ Inner(b) \in Seq(Token)
         /\ Factor(b) = Sym("(") \o Inner(b) \o Sym(")") /\ Factor(b) \in Seq(Token)
<1>1. /\ b.low \in Int /\ b.base \in Int /\ b.arg \in Int /\ -b.low \in Int
      /\ b.oper \in {"", "+", "-", "/"}
  BY BoundFacts, BoundNumbers
<1>2. \A n \in Int : Num(n) \in Seq(Token)
  BY TokenFacts
<1>3. /\ Sym("(") \in Seq(Token) /\ Sym(")") \in Seq(Token)
      /\ Sym("+") \in Seq(Token) /\ Sym("-") \in Seq(Token)
      /\ b.oper # "" => Sym(b.oper) \in Seq(Token)
  BY <1>1, TokenFacts DEF Marks
<1>4. Upper(b) \in Seq(Token)
  <2>1. CASE b.oper = ""
    BY <1>1, <1>2, <2>1 DEF Upper
  <2>2. CASE b.oper # ""
    <3>1. Num(b.base) \in Seq(Token) /\ Sym(b.oper) \in Seq(Token) /\ Num(b.arg) \in Seq(Token)
      BY <1>1, <1>2, <1>3, <2>2
    <3>2. Num(b.base) \o Sym(b.oper) \o Num(b.arg) \in Seq(Token)
      BY <3>1, ConcatProperties
    <3>3. QED
      BY <2>2, <3>2 DEF Upper
  <2>3. QED
    BY <2>1, <2>2
<1>5. Difference(b) \in Seq(Token)
  <2>1. Num(b.low) \in Seq(Token) /\ Num(-b.low) \in Seq(Token)
    BY <1>1, <1>2
  <2>2. /\ Upper(b) \o Sym("+") \o Num(-b.low) \in Seq(Token)
        /\ Upper(b) \o Sym("-") \o Num(b.low) \in Seq(Token)
    BY <1>3, <1>4, <2>1, ConcatProperties
  <2>3. QED
    BY <1>4, <2>2 DEF Difference
<1>6. Inner(b) \in Seq(Token)
  <2>1. Num(1) \in Seq(Token)
    BY <1>2
  <2>2. Difference(b) \o Sym("+") \in Seq(Token)
    BY <1>3, <1>5, ConcatProperties
  <2>3. Difference(b) \o Sym("+") \o Num(1) \in Seq(Token)
    BY <2>1, <2>2, ConcatProperties
  <2>4. QED
    BY <1>5, <2>3 DEF Inner
<1>7. Factor(b) = Sym("(") \o Inner(b) \o Sym(")")
  BY DEF Factor, Inner, Paren
<1>8. Factor(b) \in Seq(Token)
  <2>1. Sym("(") \o Inner(b) \in Seq(Token)
    BY <1>3, <1>6, ConcatProperties
  <2>2. Sym("(") \o Inner(b) \o Sym(")") \in Seq(Token)
    BY <1>3, <2>1, ConcatProperties
  <2>3. QED
    BY <1>7, <2>2
<1>9. QED
  BY <1>4, <1>5, <1>6, <1>7, <1>8

NoText == << >>

TextStep == [text \in Seq(Token) |-> [b \in LoopBounds |-> AddFactor(text, b)]]

(* The text of a product.                                                  *)
LEMMA TimesTyped ==
  ASSUME NEW text \in Seq(Token), NEW factor \in Seq(Token)
  PROVE  Paren(text) \in Seq(Token) /\ Times(text, factor) \in Seq(Token)
<1>1. Sym("(") \in Seq(Token) /\ Sym(")") \in Seq(Token) /\ Sym("*") \in Seq(Token)
  BY TokenFacts DEF Marks
<1>2. Paren(text) \in Seq(Token)
  BY <1>1, ConcatProperties DEF Paren
<1>3. Paren(text) \o Sym("*") \o factor \in Seq(Token) /\ text \o Sym("*") \o factor \in Seq(Token)
  BY <1>1, <1>2, ConcatProperties
<1>4. QED
  BY <1>2, <1>3 DEF Times

(* A step of text stays within its values.                                 *)
LEMMA TextStepTyped ==
  NoText \in Seq(Token) /\ TextStep \in Stepping(Seq(Token), LoopBounds)
<1>1. NoText \in Seq(Token)
  BY EmptySeq DEF NoText
<1>2. ASSUME NEW text \in Seq(Token), NEW b \in LoopBounds
      PROVE  AddFactor(text, b) \in Seq(Token)
  BY FactorTyped, TimesTyped DEF AddFactor
<1>3. QED
  BY <1>1, <1>2 DEF TextStep, Stepping

(* As a fold, the text of a size is the function above.                    *)
LEMMA SizeTextIsRun ==
  ASSUME NEW seq \in Seq(LoopBounds)
  PROVE  SizeText(seq) = RunOf(TextStep, NoText, seq)
<1> DEFINE Eq(f) == f = [s \in SUBSET (1..Len(seq)) |->
                           IF s = {} THEN NoText
                           ELSE AddFactor(f[s \ {Max(s)}], seq[Max(s)])]
           g == CHOOSE f : Eq(f)
<1>1. NoText \in Seq(Token) /\ TextStep \in Stepping(Seq(Token), LoopBounds)
  BY TextStepTyped
<1>2. \E f : Eq(f)
  <2>1. PICK f \in [SUBSET (1..Len(seq)) -> Seq(Token)] :
          Unrolled(TextStep, NoText, seq, Len(seq), f)
    BY <1>1, FoldExists
  <2>2. ASSUME NEW s \in SUBSET (1..Len(seq)), s # {}
        PROVE  TextStep[f[s \ {Max(s)}]][seq[Max(s)]] = AddFactor(f[s \ {Max(s)}], seq[Max(s)])
    <3>1. seq[Max(s)] \in LoopBounds /\ f[s \ {Max(s)}] \in Seq(Token)
      BY <1>1, <2>2, FoldTyped
    <3>2. QED
      BY <3>1 DEF TextStep
  <2>3. Eq(f)
    BY <2>1, <2>2 DEF Unrolled
  <2>4. QED
    BY <2>3
<1>3. SizeText(seq) = g[1..Len(seq)]
  <2>1. DOMAIN seq = 1..Len(seq)
    OBVIOUS
  <2>2. QED
    BY <2>1 DEF SizeText, NoText, FoldLeft, MapThenFoldSet
<1>4. Eq(g)
  BY <1>2
<1> HIDE DEF g
<1>5. Steps(TextStep, Seq(Token), NoText, seq, g)
  <2>1. g[1..0] = NoText
    BY <1>4
  <2>2. ASSUME NEW n \in 1..Len(seq), g[1..(n - 1)] \in Seq(Token)
        PROVE  g[1..n] = TextStep[g[1..(n - 1)]][seq[n]]
    <3>1. 1..n \in SUBSET (1..Len(seq)) /\ n \in Nat \ {0}
      OBVIOUS
    <3>2. Max(1..n) = n /\ (1..n) \ {n} = 1..(n - 1) /\ 1..n # {}
      BY <3>1, UpTo
    <3>3. g[1..n] = AddFactor(g[(1..n) \ {Max(1..n)}], seq[Max(1..n)])
      BY <1>4, <3>1, <3>2
    <3>4. seq[n] \in LoopBounds
      BY ElementOfSeq
    <3>5. QED
      BY <2>2, <3>2, <3>3, <3>4 DEF TextStep
  <2>3. QED
    BY <2>1, <2>2 DEF Steps
<1>6. QED
  BY <1>1, <1>3, <1>5, RunLaws

(* So the text of a size grows with the sequence, step by step.            *)
LEMMA SizeTextLaws ==
  /\ SizeText(<< >>) = NoText
  /\ \A seq \in Seq(LoopBounds) :
       /\ SizeText(seq) \in Seq(Token)
       /\ \A t \in LoopBounds : SizeText(Append(seq, t)) = AddFactor(SizeText(seq), t)
<1>1. NoText \in Seq(Token) /\ TextStep \in Stepping(Seq(Token), LoopBounds)
  BY TextStepTyped
<1>2. << >> \in Seq(LoopBounds)
  OBVIOUS
<1>3. RunOf(TextStep, NoText, << >>) = NoText
  BY <1>1, RunOfNone
<1>4. ASSUME NEW seq \in Seq(LoopBounds)
      PROVE  /\ SizeText(seq) \in Seq(Token)
             /\ \A t \in LoopBounds : SizeText(Append(seq, t)) = AddFactor(SizeText(seq), t)
  <2>1. SizeText(seq) = RunOf(TextStep, NoText, seq)
    BY SizeTextIsRun
  <2>2. SizeText(seq) \in Seq(Token)
    BY <1>1, <2>1, RunLaws
  <2>3. ASSUME NEW t \in LoopBounds
        PROVE  SizeText(Append(seq, t)) = AddFactor(SizeText(seq), t)
    <3>1. Append(seq, t) \in Seq(LoopBounds)
      OBVIOUS
    <3>2. SizeText(Append(seq, t)) = RunOf(TextStep, NoText, Append(seq, t))
      BY <3>1, SizeTextIsRun
    <3>3. RunOf(TextStep, NoText, Append(seq, t)) = TextStep[SizeText(seq)][t]
      BY <1>1, <2>1, RunLaws
    <3>4. QED
      BY <2>2, <3>2, <3>3 DEF TextStep
  <2>4. QED
    BY <2>2, <2>3
<1>5. QED
  BY <1>2, <1>3, <1>4, SizeTextIsRun

-----------------------------------------------------------------------------
(* fixParens.                                                              *)

CopyState == [prev : Marks \union {""}, fixed : Seq(Token)]

CopyStart == [prev |-> "", fixed |-> << >>]

CopyStep == [s \in CopyState |-> [t \in Token |-> Copy(s, t)]]

(* A step of copying stays within its values.                              *)
LEMMA CopyStepTyped == CopyStart \in CopyState /\ CopyStep \in Stepping(CopyState, Token)
<1>1. CopyStart \in CopyState
  BY DEF CopyStart, CopyState
<1>2. ASSUME NEW s \in CopyState, NEW t \in Token
      PROVE  Copy(s, t) \in CopyState
  <2> DEFINE q == IF t.op \in {"(", ")"} /\ t.op = s.prev THEN s.fixed ELSE Append(s.fixed, t)
  <2>1. t.op \in Marks
    BY DEF Token
  <2>2. s.fixed \in Seq(Token)
    BY DEF CopyState
  <2>3. Append(s.fixed, t) \in Seq(Token)
    BY <2>2
  <2>4. q \in Seq(Token)
    BY <2>2, <2>3
  <2>5. Copy(s, t) = [prev |-> t.op, fixed |-> q]
    BY DEF Copy
  <2> HIDE DEF q
  <2>6. [prev |-> t.op, fixed |-> q] \in CopyState
    BY <2>1, <2>4 DEF CopyState
  <2>7. QED
    BY <2>5, <2>6
<1>3. QED
  BY <1>1, <1>2 DEF CopyStep, Stepping

(* As a fold, the text fixParens leaves is the function above.             *)
LEMMA CopiedIsRun ==
  ASSUME NEW seq \in Seq(Token)
  PROVE  Copied(seq) = RunOf(CopyStep, CopyStart, seq)
<1> DEFINE Eq(f) == f = [s \in SUBSET (1..Len(seq)) |->
                           IF s = {} THEN CopyStart
                           ELSE Copy(f[s \ {Max(s)}], seq[Max(s)])]
           g == CHOOSE f : Eq(f)
<1>1. CopyStart \in CopyState /\ CopyStep \in Stepping(CopyState, Token)
  BY CopyStepTyped
<1>2. \E f : Eq(f)
  <2>1. PICK f \in [SUBSET (1..Len(seq)) -> CopyState] :
          Unrolled(CopyStep, CopyStart, seq, Len(seq), f)
    BY <1>1, FoldExists
  <2>2. ASSUME NEW s \in SUBSET (1..Len(seq)), s # {}
        PROVE  CopyStep[f[s \ {Max(s)}]][seq[Max(s)]] = Copy(f[s \ {Max(s)}], seq[Max(s)])
    <3>1. seq[Max(s)] \in Token /\ f[s \ {Max(s)}] \in CopyState
      BY <1>1, <2>2, FoldTyped
    <3>2. QED
      BY <3>1 DEF CopyStep
  <2>3. Eq(f)
    BY <2>1, <2>2 DEF Unrolled
  <2>4. QED
    BY <2>3
<1>3. Copied(seq) = g[1..Len(seq)]
  <2>1. DOMAIN seq = 1..Len(seq)
    OBVIOUS
  <2>2. QED
    BY <2>1 DEF Copied, CopyStart, FoldLeft, MapThenFoldSet
<1>4. Eq(g)
  BY <1>2
<1> HIDE DEF g
<1>5. Steps(CopyStep, CopyState, CopyStart, seq, g)
  <2>1. g[1..0] = CopyStart
    BY <1>4
  <2>2. ASSUME NEW n \in 1..Len(seq), g[1..(n - 1)] \in CopyState
        PROVE  g[1..n] = CopyStep[g[1..(n - 1)]][seq[n]]
    <3>1. 1..n \in SUBSET (1..Len(seq)) /\ n \in Nat \ {0}
      OBVIOUS
    <3>2. Max(1..n) = n /\ (1..n) \ {n} = 1..(n - 1) /\ 1..n # {}
      BY <3>1, UpTo
    <3>3. g[1..n] = Copy(g[(1..n) \ {Max(1..n)}], seq[Max(1..n)])
      BY <1>4, <3>1, <3>2
    <3>4. seq[n] \in Token
      BY ElementOfSeq
    <3>5. QED
      BY <2>2, <3>2, <3>3, <3>4 DEF CopyStep
  <2>3. QED
    BY <2>1, <2>2 DEF Steps
<1>6. QED
  BY <1>1, <1>3, <1>5, RunLaws

(* So the text fixParens leaves grows with the sequence, step by step.     *)
LEMMA CopiedLaws ==
  /\ Copied(<< >>) = CopyStart
  /\ \A seq \in Seq(Token) :
       /\ Copied(seq) \in CopyState
       /\ \A t \in Token : Copied(Append(seq, t)) = Copy(Copied(seq), t)
<1>1. CopyStart \in CopyState /\ CopyStep \in Stepping(CopyState, Token)
  BY CopyStepTyped
<1>2. << >> \in Seq(Token)
  OBVIOUS
<1>3. RunOf(CopyStep, CopyStart, << >>) = CopyStart
  BY <1>1, RunOfNone
<1>4. ASSUME NEW seq \in Seq(Token)
      PROVE  /\ Copied(seq) \in CopyState
             /\ \A t \in Token : Copied(Append(seq, t)) = Copy(Copied(seq), t)
  <2>1. Copied(seq) = RunOf(CopyStep, CopyStart, seq)
    BY CopiedIsRun
  <2>2. Copied(seq) \in CopyState
    BY <1>1, <2>1, RunLaws
  <2>3. ASSUME NEW t \in Token
        PROVE  Copied(Append(seq, t)) = Copy(Copied(seq), t)
    <3>1. Append(seq, t) \in Seq(Token)
      OBVIOUS
    <3>2. Copied(Append(seq, t)) = RunOf(CopyStep, CopyStart, Append(seq, t))
      BY <3>1, CopiedIsRun
    <3>3. RunOf(CopyStep, CopyStart, Append(seq, t)) = CopyStep[Copied(seq)][t]
      BY <1>1, <2>1, RunLaws
    <3>4. QED
      BY <2>2, <3>2, <3>3 DEF CopyStep
  <2>4. QED
    BY <2>2, <2>3
<1>5. QED
  BY <1>2, <1>3, <1>4, CopiedIsRun

-----------------------------------------------------------------------------
(* infix2postfix.                                                          *)

ShuntState == [stack : Seq(Token), out : Seq(Token)]

ShuntStart == [stack |-> << >>, out |-> << >>]

ShuntStep == [s \in ShuntState |-> [t \in Token |-> Shunt(s, t)]]

(* The cases of a step, by its token.                                      *)
LEMMA ShuntOpen ==
  ASSUME NEW s, NEW t, ~ IsNum(t), t.op = "(", t.op # ")"
  PROVE  Shunt(s, t) = Open(s, t)
BY DEF Shunt

(* A closing parenthesis.                                                  *)
LEMMA ShuntClose ==
  ASSUME NEW s, NEW t, ~ IsNum(t), t.op # "(", t.op = ")"
  PROVE  Shunt(s, t) = Close(s)
BY DEF Shunt

(* A number.                                                               *)
LEMMA ShuntDigits ==
  ASSUME NEW s, NEW t, IsNum(t), t.op # "(", t.op # ")"
  PROVE  Shunt(s, t) = Operand(s, t)
BY DEF Shunt

Keeps(s, n) ==
  [ stack |-> SubSeq(s.stack, 1, n),
    out   |-> s.out \o Reverse(SubSeq(s.stack, n + 1, Len(s.stack))) ]

(* What stack and output are.                                              *)
LEMMA StateFacts ==
  ASSUME NEW s \in ShuntState
  PROVE  s.stack \in Seq(Token) /\ s.out \in Seq(Token)
BY DEF ShuntState

(* ... and what makes them a state.                                        *)
LEMMA MakesState ==
  ASSUME NEW stack \in Seq(Token), NEW out \in Seq(Token)
  PROVE  [stack |-> stack, out |-> out] \in ShuntState
BY DEF ShuntState

(* A text turned round is a text.                                          *)
LEMMA ReverseTyped ==
  ASSUME NEW seq \in Seq(Token)
  PROVE  Reverse(seq) \in Seq(Token)
<1>1. Len(seq) \in Nat
  OBVIOUS
<1>2. \A n \in 1..Len(seq) : seq[(Len(seq) - n) + 1] \in Token
  <2>1. \A n \in 1..Len(seq) : (Len(seq) - n) + 1 \in 1..Len(seq)
    BY <1>1
  <2>2. QED
    BY <2>1, ElementOfSeq
<1>3. QED
  BY <1>1, <1>2 DEF Reverse

(* What is unloaded is above the topmost of the places.                    *)
LEMMA UnloadKeeps ==
  ASSUME NEW s \in ShuntState, NEW places \in SUBSET (1..Len(s.stack))
  PROVE  /\ \E n \in 0..Len(s.stack) : Unload(s, places) = Keeps(s, n)
         /\ \A n \in places \union {0} : 
              (\A k \in places : k <= n) => Unload(s, places) = Keeps(s, n)
<1>1. Len(s.stack) \in Nat
  BY StateFacts
<1>2. ASSUME NEW n \in places \union {0}, \A k \in places : k <= n
      PROVE  Unload(s, places) = Keeps(s, n)
  <2>1. places \union {0} \in SUBSET Nat
    BY <1>1
  <2>2. \A k \in places \union {0} : k <= n
    BY <1>1, <1>2
  <2>3. Max(places \union {0}) = n
    BY <2>1, <2>2, MaxIs
  <2>4. QED
    BY <2>3 DEF Unload, Keeps
<1>3. \E n \in 0..Len(s.stack) : Unload(s, places) = Keeps(s, n)
  <2>1. CASE places = {}
    <3>1. Unload(s, places) = Keeps(s, 0) /\ 0 \in 0..Len(s.stack)
      BY <1>1, <1>2, <2>1
    <3>2. QED
      BY <3>1
  <2>2. CASE places # {}
    <3>1. Max(places) \in places /\ \A k \in places : k <= Max(places)
      BY <1>1, <2>2, MaxExists
    <3>2. Unload(s, places) = Keeps(s, Max(places))
      BY <1>2, <3>1
    <3>3. Max(places) \in 0..Len(s.stack)
      <4>1. Max(places) \in 1..Len(s.stack)
        BY <3>1
      <4>2. QED
        BY ONLY <4>1, <1>1
    <3>4. QED
      BY <3>2, <3>3
  <2>3. QED
    BY <2>1, <2>2
<1>4. QED
  BY <1>2, <1>3

(* Unloading leaves a state, ...                                           *)
LEMMA KeepsTyped ==
  ASSUME NEW s \in ShuntState, NEW n \in 0..Len(s.stack)
  PROVE  Keeps(s, n) \in ShuntState
<1>1. s.stack \in Seq(Token) /\ s.out \in Seq(Token) /\ Len(s.stack) \in Nat /\ n \in Int
  BY StateFacts
<1>2. SubSeq(s.stack, 1, n) \in Seq(Token)
  <2>1. \A i \in 1..n : s.stack[i] \in Token
    BY <1>1, ElementOfSeq
  <2>2. QED
    BY <1>1, <2>1, SubSeqProperties
<1>3. SubSeq(s.stack, n + 1, Len(s.stack)) \in Seq(Token)
  <2>1. \A i \in (n + 1)..Len(s.stack) : s.stack[i] \in Token
    BY <1>1, ElementOfSeq
  <2>2. QED
    BY <1>1, <2>1, SubSeqProperties
<1>4. s.out \o Reverse(SubSeq(s.stack, n + 1, Len(s.stack))) \in Seq(Token)
  BY <1>1, <1>3, ReverseTyped, ConcatProperties
<1>5. QED
  BY <1>2, <1>4, MakesState DEF Keeps

(* ... whatever the places, ...                                            *)
LEMMA UnloadTyped ==
  ASSUME NEW s \in ShuntState, NEW places \in SUBSET (1..Len(s.stack))
  PROVE  Unload(s, places) \in ShuntState
BY UnloadKeeps, KeepsTyped

(* ... and so do pushing ...                                               *)
LEMMA OpenTyped ==
  ASSUME NEW s \in ShuntState, NEW t \in Token
  PROVE  /\ Open(s, t) = [stack |-> Append(s.stack, t), out |-> s.out]
         /\ Operand(s, t) = [stack |-> s.stack, out |-> Append(s.out, t)]
         /\ Open(s, t) \in ShuntState /\ Operand(s, t) \in ShuntState
<1>1. s.stack \in Seq(Token) /\ s.out \in Seq(Token)
  BY StateFacts
<1>2. Append(s.stack, t) \in Seq(Token) /\ Append(s.out, t) \in Seq(Token)
  BY <1>1
<1>3. /\ Open(s, t) = [stack |-> Append(s.stack, t), out |-> s.out]
      /\ Operand(s, t) = [stack |-> s.stack, out |-> Append(s.out, t)]
  <2>1. \A x : [s EXCEPT !.stack = x] = [stack |-> x, out |-> s.out]
    BY DEF ShuntState
  <2>2. \A x : [s EXCEPT !.out = x] = [stack |-> s.stack, out |-> x]
    BY DEF ShuntState
  <2>3. Open(s, t) = [s EXCEPT !.stack = Append(s.stack, t)]
    BY DEF Open
  <2>4. Operand(s, t) = [s EXCEPT !.out = Append(s.out, t)]
    BY DEF Operand
  <2>5. QED
    BY <2>1, <2>2, <2>3, <2>4
<1>4. QED
  BY <1>1, <1>2, <1>3, MakesState

(* A text without its last token is a text.                                *)
LEMMA FrontTyped ==
  ASSUME NEW seq \in Seq(Token), seq # << >>
  PROVE  Front(seq) \in Seq(Token)
<1>1. Len(seq) \in Nat \ {0}
  BY EmptySeq
<1>2. \A i \in 1..(Len(seq) - 1) : seq[i] \in Token
  BY <1>1, ElementOfSeq
<1>3. QED
  BY <1>1, <1>2, SubSeqProperties DEF Front

(* ... and closing a parenthesis.                                          *)
LEMMA CloseTyped ==
  ASSUME NEW s \in ShuntState
  PROVE  Close(s) \in ShuntState
<1> DEFINE places == {n \in DOMAIN s.stack : s.stack[n].op = "("}
           u == Unload(s, places)
           kept == IF u.stack = << >> THEN u.stack ELSE Front(u.stack)
<1>1. places \in SUBSET (1..Len(s.stack))
  BY StateFacts
<1>2. u \in ShuntState
  BY <1>1, UnloadTyped
<1>3. Close(s) = [u EXCEPT !.stack = kept]
  BY DEF Close
<1> HIDE DEF u
<1>4. kept \in Seq(Token) /\ u.out \in Seq(Token)
  BY <1>2, StateFacts, FrontTyped
<1>5. [u EXCEPT !.stack = kept] = [stack |-> kept, out |-> u.out]
  BY <1>2 DEF ShuntState
<1> HIDE DEF kept
<1>6. QED
  BY <1>3, <1>4, <1>5, MakesState

(* A step of shunting stays within its values.                             *)
LEMMA ShuntStepTyped ==
  ShuntStart \in ShuntState /\ ShuntStep \in Stepping(ShuntState, Token)
<1>1. ShuntStart \in ShuntState
  BY EmptySeq, MakesState DEF ShuntStart
<1>2. ASSUME NEW s \in ShuntState, NEW t \in Token
      PROVE  Shunt(s, t) \in ShuntState
  <2> DEFINE places == {n \in DOMAIN s.stack : Precedence(s.stack[n]) < Precedence(t)}
  <2>1. places \in SUBSET (1..Len(s.stack))
    BY StateFacts
  <2>2. Operator(s, t) \in ShuntState
    <3>1. Unload(s, places) \in ShuntState
      BY <2>1, UnloadTyped
    <3>2. Operator(s, t) = Open(Unload(s, places), t)
      BY DEF Operator
    <3>3. QED
      BY <3>1, <3>2, OpenTyped
  <2>3. Open(s, t) \in ShuntState /\ Operand(s, t) \in ShuntState /\ Close(s) \in ShuntState
    BY OpenTyped, CloseTyped
  <2>4. QED
    BY <2>2, <2>3 DEF Shunt
<1>3. QED
  BY <1>1, <1>2 DEF ShuntStep, Stepping

(* As a fold, the state of infixToPostfix is the function above.           *)
LEMMA ShuntedIsRun ==
  ASSUME NEW seq \in Seq(Token)
  PROVE  Shunted(seq) = RunOf(ShuntStep, ShuntStart, seq)
<1> DEFINE Eq(f) == f = [s \in SUBSET (1..Len(seq)) |->
                           IF s = {} THEN ShuntStart
                           ELSE Shunt(f[s \ {Max(s)}], seq[Max(s)])]
           g == CHOOSE f : Eq(f)
<1>1. ShuntStart \in ShuntState /\ ShuntStep \in Stepping(ShuntState, Token)
  BY ShuntStepTyped
<1>2. \E f : Eq(f)
  <2>1. PICK f \in [SUBSET (1..Len(seq)) -> ShuntState] :
          Unrolled(ShuntStep, ShuntStart, seq, Len(seq), f)
    BY <1>1, FoldExists
  <2>2. ASSUME NEW s \in SUBSET (1..Len(seq)), s # {}
        PROVE  ShuntStep[f[s \ {Max(s)}]][seq[Max(s)]] = Shunt(f[s \ {Max(s)}], seq[Max(s)])
    <3>1. seq[Max(s)] \in Token /\ f[s \ {Max(s)}] \in ShuntState
      BY <1>1, <2>2, FoldTyped
    <3>2. QED
      BY <3>1 DEF ShuntStep
  <2>3. Eq(f)
    BY <2>1, <2>2 DEF Unrolled
  <2>4. QED
    BY <2>3
<1>3. Shunted(seq) = g[1..Len(seq)]
  <2>1. DOMAIN seq = 1..Len(seq)
    OBVIOUS
  <2>2. QED
    BY <2>1 DEF Shunted, ShuntStart, FoldLeft, MapThenFoldSet
<1>4. Eq(g)
  BY <1>2
<1> HIDE DEF g
<1>5. Steps(ShuntStep, ShuntState, ShuntStart, seq, g)
  <2>1. g[1..0] = ShuntStart
    BY <1>4
  <2>2. ASSUME NEW n \in 1..Len(seq), g[1..(n - 1)] \in ShuntState
        PROVE  g[1..n] = ShuntStep[g[1..(n - 1)]][seq[n]]
    <3>1. 1..n \in SUBSET (1..Len(seq)) /\ n \in Nat \ {0}
      OBVIOUS
    <3>2. Max(1..n) = n /\ (1..n) \ {n} = 1..(n - 1) /\ 1..n # {}
      BY <3>1, UpTo
    <3>3. g[1..n] = Shunt(g[(1..n) \ {Max(1..n)}], seq[Max(1..n)])
      BY <1>4, <3>1, <3>2
    <3>4. seq[n] \in Token
      BY ElementOfSeq
    <3>5. QED
      BY <2>2, <3>2, <3>3, <3>4 DEF ShuntStep
  <2>3. QED
    BY <2>1, <2>2 DEF Steps
<1>6. QED
  BY <1>1, <1>3, <1>5, RunLaws

(* So the state of infixToPostfix grows with the sequence, step by step.   *)
LEMMA ShuntedLaws ==
  /\ Shunted(<< >>) = ShuntStart
  /\ \A seq \in Seq(Token) :
       /\ Shunted(seq) \in ShuntState
       /\ \A t \in Token : Shunted(Append(seq, t)) = Shunt(Shunted(seq), t)
<1>1. ShuntStart \in ShuntState /\ ShuntStep \in Stepping(ShuntState, Token)
  BY ShuntStepTyped
<1>2. << >> \in Seq(Token)
  OBVIOUS
<1>3. RunOf(ShuntStep, ShuntStart, << >>) = ShuntStart
  BY <1>1, RunOfNone
<1>4. ASSUME NEW seq \in Seq(Token)
      PROVE  /\ Shunted(seq) \in ShuntState
             /\ \A t \in Token : Shunted(Append(seq, t)) = Shunt(Shunted(seq), t)
  <2>1. Shunted(seq) = RunOf(ShuntStep, ShuntStart, seq)
    BY ShuntedIsRun
  <2>2. Shunted(seq) \in ShuntState
    BY <1>1, <2>1, RunLaws
  <2>3. ASSUME NEW t \in Token
        PROVE  Shunted(Append(seq, t)) = Shunt(Shunted(seq), t)
    <3>1. Append(seq, t) \in Seq(Token)
      OBVIOUS
    <3>2. Shunted(Append(seq, t)) = RunOf(ShuntStep, ShuntStart, Append(seq, t))
      BY <3>1, ShuntedIsRun
    <3>3. RunOf(ShuntStep, ShuntStart, Append(seq, t)) = ShuntStep[Shunted(seq)][t]
      BY <1>1, <2>1, RunLaws
    <3>4. QED
      BY <2>2, <3>2, <3>3 DEF ShuntStep
  <2>4. QED
    BY <2>2, <2>3
<1>5. QED
  BY <1>2, <1>3, <1>4, ShuntedIsRun

-----------------------------------------------------------------------------
(* compute.                                                                *)

NoNumbers == << >>

ReckonStep == [s \in Seq(Int) |-> [t \in Token |-> Reckon(s, t)]]

(* A quotient is an integer.                                               *)
LEMMA QuotientTyped ==
  ASSUME NEW x \in Int, NEW y \in Int, y # 0
  PROVE  /\ Quotient(x, y) \in Int
         /\ x >= 0 /\ y > 0 => Quotient(x, y) = x \div y
<1>1. Magnitude(x) \in Int /\ Magnitude(y) \in Int /\ Magnitude(y) > 0
  BY DEF Magnitude
<1>2. Magnitude(x) \div Magnitude(y) \in Int
  BY <1>1
<1>3. x >= 0 => Magnitude(x) = x
  BY DEF Magnitude
<1>4. y > 0 => Magnitude(y) = y
  BY DEF Magnitude
<1>5. x >= 0 /\ y > 0 => ~ (x < 0) /\ ~ (y < 0)
  OBVIOUS
<1>6. QED
  BY <1>2, <1>3, <1>4, <1>5 DEF Quotient

(* An operation leaves numbers.                                            *)
LEMMA ApplyTyped ==
  ASSUME NEW op \in Marks, NEW x \in Int, NEW y \in Int
  PROVE  Apply(op, x, y) \in Seq(Int)
<1>1. x + y \in Int /\ x - y \in Int /\ x * y \in Int /\ (y # 0 => Quotient(x, y) \in Int)
  BY QuotientTyped
<1>2. \A n \in Int : << n >> \in Seq(Int)
  OBVIOUS
<1>3. << >> \in Seq(Int)
  BY EmptySeq
<1>4. op # "^"
  BY DEF Marks
<1> HIDE DEF Marks
<1>5. QED
  BY <1>1, <1>2, <1>3, <1>4 DEF Apply

(* A step of reckoning stays within its values.                            *)
LEMMA ReckonStepTyped ==
  NoNumbers \in Seq(Int) /\ ReckonStep \in Stepping(Seq(Int), Token)
<1>1. NoNumbers \in Seq(Int)
  BY EmptySeq DEF NoNumbers
<1>2. ASSUME NEW s \in Seq(Int), NEW t \in Token
      PROVE  Reckon(s, t) \in Seq(Int)
  <2>1. t.op \in Marks /\ t.val \in Int
    BY DEF Token
  <2>2. Append(s, t.val) \in Seq(Int)
    BY <2>1
  <2>3. ASSUME Len(s) > 1
        PROVE  SubSeq(s, 1, Len(s) - 2) \o Apply(t.op, s[Len(s) - 1], s[Len(s)]) \in Seq(Int)
    <3>1. Len(s) \in Nat
      OBVIOUS
    <3>2. Len(s) - 1 \in 1..Len(s) /\ Len(s) \in 1..Len(s) /\ Len(s) - 2 \in Int
      BY <3>1, <2>3
    <3>3. s[Len(s) - 1] \in Int /\ s[Len(s)] \in Int
      BY <3>2, ElementOfSeq
    <3>4. Apply(t.op, s[Len(s) - 1], s[Len(s)]) \in Seq(Int)
      BY <2>1, <3>3, ApplyTyped
    <3>5. SubSeq(s, 1, Len(s) - 2) \in Seq(Int)
      <4>1. \A i \in 1..(Len(s) - 2) : s[i] \in Int
        BY <3>1, ElementOfSeq
      <4>2. QED
        BY <3>2, <4>1, SubSeqProperties
    <3>6. QED
      BY <3>4, <3>5, ConcatProperties
  <2>4. QED
    BY <2>2, <2>3 DEF Reckon
<1>3. QED
  BY <1>1, <1>2 DEF ReckonStep, Stepping

(* As a fold, the stack of compute is the function above.                  *)
LEMMA ReckonedIsRun ==
  ASSUME NEW seq \in Seq(Token)
  PROVE  Reckoned(seq) = RunOf(ReckonStep, NoNumbers, seq)
<1> DEFINE Eq(f) == f = [s \in SUBSET (1..Len(seq)) |->
                           IF s = {} THEN NoNumbers
                           ELSE Reckon(f[s \ {Max(s)}], seq[Max(s)])]
           g == CHOOSE f : Eq(f)
<1>1. NoNumbers \in Seq(Int) /\ ReckonStep \in Stepping(Seq(Int), Token)
  BY ReckonStepTyped
<1>2. \E f : Eq(f)
  <2>1. PICK f \in [SUBSET (1..Len(seq)) -> Seq(Int)] :
          Unrolled(ReckonStep, NoNumbers, seq, Len(seq), f)
    BY <1>1, FoldExists
  <2>2. ASSUME NEW s \in SUBSET (1..Len(seq)), s # {}
        PROVE  ReckonStep[f[s \ {Max(s)}]][seq[Max(s)]] = Reckon(f[s \ {Max(s)}], seq[Max(s)])
    <3>1. seq[Max(s)] \in Token /\ f[s \ {Max(s)}] \in Seq(Int)
      BY <1>1, <2>2, FoldTyped
    <3>2. QED
      BY <3>1 DEF ReckonStep
  <2>3. Eq(f)
    BY <2>1, <2>2 DEF Unrolled
  <2>4. QED
    BY <2>3
<1>3. Reckoned(seq) = g[1..Len(seq)]
  <2>1. DOMAIN seq = 1..Len(seq)
    OBVIOUS
  <2>2. QED
    BY <2>1 DEF Reckoned, NoNumbers, FoldLeft, MapThenFoldSet
<1>4. Eq(g)
  BY <1>2
<1> HIDE DEF g
<1>5. Steps(ReckonStep, Seq(Int), NoNumbers, seq, g)
  <2>1. g[1..0] = NoNumbers
    BY <1>4
  <2>2. ASSUME NEW n \in 1..Len(seq), g[1..(n - 1)] \in Seq(Int)
        PROVE  g[1..n] = ReckonStep[g[1..(n - 1)]][seq[n]]
    <3>1. 1..n \in SUBSET (1..Len(seq)) /\ n \in Nat \ {0}
      OBVIOUS
    <3>2. Max(1..n) = n /\ (1..n) \ {n} = 1..(n - 1) /\ 1..n # {}
      BY <3>1, UpTo
    <3>3. g[1..n] = Reckon(g[(1..n) \ {Max(1..n)}], seq[Max(1..n)])
      BY <1>4, <3>1, <3>2
    <3>4. seq[n] \in Token
      BY ElementOfSeq
    <3>5. QED
      BY <2>2, <3>2, <3>3, <3>4 DEF ReckonStep
  <2>3. QED
    BY <2>1, <2>2 DEF Steps
<1>6. QED
  BY <1>1, <1>3, <1>5, RunLaws

(* So the stack of compute grows with the sequence, step by step.          *)
LEMMA ReckonedLaws ==
  /\ Reckoned(<< >>) = NoNumbers
  /\ \A seq \in Seq(Token) :
       /\ Reckoned(seq) \in Seq(Int)
       /\ \A t \in Token : Reckoned(Append(seq, t)) = Reckon(Reckoned(seq), t)
<1>1. NoNumbers \in Seq(Int) /\ ReckonStep \in Stepping(Seq(Int), Token)
  BY ReckonStepTyped
<1>2. << >> \in Seq(Token)
  OBVIOUS
<1>3. RunOf(ReckonStep, NoNumbers, << >>) = NoNumbers
  BY <1>1, RunOfNone
<1>4. ASSUME NEW seq \in Seq(Token)
      PROVE  /\ Reckoned(seq) \in Seq(Int)
             /\ \A t \in Token : Reckoned(Append(seq, t)) = Reckon(Reckoned(seq), t)
  <2>1. Reckoned(seq) = RunOf(ReckonStep, NoNumbers, seq)
    BY ReckonedIsRun
  <2>2. Reckoned(seq) \in Seq(Int)
    BY <1>1, <2>1, RunLaws
  <2>3. ASSUME NEW t \in Token
        PROVE  Reckoned(Append(seq, t)) = Reckon(Reckoned(seq), t)
    <3>1. Append(seq, t) \in Seq(Token)
      OBVIOUS
    <3>2. Reckoned(Append(seq, t)) = RunOf(ReckonStep, NoNumbers, Append(seq, t))
      BY <3>1, ReckonedIsRun
    <3>3. RunOf(ReckonStep, NoNumbers, Append(seq, t)) = ReckonStep[Reckoned(seq)][t]
      BY <1>1, <2>1, RunLaws
    <3>4. QED
      BY <2>2, <3>2, <3>3 DEF ReckonStep
  <2>4. QED
    BY <2>2, <2>3
<1>5. QED
  BY <1>2, <1>3, <1>4, ReckonedIsRun

-----------------------------------------------------------------------------
(* The number of points.                                                   *)

Grown(n, b) == n * Trips(b)

One == 1

Numbers == Int

ExtentStep == [n \in Numbers |-> [b \in LoopBounds |-> Grown(n, b)]]

(* The number of points of a loop is an integer.                           *)
LEMMA TripsTyped ==
  ASSUME NEW b \in LoopBounds
  PROVE  UpperValue(b) \in Int /\ Trips(b) \in Int
<1>1. b.low \in Int /\ b.base \in Nat /\ b.arg \in Nat /\ b.oper \in {"", "+", "-", "/"}
  BY BoundFacts
<1>2. b.oper = "/" => b.base \div b.arg \in Int
  <2>1. b.oper = "/" => b.arg > 0
    BY BoundFacts
  <2>2. \A x \in Int, y \in Int : y > 0 => x \div y \in Int
    OBVIOUS
  <2>3. QED
    BY <1>1, <2>1, <2>2
<1>3. b.base + b.arg \in Int /\ b.base - b.arg \in Int /\ b.base \in Int
  <2>1. \A x, y \in Nat : x + y \in Int /\ x - y \in Int /\ x \in Int
    OBVIOUS
  <2>2. QED
    BY <1>1, <2>1
<1>4. UpperValue(b) \in Int
  BY <1>1, <1>2, <1>3 DEF UpperValue
<1>5. \A x, y \in Int : (x - y) + 1 \in Int /\ (x - y) + 0 \in Int
  OBVIOUS
<1>6. QED
  BY <1>1, <1>4, <1>5 DEF Trips

(* A step of counting stays within its values.                             *)
LEMMA ExtentStepTyped ==
  One \in Numbers /\ ExtentStep \in Stepping(Numbers, LoopBounds)
<1>1. ASSUME NEW n \in Numbers, NEW b \in LoopBounds
      PROVE  Grown(n, b) \in Numbers
  <2>1. Trips(b) \in Int
    BY TripsTyped
  <2>2. QED
    BY <2>1 DEF Grown, Numbers
<1>2. One \in Numbers
  BY DEF One, Numbers
<1>3. QED
  BY <1>1, <1>2 DEF ExtentStep, Stepping

(* As a fold, the number of points is the function above.                  *)
LEMMA ExtentIsRun ==
  ASSUME NEW seq \in Seq(LoopBounds)
  PROVE  Extent(seq) = RunOf(ExtentStep, One, seq)
<1> DEFINE Eq(f) == f = [s \in SUBSET (1..Len(seq)) |->
                           IF s = {} THEN One
                           ELSE Grown(f[s \ {Max(s)}], seq[Max(s)])]
           g == CHOOSE f : Eq(f)
<1>1. One \in Numbers /\ ExtentStep \in Stepping(Numbers, LoopBounds)
  BY ExtentStepTyped
<1>2. \E f : Eq(f)
  <2>1. PICK f \in [SUBSET (1..Len(seq)) -> Numbers] :
          Unrolled(ExtentStep, One, seq, Len(seq), f)
    BY <1>1, FoldExists
  <2>2. ASSUME NEW s \in SUBSET (1..Len(seq)), s # {}
        PROVE  ExtentStep[f[s \ {Max(s)}]][seq[Max(s)]] = Grown(f[s \ {Max(s)}], seq[Max(s)])
    <3>1. seq[Max(s)] \in LoopBounds /\ f[s \ {Max(s)}] \in Numbers
      BY <1>1, <2>2, FoldTyped
    <3>2. QED
      BY <3>1 DEF ExtentStep
  <2>3. Eq(f)
    BY <2>1, <2>2 DEF Unrolled
  <2>4. QED
    BY <2>3
<1>3. Extent(seq) = g[1..Len(seq)]
  <2>1. DOMAIN seq = 1..Len(seq)
    OBVIOUS
  <2>2. QED
    BY <2>1 DEF Extent, One, Grown, FoldLeft, MapThenFoldSet
<1>4. Eq(g)
  BY <1>2
<1> HIDE DEF g
<1>5. Steps(ExtentStep, Numbers, One, seq, g)
  <2>1. g[1..0] = One
    BY <1>4
  <2>2. ASSUME NEW n \in 1..Len(seq), g[1..(n - 1)] \in Numbers
        PROVE  g[1..n] = ExtentStep[g[1..(n - 1)]][seq[n]]
    <3>1. 1..n \in SUBSET (1..Len(seq)) /\ n \in Nat \ {0}
      OBVIOUS
    <3>2. Max(1..n) = n /\ (1..n) \ {n} = 1..(n - 1) /\ 1..n # {}
      BY <3>1, UpTo
    <3>3. g[1..n] = Grown(g[(1..n) \ {Max(1..n)}], seq[Max(1..n)])
      BY <1>4, <3>1, <3>2
    <3>4. seq[n] \in LoopBounds
      BY ElementOfSeq
    <3>5. QED
      BY <2>2, <3>2, <3>3, <3>4 DEF ExtentStep
  <2>3. QED
    BY <2>1, <2>2 DEF Steps
<1>6. QED
  BY <1>1, <1>3, <1>5, RunLaws

(* So the number of points grows with the sequence, step by step.          *)
LEMMA ExtentLaws ==
  /\ Extent(<< >>) = One
  /\ \A seq \in Seq(LoopBounds) :
       /\ Extent(seq) \in Numbers
       /\ \A t \in LoopBounds : Extent(Append(seq, t)) = Grown(Extent(seq), t)
<1>1. One \in Numbers /\ ExtentStep \in Stepping(Numbers, LoopBounds)
  BY ExtentStepTyped
<1>2. << >> \in Seq(LoopBounds)
  OBVIOUS
<1>3. RunOf(ExtentStep, One, << >>) = One
  BY <1>1, RunOfNone
<1>4. ASSUME NEW seq \in Seq(LoopBounds)
      PROVE  /\ Extent(seq) \in Numbers
             /\ \A t \in LoopBounds : Extent(Append(seq, t)) = Grown(Extent(seq), t)
  <2>1. Extent(seq) = RunOf(ExtentStep, One, seq)
    BY ExtentIsRun
  <2>2. Extent(seq) \in Numbers
    BY <1>1, <2>1, RunLaws
  <2>3. ASSUME NEW t \in LoopBounds
        PROVE  Extent(Append(seq, t)) = Grown(Extent(seq), t)
    <3>1. Append(seq, t) \in Seq(LoopBounds)
      OBVIOUS
    <3>2. Extent(Append(seq, t)) = RunOf(ExtentStep, One, Append(seq, t))
      BY <3>1, ExtentIsRun
    <3>3. RunOf(ExtentStep, One, Append(seq, t)) = ExtentStep[Extent(seq)][t]
      BY <1>1, <2>1, RunLaws
    <3>4. QED
      BY <2>2, <3>2, <3>3 DEF ExtentStep
  <2>4. QED
    BY <2>2, <2>3
<1>5. QED
  BY <1>2, <1>3, <1>4, ExtentIsRun

-----------------------------------------------------------------------------
(* What an operator does with the numbers before it.                       *)

Opers == {"+", "-", "*", "/"}

(* The two numbers on top of the stack of operands.                        *)
LEMMA TwoLast ==
  ASSUME NEW c \in Seq(Int), NEW x \in Int, NEW y \in Int
  PROVE  LET s == Append(Append(c, x), y)
         IN  /\ s \in Seq(Int) /\ Len(s) > 1 /\ s[Len(s) - 1] = x /\ s[Len(s)] = y
             /\ SubSeq(s, 1, Len(s) - 2) = c
<1> DEFINE d == Append(c, x)
           s == Append(d, y)
<1>1. d \in Seq(Int) /\ Len(d) = Len(c) + 1 /\ Len(c) \in Nat /\ d[Len(c) + 1] = x
      /\ \A i \in 1..Len(c) : d[i] = c[i]
  OBVIOUS
<1> HIDE DEF d
<1>2. s \in Seq(Int) /\ Len(s) = Len(d) + 1 /\ s[Len(d) + 1] = y
      /\ \A i \in 1..Len(d) : s[i] = d[i]
  BY <1>1
<1> HIDE DEF s
<1>3. Len(s) = Len(c) + 2 /\ Len(s) > 1 /\ Len(s) - 1 = Len(c) + 1 /\ Len(s) - 2 = Len(c)
  BY <1>1, <1>2
<1>4. s[Len(s) - 1] = x /\ s[Len(s)] = y
  <2>1. Len(c) + 1 \in 1..Len(d)
    BY <1>1
  <2>2. s[Len(c) + 1] = d[Len(c) + 1]
    BY <1>2, <2>1
  <2>3. Len(s) = Len(d) + 1
    BY <1>2
  <2>4. QED
    BY <1>1, <1>2, <1>3, <2>2, <2>3
<1>5. SubSeq(s, 1, Len(c)) = c
  <2>1. \A i \in 1..Len(c) : i \in 1..Len(d)
    BY <1>1
  <2>2. \A i \in 1..Len(c) : s[i] = c[i]
    BY <1>1, <1>2, <2>1
  <2>3. \A i \in 1..Len(c) : s[i] \in Int
    BY <2>2, ElementOfSeq
  <2>4. /\ SubSeq(s, 1, Len(c)) \in Seq(Int) /\ Len(SubSeq(s, 1, Len(c))) = Len(c)
        /\ \A i \in 1..Len(c) : SubSeq(s, 1, Len(c))[i] = s[i]
    BY <1>1, <2>3, SubSeqProperties
  <2>5. QED
    BY <2>2, <2>4, SeqEqual
<1>6. QED
  BY <1>2, <1>3, <1>4, <1>5 DEF s, d

(* A number in the output is one more operand, ...                         *)
LEMMA ReckonDigits ==
  ASSUME NEW out \in Seq(Token), NEW n \in Int
  PROVE  Append(out, Digits(n)) \in Seq(Token) /\ Reckoned(Append(out, Digits(n))) = Append(Reckoned(out), n)
<1>1. Digits(n) \in Token
  BY TokenFacts
<1>2. Reckoned(Append(out, Digits(n))) = Reckon(Reckoned(out), Digits(n))
  BY <1>1, ReckonedLaws
<1>3. IsNum(Digits(n)) /\ Digits(n).val = n
  BY DEF IsNum, Digits
<1>4. QED
  BY <1>1, <1>2, <1>3 DEF Reckon

(* ... an operator takes two and leaves their result.                      *)
LEMMA ReckonOper ==
  ASSUME NEW out \in Seq(Token), NEW o \in Token, o.op \in Opers,
         NEW c \in Seq(Int), NEW x \in Int, NEW y \in Int, NEW v \in Int,
         Reckoned(out) = Append(Append(c, x), y), Apply(o.op, x, y) = << v >>
  PROVE  Append(out, o) \in Seq(Token) /\ Reckoned(Append(out, o)) = Append(c, v)
<1> DEFINE s == Append(Append(c, x), y)
<1>1. Reckoned(Append(out, o)) = Reckon(s, o)
  BY ReckonedLaws
<1>2. /\ Len(s) > 1 /\ s[Len(s) - 1] = x /\ s[Len(s)] = y
      /\ SubSeq(s, 1, Len(s) - 2) = c
  BY TwoLast
<1>3. ~ IsNum(o)
  BY DEF IsNum, Opers
<1> HIDE DEF s
<1>4. Reckon(s, o) = c \o << v >>
  BY <1>2, <1>3 DEF Reckon
<1>5. c \o << v >> = Append(c, v)
  BY AppendIsConcat
<1>6. QED
  BY <1>1, <1>4, <1>5

-----------------------------------------------------------------------------
(* What the stack gives up.                                                *)

(* Keeping the whole stack moves nothing.                                  *)
LEMMA KeepsAll ==
  ASSUME NEW s \in ShuntState
  PROVE  Keeps(s, Len(s.stack)) = s
<1>1. s.stack \in Seq(Token) /\ s.out \in Seq(Token) /\ Len(s.stack) \in Nat
  BY StateFacts
<1>2. SubSeq(s.stack, 1, Len(s.stack)) = s.stack
  BY <1>1, SubSeqFull
<1>3. SubSeq(s.stack, Len(s.stack) + 1, Len(s.stack)) = << >>
  BY <1>1, SubSeqEmpty
<1>4. Reverse(<< >>) = << >>
  BY DEF Reverse
<1>5. s.out \o << >> = s.out
  BY <1>1, ConcatEmptySeq
<1>6. s = [stack |-> s.stack, out |-> s.out]
  BY DEF ShuntState
<1>7. QED
  BY <1>2, <1>3, <1>4, <1>5, <1>6 DEF Keeps

(* Keeping all but the topmost operator moves that one.                    *)
LEMMA KeepsAllButOne ==
  ASSUME NEW s \in ShuntState, NEW Q \in Seq(Token), NEW o \in Token, s.stack = Append(Q, o)
  PROVE  Keeps(s, Len(Q)) = [stack |-> Q, out |-> Append(s.out, o)]
<1>1. s.out \in Seq(Token) /\ Len(Q) \in Nat
  BY StateFacts
<1> DEFINE st == Append(Q, o)
<1>2. /\ st \in Seq(Token) /\ Len(st) = Len(Q) + 1 /\ st[Len(Q) + 1] = o
      /\ \A i \in 1..Len(Q) : st[i] = Q[i]
  OBVIOUS
<1> HIDE DEF st
<1>3. SubSeq(st, 1, Len(Q)) = Q
  <2>1. \A i \in 1..Len(Q) : st[i] \in Token
    BY <1>2, ElementOfSeq
  <2>2. /\ SubSeq(st, 1, Len(Q)) \in Seq(Token) /\ Len(SubSeq(st, 1, Len(Q))) = Len(Q)
        /\ \A i \in 1..Len(Q) : SubSeq(st, 1, Len(Q))[i] = st[i]
    BY <1>1, <2>1, SubSeqProperties
  <2>3. QED
    BY <1>2, <2>2, SeqEqual
<1>4. SubSeq(st, Len(Q) + 1, Len(st)) = << o >>
  <2> DEFINE k == Len(Q) + 1
             top == SubSeq(st, k, k)
  <2>1. k \in Int /\ Len(st) = k /\ \A i \in k..k : st[i] = o
    BY <1>1, <1>2
  <2>2. /\ top \in Seq(Token) /\ Len(top) = 1
        /\ \A i \in 1..1 : top[i] = st[k + i - 1]
    BY <1>1, <2>1, SubSeqProperties
  <2>3. k + 1 - 1 = k /\ 1 \in 1..1
    BY <1>1
  <2>4. top[1] = o
    BY <1>2, <2>2, <2>3
  <2> HIDE DEF top
  <2>5. << o >> \in Seq(Token) /\ Len(<< o >>) = 1 /\ << o >>[1] = o
    OBVIOUS
  <2>6. \A i \in 1..Len(top) : top[i] = << o >>[i]
    BY <2>2, <2>4, <2>5
  <2>7. top = << o >>
    BY <2>2, <2>5, <2>6, SeqEqual
  <2>8. QED
    BY <2>1, <2>7 DEF top
<1>5. Reverse(<< o >>) = << o >>
  BY DEF Reverse
<1>6. s.out \o << o >> = Append(s.out, o)
  BY <1>1, AppendIsConcat
<1>7. QED
  BY <1>3, <1>4, <1>5, <1>6 DEF Keeps, st

-----------------------------------------------------------------------------
(* A sum or a product under way: the numbers c, and v, which may still be  *)
(* an operation that waits on the stack above Q.                           *)

Waits(s, Q, c, v, o, x, y) ==
  /\ o.op \in Opers /\ s.stack = Append(Q, o)
  /\ Reckoned(s.out) = Append(Append(c, x), y)
  /\ Apply(o.op, x, y) = << v >>

Pending(s, Q, c, v) ==
  \/ s.stack = Q /\ Reckoned(s.out) = Append(c, v)
  \/ \E o \in Token : \E x, y \in Int : Waits(s, Q, c, v, o, x, y)

(* It is over when what is above Q has been unloaded.                      *)
LEMMA Flush ==
  ASSUME NEW s \in ShuntState, NEW Q \in Seq(Token), NEW c \in Seq(Int), NEW v \in Int,
         Pending(s, Q, c, v),
         NEW places \in SUBSET (1..Len(s.stack)), Len(Q) \in places \union {0},
         \A k \in places : k <= Len(Q)
  PROVE  /\ Unload(s, places) \in ShuntState /\ Unload(s, places).stack = Q
         /\ Reckoned(Unload(s, places).out) = Append(c, v)
<1>1. Unload(s, places) = Keeps(s, Len(Q)) /\ Unload(s, places) \in ShuntState
  BY UnloadKeeps, UnloadTyped
<1>2. CASE s.stack = Q /\ Reckoned(s.out) = Append(c, v)
  BY <1>1, <1>2, KeepsAll
<1>3. CASE \E o \in Token : \E x, y \in Int : Waits(s, Q, c, v, o, x, y)
  <2>1. PICK o \in Token, x \in Int, y \in Int : Waits(s, Q, c, v, o, x, y)
    BY <1>3
  <2>2. Keeps(s, Len(Q)) = [stack |-> Q, out |-> Append(s.out, o)]
    BY <2>1, KeepsAllButOne DEF Waits
  <2>3. Reckoned(Append(s.out, o)) = Append(c, v)
    <3>1. /\ s.out \in Seq(Token) /\ o.op \in Opers /\ Apply(o.op, x, y) = << v >>
          /\ Reckoned(s.out) = Append(Append(c, x), y)
      BY <2>1, StateFacts DEF Waits
    <3>2. QED
      BY <3>1, ReckonOper, SMTT(30)
  <2>4. QED
    BY <1>1, <2>2, <2>3
<1>4. QED
  BY <1>2, <1>3 DEF Pending

(* The stack of a pending operation is Q and at most an operator.          *)
LEMMA StackOf ==
  ASSUME NEW s \in ShuntState, NEW Q \in Seq(Token), NEW c, NEW v, Pending(s, Q, c, v)
  PROVE  /\ DOMAIN s.stack = 1..Len(s.stack) /\ Len(Q) \in Nat
         /\ Len(s.stack) \in {Len(Q), Len(Q) + 1}
         /\ \A k \in 1..Len(Q) : s.stack[k] = Q[k]
         /\ Len(s.stack) = Len(Q) + 1 => s.stack[Len(Q) + 1].op \in Opers
<1>1. CASE s.stack = Q
  BY <1>1, StateFacts
<1>2. ASSUME NEW o \in Token, s.stack = Append(Q, o), o.op \in Opers
      PROVE  /\ DOMAIN s.stack = 1..Len(s.stack) /\ Len(Q) \in Nat
             /\ Len(s.stack) = Len(Q) + 1
             /\ \A k \in 1..Len(Q) : s.stack[k] = Q[k]
             /\ s.stack[Len(Q) + 1].op \in Opers
  BY <1>2
<1>3. QED
  BY <1>1, <1>2 DEF Pending, Waits

(* An operator makes an end to it if the one that waits is to come first   *)
(* and what is below is not.                                               *)
LEMMA AfterOper ==
  ASSUME NEW s \in ShuntState, NEW Q \in Seq(Token), NEW c \in Seq(Int), NEW v \in Int,
         Pending(s, Q, c, v), NEW op \in Opers,
         Q = << >> \/ Q[Len(Q)].op = "(",
         \A k \in DOMAIN s.stack :
           k > Len(Q) => Precedence(s.stack[k]) >= Precedence(Mark(op))
  PROVE  /\ Shunt(s, Mark(op)) \in ShuntState
         /\ Shunt(s, Mark(op)).stack = Append(Q, Mark(op))
         /\ Reckoned(Shunt(s, Mark(op)).out) = Append(c, v)
<1> DEFINE places == {n \in DOMAIN s.stack : Precedence(s.stack[n]) < Precedence(Mark(op))}
           u == Unload(s, places)
<1>1. /\ DOMAIN s.stack = 1..Len(s.stack) /\ Len(Q) \in Nat
      /\ Len(s.stack) \in {Len(Q), Len(Q) + 1}
      /\ \A k \in 1..Len(Q) : s.stack[k] = Q[k]
  BY StackOf
<1>2. Mark(op) \in Token /\ Mark(op).op = op
  BY TokenFacts DEF Mark, Opers, Marks
<1>3. \A t \in Token : Precedence(t) \in Int
  BY DEF Precedence
<1>4. \A k \in places : k <= Len(Q)
  <2>1. ASSUME NEW k \in DOMAIN s.stack, k > Len(Q)
        PROVE  ~ (Precedence(s.stack[k]) < Precedence(Mark(op)))
    <3>1. Precedence(s.stack[k]) >= Precedence(Mark(op))
      BY <2>1
    <3>2. s.stack[k] \in Token
      BY <1>1, StateFacts, ElementOfSeq
    <3>3. Precedence(s.stack[k]) \in Int /\ Precedence(Mark(op)) \in Int
      BY <1>2, <1>3, <3>2
    <3>4. QED
      BY <3>1, <3>3
  <2>2. QED
    BY <1>1, <2>1
<1>5. Len(Q) \in places \union {0}
  <2>1. CASE Q = << >>
    BY <2>1
  <2>2. CASE Q # << >> /\ Q[Len(Q)].op = "("
    <3>1. Len(Q) \in 1..Len(Q) /\ Len(Q) \in DOMAIN s.stack
      BY <1>1, <2>2, EmptySeq
    <3>2. s.stack[Len(Q)].op = "("
      BY <1>1, <2>2, <3>1
    <3>3. Precedence(s.stack[Len(Q)]) = -1
      BY <3>2 DEF Precedence
    <3>4. Precedence(Mark(op)) > -1
      BY <1>2 DEF Precedence, Opers
    <3>5. QED
      BY <3>1, <3>3, <3>4
  <2>3. QED
    BY <2>1, <2>2
<1>6. places \in SUBSET (1..Len(s.stack))
  BY <1>1
<1>7. Shunt(s, Mark(op)) = Open(u, Mark(op))
  <2>1. ~ IsNum(Mark(op)) /\ Mark(op).op # "(" /\ Mark(op).op # ")"
    BY <1>2 DEF IsNum, Opers
  <2>2. QED
    BY <2>1 DEF Shunt, Operator
<1> HIDE DEF places
<1>8. /\ u \in ShuntState /\ u.stack = Q /\ Reckoned(u.out) = Append(c, v)
  BY <1>4, <1>5, <1>6, Flush
<1> HIDE DEF u
<1>9. Open(u, Mark(op)) = [stack |-> Append(Q, Mark(op)), out |-> u.out]
      /\ Open(u, Mark(op)) \in ShuntState
  BY <1>2, <1>8, OpenTyped
<1>10. QED
  BY <1>7, <1>8, <1>9, SMTT(30)

(* A number goes to the output.                                            *)
LEMMA AfterDigits ==
  ASSUME NEW s \in ShuntState, NEW n \in Int
  PROVE  /\ Shunt(s, Digits(n)) \in ShuntState
         /\ Shunt(s, Digits(n)).stack = s.stack
         /\ Reckoned(Shunt(s, Digits(n)).out) = Append(Reckoned(s.out), n)
<1>1. /\ Digits(n) \in Token /\ IsNum(Digits(n))
      /\ Digits(n).op # "(" /\ Digits(n).op # ")"
  BY TokenFacts DEF Digits, IsNum
<1>2. Shunt(s, Digits(n)) = Operand(s, Digits(n))
  BY <1>1, ShuntDigits
<1>3. /\ Operand(s, Digits(n)) = [stack |-> s.stack, out |-> Append(s.out, Digits(n))]
      /\ Operand(s, Digits(n)) \in ShuntState
  BY <1>1, OpenTyped
<1>4. QED
  BY <1>2, <1>3, StateFacts, ReckonDigits

(* An opening parenthesis hides what is below.                             *)
LEMMA AfterOpen ==
  ASSUME NEW s \in ShuntState
  PROVE  /\ Shunt(s, Mark("(")) \in ShuntState
         /\ Shunt(s, Mark("(")).stack = Append(s.stack, Mark("("))
         /\ Shunt(s, Mark("(")).out = s.out
<1>1. /\ Mark("(") \in Token /\ ~ IsNum(Mark("("))
      /\ Mark("(").op = "(" /\ Mark("(").op # ")"
  BY TokenFacts DEF Mark, IsNum, Marks
<1>2. Shunt(s, Mark("(")) = Open(s, Mark("("))
  BY <1>1, ShuntOpen
<1>3. /\ Open(s, Mark("(")) = [stack |-> Append(s.stack, Mark("(")), out |-> s.out]
      /\ Open(s, Mark("(")) \in ShuntState
  BY <1>1, OpenTyped
<1>4. QED
  BY <1>2, <1>3

(* A closing one ends what is above its partner, which is forgotten.       *)
LEMMA AfterClose ==
  ASSUME NEW s \in ShuntState, NEW R \in Seq(Token), NEW c \in Seq(Int), NEW v \in Int,
         Pending(s, Append(R, Mark("(")), c, v)
  PROVE  /\ Shunt(s, Mark(")")) \in ShuntState
         /\ Shunt(s, Mark(")")).stack = R
         /\ Reckoned(Shunt(s, Mark(")")).out) = Append(c, v)
<1> DEFINE Q == Append(R, Mark("("))
           places == {n \in DOMAIN s.stack : s.stack[n].op = "("}
           u == Unload(s, places)
<1>1. /\ Mark("(") \in Token /\ Mark("(").op = "("
      /\ Mark(")").op = ")" /\ Mark(")").op # "(" /\ ~ IsNum(Mark(")"))
  BY TokenFacts DEF Mark, IsNum, Marks
<1>2. /\ Q \in Seq(Token) /\ Q # << >> /\ Len(Q) = Len(R) + 1 /\ Len(R) \in Nat
      /\ Q[Len(Q)] = Mark("(") /\ \A i \in 1..Len(R) : Q[i] = R[i]
  BY <1>1, AppendProperties
<1> HIDE DEF Q
<1>3. Pending(s, Q, c, v)
  BY DEF Q
<1>4. /\ DOMAIN s.stack = 1..Len(s.stack) /\ Len(Q) \in Nat
      /\ Len(s.stack) \in {Len(Q), Len(Q) + 1}
      /\ \A k \in 1..Len(Q) : s.stack[k] = Q[k]
      /\ Len(s.stack) = Len(Q) + 1 => s.stack[Len(Q) + 1].op \in Opers
  BY <1>2, <1>3, StackOf
<1>5. Len(Q) \in places
  <2>1. Len(Q) \in 1..Len(Q) /\ Len(Q) \in 1..Len(s.stack)
    BY <1>2, <1>4
  <2>2. QED
    BY <1>1, <1>2, <1>4, <2>1
<1>6. ASSUME NEW k \in places PROVE k <= Len(Q)
  <2>1. SUFFICES ASSUME k > Len(Q) PROVE FALSE
    BY <1>4
  <2>2. k = Len(Q) + 1 /\ Len(s.stack) = Len(Q) + 1
    BY <1>4, <2>1
  <2>3. s.stack[k].op \in Opers
    BY <1>4, <2>2
  <2>4. QED
    BY <2>3 DEF Opers
<1>7. places \in SUBSET (1..Len(s.stack))
  BY <1>4
<1>8. Shunt(s, Mark(")")) = [u EXCEPT !.stack = IF u.stack = << >> THEN u.stack ELSE Front(u.stack)]
  <2>1. Shunt(s, Mark(")")) = Close(s)
    BY <1>1, ShuntClose
  <2>2. QED
    BY <2>1 DEF Close
<1> HIDE DEF places
<1>9. u \in ShuntState /\ u.stack = Q /\ Reckoned(u.out) = Append(c, v)
  BY <1>2, <1>3, <1>5, <1>6, <1>7, Flush
<1> HIDE DEF u
<1>10. Front(Q) = R
  <2>1. Front(Q) = SubSeq(Q, 1, Len(R))
    BY <1>2 DEF Front
  <2>2. \A i \in 1..Len(R) : Q[i] \in Token
    BY <1>2, ElementOfSeq
  <2>3. /\ SubSeq(Q, 1, Len(R)) \in Seq(Token) /\ Len(SubSeq(Q, 1, Len(R))) = Len(R)
        /\ \A i \in 1..Len(R) : SubSeq(Q, 1, Len(R))[i] = Q[i]
    BY <1>2, <2>2, SubSeqProperties
  <2>4. QED
    BY <1>2, <2>1, <2>3, SeqEqual
<1>11. Shunt(s, Mark(")")) = [stack |-> R, out |-> u.out]
  <2>1. \A x : [u EXCEPT !.stack = x] = [stack |-> x, out |-> u.out]
    BY <1>9 DEF ShuntState
  <2>2. QED
    BY <1>2, <1>8, <1>9, <1>10, <2>1
<1>12. [stack |-> R, out |-> u.out] \in ShuntState
  BY <1>9, StateFacts, MakesState
<1>13. QED
  BY <1>9, <1>11, <1>12

-----------------------------------------------------------------------------
(* A factor, token by token.                                               *)

Plus(text, m, n) == Append(Append(text, Mark(m)), Digits(n))

UpperAfter(text, b) ==
  IF b.oper = "" THEN Append(text, Digits(b.base))
                 ELSE Plus(Append(text, Digits(b.base)), b.oper, b.arg)

DifferenceAfter(text, b) ==
  IF b.low = 0 THEN UpperAfter(text, b)
  ELSE IF b.low < 0 THEN Plus(UpperAfter(text, b), "+", -b.low)
  ELSE Plus(UpperAfter(text, b), "-", b.low)

InnerAfter(text, b) ==
  IF b.closed THEN Plus(DifferenceAfter(text, b), "+", 1) ELSE DifferenceAfter(text, b)

(* Operators and parentheses are symbols.                                  *)
LEMMA MarkFacts ==
  /\ Opers \subseteq Marks
  /\ "+" \in Marks /\ "-" \in Marks /\ "*" \in Marks /\ "(" \in Marks /\ ")" \in Marks
BY DEF Marks, Opers

(* The operation of an upper bound is an operator.                         *)
LEMMA OperMark ==
  ASSUME NEW b \in LoopBounds, b.oper # ""
  PROVE  b.oper \in Marks /\ b.oper \in Opers
BY BoundFacts DEF Marks, Opers

(* A term added to a text leaves a text.                                   *)
LEMMA PlusTyped ==
  ASSUME NEW text \in Seq(Token), NEW m \in Marks, NEW n \in Int
  PROVE  /\ Append(text, Mark(m)) \in Seq(Token) /\ Append(text, Digits(n)) \in Seq(Token)
         /\ Plus(text, m, n) \in Seq(Token)
<1>1. Mark(m) \in Token /\ Digits(n) \in Token
  BY TokenFacts
<1>2. Append(text, Mark(m)) \in Seq(Token) /\ Append(text, Digits(n)) \in Seq(Token)
  BY <1>1
<1>3. QED
  BY <1>1, <1>2 DEF Plus

(* A term is appended token by token, ...                                  *)
LEMMA TermAppended ==
  ASSUME NEW text \in Seq(Token), NEW t \in Seq(Token), NEW m \in Marks, NEW n \in Int
  PROVE  text \o (t \o Sym(m) \o Num(n)) = Plus(text \o t, m, n)
<1>1. Sym(m) \in Seq(Token) /\ Num(n) \in Seq(Token) /\ Mark(m) \in Token /\ Digits(n) \in Token
      /\ Sym(m) = << Mark(m) >> /\ Num(n) = << Digits(n) >>
  BY TokenFacts
<1>2. t \o Sym(m) \in Seq(Token) /\ text \o t \in Seq(Token)
  BY <1>1, ConcatProperties
<1>3. text \o ((t \o Sym(m)) \o Num(n)) = (text \o (t \o Sym(m))) \o Num(n)
  BY <1>1, <1>2, ConcatAssociative
<1>4. text \o (t \o Sym(m)) = (text \o t) \o Sym(m)
  BY <1>1, ConcatAssociative
<1>5. (text \o t) \o Sym(m) = Append(text \o t, Mark(m))
  BY <1>1, <1>2, AppendIsConcat
<1>6. Append(text \o t, Mark(m)) \in Seq(Token)
  BY <1>1, <1>2
<1>7. Append(text \o t, Mark(m)) \o Num(n) = Append(Append(text \o t, Mark(m)), Digits(n))
  BY <1>1, <1>6, AppendIsConcat
<1>8. QED
  BY <1>3, <1>4, <1>5, <1>7 DEF Plus

(* ... and so are the terms of a difference, ...                           *)
LEMMA TermsAppended ==
  ASSUME NEW text \in Seq(Token), NEW b \in LoopBounds
  PROVE  /\ Num(b.base) = << Digits(b.base) >> /\ Num(b.base) \in Seq(Token)
         /\ Digits(b.base) \in Token /\ Append(text, Digits(b.base)) \in Seq(Token)
         /\ b.oper # "" => Plus(text, b.oper, b.arg) \in Seq(Token)
         /\ Plus(text, "+", -b.low) \in Seq(Token) /\ Plus(text, "-", b.low) \in Seq(Token)
         /\ Plus(text, "+", 1) \in Seq(Token)
         /\ \A t \in Seq(Token) :
              /\ b.oper # "" =>
                   text \o (t \o Sym(b.oper) \o Num(b.arg)) = Plus(text \o t, b.oper, b.arg)
              /\ text \o (t \o Sym("+") \o Num(-b.low)) = Plus(text \o t, "+", -b.low)
              /\ text \o (t \o Sym("-") \o Num(b.low)) = Plus(text \o t, "-", b.low)
              /\ text \o (t \o Sym("+") \o Num(1)) = Plus(text \o t, "+", 1)
<1>1. b.base \in Int /\ b.arg \in Int
  BY BoundNumbers
<1>2. b.low \in Int
  BY BoundFacts
<1>3. -b.low \in Int
  BY BoundNumbers
<1>4. \A m \in Marks, n \in Int :
        /\ Plus(text, m, n) \in Seq(Token)
        /\ \A t \in Seq(Token) : text \o (t \o Sym(m) \o Num(n)) = Plus(text \o t, m, n)
  BY PlusTyped, TermAppended
<1>5. /\ Plus(text, "+", -b.low) \in Seq(Token)
      /\ \A t \in Seq(Token) : text \o (t \o Sym("+") \o Num(-b.low)) = Plus(text \o t, "+", -b.low)
  BY <1>3, <1>4, MarkFacts
<1>6. /\ Plus(text, "-", b.low) \in Seq(Token)
      /\ \A t \in Seq(Token) : text \o (t \o Sym("-") \o Num(b.low)) = Plus(text \o t, "-", b.low)
  BY <1>2, <1>4, MarkFacts
<1>7. /\ Plus(text, "+", 1) \in Seq(Token)
      /\ \A t \in Seq(Token) : text \o (t \o Sym("+") \o Num(1)) = Plus(text \o t, "+", 1)
  <2>1. 1 \in Int
    OBVIOUS
  <2>2. QED
    BY <2>1, <1>4, MarkFacts
<1>8. b.oper # "" =>
        /\ Plus(text, b.oper, b.arg) \in Seq(Token)
        /\ \A t \in Seq(Token) :
             text \o (t \o Sym(b.oper) \o Num(b.arg)) = Plus(text \o t, b.oper, b.arg)
  BY <1>1, <1>4, OperMark
<1>9. /\ Num(b.base) = << Digits(b.base) >> /\ Num(b.base) \in Seq(Token)
      /\ Digits(b.base) \in Token /\ Append(text, Digits(b.base)) \in Seq(Token)
  BY <1>1, TokenFacts, PlusTyped
<1>10. QED
  BY <1>5, <1>6, <1>7, <1>8, <1>9

(* ... which leaves a text.                                                *)
LEMMA AfterTyped ==
  ASSUME NEW text \in Seq(Token), NEW b \in LoopBounds
  PROVE  /\ UpperAfter(text, b) \in Seq(Token) /\ DifferenceAfter(text, b) \in Seq(Token)
         /\ InnerAfter(text, b) \in Seq(Token)
<1>1. UpperAfter(text, b) \in Seq(Token)
  BY TermsAppended DEF UpperAfter
<1>2. DifferenceAfter(text, b) \in Seq(Token)
  BY <1>1, TermsAppended DEF DifferenceAfter
<1>3. InnerAfter(text, b) \in Seq(Token)
  BY <1>2, TermsAppended DEF InnerAfter
<1>4. QED
  BY <1>1, <1>2, <1>3

(* Parentheses round a text are its first and last token.                  *)
LEMMA Enclosed ==
  ASSUME NEW text \in Seq(Token), NEW l \in Token, NEW t \in Seq(Token), NEW r \in Token
  PROVE  text \o (<< l >> \o t \o << r >>) = Append(Append(text, l) \o t, r)
<1>1. << l >> \in Seq(Token) /\ << r >> \in Seq(Token) /\ Append(text, l) \in Seq(Token)
  OBVIOUS
<1>2. << l >> \o t \in Seq(Token) /\ Append(text, l) \o t \in Seq(Token)
  BY <1>1, ConcatProperties
<1>3. text \o ((<< l >> \o t) \o << r >>) = (text \o (<< l >> \o t)) \o << r >>
  BY <1>1, <1>2, ConcatAssociative
<1>4. text \o (<< l >> \o t) = (text \o << l >>) \o t
  BY <1>1, ConcatAssociative
<1>5. text \o << l >> = Append(text, l)
  BY AppendIsConcat
<1>6. (Append(text, l) \o t) \o << r >> = Append(Append(text, l) \o t, r)
  BY <1>2, AppendIsConcat
<1>7. QED
  BY <1>3, <1>4, <1>5, <1>6

(* A factor is appended token by token.                                    *)
LEMMA FactorAppended ==
  ASSUME NEW text \in Seq(Token), NEW b \in LoopBounds
  PROVE  text \o Factor(b) = Append(InnerAfter(Append(text, Mark("(")), b), Mark(")"))
<1> DEFINE t == Append(text, Mark("("))
<1>1. /\ Mark("(") \in Token /\ Mark(")") \in Token
      /\ Sym("(") = << Mark("(") >> /\ Sym(")") = << Mark(")") >>
  BY TokenFacts, MarkFacts
<1>2. t \in Seq(Token)
  BY <1>1
<1>3. /\ Upper(b) \in Seq(Token) /\ Difference(b) \in Seq(Token) /\ Inner(b) \in Seq(Token)
      /\ Factor(b) = Sym("(") \o Inner(b) \o Sym(")")
  BY FactorTyped
<1>4. text \o Factor(b) = Append(t \o Inner(b), Mark(")"))
  <2> DEFINE inner == Inner(b)
             l == Mark("(")
             r == Mark(")")
  <2>1. Factor(b) = << l >> \o inner \o << r >>
    BY <1>1, <1>3
  <2>2. inner \in Seq(Token) /\ l \in Token /\ r \in Token
    BY <1>1, <1>3
  <2> HIDE DEF inner, l, r
  <2>3. text \o (<< l >> \o inner \o << r >>) = Append(Append(text, l) \o inner, r)
    BY <2>2, Enclosed
  <2>4. QED
    BY <2>1, <2>3 DEF inner, l, r
<1> HIDE DEF t
<1>5. t \o Num(b.base) = Append(t, Digits(b.base))
  <2>1. Num(b.base) = << Digits(b.base) >> /\ Digits(b.base) \in Token
    BY <1>2, TermsAppended
  <2>2. QED
    BY <1>2, <2>1, AppendIsConcat
<1>6. t \o Upper(b) = UpperAfter(t, b)
  <2>1. CASE b.oper = ""
    BY <1>5, <2>1 DEF Upper, UpperAfter
  <2>2. CASE b.oper # ""
    <3>1. t \o (Num(b.base) \o Sym(b.oper) \o Num(b.arg)) = Plus(t \o Num(b.base), b.oper, b.arg)
      BY <1>2, <2>2, TermsAppended
    <3>2. QED
      BY <1>5, <2>2, <3>1 DEF Upper, UpperAfter
  <2>3. QED
    BY <2>1, <2>2
<1>7. t \o Difference(b) = DifferenceAfter(t, b)
  <2>1. t \o (Upper(b) \o Sym("+") \o Num(-b.low)) = Plus(t \o Upper(b), "+", -b.low)
    BY <1>2, <1>3, TermsAppended, ZenonT(30)
  <2>2. t \o (Upper(b) \o Sym("-") \o Num(b.low)) = Plus(t \o Upper(b), "-", b.low)
    BY <1>2, <1>3, TermsAppended, ZenonT(30)
  <2>3. CASE b.low = 0
    BY <1>6, <2>3 DEF Difference, DifferenceAfter
  <2>4. CASE b.low # 0 /\ b.low < 0
    BY <1>6, <2>1, <2>4 DEF Difference, DifferenceAfter
  <2>5. CASE b.low # 0 /\ ~ (b.low < 0)
    BY <1>6, <2>2, <2>5 DEF Difference, DifferenceAfter
  <2>6. QED
    BY <2>3, <2>4, <2>5
<1>8. t \o Inner(b) = InnerAfter(t, b)
  <2>1. t \o (Difference(b) \o Sym("+") \o Num(1)) = Plus(t \o Difference(b), "+", 1)
    BY <1>2, <1>3, TermsAppended
  <2>2. QED
    BY <1>7, <2>1 DEF Inner, InnerAfter
<1>9. QED
  BY <1>4, <1>8 DEF t

-----------------------------------------------------------------------------
(* Reading a factor.                                                       *)

(* Sums bind less than products.                                           *)
LEMMA OperPrecedence ==
  /\ \A t \in Token : t.op \in Opers => Precedence(t) \in {1, 2}
  /\ \A op \in {"+", "-"} : Precedence(Mark(op)) = 1
<1>1. ASSUME NEW t, t.op \in {"+", "-"} PROVE Precedence(t) = 1
  BY <1>1 DEF Precedence
<1>2. ASSUME NEW t, t.op \in {"*", "/"} PROVE Precedence(t) = 2
  BY <1>2 DEF Precedence
<1>3. \A op : Mark(op).op = op
  BY DEF Mark
<1>4. QED
  BY <1>1, <1>2, <1>3 DEF Opers

(* One more operand.                                                       *)
LEMMA AfterPlus ==
  ASSUME NEW text \in Seq(Token), NEW Q \in Seq(Token), NEW c \in Seq(Int), NEW v \in Int,
         Pending(Shunted(text), Q, c, v), Q = << >> \/ Q[Len(Q)].op = "(",
         NEW op \in Opers, op \in {"+", "-"} \/ Shunted(text).stack = Q,
         NEW n \in Int, NEW w \in Int, Apply(op, v, n) = << w >>
  PROVE  Pending(Shunted(Plus(text, op, n)), Q, c, w)
<1> DEFINE s == Shunted(text)
           s1 == Shunted(Append(text, Mark(op)))
           s2 == Shunted(Plus(text, op, n))
<1>1. op \in Marks /\ Mark(op) \in Token /\ Digits(n) \in Token /\ Mark(op).op = op
  BY MarkFacts, TokenFacts DEF Mark
<1>2. s \in ShuntState
  BY ShuntedLaws
<1>3. s1 = Shunt(s, Mark(op))
  BY <1>1, ShuntedLaws
<1>4. Append(text, Mark(op)) \in Seq(Token)
  BY <1>1
<1>5. s2 = Shunt(s1, Digits(n))
  BY <1>1, <1>4, ShuntedLaws DEF Plus
<1>6. /\ Pending(s, Q, c, v) /\ (op \in {"+", "-"} \/ s.stack = Q)
      /\ Q = << >> \/ Q[Len(Q)].op = "("
  OBVIOUS
<1> HIDE DEF s, s1, s2
<1>7. ASSUME NEW k \in DOMAIN s.stack, k > Len(Q)
      PROVE  Precedence(s.stack[k]) >= Precedence(Mark(op))
  <2>1. /\ DOMAIN s.stack = 1..Len(s.stack) /\ Len(Q) \in Nat
        /\ Len(s.stack) \in {Len(Q), Len(Q) + 1}
        /\ Len(s.stack) = Len(Q) + 1 => s.stack[Len(Q) + 1].op \in Opers
    BY <1>2, <1>6, StackOf
  <2>2. k = Len(Q) + 1 /\ Len(s.stack) = Len(Q) + 1
    BY <1>7, <2>1
  <2>3. op \in {"+", "-"}
    BY <1>6, <2>1, <2>2
  <2>4. s.stack[k].op \in Opers /\ s.stack[k] \in Token
    BY <1>2, <2>1, <2>2, StateFacts, ElementOfSeq
  <2>5. Precedence(s.stack[k]) \in {1, 2} /\ Precedence(Mark(op)) = 1
    BY <2>3, <2>4, OperPrecedence
  <2>6. QED
    BY <2>5
<1>8. s1 \in ShuntState /\ s1.stack = Append(Q, Mark(op)) /\ Reckoned(s1.out) = Append(c, v)
  <2>1. \A k \in DOMAIN s.stack :
          k > Len(Q) => Precedence(s.stack[k]) >= Precedence(Mark(op))
    BY <1>7
  <2>2. /\ Shunt(s, Mark(op)) \in ShuntState
        /\ Shunt(s, Mark(op)).stack = Append(Q, Mark(op))
        /\ Reckoned(Shunt(s, Mark(op)).out) = Append(c, v)
    BY <1>2, <1>6, <2>1, AfterOper
  <2>3. QED
    BY <1>3, <2>2
<1>9. s2.stack = s1.stack /\ Reckoned(s2.out) = Append(Reckoned(s1.out), n)
  BY <1>5, <1>8, AfterDigits
<1>10. Waits(s2, Q, c, w, Mark(op), v, n)
  BY <1>1, <1>8, <1>9 DEF Waits
<1>11. QED
  BY <1>1, <1>10 DEF Pending, s2

(* What the operators of a size compute.                                   *)
LEMMA ApplySum ==
  ASSUME NEW x \in Int, NEW y \in Int
  PROVE  /\ Apply("+", x, y) = << x + y >> /\ Apply("-", x, y) = << x - y >>
         /\ Apply("*", x, y) = << x * y >>
         /\ x >= 0 /\ y > 0 => Apply("/", x, y) = << x \div y >>
<1>1. Apply("+", x, y) = << x + y >>
  BY DEF Apply
<1>2. Apply("-", x, y) = << x - y >>
  BY DEF Apply
<1>3. Apply("*", x, y) = << x * y >>
  BY DEF Apply
<1>4. ASSUME x >= 0, y > 0 PROVE Apply("/", x, y) = << x \div y >>
  <2>0. y # 0
    BY <1>4
  <2>1. Quotient(x, y) = x \div y
    BY <1>4, <2>0, QuotientTyped
  <2>2. Apply("/", x, y) = << Quotient(x, y) >>
    BY <2>0 DEF Apply
  <2>3. QED
    BY <2>1, <2>2
<1>5. QED
  BY <1>1, <1>2, <1>3, <1>4

(* What is within the parentheses has the value of the trip count.         *)
LEMMA InnerRead ==
  ASSUME NEW text \in Seq(Token), NEW Q \in Seq(Token), NEW c \in Seq(Int), NEW b \in LoopBounds,
         Q # << >>, Q[Len(Q)].op = "(",
         Shunted(text).stack = Q, Reckoned(Shunted(text).out) = c
  PROVE  Pending(Shunted(InnerAfter(text, b)), Q, c, Trips(b))
<1> DEFINE t0 == Append(text, Digits(b.base))
           U == UpperValue(b)
<1>1. b.base \in Int /\ b.arg \in Int
  BY BoundNumbers
<1>2. -b.low \in Int
  BY BoundNumbers
<1>3. b.low \in Int
  BY BoundFacts
<1>4. U \in Int
  BY TripsTyped
<1>5. /\ t0 \in Seq(Token) /\ UpperAfter(text, b) \in Seq(Token)
      /\ DifferenceAfter(text, b) \in Seq(Token)
  BY TermsAppended, AfterTyped
<1>6. Shunted(t0).stack = Q /\ Reckoned(Shunted(t0).out) = Append(c, b.base)
  <2>1. Digits(b.base) \in Token
    BY TermsAppended
  <2>2. Shunted(t0) = Shunt(Shunted(text), Digits(b.base)) /\ Shunted(text) \in ShuntState
    BY <2>1, ShuntedLaws
  <2>3. QED
    BY <1>1, <2>2, AfterDigits, ZenonT(30)
<1> HIDE DEF t0, U
<1>7. Pending(Shunted(t0), Q, c, b.base)
  BY <1>6 DEF Pending
<1>8. Pending(Shunted(UpperAfter(text, b)), Q, c, U)
  <2>1. CASE b.oper = ""
    BY <1>7, <2>1 DEF U, UpperValue, UpperAfter, t0
  <2>2. CASE b.oper # ""
    <3>1. Apply(b.oper, b.base, b.arg) = << U >>
      <4>1. b.base \in Nat /\ b.oper \in {"+", "-", "/"}
        BY <2>2, BoundFacts
      <4>2. CASE b.oper = "+"
        BY <1>1, <4>2, ApplySum DEF U, UpperValue
      <4>3. CASE b.oper = "-"
        BY <1>1, <4>3, ApplySum DEF U, UpperValue
      <4>4. CASE b.oper = "/"
        <5>1. b.arg > 0
          BY <4>4, BoundFacts
        <5>2. b.base >= 0
          BY <4>1
        <5>3. Apply("/", b.base, b.arg) = << b.base \div b.arg >>
          BY <1>1, <5>1, <5>2, ApplySum
        <5>4. QED
          BY <4>4, <5>3 DEF U, UpperValue
      <4>5. QED
        BY <4>1, <4>2, <4>3, <4>4
    <3>2. b.oper \in Opers
      BY <2>2, OperMark
    <3>3. Pending(Shunted(Plus(t0, b.oper, b.arg)), Q, c, U)
      BY <1>1, <1>4, <1>5, <1>6, <1>7, <3>1, <3>2, AfterPlus
    <3>4. QED
      BY <2>2, <3>3 DEF UpperAfter, t0
  <2>3. QED
    BY <2>1, <2>2
<1>9. "+" \in Opers /\ "-" \in Opers
  BY DEF Opers
<1>10. Pending(Shunted(DifferenceAfter(text, b)), Q, c, U - b.low)
  <2> DEFINE t1 == UpperAfter(text, b)
             D == U - b.low
  <2>1. D \in Int /\ U + (-b.low) = D /\ (b.low = 0 => D = U)
    BY <1>3, <1>4
  <2>2. Apply("+", U, -b.low) = << D >>
    BY <1>2, <1>4, <2>1, ApplySum
  <2>3. Apply("-", U, b.low) = << D >>
    BY <1>3, <1>4, ApplySum
  <2> HIDE DEF t1, D
  <2>4. t1 \in Seq(Token) /\ Pending(Shunted(t1), Q, c, U)
    BY <1>5, <1>8 DEF t1
  <2>5. Pending(Shunted(Plus(t1, "+", -b.low)), Q, c, D)
    BY <1>2, <1>4, <1>9, <2>1, <2>2, <2>4, AfterPlus
  <2>6. Pending(Shunted(Plus(t1, "-", b.low)), Q, c, D)
    BY <1>3, <1>4, <1>9, <2>1, <2>3, <2>4, AfterPlus
  <2>7. CASE b.low = 0
    BY <2>1, <2>4, <2>7 DEF DifferenceAfter, t1, D
  <2>8. CASE b.low # 0
    BY <2>5, <2>6, <2>8 DEF DifferenceAfter, t1, D
  <2>9. QED
    BY <2>7, <2>8
<1>11. QED
  <2> DEFINE t2 == DifferenceAfter(text, b)
             D == U - b.low
  <2>1. D \in Int /\ D + 1 \in Int
    BY <1>3, <1>4
  <2>2. Trips(b) = IF b.closed THEN D + 1 ELSE D
    BY <2>1 DEF Trips, U
  <2> HIDE DEF t2, D
  <2>3. t2 \in Seq(Token) /\ Pending(Shunted(t2), Q, c, D)
    BY <1>5, <1>10 DEF t2, D
  <2>0. PICK one \in Int : one = 1
    OBVIOUS
  <2>4. PICK w \in Int : w = D + one /\ Apply("+", D, one) = << w >>
    BY <2>0, <2>1, ApplySum
  <2>5. Pending(Shunted(Plus(t2, "+", one)), Q, c, w)
    BY <1>9, <2>1, <2>3, <2>4, AfterPlus
  <2>6. QED
    BY <2>0, <2>2, <2>3, <2>4, <2>5 DEF InnerAfter, t2

(* A factor adds its trip count to the numbers and leaves the stack as it  *)
(* was.                                                                    *)
LEMMA FactorRead ==
  ASSUME NEW text \in Seq(Token), NEW b \in LoopBounds
  PROVE  /\ text \o Factor(b) \in Seq(Token)
         /\ Shunted(text \o Factor(b)).stack = Shunted(text).stack
         /\ Reckoned(Shunted(text \o Factor(b)).out) = Append(Reckoned(Shunted(text).out), Trips(b))
<1> DEFINE t == Append(text, Mark("("))
           i == InnerAfter(t, b)
           R == Shunted(text).stack
           Q == Append(R, Mark("("))
           c == Reckoned(Shunted(text).out)
<1>1. Mark("(") \in Token /\ Mark(")") \in Token /\ Mark("(").op = "("
  BY TokenFacts, MarkFacts DEF Mark
<1>2. Shunted(text) \in ShuntState /\ t \in Seq(Token)
  BY <1>1, ShuntedLaws
<1>3. R \in Seq(Token) /\ c \in Seq(Int)
  BY <1>2, StateFacts, ReckonedLaws
<1>4. Shunted(t) = Shunt(Shunted(text), Mark("("))
  BY <1>1, ShuntedLaws
<1>5. Shunted(t).stack = Q /\ Reckoned(Shunted(t).out) = c
  BY <1>2, <1>4, AfterOpen
<1>6. Q \in Seq(Token) /\ Q # << >> /\ Q[Len(Q)] = Mark("(")
  BY <1>1, <1>3, AppendProperties, SMTT(30)
<1>7. text \o Factor(b) = Append(i, Mark(")"))
  BY FactorAppended
<1>8. i \in Seq(Token) /\ Trips(b) \in Int
  BY <1>2, AfterTyped, TripsTyped
<1> HIDE DEF t, i, R, c
<1>9. Pending(Shunted(i), Q, c, Trips(b))
  <2> HIDE DEF Q
  <2>1. QED
    BY <1>1, <1>2, <1>3, <1>5, <1>6, InnerRead DEF i
<1>10. Shunted(Append(i, Mark(")"))) = Shunt(Shunted(i), Mark(")")) /\ Shunted(i) \in ShuntState
  BY <1>1, <1>8, ShuntedLaws
<1>11. /\ Shunt(Shunted(i), Mark(")")).stack = R
       /\ Reckoned(Shunt(Shunted(i), Mark(")")).out) = Append(c, Trips(b))
  BY <1>3, <1>8, <1>9, <1>10, AfterClose
<1>12. Append(i, Mark(")")) \in Seq(Token)
  BY <1>1, <1>8
<1>13. QED
  BY <1>7, <1>10, <1>11, <1>12 DEF R, c

-----------------------------------------------------------------------------
(* What fixParens leaves of a factor and of parentheses around a product.  *)

(* A token unlike the parenthesis before it is copied, ...                 *)
LEMMA CopyPlain ==
  ASSUME NEW text \in Seq(Token), NEW t \in Token,
         t.op \notin {"(", ")"} \/ t.op # Copied(text).prev
  PROVE  /\ Append(text, t) \in Seq(Token)
         /\ Copied(Append(text, t)).prev = t.op
         /\ Copied(Append(text, t)).fixed = Append(Copied(text).fixed, t)
<1>1. Copied(Append(text, t)) = Copy(Copied(text), t)
  BY CopiedLaws
<1>2. QED
  BY <1>1 DEF Copy

(* A state of fixParens is its two fields.                                 *)
LEMMA CopyStateFields ==
  ASSUME NEW A, NEW B, NEW s \in [prev : A, fixed : B]
  PROVE  [prev |-> s.prev, fixed |-> s.fixed] = s
OBVIOUS

(* The fields of a state given by them.                                    *)
LEMMA CopyFields ==
  ASSUME NEW a, NEW f
  PROVE  [prev |-> a, fixed |-> f].prev = a /\ [prev |-> a, fixed |-> f].fixed = f
OBVIOUS

(* ... a parenthesis after one of its kind is not.                         *)
LEMMA CopyRepeated ==
  ASSUME NEW text \in Seq(Token), NEW t \in Token,
         t.op \in {"(", ")"}, t.op = Copied(text).prev
  PROVE  Copied(Append(text, t)) = Copied(text)
<1>1. Copied(Append(text, t)) = Copy(Copied(text), t) /\ Copied(text) \in CopyState
  BY CopiedLaws
<1>2. Copy(Copied(text), t) = [prev |-> Copied(text).prev, fixed |-> Copied(text).fixed]
  BY DEF Copy
<1>3. \A s \in CopyState : [prev |-> s.prev, fixed |-> s.fixed] = s
  BY CopyStateFields DEF CopyState
<1>4. QED
  BY <1>1, <1>2, <1>3

(* What is copied is a text.                                               *)
LEMMA FixedTyped ==
  ASSUME NEW text \in Seq(Token)
  PROVE  Copied(text).fixed \in Seq(Token)
<1>1. Copied(text) \in CopyState
  BY CopiedLaws
<1>2. QED
  BY <1>1 DEF CopyState

(* A term is copied as it is, ...                                          *)
LEMMA CopyPlus ==
  ASSUME NEW text \in Seq(Token), NEW op \in Opers, NEW n \in Int
  PROVE  /\ Copied(Plus(text, op, n)).prev = "num"
         /\ Copied(Plus(text, op, n)).fixed = Plus(Copied(text).fixed, op, n)
<1>1. /\ Mark(op) \in Token /\ Mark(op).op \notin {"(", ")"}
      /\ Digits(n) \in Token /\ Digits(n).op \notin {"(", ")"} /\ Digits(n).op = "num"
  BY TokenFacts, MarkFacts DEF Mark, Digits, Opers
<1> DEFINE t == Append(text, Mark(op))
<1>2. t \in Seq(Token) /\ Copied(t).fixed = Append(Copied(text).fixed, Mark(op))
  BY <1>1, CopyPlain
<1> HIDE DEF t
<1>3. /\ Copied(Append(t, Digits(n))).prev = "num"
      /\ Copied(Append(t, Digits(n))).fixed = Append(Copied(t).fixed, Digits(n))
  BY <1>1, <1>2, CopyPlain
<1>4. QED
  BY <1>2, <1>3 DEF Plus, t

(* ... and so is the inside of a factor.                                   *)
LEMMA CopyInner ==
  ASSUME NEW text \in Seq(Token), NEW b \in LoopBounds
  PROVE  /\ Copied(InnerAfter(text, b)).prev = "num"
         /\ Copied(InnerAfter(text, b)).fixed = InnerAfter(Copied(text).fixed, b)
<1> DEFINE fix == Copied(text).fixed
           t0 == Append(text, Digits(b.base))
<1>1. /\ b.base \in Int /\ b.arg \in Int
  BY BoundNumbers
<1>2. -b.low \in Int
  BY BoundNumbers
<1>3. b.low \in Int
  BY BoundFacts
<1>4. "+" \in Opers /\ "-" \in Opers
  BY DEF Opers
<1>5. /\ t0 \in Seq(Token) /\ UpperAfter(text, b) \in Seq(Token)
      /\ DifferenceAfter(text, b) \in Seq(Token) /\ Digits(b.base) \in Token
  BY TermsAppended, AfterTyped
<1>6. Copied(t0).prev = "num" /\ Copied(t0).fixed = Append(fix, Digits(b.base))
  <2>1. Digits(b.base).op = "num" /\ Digits(b.base).op \notin {"(", ")"}
    BY DEF Digits
  <2>2. QED
    BY <1>5, <2>1, CopyPlain
<1> HIDE DEF t0, fix
<1>7. /\ Copied(UpperAfter(text, b)).prev = "num"
      /\ Copied(UpperAfter(text, b)).fixed = UpperAfter(fix, b)
  <2>1. CASE b.oper = ""
    BY <1>6, <2>1 DEF UpperAfter, t0
  <2>2. CASE b.oper # ""
    <3>1. /\ Copied(Plus(t0, b.oper, b.arg)).prev = "num"
          /\ Copied(Plus(t0, b.oper, b.arg)).fixed = Plus(Copied(t0).fixed, b.oper, b.arg)
      BY <1>1, <1>5, <2>2, OperMark, CopyPlus
    <3>2. QED
      BY <1>6, <2>2, <3>1 DEF UpperAfter, t0
  <2>3. QED
    BY <2>1, <2>2
<1>8. /\ Copied(DifferenceAfter(text, b)).prev = "num"
      /\ Copied(DifferenceAfter(text, b)).fixed = DifferenceAfter(fix, b)
  <2> DEFINE t1 == UpperAfter(text, b)
  <2>1. t1 \in Seq(Token) /\ Copied(t1).prev = "num" /\ Copied(t1).fixed = UpperAfter(fix, b)
    BY <1>5, <1>7
  <2> HIDE DEF t1
  <2>2. /\ Copied(Plus(t1, "+", -b.low)).prev = "num"
        /\ Copied(Plus(t1, "+", -b.low)).fixed = Plus(UpperAfter(fix, b), "+", -b.low)
    BY <1>2, <1>4, <2>1, CopyPlus
  <2>3. /\ Copied(Plus(t1, "-", b.low)).prev = "num"
        /\ Copied(Plus(t1, "-", b.low)).fixed = Plus(UpperAfter(fix, b), "-", b.low)
    BY <1>3, <1>4, <2>1, CopyPlus
  <2>4. QED
    BY <2>1, <2>2, <2>3 DEF DifferenceAfter, t1
<1>9. QED
  <2> DEFINE t2 == DifferenceAfter(text, b)
  <2>1. t2 \in Seq(Token) /\ Copied(t2).prev = "num" /\ Copied(t2).fixed = DifferenceAfter(fix, b)
    BY <1>5, <1>8
  <2> HIDE DEF t2
  <2>2. PICK one \in Int : one = 1
    OBVIOUS
  <2>3. /\ Copied(Plus(t2, "+", one)).prev = "num"
        /\ Copied(Plus(t2, "+", one)).fixed = Plus(DifferenceAfter(fix, b), "+", one)
    BY <1>4, <2>1, CopyPlus
  <2>4. QED
    BY <2>1, <2>2, <2>3 DEF InnerAfter, t2, fix

(* A factor stays as it is, ...                                            *)
LEMMA CopyFactor ==
  ASSUME NEW text \in Seq(Token), NEW b \in LoopBounds, Copied(text).prev # "("
  PROVE  /\ Copied(text \o Factor(b)).prev = ")"
         /\ Copied(text \o Factor(b)).fixed = Copied(text).fixed \o Factor(b)
<1> DEFINE t == Append(text, Mark("("))
           i == InnerAfter(t, b)
           fix == Copied(text).fixed
<1>1. /\ Mark("(") \in Token /\ Mark("(").op = "("
      /\ Mark(")") \in Token /\ Mark(")").op = ")"
  BY TokenFacts, MarkFacts DEF Mark
<1>2. fix \in Seq(Token)
  BY FixedTyped
<1>3. t \in Seq(Token) /\ Copied(t).fixed = Append(fix, Mark("("))
  BY <1>1, CopyPlain
<1>4. text \o Factor(b) = Append(i, Mark(")"))
  BY FactorAppended
<1>5. fix \o Factor(b) = Append(InnerAfter(Append(fix, Mark("(")), b), Mark(")"))
  BY <1>2, FactorAppended
<1> HIDE DEF t, fix
<1>6. i \in Seq(Token) /\ Copied(i).prev = "num" /\ Copied(i).fixed = InnerAfter(Copied(t).fixed, b)
  BY <1>3, AfterTyped, CopyInner
<1> HIDE DEF i
<1>7. /\ Copied(Append(i, Mark(")"))).prev = ")"
      /\ Copied(Append(i, Mark(")"))).fixed = Append(Copied(i).fixed, Mark(")"))
  BY <1>1, <1>6, CopyPlain
<1>8. QED
  BY <1>3, <1>4, <1>5, <1>6, <1>7 DEF fix

(* A sequence that is not empty is another and a last element.             *)
LEMMA LastOff ==
  ASSUME NEW S, NEW seq \in Seq(S), seq # << >>
  PROVE  \E f \in Seq(S), x \in S : seq = Append(f, x) /\ Len(f) = Len(seq) - 1
<1> DEFINE n == Len(seq)
           f == SubSeq(seq, 1, n - 1)
<1>1. n \in Nat \ {0}
  BY EmptySeq
<1>2. \A i \in 1..(n - 1) : seq[i] \in S
  BY <1>1, ElementOfSeq
<1>3. /\ f \in Seq(S) /\ Len(f) = n - 1
      /\ \A i \in 1..(n - 1) : f[i] = seq[i]
  <2>1. PICK one \in Int : one = 1
    OBVIOUS
  <2>2. n - 1 \in Int /\ \A i \in one..(n - 1) : seq[i] \in S
    BY <1>1, <1>2, <2>1
  <2>3. /\ SubSeq(seq, one, n - 1) \in Seq(S)
        /\ Len(SubSeq(seq, one, n - 1)) = IF one <= n - 1 THEN n - 1 - one + 1 ELSE 0
        /\ \A i \in 1..(n - 1 - one + 1) :
             SubSeq(seq, one, n - 1)[i] = seq[one + i - 1]
    <3> HIDE DEF n, f
    <3>1. QED
      BY <2>2, SubSeqProperties
  <2>4. f = SubSeq(seq, one, n - 1) /\ one + n - 1 = n
    BY <1>1, <2>1
  <2> HIDE DEF f
  <2>5. f \in Seq(S) /\ Len(f) = n - 1
    BY <1>1, <2>1, <2>3, <2>4
  <2>6. ASSUME NEW i \in 1..(n - 1) PROVE f[i] = seq[i]
    <3>1. i \in 1..(n - 1 - one + 1) /\ one + i - 1 = i
      BY <1>1, <2>1
    <3>2. QED
      BY <2>3, <2>4, <3>1
  <2>7. QED
    BY <2>5, <2>6
<1> HIDE DEF f
<1>4. seq[n] \in S
  BY <1>1, ElementOfSeq
<1>5. /\ Append(f, seq[n]) \in Seq(S) /\ Len(Append(f, seq[n])) = n
      /\ \A i \in 1..(n - 1) : Append(f, seq[n])[i] = f[i]
      /\ Append(f, seq[n])[n] = seq[n]
  BY <1>1, <1>3, <1>4, AppendProperties
<1>6. \A i \in 1..n : seq[i] = Append(f, seq[n])[i]
  BY <1>1, <1>3, <1>5
<1>7. seq = Append(f, seq[n])
  BY <1>5, <1>6, SeqEqual
<1>8. QED
  BY <1>3, <1>4, <1>7

(* ... and of a second parenthesis before a text nothing is left, ...      *)
LEMMA CopyOpened ==
  ASSUME NEW text \in Seq(Token), text # << >>, text[1] = Mark("(")
  PROVE  /\ << Mark("(") >> \o text \in Seq(Token)
         /\ Copied(<< Mark("(") >> \o text) = Copied(text)
<1> DEFINE M == Mark("(")
           Opened(t) == t \in Seq(Token) /\ t # << >> /\ t[1] = M
           Good(t) == Copied(<< M >> \o t) = Copied(t)
           Bad == {n \in Nat : \E t \in Seq(Token) : Opened(t) /\ ~ Good(t) /\ Len(t) = n}
<1>0. M \in Token /\ M.op = "("
  BY TokenFacts, MarkFacts DEF Mark
<1> HIDE DEF M
<1>1. ASSUME Bad # {} PROVE FALSE
  <2>1. PICK n \in Bad : \A k \in Bad : n <= k
    <3>1. Bad \in SUBSET Nat
      OBVIOUS
    <3>2. QED
      BY <3>1, <1>1, LeastNat
  <2>2. PICK t \in Seq(Token) : Opened(t) /\ ~ Good(t) /\ Len(t) = n
    BY <2>1
  <2>3. PICK f \in Seq(Token), x \in Token : t = Append(f, x) /\ Len(f) = Len(t) - 1
    BY <2>2, LastOff
  <2>4. CASE f = << >>
    <3>1. t = << x >> /\ x = M
      BY <2>2, <2>3, <2>4
    <3>2. << >> \in Seq(Token) /\ t = Append(<< >>, M) /\ << M >> \o t = Append(t, M)
      BY <1>0, <3>1
    <3>3. Copied(<< >>).prev = ""
      <4>1. Copied(<< >>) = CopyStart
        BY CopiedLaws
      <4>2. QED
        BY <4>1, CopyFields, ZenonT(30) DEF CopyStart
    <3>4. Copied(t).prev = "(" /\ t \in Seq(Token)
      BY <1>0, <3>2, <3>3, CopyPlain
    <3>5. Copied(Append(t, M)) = Copied(t)
      BY <1>0, <3>4, CopyRepeated
    <3>6. QED
      BY <2>2, <3>2, <3>5
  <2>5. CASE f # << >>
    <3>1. f[1] = M /\ Len(f) \in Nat /\ Len(f) = n - 1
      <4>1. Len(f) \in Nat \ {0}
        BY <2>5, EmptySeq
      <4>2. 1 \in 1..Len(f)
        BY <4>1
      <4>3. t[1] = f[1]
        BY <2>3, <4>2, AppendProperties
      <4>4. QED
        BY <2>2, <2>3, <4>1, <4>3
    <3>2. Opened(f)
      BY <2>5, <3>1
    <3>3. Good(f)
      <4>1. Len(f) \notin Bad
        <5>1. n \in Nat /\ ~ (n <= Len(f))
          BY <3>1
        <5> HIDE DEF Bad
        <5>2. QED
          BY <2>1, <5>1
      <4>2. QED
        BY <3>1, <3>2, <4>1
    <3>4. << M >> \in Seq(Token) /\ << M >> \o f \in Seq(Token)
      <4>1. << M >> \in Seq(Token)
        BY <1>0
      <4>2. QED
        BY <4>1, ConcatProperties
    <3>5. << M >> \o t = Append(<< M >> \o f, x)
      <4>1. << x >> \in Seq(Token) /\ t = f \o << x >>
        BY <2>3, AppendIsConcat
      <4>2. << M >> \o (f \o << x >>) = (<< M >> \o f) \o << x >>
        BY <3>4, <4>1, ConcatAssociative
      <4>3. (<< M >> \o f) \o << x >> = Append(<< M >> \o f, x)
        BY <3>4, AppendIsConcat
      <4>4. QED
        BY <4>1, <4>2, <4>3
    <3>6. Copied(Append(<< M >> \o f, x)) = Copy(Copied(<< M >> \o f), x)
      BY <3>4, CopiedLaws
    <3>7. Copied(t) = Copy(Copied(f), x)
      BY <2>3, CopiedLaws
    <3>8. QED
      BY <2>2, <3>3, <3>5, <3>6, <3>7
  <2>6. QED
    BY <2>4, <2>5
<1>2. Opened(text) /\ Len(text) \in Nat
  BY DEF M
<1>3. Good(text)
  BY <1>1, <1>2
<1>4. << M >> \o text \in Seq(Token)
  <2>1. << M >> \in Seq(Token)
    BY <1>0
  <2>2. QED
    BY <2>1, ConcatProperties
<1>5. QED
  BY <1>3, <1>4 DEF M

(* ... nor of a second one after it.                                       *)
LEMMA CopyParen ==
  ASSUME NEW text \in Seq(Token), text # << >>, text[1] = Mark("("), Copied(text).prev = ")"
  PROVE  /\ Paren(text) \in Seq(Token) /\ Paren(text) # << >> /\ Paren(text)[1] = Mark("(")
         /\ Copied(Paren(text)) = Copied(text)
<1> DEFINE t == << Mark("(") >> \o text
<1>1. /\ Mark(")") \in Token /\ Mark(")").op = ")" /\ Sym(")") = << Mark(")") >>
      /\ Mark("(") \in Token /\ Sym("(") = << Mark("(") >>
  BY TokenFacts, MarkFacts DEF Mark
<1>2. t \in Seq(Token) /\ Copied(t) = Copied(text)
  BY CopyOpened
<1>3. Len(t) = 1 + Len(text) /\ Len(text) \in Nat /\ t[1] = Mark("(")
  <2>1. << Mark("(") >> \in Seq(Token) /\ Len(<< Mark("(") >>) = 1 /\ << Mark("(") >>[1] = Mark("(")
    BY <1>1
  <2>2. QED
    BY <2>1, ConcatProperties
<1> HIDE DEF t
<1>4. Paren(text) = t \o << Mark(")") >>
  BY <1>1 DEF Paren, t
<1>5. t \o << Mark(")") >> = Append(t, Mark(")"))
  BY <1>1, <1>2, AppendIsConcat
<1>6. Copied(Append(t, Mark(")"))) = Copied(t)
  BY <1>1, <1>2, CopyRepeated
<1>7. /\ Append(t, Mark(")")) \in Seq(Token) /\ Append(t, Mark(")")) # << >>
      /\ Append(t, Mark(")"))[1] = t[1]
  <2>1. 1 \in 1..Len(t)
    BY <1>3
  <2>2. QED
    BY <1>1, <1>2, <2>1, AppendProperties
<1>8. QED
  BY <1>2, <1>3, <1>4, <1>5, <1>6, <1>7

-----------------------------------------------------------------------------
(* The text of a product, as far as it is printed: fixParens ends it with  *)
(* a closing parenthesis, and read up to there it is v, or v once the last *)
(* multiplication is taken off the stack.                                  *)
Product(text, v) ==
  /\ text \in Seq(Token) /\ text # << >> /\ text[1] = Mark("(")
  /\ Copied(text).prev = ")"
  /\ \E f \in Seq(Token) : Copied(text).fixed = Append(f, Mark(")"))
  /\ Pending(Shunted(Copied(text).fixed), NoText, NoNumbers, v)
  /\ \A k \in DOMAIN Shunted(Copied(text).fixed).stack :
       Precedence(Shunted(Copied(text).fixed).stack[k]) >= Precedence(Mark("*"))

(* A text that starts with another starts with what that starts with.      *)
LEMMA FirstOfConcat ==
  ASSUME NEW text \in Seq(Token), NEW t \in Seq(Token), text # << >>
  PROVE  text \o t \in Seq(Token) /\ text \o t # << >> /\ (text \o t)[1] = text[1]
<1>1. Len(text) \in Nat \ {0} /\ Len(t) \in Nat
  BY EmptySeq
<1>2. 1 \in 1..Len(text)
  BY <1>1
<1>3. text \o t \in Seq(Token) /\ Len(text \o t) = Len(text) + Len(t)
      /\ (text \o t)[1] = text[1]
  BY <1>2, ConcatProperties
<1>4. Len(text \o t) # 0
  BY <1>1, <1>3
<1>5. QED
  BY <1>3, <1>4, EmptySeq

(* A factor starts with a parenthesis.                                     *)
LEMMA FactorFirst ==
  ASSUME NEW b \in LoopBounds
  PROVE  Factor(b) \in Seq(Token) /\ Factor(b) # << >> /\ Factor(b)[1] = Mark("(")
<1>1. /\ Sym("(") \in Seq(Token) /\ Sym(")") \in Seq(Token) /\ Sym("(") = << Mark("(") >>
  BY TokenFacts, MarkFacts
<1>2. Inner(b) \in Seq(Token) /\ Factor(b) = Sym("(") \o Inner(b) \o Sym(")")
  BY FactorTyped
<1>3. Sym("(") # << >> /\ Sym("(")[1] = Mark("(")
  BY <1>1
<1> DEFINE p == Sym("(")
<1> HIDE DEF p
<1>4. /\ Sym("(") \o Inner(b) \in Seq(Token) /\ Sym("(") \o Inner(b) # << >>
      /\ (Sym("(") \o Inner(b))[1] = Mark("(")
  BY <1>1, <1>2, <1>3, FirstOfConcat
<1>5. QED
  BY <1>1, <1>2, <1>4, FirstOfConcat

(* Nothing is made of no text.                                             *)
LEMMA NoTextFacts ==
  /\ NoText \in Seq(Token) /\ NoNumbers \in Seq(Int) /\ Len(NoText) = 0
  /\ Copied(NoText).prev = "" /\ Copied(NoText).fixed = NoText
  /\ Shunted(NoText).stack = NoText /\ Reckoned(Shunted(NoText).out) = NoNumbers
  /\ \A t \in Seq(Token) : NoText \o t = t
<1>1. NoText \in Seq(Token) /\ NoNumbers \in Seq(Int) /\ Len(NoText) = 0
  BY DEF NoText, NoNumbers
<1>2. Copied(NoText) = CopyStart
  BY CopiedLaws DEF NoText
<1>3. CopyStart.prev = "" /\ CopyStart.fixed = NoText
  BY CopyFields, Zenon DEF CopyStart, NoText
<1>4. Shunted(NoText) = ShuntStart
  BY ShuntedLaws DEF NoText
<1>5. ShuntStart.stack = NoText /\ ShuntStart.out = NoText
  BY DEF ShuntStart, NoText
<1>6. Reckoned(NoText) = NoNumbers
  BY ReckonedLaws DEF NoText
<1>7. \A t \in Seq(Token) : NoText \o t = t
  BY ConcatEmptySeq DEF NoText
<1>8. QED
  BY <1>1, <1>2, <1>3, <1>4, <1>5, <1>6, <1>7

(* A factor alone is the number of points of its loop, ...                 *)
LEMMA ProductOne ==
  ASSUME NEW b \in LoopBounds
  PROVE  Product(Factor(b), Trips(b))
<1>1. Factor(b) \in Seq(Token) /\ Factor(b) # << >> /\ Factor(b)[1] = Mark("(")
  BY FactorFirst
<1>2. NoText \o Factor(b) = Factor(b)
  BY <1>1, NoTextFacts
<1>3. Copied(Factor(b)).prev = ")" /\ Copied(Factor(b)).fixed = Factor(b)
  <2>1. Copied(NoText).prev # "("
    BY NoTextFacts
  <2>2. QED
    BY <1>2, <2>1, NoTextFacts, CopyFactor
<1>4. /\ Shunted(Factor(b)).stack = NoText
      /\ Reckoned(Shunted(Factor(b)).out) = Append(NoNumbers, Trips(b))
  BY <1>2, NoTextFacts, FactorRead
<1>5. \E f \in Seq(Token) : Factor(b) = Append(f, Mark(")"))
  <2>1. Append(NoText, Mark("(")) \in Seq(Token)
    <3>1. NoText \in Seq(Token) /\ Mark("(") \in Token
      BY TokenFacts, MarkFacts, NoTextFacts
    <3>2. QED
      BY <3>1, AppendProperties
  <2>2. InnerAfter(Append(NoText, Mark("(")), b) \in Seq(Token)
    BY <2>1, AfterTyped
  <2>3. Factor(b) = Append(InnerAfter(Append(NoText, Mark("(")), b), Mark(")"))
    BY <1>2, NoTextFacts, FactorAppended
  <2>4. QED
    BY <2>2, <2>3
<1>6. Pending(Shunted(Factor(b)), NoText, NoNumbers, Trips(b))
  BY <1>4 DEF Pending
<1>7. DOMAIN Shunted(Factor(b)).stack = {}
  BY <1>4 DEF NoText
<1>8. QED
  BY <1>1, <1>3, <1>5, <1>6, <1>7 DEF Product

(* The left operand of a product, in parentheses or not, is copied alike.  *)
LEMMA LeftCopied ==
  ASSUME NEW text \in Seq(Token), NEW b \in LoopBounds,
         text # << >>, text[1] = Mark("("), Copied(text).prev = ")"
  PROVE  \E x \in Seq(Token) :
           /\ x # << >> /\ x[1] = Mark("(") /\ Copied(x) = Copied(text)
           /\ Times(text, Factor(b)) = Append(x, Mark("*")) \o Factor(b)
<1>1. Sym("*") = << Mark("*") >> /\ Mark("*") \in Token
  BY TokenFacts, MarkFacts
<1>2. /\ Paren(text) \in Seq(Token) /\ Paren(text) # << >> /\ Paren(text)[1] = Mark("(")
      /\ Copied(Paren(text)) = Copied(text)
  BY CopyParen
<1>3. \A x \in Seq(Token) : Append(x, Mark("*")) = x \o Sym("*")
  BY <1>1, AppendIsConcat
<1>4. \/ Times(text, Factor(b)) = text \o Sym("*") \o Factor(b)
      \/ Times(text, Factor(b)) = Paren(text) \o Sym("*") \o Factor(b)
  BY DEF Times
<1>5. QED
  BY <1>2, <1>3, <1>4

(* ... and one more multiplies it by those of that loop ...                *)
LEMMA ProductMore ==
  ASSUME NEW text, NEW v \in Int, NEW b \in LoopBounds, Product(text, v)
  PROVE  Product(Times(text, Factor(b)), v * Trips(b))
<1> DEFINE fix == Copied(text).fixed
           star == Append(fix, Mark("*"))
           t == star \o Factor(b)
           new == Times(text, Factor(b))
           w == v * Trips(b)
<1>1. /\ text \in Seq(Token) /\ text # << >> /\ text[1] = Mark("(") /\ Copied(text).prev = ")"
      /\ Pending(Shunted(fix), NoText, NoNumbers, v)
      /\ \A k \in DOMAIN Shunted(fix).stack :
           Precedence(Shunted(fix).stack[k]) >= Precedence(Mark("*"))
  BY DEF Product
<1>2. /\ Mark("*") \in Token /\ Mark("*").op = "*" /\ "*" \in Opers
      /\ Mark(")") \in Token /\ Mark("(") \in Token
  BY TokenFacts, MarkFacts DEF Mark, Opers
<1>3. fix \in Seq(Token) /\ star \in Seq(Token)
  BY <1>1, <1>2, FixedTyped
<1>4. PICK x \in Seq(Token) :
        /\ x # << >> /\ x[1] = Mark("(") /\ Copied(x) = Copied(text)
        /\ new = Append(x, Mark("*")) \o Factor(b)
  BY <1>1, LeftCopied
<1> DEFINE y == Append(x, Mark("*"))
<1>5. /\ y \in Seq(Token) /\ Copied(y).prev = "*" /\ Copied(y).fixed = star
  BY <1>2, <1>4, CopyPlain
<1>6. y # << >> /\ y[1] = Mark("(")
  <2>1. Mark("*") \in Token /\ << Mark("*") >> \in Seq(Token) /\ y = x \o << Mark("*") >>
    BY <1>2, AppendIsConcat
  <2>2. QED
    BY <1>4, <2>1, FirstOfConcat
<1> HIDE DEF y
<1>7. new \in Seq(Token) /\ new # << >> /\ new[1] = Mark("(")
  <2>1. new = y \o Factor(b)
    BY <1>4 DEF y
  <2>2. QED
    BY <1>5, <1>6, <2>1, FactorFirst, FirstOfConcat
<1>8. Copied(new).prev = ")" /\ Copied(new).fixed = t
  <2>1. new = y \o Factor(b)
    BY <1>4 DEF y
  <2>2. Copied(y).prev # "("
    BY <1>5
  <2>3. QED
    BY <1>5, <2>1, <2>2, CopyFactor, ZenonT(30)
<1>9. \E f \in Seq(Token) : t = Append(f, Mark(")"))
  <2>1. Append(star, Mark("(")) \in Seq(Token)
    BY <1>2, <1>3
  <2>2. InnerAfter(Append(star, Mark("(")), b) \in Seq(Token)
    BY <2>1, AfterTyped
  <2>3. t = Append(InnerAfter(Append(star, Mark("(")), b), Mark(")"))
    BY <1>3, FactorAppended
  <2>4. QED
    BY <2>2, <2>3
<1>10. /\ Shunted(star).stack = Append(NoText, Mark("*"))
       /\ Reckoned(Shunted(star).out) = Append(NoNumbers, v)
  <2>1. Shunted(fix) \in ShuntState /\ Shunted(star) = Shunt(Shunted(fix), Mark("*"))
    BY <1>2, <1>3, ShuntedLaws
  <2>2. NoText = << >> /\ NoText \in Seq(Token) /\ NoNumbers \in Seq(Int)
    BY NoTextFacts DEF NoText
  <2>3. \A k \in DOMAIN Shunted(fix).stack :
          k > Len(NoText) => Precedence(Shunted(fix).stack[k]) >= Precedence(Mark("*"))
    BY <1>1
  <2>4. NoText = << >> \/ NoText[Len(NoText)].op = "("
    BY <2>2
  <2> DEFINE s == Shunted(fix)
  <2> HIDE DEF fix, star, s
  <2>5. Pending(s, NoText, NoNumbers, v) /\ s \in ShuntState
    BY <1>1, <2>1 DEF s
  <2>6. \A k \in DOMAIN s.stack :
          k > Len(NoText) => Precedence(s.stack[k]) >= Precedence(Mark("*"))
    BY <2>3 DEF s
  <2>7. /\ Shunt(s, Mark("*")).stack = Append(NoText, Mark("*"))
        /\ Reckoned(Shunt(s, Mark("*")).out) = Append(NoNumbers, v)
    <3>1. "*" \in Opers /\ NoText \in Seq(Token) /\ NoNumbers \in Seq(Int)
      BY <1>2, <2>2
    <3>2. QED
      BY <2>4, <2>5, <2>6, <3>1, AfterOper
  <2>8. QED
    BY <2>1, <2>7 DEF s
<1>11. /\ Shunted(t).stack = Append(NoText, Mark("*"))
       /\ Reckoned(Shunted(t).out) = Append(Append(NoNumbers, v), Trips(b))
  BY <1>3, <1>10, FactorRead
<1>12. Trips(b) \in Int
  BY TripsTyped
<1> HIDE DEF t, new, fix, star
<1>13. Pending(Shunted(t), NoText, NoNumbers, w)
  <2>1. Apply(Mark("*").op, v, Trips(b)) = << w >>
    BY <1>2, <1>12, ApplySum
  <2>2. Waits(Shunted(t), NoText, NoNumbers, w, Mark("*"), v, Trips(b))
    BY <1>2, <1>11, <2>1 DEF Waits
  <2>3. QED
    BY <1>2, <1>12, <2>2 DEF Pending
<1>14. \A k \in DOMAIN Shunted(t).stack :
         Precedence(Shunted(t).stack[k]) >= Precedence(Mark("*"))
  <2>1. Shunted(t).stack = << Mark("*") >>
    BY <1>11 DEF NoText
  <2>2. ASSUME NEW k \in DOMAIN Shunted(t).stack PROVE Shunted(t).stack[k] = Mark("*")
    BY <2>1
  <2>3. Precedence(Mark("*")) >= Precedence(Mark("*"))
    BY <1>2, OperPrecedence
  <2>4. QED
    BY <2>2, <2>3
<1>15. Product(new, w)
  BY <1>7, <1>8, <1>9, <1>13, <1>14 DEF Product
<1>16. QED
  BY <1>15 DEF new

(* ... and so for any number of loops, by induction on their number.       *)
LEMMA TextIsProduct ==
  ASSUME NEW bs \in Seq(LoopBounds), bs # << >>
  PROVE  Product(SizeText(bs), Extent(bs))
<1> DEFINE Good(l) == Product(SizeText(l), Extent(l))
           Bad == {n \in Nat : \E l \in Seq(LoopBounds) : l # << >> /\ ~ Good(l) /\ Len(l) = n}
<1>1. ASSUME Bad # {} PROVE FALSE
  <2>1. PICK n \in Bad : \A k \in Bad : n <= k
    <3>1. Bad \in SUBSET Nat
      OBVIOUS
    <3>2. QED
      BY <3>1, <1>1, LeastNat
  <2>2. PICK l \in Seq(LoopBounds) : l # << >> /\ ~ Good(l) /\ Len(l) = n
    BY <2>1
  <2>3. PICK f \in Seq(LoopBounds), b \in LoopBounds : l = Append(f, b) /\ Len(f) = Len(l) - 1
    BY <2>2, LastOff
  <2>4. SizeText(l) = AddFactor(SizeText(f), b) /\ Extent(l) = Extent(f) * Trips(b)
    BY <2>3, SizeTextLaws, ExtentLaws DEF Grown
  <2>5. CASE f = << >>
    <3>1. SizeText(f) = << >>
      BY <2>5, SizeTextLaws DEF NoText
    <3>2. SizeText(l) = Factor(b)
      BY <2>4, <3>1 DEF AddFactor
    <3>3. Extent(f) = 1
      BY <2>5, ExtentLaws DEF One
    <3>4. Trips(b) \in Int
      BY TripsTyped
    <3>5. Extent(l) = Trips(b)
      BY <2>4, <3>3, <3>4
    <3>6. QED
      BY <2>2, <3>2, <3>5, ProductOne
  <2>6. CASE f # << >>
    <3>1. Good(f)
      <4>1. Len(f) \in Nat /\ n \in Nat /\ ~ (n <= Len(f))
        BY <2>2, <2>3
      <4>2. Len(f) \notin Bad
        <5> HIDE DEF Bad
        <5>1. QED
          BY <2>1, <4>1
      <4>3. QED
        BY <2>6, <4>1, <4>2
    <3>2. SizeText(f) # << >>
      BY <3>1 DEF Product
    <3>3. Extent(f) \in Int
      BY ExtentLaws DEF Numbers
    <3>4. Product(Times(SizeText(f), Factor(b)), Extent(f) * Trips(b))
      BY <3>1, <3>3, ProductMore
    <3>5. SizeText(l) = Times(SizeText(f), Factor(b))
      BY <2>4, <3>2 DEF AddFactor
    <3>6. QED
      BY <2>2, <2>4, <3>4, <3>5
  <2>7. QED
    BY <2>5, <2>6
<1>2. Len(bs) \in Nat
  OBVIOUS
<1>3. QED
  BY <1>1, <1>2

(* The parser reads from the text of a space the number of its points.     *)
LEMMA ReadRight ==
  ASSUME NEW bs \in Seq(LoopBounds)
  PROVE  SizeOf(bs) = Extent(bs)
<1> DEFINE text == FixParens(SizeText(bs))
           v == Extent(bs)
           post == Unload(Shunted(text), {}).out
<1>1. CASE bs = << >>
  <2>1. Copied(SizeText(bs)).fixed = << >>
    <3>1. SizeText(bs) = NoText
      BY <1>1, SizeTextLaws
    <3>2. QED
      BY <3>1, NoTextFacts DEF NoText
  <2>2. SizeOf(bs) = 1
    BY <2>1 DEF SizeOf, FixParens
  <2>3. Extent(bs) = 1
    BY <1>1, ExtentLaws DEF One
  <2>4. QED
    BY <2>2, <2>3
<1>2. CASE bs # << >>
  <2>1. Product(SizeText(bs), v) /\ v \in Int
    BY <1>2, TextIsProduct, ExtentLaws DEF Numbers
  <2>2. PICK f \in Seq(Token) : text = Append(f, Mark(")"))
    BY <2>1 DEF Product, FixParens
  <2>3. Pending(Shunted(text), NoText, NoNumbers, v)
    BY <2>1 DEF Product, FixParens
  <2>4. Mark(")") \in Token /\ ~ IsNum(Mark(")"))
    BY TokenFacts, MarkFacts DEF Mark, IsNum
  <2> HIDE DEF v
  <2>5. text \in Seq(Token) /\ text # << >> /\ Last(text) = Mark(")")
    <3> HIDE DEF text
    <3>1. Append(f, Mark(")")) \in Seq(Token) /\ Append(f, Mark(")")) # << >>
          /\ Append(f, Mark(")"))[Len(Append(f, Mark(")")))] = Mark(")")
      BY <2>4, AppendProperties
    <3>2. QED
      BY <2>2, <3>1 DEF Last
  <2>6. SizeOf(bs) = Eval(text)
    BY <2>5 DEF SizeOf
  <2> HIDE DEF text
  <2>7. Tokens(text) = text
    BY <2>4, <2>5 DEF Tokens
  <2>8. Shunted(text) \in ShuntState
    BY <2>5, ShuntedLaws
  <2>9. Unload(Shunted(text), {}) \in ShuntState /\ Reckoned(post) = Append(NoNumbers, v)
    <3>1. {} \in SUBSET (1..Len(Shunted(text).stack)) /\ Len(NoText) \in {} \union {0}
          /\ \A k \in {} : k <= Len(NoText)
      BY NoTextFacts
    <3>2. NoText \in Seq(Token) /\ NoNumbers \in Seq(Int)
      BY NoTextFacts
    <3> DEFINE s == Shunted(text)
               no == {}
    <3>3. s \in ShuntState /\ Pending(s, NoText, NoNumbers, v)
      BY <2>3, <2>8
    <3>4. no \in SUBSET (1..Len(s.stack)) /\ Len(NoText) \in no \union {0}
          /\ \A k \in no : k <= Len(NoText)
      BY <3>1
    <3> HIDE DEF s, no
    <3>5. Unload(s, no) \in ShuntState /\ Reckoned(Unload(s, no).out) = Append(NoNumbers, v)
      BY <2>1, <3>2, <3>3, <3>4, Flush, SMTT(30)
    <3>6. QED
      BY <3>5 DEF s, no
  <2>10. post # << >>
    <3>1. Reckoned(<< >>) = << >> /\ Append(NoNumbers, v) # << >>
      BY <2>1, ReckonedLaws DEF NoNumbers
    <3>2. QED
      BY <2>9, <3>1
  <2>11. Last(Append(NoNumbers, v)) = v
    BY DEF NoNumbers, Last
  <2>12. Eval(text) = Compute(post)
    BY <2>7, <2>10 DEF Eval, InfixToPostfix
  <2>13. QED
    BY <2>6, <2>9, <2>11, <2>12 DEF Compute, v
<1>3. QED
  BY <1>1, <1>2

-----------------------------------------------------------------------------
(* The walk.                                                               *)

(* The walk does not look at the bounds: it is a walk of MemAlloc.         *)
LEMMA IsWalk == SizedSpec => Spec
<1>1. SizedInit => Init
  BY DEF SizedInit
<1>2. [SizedNext]_sizedVars => [Next]_vars
  BY DEF SizedNext, sizedVars
<1>3. QED
  BY <1>1, <1>2, PTL DEF SizedSpec, Spec

(* The sizes a client's bounds were evaluated to never change.             *)
Evaluated == bounds \in Bounds /\ size = [d \in Data |-> SizeOf(bounds[d])]

LEMMA SizesStay == SizedSpec => []Evaluated
<1>1. SizedInit => Evaluated
  BY DEF SizedInit, Evaluated
<1>2. Evaluated /\ [SizedNext]_sizedVars => Evaluated'
  <2> SUFFICES ASSUME Evaluated, [SizedNext]_sizedVars PROVE Evaluated'
    OBVIOUS
  <2>1. [Next]_vars /\ bounds' = bounds
    BY DEF SizedNext, sizedVars
  <2>2. size' = size
    BY <2>1 DEF Next, Enter, ProcessOutput, ProcessInput, Exit, Finish, Returned,
                vars, graph
  <2>3. QED
    BY <2>1, <2>2 DEF Evaluated
<1>3. QED
  BY <1>1, <1>2, PTL DEF SizedSpec

(* For every graph and all bounds: the sizes the walk works with, read     *)
(* from texts fixParens has taken parentheses out of, are the numbers of   *)
(* points of the loops.                                                    *)
THEOREM SizesAreExact == SizedSpec => []SizesExact
<1>1. Evaluated => SizesExact
  <2> SUFFICES ASSUME Evaluated, NEW d \in Data PROVE size[d] = Extent(bounds[d])
    BY DEF SizesExact
  <2>1. size[d] = SizeOf(bounds[d])
    BY DEF Evaluated
  <2>2. bounds[d] \in Seq(LoopBounds)
    BY BoundsAssumption DEF Evaluated
  <2>3. QED
    BY <2>1, <2>2, ReadRight
<1>2. QED
  BY <1>1, SizesStay, PTL

(* ... and every buffer has room for all points of all the spaces kept in  *)
(* it: a walk over any number of computations and spaces, with entries     *)
(* shared, resized and given back, loses no space on the way.              *)
THEOREM BuffersAreLargeEnough == SizedSpec => []BuffersFit
<1>1. SizesExact /\ Annotated => BuffersFit
  <2> SUFFICES ASSUME SizesExact, Annotated, phase = "done",
                      NEW d \in Temps, NEW e \in Temps,
                      attrs[d].entry = attrs[e].entry
               PROVE  Extent(bounds[e]) <= attrs[d].size
    BY DEF BuffersFit
  <2>1. attrs[d] = attrs[e] /\ size[e] <= attrs[e].size
    BY DEF Annotated
  <2>2. e \in Data
    BY DEF Temps
  <2>3. size[e] = Extent(bounds[e])
    BY <2>2 DEF SizesExact
  <2>4. QED
    BY <2>1, <2>3
<1>2. QED
  BY <1>1, IsWalk, AllAnnotated, SizesAreExact, PTL
=============================================================================
