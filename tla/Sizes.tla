-------------------------------- MODULE Sizes --------------------------------
(***************************************************************************)
(* The size of a data space: the expression that Space::size prints from   *)
(* the bounds of its loops (src/src/pdfg/GraphIL.hpp), what fixParens      *)
(* makes of its text, and the number Parser::eval reads from it.           *)
(*                                                                         *)
(* Nothing but text passes from one to the next, so that they have to      *)
(* agree on precedence and parentheses.  A text is a sequence of tokens; a *)
(* named constant is the token of its value.                               *)
(***************************************************************************)
EXTENDS Integers, Sequences, SequencesExt

(* Bounds low <= i < up or low <= i <= up: low is a literal, up a constant  *)
(* or an operation of two.                                                 *)
BoundSpace(lows, bases, opers, args) ==
  [low : lows, base : bases, oper : opers, arg : args, closed : BOOLEAN]

(* All of them; constants are natural numbers, and no divisor is zero.     *)
LoopBounds ==
  {b \in BoundSpace(Int, Nat, {"", "+", "-", "/"}, Nat) : b.oper = "/" => b.arg > 0}

Num(n) == << [op |-> "num", val |-> n] >>
Sym(s) == << [op |-> s, val |-> 0] >>

IsNum(t) == t.op = "num"

-----------------------------------------------------------------------------
(* Space::size, and the way Math prints an operation.                      *)

Paren(text) == Sym("(") \o text \o Sym(")")

Upper(b) ==
  IF b.oper = "" THEN Num(b.base) ELSE Num(b.base) \o Sym(b.oper) \o Num(b.arg)

(* "- 0" is not printed, and "- -2" is printed "+2".                       *)
Difference(b) ==
  CASE b.low = 0 -> Upper(b)
    [] b.low < 0 -> Upper(b) \o Sym("+") \o Num(-b.low)
    [] OTHER     -> Upper(b) \o Sym("-") \o Num(b.low)

Factor(b) == Paren(IF b.closed THEN Difference(b) \o Sym("+") \o Num(1)
                               ELSE Difference(b))

(* The left operand of a product is put in parentheses if it has a sum in  *)
(* it anywhere, those in parentheses of their own included.                *)
Times(text, factor) ==
  (IF \E k \in DOMAIN text : text[k].op \in {"+", "-"} THEN Paren(text) ELSE text)
    \o Sym("*") \o factor

AddFactor(text, b) == IF text = << >> THEN Factor(b) ELSE Times(text, Factor(b))

SizeText(bounds) == FoldLeft(AddFactor, << >>, bounds)

-----------------------------------------------------------------------------
(* fixParens: of parentheses of one kind in a row only the first is kept,  *)
(* whether or not their partners are in a row, too.                        *)

(* Mutant: all parentheses go.                                            *)
FixParens_All(text) == SelectSeq(text, LAMBDA t : t.op \notin {"(", ")"})

Copy(s, t) ==
  [ prev  |-> t.op,
    fixed |-> IF t.op \in {"(", ")"} /\ t.op = s.prev THEN s.fixed ELSE Append(s.fixed, t) ]

Copied(text) == FoldLeft(Copy, [prev |-> "", fixed |-> << >>], text)

FixParens(text) == Copied(text).fixed

-----------------------------------------------------------------------------
(* Parser::eval.                                                           *)

(* A number ends at the character after it: one at the end of the text is  *)
(* not made a token.                                                       *)
Tokens(text) == IF text # << >> /\ IsNum(Last(text)) THEN Front(text) ELSE text

Precedence(t) ==
  CASE t.op = "^" -> 3
    [] t.op \in {"*", "/"} -> 2
    [] t.op \in {"+", "-"} -> 1
    [] OTHER -> -1

(* What is above the topmost of some places of the stack goes to the output. *)
Unload(s, places) ==
  LET n == Max(places \union {0})
  IN  [ stack |-> SubSeq(s.stack, 1, n),
        out   |-> s.out \o Reverse(SubSeq(s.stack, n + 1, Len(s.stack))) ]

Operand(s, t) == [s EXCEPT !.out = Append(@, t)]

Open(s, t) == [s EXCEPT !.stack = Append(@, t)]

Close(s) ==
  LET u == Unload(s, {n \in DOMAIN s.stack : s.stack[n].op = "("})
  IN  [u EXCEPT !.stack = IF @ = << >> THEN @ ELSE Front(@)]

(* Mutant: operators of the same precedence wait for each other.          *)
Operator_RightFirst(s, t) ==
  Open(Unload(s, {n \in DOMAIN s.stack : Precedence(s.stack[n]) <= Precedence(t)}), t)

Operator(s, t) ==
  Open(Unload(s, {n \in DOMAIN s.stack : Precedence(s.stack[n]) < Precedence(t)}), t)

Shunt(s, t) ==
  CASE IsNum(t)   -> Operand(s, t)
    [] t.op = "(" -> Open(s, t)
    [] t.op = ")" -> Close(s)
    [] OTHER      -> Operator(s, t)

Shunted(tokens) == FoldLeft(Shunt, [stack |-> << >>, out |-> << >>], tokens)

InfixToPostfix(tokens) == Unload(Shunted(tokens), {}).out

(* Division of C++ drops the fraction.                                     *)
Magnitude(x) == IF x < 0 THEN -x ELSE x

Quotient(x, y) ==
  LET q == Magnitude(x) \div Magnitude(y)
  IN  IF x < 0 <=> y < 0 THEN q ELSE -q

(* Of a symbol that is no operator the operands are lost.  Division by     *)
(* zero, which ends the program, is not in the texts of LoopBounds.        *)
Apply(op, x, y) ==
  CASE op = "+" -> << x + y >>
    [] op = "-" -> << x - y >>
    [] op = "*" -> << x * y >>
    [] op = "/" /\ y # 0 -> << Quotient(x, y) >>
    [] op = "^" -> << x ^ y >>
    [] OTHER -> << >>

(* An operator that lacks an operand is passed over.                       *)
Reckon(s, t) ==
  LET n == Len(s)
  IN  IF IsNum(t) THEN Append(s, t.val)
      ELSE IF n > 1 THEN SubSeq(s, 1, n - 2) \o Apply(t.op, s[n - 1], s[n])
      ELSE s

Reckoned(postfix) == FoldLeft(Reckon, << >>, postfix)

(* The top of an empty stack is undefined; SizeText leaves one number.     *)
Compute(postfix) == Last(Reckoned(postfix))

Eval(text) ==
  LET postfix == InfixToPostfix(Tokens(text))
  IN  IF postfix = << >> THEN 0 ELSE Compute(postfix)

(* process(): a space without bounds is a scalar.                          *)
SizeOf(bounds) ==
  LET text == FixParens(SizeText(bounds))
  IN  IF text = << >> THEN 1 ELSE Eval(text)

-----------------------------------------------------------------------------
(* What the size is meant to be: the number of points of the loops.        *)

UpperValue(b) ==
  CASE b.oper = ""  -> b.base
    [] b.oper = "+" -> b.base + b.arg
    [] b.oper = "-" -> b.base - b.arg
    [] OTHER        -> b.base \div b.arg

Trips(b) == UpperValue(b) - b.low + (IF b.closed THEN 1 ELSE 0)

Extent(bounds) == FoldLeft(LAMBDA n, b : n * Trips(b), 1, bounds)
=============================================================================
