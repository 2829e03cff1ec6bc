------------------------------ MODULE MCFusion ------------------------------
(***************************************************************************)
(* Small programs for Fusion.                                              *)
(***************************************************************************)
EXTENDS DataReduce

CONSTANTS I, J, K

(* Which of n statements a statement reads from: earlier ones.             *)
Reads(n) ==
  {e \in [1..n -> SUBSET (1..(n - 1))] : \A c \in 1..n : e[c] \subseteq 1..(c - 1)}

(* n statements with loop nests of the set, that read point by point.      *)
Plain(n, nests) ==
  LET from == Reads(n)
  IN {[c \in 1..n |->
      [ nest |-> q[c], low |-> [k \in DOMAIN q[c] |-> 0], high |-> 1,
        dims |-> Range(q[c]),
        reads |-> {[of |-> p, off |-> [i \in Iters |-> 0]] : p \in e[c]} ]] :
     q \in [1..n -> nests], e \in from}

(* A stencil: offsets between two bounds along one of the loops of hood.   *)
Stencil(hood, from, to) ==
  {[i \in Iters |-> IF i = h THEN v ELSE 0] : h \in hood, v \in from..to}

(* The lower bound in direction i of every statement, where a[<< p, c >>]  *)
(* are the offsets c reads p with: its neighbours have all been written.   *)
Tight(n, a, i) ==
  FoldLeft(LAMBDA low, c :
             Append(low, Max({0} \union {low[p] - Min({off[i] : off \in a[<< p, c >>]}) :
                                           p \in {x \in 1..(c - 1) : a[<< x, c >>] # {}}})),
           << >>, [c \in 1..n |-> c])

(* n statements of one nest that read with stencils.                       *)
Stencils(n, nest, hoods, from, to, high) ==
  LET Point == {[i \in Iters |-> 0]}
      Shapes == {{}, Point} \union {Point \union Stencil(h, from, to) : h \in hoods}
      Pairs == {x \in (1..n) \X (1..n) : x[1] < x[2]}
      program(a) ==
        LET lows == [k \in DOMAIN nest |-> Tight(n, a, nest[k])]
        IN  [c \in 1..n |->
               [ nest |-> nest, low |-> [k \in DOMAIN nest |-> lows[k][c]],
                 high |-> high, dims |-> Range(nest),
                 reads |-> UNION {{[of |-> p, off |-> off] : off \in a[<< p, c >>]} :
                                    p \in 1..(c - 1)} ]]
  IN  {program(a) : a \in [Pairs -> Shapes]}

(* No statement stands alone.                                              *)
Linked(q) == \A c \in DOMAIN q : q[c].reads # {} \/ \E s \in DOMAIN q : \E r \in q[s].reads : r.of = c

RegularPrograms ==
  {q \in Plain(4, {<< >>, << I >>, << I, J >>, << K >>}) : Linked(q)}
    \union Plain(3, {<< >>, << I >>, << I, J >>, << J >>, << K >>})
    \union Stencils(4, << I >>, {{I}}, -1, 1, 5)
    \union Stencils(3, << I, J, K >>, {{I}, {J}, {I, J}}, -1, 1, 3)
    \union Stencils(2, << I >>, {{I}}, -1, 0, 5)
    \union Stencils(2, << I, J >>, {{I}, {J}, {I, J}}, -1, 0, 3)

(* These are of the kinds for which FlowProofs proves that loops are       *)
(* shifted by enough.                                                      *)
ASSUME FusionProgramsAreRegular == \A q \in RegularPrograms : Regular(q)

(* The statements in D get two more loops, along which they read point by   *)
(* point.                                                                  *)
Deeper(q, D) ==
  [c \in DOMAIN q |->
     IF c \notin D THEN q[c]
     ELSE [q[c] EXCEPT !.nest = << I, J, K >>, !.low = << @[1], 0, 0 >>, !.dims = {I, J, K}]]

(* The first statement has one loop and others have three: their shifts are *)
(* as short as its nest.                                                   *)
MixedPrograms ==
  UNION {{Deeper(q, D) :
            D \in {X \in SUBSET (2..3) :
                   \A c \in 1..3 : \A r \in q[c].reads : r.of \in X => c \in X}} :
         q \in Stencils(3, << I >>, {{I}}, -1, 1, 3)}

FusionPrograms == RegularPrograms \union MixedPrograms

(* Forward differences.                                                    *)
ForwardPrograms == Stencils(4, << I >>, {{I}}, 0, 1, 5)

(* Two statements over I and J, where the second one begins at low along J  *)
(* and reads the first at the offsets of one of the sets.                  *)
InARow(lows, shapes) ==
  {<< [ nest |-> << I, J >>, low |-> << 0, 0 >>, high |-> 3, dims |-> {I, J}, reads |-> {} ],
      [ nest |-> << I, J >>, low |-> low, high |-> 3, dims |-> {I, J},
        reads |-> {[of |-> 1, off |-> (I :> o[1]) @@ (J :> o[2]) @@ (K :> 0)] : o \in S} ] >> :
     low \in lows, S \in shapes}

(* A forward difference along I of a statement that begins later along J:    *)
(* its shift is dropped if the components cancel.                          *)
LatePrograms == InARow({<< 0, 0 >>, << 0, 1 >>}, {{<< 0, 0 >>, << 1, 0 >>}})

(* Reads along a diagonal: the distances cancel.                           *)
DiagonalPrograms == InARow({<< 1, 0 >>}, {{<< 0, 0 >>}, {<< -1, 1 >>}})

(* Two loops over I, and statements over J only.                           *)
NamePrograms == Plain(4, {<< >>, << I >>, << I, J >>, << J >>})

(* A computation without loops among computations in one, every read of a  *)
(* space in the loops that index it.                                       *)
LoopPrograms ==
  {p \in Plain(3, {<< >>, << I >>}) :
     \A c \in DOMAIN p : \A r \in p[c].reads : p[r.of].dims \subseteq Range(p[c].nest)}
=============================================================================
