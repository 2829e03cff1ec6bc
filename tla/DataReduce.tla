----------------------------- MODULE DataReduce -----------------------------
(***************************************************************************)
(* The contraction of temporaries (DataReduceVisitor in                    *)
(* src/src/pdfg/Visitor.hpp) once all computations are fused: a space that *)
(* is written and read by one fused node shrinks to a scalar or to a line, *)
(* by the offsets of its accesses alone.                                   *)
(*                                                                         *)
(* The decision about one space does not look at another one, so that a    *)
(* behaviour contracts one space: the client has named the others outputs. *)
(***************************************************************************)
EXTENDS Fusion

VARIABLES
  space,      (* the statement whose space was contracted, 0: none yet     *)
  kept        (* the iterators that still index it                         *)

reduceVars == << vars, space, kept >>

-----------------------------------------------------------------------------
(* The offsets along i of all accesses to the space s writes: the write has *)
(* none, and children of the node count like the node itself.              *)
AccessOffsets(s, i) ==
  {0} \union UNION {{r.off[i] : r \in {x \in prog[c].reads : x.of = s}} : c \in Stmts}

Magnitude(n) == IF n < 0 THEN -n ELSE n

(* Mutant: the largest offset, so that negative ones do not count.        *)
AbsMax_Signed(s, i) == {Max(AccessOffsets(s, i))}

(* absmax keeps the offset of largest magnitude with its sign.  Of two that *)
(* differ in their sign the last one stays, in the order of a map: either. *)
AbsMax(s, i) ==
  {n \in AccessOffsets(s, i) :
     \A m \in AccessOffsets(s, i) : Magnitude(m) <= Magnitude(n)}

MaxTuples(s) ==
  {t \in [prog[s].dims -> UNION {AbsMax(s, i) : i \in prog[s].dims}] :
     \A i \in prog[s].dims : t[i] \in AbsMax(s, i)}

(* enter(DataNode), with the tuple of distances t, for a space declared    *)
(* with the iterator first in front: a scalar if they sum up to zero, a    *)
(* line if only the first of them is not zero, else the space stays.       *)
Contracted(s, t, first) ==
  IF SumOf(t) = 0 THEN {}
  ELSE IF \A i \in prog[s].dims \ {first} : t[i] = 0 THEN {first}
  ELSE prog[s].dims

(* Temporaries with the same producers as consumers.                       *)
Reducible(s) == \E c \in Stmts : \E r \in prog[c].reads : r.of = s

ReduceInit == Init /\ space = 0 /\ kept = {}

Reduce(s) ==
  /\ mode = "idle" /\ cur = Len(prog)
  /\ space = 0 /\ Reducible(s)
  /\ space' = s
  /\ \E t \in MaxTuples(s) :
       IF prog[s].dims = {} THEN kept' = {}
       ELSE \E first \in prog[s].dims : kept' = Contracted(s, t, first)
  /\ UNCHANGED vars

ReduceNext ==
  \/ Next /\ UNCHANGED << space, kept >>
  \/ \E s \in Stmts : Reduce(s)

(* One thread runs updateIterGraph and the visitor to their ends.          *)
ReduceSpec == ReduceInit /\ [][ReduceNext]_reduceVars /\ WF_reduceVars(ReduceNext)

-----------------------------------------------------------------------------
(* Properties.                                                             *)

(* What is written at u and at w goes to one element of the smaller space. *)
SameElement(u, w) == \A i \in kept : u[i] = w[i]

(* Reads by access r of c still find what was written for them: no other   *)
(* write to the same element comes in between.                             *)
Unharmed(c, r) ==
  \A v \in Points(c), u \in Points(space) :
    Touches(r, c, u, v) =>
      \A w \in Points(space) \ {u} :
        SameElement(u, w) =>
          ~ (/\ Earlier(Time(space, u), Time(space, w))
             /\ Earlier(Time(space, w), Time(c, v)))

(* "Three cases where reduction can be safely applied": every value is     *)
(* still there when it is read, wherever fusion has put the statements.    *)
ContractionSafe ==
  space # 0 =>
    \A c \in Stmts : \A r \in {x \in prog[c].reads : x.of = space} : Unharmed(c, r)

(* The loops around the writer whose iterators do not index the space any  *)
(* more.                                                                   *)
DroppedLoops == {n \in DOMAIN Nest(space) : Nest(space)[n] \notin kept}

(* Statement c runs in the same loops, with the same shifts, as far as     *)
(* their iterators are dropped, and the one that stays is the innermost.   *)
InStep(c) ==
  /\ \A n \in DroppedLoops :
       /\ n < Len(leaf[c])
       /\ SubSeq(leaf[c], 1, n) = SubSeq(leaf[space], 1, n)
       /\ Moved(c, n) = Moved(space, n)
  /\ \A n \in DOMAIN Nest(space) \ DroppedLoops : n > Cardinality(DroppedLoops)

(* The distances along different iterators do not cancel each other.       *)
NoCancelling ==
  \A t \in MaxTuples(space) : SumOf(t) = 0 => \A i \in DOMAIN t : t[i] = 0

(* A contracted space keeps every value for the readers that run in step   *)
(* with its writer: within one fused loop body the distances are all that  *)
(* matters, as the visitor assumes.                                        *)
InStepContractionSafe ==
  space # 0 /\ NoCancelling =>
    \A c \in Stmts : \A r \in {x \in prog[c].reads : x.of = space} :
      InStep(c) => Unharmed(c, r)

(* The placement of the last computation is reached from every program:    *)
(* passing loops over, again and again, for one producer after the other   *)
(* comes to an end, since a loop passed over is not found again (step 8).  *)
AllPlaced == <>(mode = "idle" /\ cur = Len(prog))
=============================================================================
