------------------------------ MODULE SizedAlloc ------------------------------
(***************************************************************************)
(* Storage allocation for spaces given by the bounds of their loops:       *)
(* process() takes the size of a space from the text of its size           *)
(* expression (Sizes) and hands it to find() (MemAlloc).                   *)
(***************************************************************************)
EXTENDS MemAlloc, Sizes

CONSTANT Bounds   (* the loop bounds of the data spaces                    *)

(* Every space has the bounds of some number of loops.                     *)
ASSUME BoundsAssumption == \A f \in Bounds : \A d \in Data : f[d] \in Seq(LoopBounds)

VARIABLE bounds

sizedVars == << vars, bounds >>

SizedInit ==
  /\ bounds \in Bounds
  /\ size = [d \in Data |-> SizeOf(bounds[d])]
  /\ Init

SizedNext == Next /\ UNCHANGED bounds

SizedSpec == SizedInit /\ [][SizedNext]_sizedVars

-----------------------------------------------------------------------------
(* Properties.                                                             *)

(* "Calculate the size from the size expression": the number the parser    *)
(* reads from the text, some parentheses of which fixParens has taken out, *)
(* is the number of points of the loops.                                   *)
SizesExact == \A d \in Data : size[d] = Extent(bounds[d])

(* Whatever the bounds, and however entries were shared and resized: the   *)
(* buffer a temporary is declared with has room for all points of its      *)
(* loops, and so for those of every other space kept in it.                *)
BuffersFit ==
  phase = "done" =>
    \A d, e \in Temps :
      attrs[d].entry = attrs[e].entry => Extent(bounds[e]) <= attrs[d].size
=============================================================================
