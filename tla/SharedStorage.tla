--------------------------- MODULE SharedStorage ----------------------------
(***************************************************************************)
(* What sharing storage among data spaces may do, whatever the allocator:  *)
(* a space gets one cell, once, and keeps it until it is no longer needed; *)
(* a cell is held by at most one space at a time.                          *)
(***************************************************************************)
EXTENDS Naturals

CONSTANTS Spaces, Cells

VARIABLES
  stage,    (* "unborn", "held" or "done"                                  *)
  cell      (* the cell of a space, 0 before it has one                    *)

Init ==
  /\ stage = [d \in Spaces |-> "unborn"]
  /\ cell  = [d \in Spaces |-> 0]

(* A space without a cell gets one that no space holds.                    *)
Acquire(d) ==
  /\ stage[d] = "unborn"
  /\ cell'[d] \in Cells
  /\ \A e \in Spaces : stage[e] = "held" => cell[e] # cell'[d]
  /\ cell'  = [cell EXCEPT ![d] = cell'[d]]
  /\ stage' = [stage EXCEPT ![d] = "held"]

(* Some spaces are not needed any longer.                                  *)
Release ==
  /\ \A d \in Spaces :
       stage'[d] # stage[d] => stage[d] = "held" /\ stage'[d] = "done"
  /\ stage' = [d \in Spaces |-> stage'[d]]
  /\ UNCHANGED cell

Next == Release \/ \E d \in Spaces : Acquire(d)

Spec == Init /\ [][Next]_<< stage, cell >>
=============================================================================
