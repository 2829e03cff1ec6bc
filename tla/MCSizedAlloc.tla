---------------------------- MODULE MCSizedAlloc -----------------------------
(***************************************************************************)
(* Loop bounds for SizedAlloc, on the graphs of MCMemAlloc: as in the      *)
(* tests, lower bounds are 0, 1 or negative (ghost cells), upper bounds a  *)
(* constant, or one plus, minus or divided by another, inclusive or not.   *)
(***************************************************************************)
EXTENDS SizedAlloc, MCMemAlloc
LOCAL INSTANCE FiniteSetsExt

Line   == BoundSpace({-2, 0, 1}, {3, 4}, {""}, {0})
Ghosts == BoundSpace({-2, 0, 1}, {4}, {"+", "-"}, {2})
Blocks == BoundSpace({0, 1}, {4}, {"/"}, {2})

Faces == BoundSpace({-2, 1}, {3}, {""}, {0})
Cells == BoundSpace({-1}, {1}, {"+"}, {1})

(* Spaces of up to three dimensions.                                       *)
Spaces ==
  {<< >>} \union {<< x >> : x \in Line \union Ghosts \union Blocks}
    \union Faces \X Faces \union Cells \X Cells \X Cells

(* Three spaces of different sizes at a time, in turn.                     *)
InTurn ==
  LET all == FoldSet(LAMBDA x, s : Append(s, x), << >>, Spaces)
      rank == a :> 0 @@ b :> 1 @@ c :> 2
  IN  {[d \in MCData |-> all[((3 * k + rank[d]) % Len(all)) + 1]] : k \in 0..(Len(all) \div 3)}

(* A scalar, two and three elements, in every combination.                 *)
Small ==
  [MCData -> {<< >>} \union {<< x >> : x \in BoundSpace({0}, {2}, {""}, {0})}]

MCBounds == Small \union InTurn

(* No fewer than the largest of these spaces has points.                   *)
MCSizes == 0..64
=============================================================================
