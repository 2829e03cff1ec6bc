----------------------------- MODULE MCFlowGraph ----------------------------
(***************************************************************************)
(* Small graphs for FlowGraph: NComps computations over two data spaces,   *)
(* defined in any order, each reading and writing at most MaxAccess spaces *)
(* (per definition; a computation may be defined more than once).          *)
(***************************************************************************)
EXTENDS FlowGraph, TLC

CONSTANTS x, y, MaxAccess

MCData == {x, y}

MCAccesses == {S \in SUBSET MCData : Cardinality(S) <= MaxAccess}

Symmetry == Permutations(MCData)
=============================================================================
