----------------------------- MODULE MCPipeline ------------------------------
(***************************************************************************)
(* Three computations for Pipeline: s1 writes x, s2 adds to x and to z, s3 *)
(* reads x and adds to z, at a distance.                                   *)
(***************************************************************************)
EXTENDS Pipeline, TLC

CONSTANTS a, b, s1, s2, s3, x, z

MCReads   == (s1 :> {}) @@ (s2 :> {x, z}) @@ (s3 :> {x, z})
MCWrites  == (s1 :> {x}) @@ (s2 :> {x, z}) @@ (s3 :> {z})
MCDistant == (s1 :> {}) @@ (s2 :> {}) @@ (s3 :> {z})
=============================================================================
