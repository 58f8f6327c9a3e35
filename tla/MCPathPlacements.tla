-------------------------- MODULE MCPathPlacements --------------------------
(* Instances of PathPlacements for TLC. *)
EXTENDS PathPlacements, TLC

CONSTANTS v1, v2
Contents == Permutations({v1, v2})
=============================================================================
