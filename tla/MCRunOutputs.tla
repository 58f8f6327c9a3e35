---------------------------- MODULE MCRunOutputs ----------------------------
(* Instances of RunOutputs for TLC. *)
EXTENDS RunOutputs, TLC

CONSTANTS v1, v2
Contents == Permutations({v1, v2})
=============================================================================
