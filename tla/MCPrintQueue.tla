---------------------------- MODULE MCPrintQueue ----------------------------
(* Instances of PrintQueue for TLC. *)
EXTENDS PrintQueue, TLC
=============================================================================
