--------------------------- MODULE MCTransferJob ---------------------------
(* Instances of TransferJob for TLC. *)
EXTENDS TransferJob
=============================================================================
