------------------------- MODULE MCTransferManager -------------------------
(* Instances of TransferManager for TLC. *)
EXTENDS TransferManager

CONSTANTS k1, k2, c1, c2, c3, t1, t2
============================================================================
