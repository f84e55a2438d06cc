------------------------- MODULE MCTransferProgress -------------------------
EXTENDS TransferProgress
CONSTANTS w1, w2
=============================================================================
