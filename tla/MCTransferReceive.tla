-------------------------- MODULE MCTransferReceive --------------------------
(* Constants for checking TransferReceive: a file of two chunks and a file *)
(* that is not split.                                                      *)
EXTENDS TransferReceive

TwoAndOne == <<2, 1>>
=============================================================================
