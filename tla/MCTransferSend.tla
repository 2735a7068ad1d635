--------------------------- MODULE MCTransferSend ---------------------------
(* Constants for checking TransferSend: the shapes of a job's manifest.    *)
EXTENDS TransferSend

(* A file of two chunks and one below the chunking threshold.              *)
TwoAndOne == <<2, 1>>

(* One small file.                                                         *)
JustOne == <<1>>
=============================================================================
