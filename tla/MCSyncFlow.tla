----------------------------- MODULE MCSyncFlow -----------------------------
(* Constants for checking SyncFlow: device 1 changes the entry twice,      *)
(* device 2 once, which is enough for a tombstone made by either of them,  *)
(* a new entry after a cleanup and concurrent changes.                     *)
EXTENDS SyncFlow

TwoAndOne == <<2, 1>>
=============================================================================
