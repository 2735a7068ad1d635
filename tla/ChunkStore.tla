----------------------------- MODULE ChunkStore -----------------------------
(***************************************************************************)
(* What receiving promises to the peer that sends and to the user who sees *)
(* the state of a job: the target files fill up from the front, a chunk is *)
(* acknowledged once and only when it is stored, what is stored stays, and *)
(* a job shows as complete only when every chunk is there.  A sender (see  *)
(* peerHas of TransferSend) takes as much for granted of its peer.         *)
(***************************************************************************)
EXTENDS TransferJob

CONSTANT Jobs

VARIABLES
  stored,   (* per job, the chunks in its target files                     *)
  acked,    (* per job, the chunks acknowledged                            *)
  complete  (* the jobs that show as complete                              *)

storeVars == <<stored, acked, complete>>

Init ==
  /\ stored = [j \in Jobs |-> {}]
  /\ acked = [j \in Jobs |-> {}]
  /\ complete = {}

Before(chunk) ==
  {other \in Chunks : other[1] < chunk[1] \/ (other[1] = chunk[1] /\ other[2] < chunk[2])}

(* A chunk is stored when those before it are acknowledged; perhaps again, *)
(* when its acknowledgement was lost.                                      *)
Store(j) ==
  /\ \E chunk \in Chunks \ acked[j] :
       /\ Before(chunk) \subseteq acked[j]
       /\ stored' = [stored EXCEPT ![j] = @ \cup {chunk}]
  /\ UNCHANGED <<acked, complete>>

(* The state shown may change at any time, even back.                      *)
Shows(j) ==
  \/ complete' = complete \ {j}
  \/ Chunks \subseteq stored[j] /\ complete' = complete \cup {j}

Acknowledge(j) ==
  /\ \E chunk \in stored[j] \ acked[j] : acked' = [acked EXCEPT ![j] = @ \cup {chunk}]
  /\ Shows(j)
  /\ UNCHANGED stored

ChangeState(j) == Shows(j) /\ UNCHANGED <<stored, acked>>

Next == \E j \in Jobs : Store(j) \/ Acknowledge(j) \/ ChangeState(j)

Spec == Init /\ [][Next]_storeVars

=============================================================================
