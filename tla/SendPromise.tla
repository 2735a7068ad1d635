---------------------------- MODULE SendPromise ----------------------------
(***************************************************************************)
(* What sending promises to whoever listens to the event bus: a job is     *)
(* announced as finished at most once, and it is announced as completed    *)
(* only when the peer holds every chunk of it.                             *)
(***************************************************************************)
EXTENDS TransferJob

CONSTANT Jobs

VARIABLES
  held,   (* per job, the chunks the peer acknowledged or said it has      *)
  told    (* per job, the outcome announced so far                         *)

promiseVars == <<held, told>>

Outcome == {"open", "completed", "failed"}

Init ==
  /\ held = [j \in Jobs |-> {}]
  /\ told = [j \in Jobs |-> "open"]

(* The peer comes to hold more chunks of a job that is still open.         *)
Deliver(j) ==
  /\ told[j] = "open"
  /\ \E more \in SUBSET Chunks : held' = [held EXCEPT ![j] = @ \cup more]
  /\ told' = told

AnnounceCompleted(j) ==
  /\ told[j] = "open"
  /\ Chunks \subseteq held[j]
  /\ told' = [told EXCEPT ![j] = "completed"]
  /\ held' = held

(* A failure; the chunk in flight may have reached the peer all the same.  *)
AnnounceFailed(j) ==
  /\ told[j] = "open"
  /\ \E more \in SUBSET Chunks : held' = [held EXCEPT ![j] = @ \cup more]
  /\ told' = [told EXCEPT ![j] = "failed"]

Next == \E j \in Jobs : Deliver(j) \/ AnnounceCompleted(j) \/ AnnounceFailed(j)

Spec == Init /\ [][Next]_promiseVars

=============================================================================
