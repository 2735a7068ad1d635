---------------------------- MODULE TransferJob ----------------------------
(***************************************************************************)
(* The transfer job aggregate (domain/model/transfer.rs): the record that  *)
(* is stored per transfer and the operations that move it through its      *)
(* life cycle.  An operation that the code rejects with                    *)
(* InvalidStateTransition has a predicate Can...; the operation itself is  *)
(* the job the code returns when the predicate holds.                      *)
(*                                                                         *)
(* Abstracted: ids, paths, hashes, sizes and timestamps.  What is kept of  *)
(* a file is the number of chunks of its manifest (0 for a file found      *)
(* empty when it was hashed, 1 for a file below the chunking threshold).   *)
(***************************************************************************)
EXTENDS Integers

CONSTANTS
  NumItems,    (* the number of files of a job                             *)
  ChunkCount   (* per file, the number of chunks of its manifest           *)

Items == 1..NumItems

ASSUME ManifestAssumption ==
  /\ NumItems \in Nat
  /\ ChunkCount \in [Items -> Nat]

(* The chunks of a job: file and chunk index.                              *)
Chunks == UNION {{i} \X (0..(ChunkCount[i] - 1)) : i \in Items}

-----------------------------------------------------------------------------
ItemStatus == {"pending", "transferring", "verifying", "completed"}

(* "absent": no row with this job id.                                      *)
JobState == {"absent", "pending", "active", "paused", "verifying",
             "completed", "failed", "cancelled"}

Job == [state : JobState,
        retries : Nat,                   (* of the Failed variant, else 0  *)
        done : [Items -> Nat],           (* chunks_done                    *)
        status : [Items -> ItemStatus]]

NoJob == [state |-> "absent", retries |-> 0,
          done |-> [i \in Items |-> 0], status |-> [i \in Items |-> "pending"]]

(* create_from_files: a Pending job, nothing transferred.                  *)
Created == [NoJob EXCEPT !.state = "pending"]

(* A change of the state enum; only Failed carries a retry count.          *)
Enter(job, state) == [job EXCEPT !.state = state, !.retries = 0]

-----------------------------------------------------------------------------
CanAccept(job) == job.state = "pending"
Accept(job) == Enter(job, "active")

CanRecord(job) == job.state = "active"

(* Mutant of HighWater: an index taken for a count that starts at 1.       *)
HighWaterPastIndex(job, i, c) == IF job.done[i] > c THEN job.done[i] ELSE c + 2

(* chunks_done is a high-water mark: the largest recorded index plus one.  *)
HighWater(job, i, c) == IF job.done[i] > c THEN job.done[i] ELSE c + 1

StatusAt(i, count) ==
  IF count >= ChunkCount[i] THEN "verifying" ELSE "transferring"

RecordItem(job, i, c) ==
  [job EXCEPT !.done[i] = HighWater(job, i, c),
              !.status[i] = StatusAt(i, HighWater(job, i, c))]

AllItemsDone(job) ==
  \A i \in Items : job.status[i] \in {"verifying", "completed"}

RecordChunkDone(job, i, c) ==
  LET recorded == RecordItem(job, i, c)
  IN IF AllItemsDone(recorded) THEN Enter(recorded, "verifying") ELSE recorded

CanPause(job) == job.state = "active"
Pause(job) == Enter(job, "paused")

CanResume(job) == job.state = "paused"
Resume(job) == Enter(job, "active")

CanComplete(job) == job.state = "verifying"
Complete(job) ==
  [Enter(job, "completed") EXCEPT !.status = [i \in Items |-> "completed"]]

CanFail(job) == job.state \in {"active", "paused", "verifying", "failed"}
RetriesAfter(job) == IF job.state = "failed" THEN job.retries + 1 ELSE 0
Fail(job) == [job EXCEPT !.state = "failed", !.retries = RetriesAfter(job)]

(* cancel: allowed in every state.                                         *)
Cancel(job) == Enter(job, "cancelled")

-----------------------------------------------------------------------------
(* What a user's command does to the job it loads.                         *)

Ops == {"accept", "pause", "resume", "cancel"}

CanApply(op, job) ==
  CASE op = "accept" -> CanAccept(job)
    [] op = "pause"  -> CanPause(job)
    [] op = "resume" -> CanResume(job)
    [] op = "cancel" -> TRUE

Apply(op, job) ==
  CASE op = "accept" -> Accept(job)
    [] op = "pause"  -> Pause(job)
    [] op = "resume" -> Resume(job)
    [] op = "cancel" -> Cancel(job)

(* Mutant of Recovered: interrupted jobs get a state the enum lacks.       *)
RecoveredAsInterrupted(job, stale) ==
  IF job.state \in {"active", "verifying"} THEN Enter(job, "interrupted") ELSE job

(* Crash recovery: Active and Verifying rows are paused (pause() refuses a *)
(* Verifying one, which is then not saved); rows Pending for over an hour  *)
(* are cancelled.                                                          *)
Recovered(job, stale) ==
  CASE job.state \in {"active", "verifying"} /\ CanPause(job) -> Pause(job)
    [] job.state = "pending" /\ stale -> Cancel(job)
    [] OTHER -> job

-----------------------------------------------------------------------------
(* A job - a row, or somebody's copy of one - claims no more chunks than   *)
(* those in `have`.  The invariants of both sides of a transfer build on   *)
(* this.                                                                   *)
JobSound(job, have) ==
  /\ \A i \in Items : \A c \in 0..(job.done[i] - 1) : <<i, c>> \in have
  /\ \A i \in Items :
       job.status[i] \in {"verifying", "completed"} => job.done[i] >= ChunkCount[i]
  /\ job.state \in {"verifying", "completed"} => AllItemsDone(job)

=============================================================================
