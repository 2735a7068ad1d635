-------------------------- MODULE TransferJobProofs --------------------------
(***************************************************************************)
(* Lemmas about the operations on a transfer job: each keeps the job       *)
(* well-typed, and keeps what it claims within what there is (JobSound).   *)
(***************************************************************************)
EXTENDS TransferJob, TLAPS

-----------------------------------------------------------------------------
(* Types.                                                                  *)

(* The absent row and a freshly created job are well-typed.                *)
LEMMA NoJobType == NoJob \in Job /\ Created \in Job
  BY DEF NoJob, Created, Job, JobState, ItemStatus

(* Entering a state keeps the type.                                        *)
LEMMA EnterType ==
  ASSUME NEW job \in Job, NEW state \in JobState
  PROVE  Enter(job, state) \in Job
  BY DEF Enter, Job

(* Accept, Pause, Resume and Cancel keep the type.                         *)
LEMMA CommandType ==
  ASSUME NEW job \in Job, NEW op \in Ops
  PROVE  Apply(op, job) \in Job
  BY EnterType DEF Apply, Ops, Accept, Pause, Resume, Cancel, JobState

(* fail() keeps the type.                                                  *)
LEMMA FailType ==
  ASSUME NEW job \in Job
  PROVE  Fail(job) \in Job
  <1>1. RetriesAfter(job) \in Nat
    BY DEF RetriesAfter, Job
  <1>2. QED
    BY <1>1 DEF Fail, Job, JobState

(* complete() keeps the type.                                              *)
LEMMA CompleteType ==
  ASSUME NEW job \in Job
  PROVE  Complete(job) \in Job
  BY DEF Complete, Enter, Job, JobState, ItemStatus

(* record_chunk_done() keeps the type.                                     *)
LEMMA RecordType ==
  ASSUME NEW job \in Job, NEW i \in Items, NEW c \in Nat
  PROVE  RecordItem(job, i, c) \in Job /\ RecordChunkDone(job, i, c) \in Job
  <1>1. HighWater(job, i, c) \in Nat
    BY DEF HighWater, Job
  <1>2. StatusAt(i, HighWater(job, i, c)) \in ItemStatus
    BY DEF StatusAt, ItemStatus
  <1>3. RecordItem(job, i, c) \in Job
    BY <1>1, <1>2 DEF RecordItem, Job
  <1>4. QED
    BY <1>3, EnterType DEF RecordChunkDone, JobState

(* Crash recovery keeps the type of a row.                                 *)
LEMMA RecoveredType ==
  ASSUME NEW job \in Job, NEW stale \in BOOLEAN
  PROVE  Recovered(job, stale) \in Job
  BY EnterType DEF Recovered, Pause, Cancel, JobState

(* An index below the manifest's length names a chunk of the job.          *)
LEMMA ChunkMember ==
  ASSUME NEW i \in Items, NEW c \in Nat, c < ChunkCount[i]
  PROVE  <<i, c>> \in Chunks
  <1>1. c \in 0..(ChunkCount[i] - 1)
    BY ManifestAssumption
  <1>2. QED
    BY <1>1 DEF Chunks

-----------------------------------------------------------------------------
(* Soundness of what a job claims.                                         *)

(* A job with nothing transferred claims nothing.                          *)
LEMMA SoundNoJob ==
  ASSUME NEW have
  PROVE  JobSound(NoJob, have) /\ JobSound(Created, have)
  BY DEF JobSound, NoJob, Created, Items

(* A sound copy stays sound while chunks are only added.                   *)
LEMMA SoundMore ==
  ASSUME NEW job, NEW have, NEW more, have \subseteq more, JobSound(job, have)
  PROVE  JobSound(job, more)
  BY DEF JobSound

(* A change of state other than to Verifying or Completed keeps soundness. *)
LEMMA SoundEnter ==
  ASSUME NEW job \in Job, NEW have, JobSound(job, have),
         NEW state \in JobState \ {"verifying", "completed"}
  PROVE  JobSound(Enter(job, state), have)
  BY DEF JobSound, Enter, Job

(* The commands keep soundness, and the row exists after them.             *)
LEMMA SoundApply ==
  ASSUME NEW job \in Job, NEW have, JobSound(job, have), NEW op \in Ops
  PROVE  JobSound(Apply(op, job), have) /\ Apply(op, job).state # "absent"
  <1>1. \E state \in {"active", "paused", "cancelled"} : Apply(op, job) = Enter(job, state)
    BY DEF Apply, Ops, Accept, Pause, Resume, Cancel
  <1>2. PICK state \in {"active", "paused", "cancelled"} : Apply(op, job) = Enter(job, state)
    BY <1>1
  <1>3. state \in JobState \ {"verifying", "completed"}
    BY DEF JobState
  <1>4. JobSound(Enter(job, state), have)
    BY <1>3, SoundEnter
  <1>5. Enter(job, state).state = state
    BY DEF Enter, Job
  <1>6. QED
    BY <1>2, <1>4, <1>5

(* fail() keeps soundness.                                                 *)
LEMMA SoundFail ==
  ASSUME NEW job \in Job, NEW have, JobSound(job, have)
  PROVE  JobSound(Fail(job), have) /\ Fail(job).state = "failed"
  BY DEF JobSound, Fail, Job

(* complete() of a Verifying job keeps soundness.                          *)
LEMMA SoundComplete ==
  ASSUME NEW job \in Job, NEW have, JobSound(job, have), CanComplete(job)
  PROVE  JobSound(Complete(job), have) /\ Complete(job).state = "completed"
  BY DEF JobSound, Complete, CanComplete, Enter, Job, AllItemsDone

(* Recording the chunk at the cursor when the peer has all chunks of the   *)
(* file up to it: this is where the high-water mark relies on the order of *)
(* the uploads.                                                            *)
LEMMA SoundRecord ==
  ASSUME NEW job \in Job, NEW have, JobSound(job, have), CanRecord(job),
         NEW i \in Items, NEW c \in Nat,
         \A d \in 0..c : <<i, d>> \in have
  PROVE  /\ JobSound(RecordChunkDone(job, i, c), have)
         /\ RecordChunkDone(job, i, c).state \in {"active", "verifying"}
  <1> DEFINE recorded == RecordItem(job, i, c)
  <1>1. recorded \in Job
    BY RecordType
  <1>2. /\ recorded.state = job.state
        /\ \A k \in Items : recorded.done[k] =
                IF k = i THEN HighWater(job, i, c) ELSE job.done[k]
        /\ \A k \in Items : recorded.status[k] =
                IF k = i THEN StatusAt(i, HighWater(job, i, c)) ELSE job.status[k]
    BY DEF RecordItem, Job
  <1>3. \A k \in Items : \A d \in 0..(recorded.done[k] - 1) : <<k, d>> \in have
    <2>1. ASSUME NEW k \in Items, NEW d \in 0..(recorded.done[k] - 1)
          PROVE  <<k, d>> \in have
      <3> HIDE DEF recorded
      <3>1. job.done[k] \in Nat
        BY DEF Job
      <3>2. CASE k # i
        BY <1>2, <2>1, <3>2 DEF JobSound
      <3>3. CASE k = i
        BY <1>2, <2>1, <3>1, <3>3 DEF JobSound, HighWater
      <3>4. QED
        BY <3>2, <3>3
    <2>2. QED
      BY <2>1
  <1>4. \A k \in Items :
          recorded.status[k] \in {"verifying", "completed"} => recorded.done[k] >= ChunkCount[k]
    <2> HIDE DEF recorded
    <2>1. QED
      BY <1>2 DEF JobSound, StatusAt
  <1>5. CASE AllItemsDone(recorded)
    <2>1. RecordChunkDone(job, i, c) = Enter(recorded, "verifying")
      BY <1>5 DEF RecordChunkDone
    <2>2. JobSound(Enter(recorded, "verifying"), have)
      <3> HIDE DEF recorded
      <3>1. QED
        BY <1>1, <1>3, <1>4, <1>5 DEF JobSound, Enter, Job, AllItemsDone
    <2>3. Enter(recorded, "verifying").state = "verifying"
      BY <1>1 DEF Enter, Job
    <2>4. QED
      BY <2>1, <2>2, <2>3
  <1>6. CASE ~AllItemsDone(recorded)
    <2>1. RecordChunkDone(job, i, c) = recorded
      BY <1>6 DEF RecordChunkDone
    <2>2. recorded.state \notin {"verifying", "completed"}
      BY <1>2 DEF CanRecord
    <2>3. QED
      BY <1>2, <1>3, <1>4, <2>1, <2>2 DEF JobSound, CanRecord
  <1>7. QED
    BY <1>5, <1>6

(* Crash recovery keeps soundness and does not make a row appear or        *)
(* vanish.                                                                 *)
LEMMA SoundRecovered ==
  ASSUME NEW job \in Job, NEW have, JobSound(job, have), NEW stale \in BOOLEAN
  PROVE  /\ JobSound(Recovered(job, stale), have)
         /\ job.state # "absent" => Recovered(job, stale).state # "absent"
  <1>1. /\ JobSound(Enter(job, "paused"), have)
        /\ JobSound(Enter(job, "cancelled"), have)
    BY SoundEnter DEF JobState
  <1>2. /\ Enter(job, "paused").state = "paused"
        /\ Enter(job, "cancelled").state = "cancelled"
    BY DEF Enter, Job
  <1>3. \/ Recovered(job, stale) = Enter(job, "paused")
        \/ Recovered(job, stale) = Enter(job, "cancelled")
        \/ Recovered(job, stale) = job
    BY DEF Recovered, Pause, Cancel
  <1>4. QED
    BY <1>1, <1>2, <1>3

(* A sound job that is Completed claims every chunk.                       *)
LEMMA SoundIsAll ==
  ASSUME NEW job \in Job, NEW have, JobSound(job, have), job.state = "completed"
  PROVE  Chunks \subseteq have
  <1>1. ASSUME NEW i \in Items, NEW c \in 0..(ChunkCount[i] - 1)
        PROVE  <<i, c>> \in have
    <2>1. job.done[i] \in Nat /\ job.done[i] >= ChunkCount[i]
      BY DEF JobSound, AllItemsDone, Job
    <2>2. c \in 0..(job.done[i] - 1)
      BY <2>1, ManifestAssumption
    <2>3. QED
      BY <2>2 DEF JobSound
  <1>2. QED
    BY <1>1 DEF Chunks

=============================================================================
