------------------------- MODULE TransferSendProofs -------------------------
(***************************************************************************)
(* Proofs about TransferSend, for every set of jobs, number of files and   *)
(* chunks, and number of commands in flight.                               *)
(***************************************************************************)
EXTENDS TransferSend, TransferJobProofs, FiniteSetTheorems

-----------------------------------------------------------------------------
(* Type correctness.                                                       *)

(* A task without job data is well-typed, with any program counter and     *)
(* copy.                                                                   *)
LEMMA NoWorkerType ==
  ASSUME NEW pc \in {"idle"} \cup Working \cup Ended, NEW copy \in Job
  PROVE  /\ NoWorker \in Worker
         /\ [NoWorker EXCEPT !.pc = pc] \in Worker
         /\ [NoWorker EXCEPT !.pc = pc, !.copy = copy] \in Worker
  <1>1. NoJob \in Job /\ NoJob.done \in [Items -> Nat]
    BY NoJobType DEF Job
  <1>2. NoWorker \in Worker
    BY <1>1 DEF NoWorker, Worker
  <1>3. QED
    BY <1>2 DEF Worker

(* Moving a task's cursor or copy keeps its type.                          *)
LEMMA WorkerMoves ==
  ASSUME NEW w \in Worker, NEW item \in Nat, NEW chunk \in Nat, NEW copy \in Job
  PROVE  /\ [w EXCEPT !.item = item, !.chunk = chunk] \in Worker
         /\ [w EXCEPT !.chunk = chunk] \in Worker
         /\ [w EXCEPT !.copy = copy, !.chunk = chunk] \in Worker
  BY DEF Worker

(* The idle command slot is well-typed.                                    *)
LEMMA NoCmdType == NoCmd \in Cmd
  BY NoJobType, SendAssumption DEF NoCmd, Cmd

(* The idle scheduler is well-typed.                                       *)
LEMMA NoSchedType == NoSched \in Sched
  BY NoJobType DEF NoSched, Sched

(* The initial state is well-typed.                                        *)
LEMMA TypeInit == Init => TypeOK
  <1>1. NoWorker \in Worker
    BY NoWorkerType, NoJobType
  <1>2. QED
    BY <1>1, NoJobType, NoCmdType, NoSchedType DEF Init, TypeOK

(* Replacing one task by a well-typed one.                                 *)
LEMMA TypeSetWorker ==
  ASSUME TypeOK, NEW j \in Jobs, NEW w \in Worker, SetWorker(j, w)
  PROVE  worker' \in [Jobs -> Worker]
  BY DEF TypeOK, SetWorker

(* Ending a task.                                                          *)
LEMMA TypeEnd ==
  ASSUME TypeOK, NEW j \in Jobs, NEW how \in Ended, End(j, how)
  PROVE  worker' \in [Jobs -> Worker]
  BY NoWorkerType, NoJobType, TypeSetWorker DEF End

(* Saving one well-typed row.                                              *)
LEMMA TypeSave ==
  ASSUME TypeOK, NEW j \in Jobs, NEW job \in Job, Save(j, job)
  PROVE  repo' \in [Jobs -> Job]
  BY DEF TypeOK, Save

(* Publishing one event.                                                   *)
LEMMA TypePublish ==
  ASSUME TypeOK, NEW j \in Jobs, NEW kind \in EventKind, Publish(j, kind)
  PROVE  events' \in [Jobs -> SUBSET EventKind]
  BY DEF TypeOK, Publish

(* Failing a job, whether its copy can be failed or not.                   *)
LEMMA TypeFailJob ==
  ASSUME TypeOK, NEW j \in Jobs, FailJob(j)
  PROVE  /\ worker' \in [Jobs -> Worker]
         /\ repo' \in [Jobs -> Job]
         /\ events' \in [Jobs -> SUBSET EventKind]
  <1>1. worker[j].copy \in Job
    BY DEF TypeOK, Worker
  <1>2. CASE CanFail(worker[j].copy)
    <2>1. Save(j, Fail(worker[j].copy)) /\ Publish(j, "failed") /\ End(j, "failed")
      BY <1>2 DEF FailJob
    <2>2. Fail(worker[j].copy) \in Job
      BY <1>1, FailType
    <2>3. QED
      BY <2>1, <2>2, TypeSave, TypePublish, TypeEnd DEF EventKind, Ended
  <1>3. CASE ~CanFail(worker[j].copy)
    BY <1>3, TypeEnd DEF TypeOK, FailJob, Ended
  <1>4. QED
    BY <1>2, <1>3

(* Every step of a task preserves the types.                               *)
LEMMA TypeWorkerStep ==
  ASSUME TypeOK, NEW j \in Jobs, WorkerStep(j)
  PROVE  TypeOK'
  <1> DEFINE w == worker[j]
  <1>0. w \in Worker /\ w.copy \in Job
    BY DEF TypeOK, Worker
  <1>1. CASE Start(j)
    <2>1. repo[j] \in Job
      BY DEF TypeOK
    <2>2. worker' \in [Jobs -> Worker]
      BY <1>1, <2>1, NoWorkerType, TypeSetWorker DEF Start, Working
    <2>3. QED
      BY <1>1, <2>2 DEF Start, TypeOK
  <1>2. CASE AnnounceFails(j)
    BY <1>2, TypeFailJob DEF AnnounceFails, TypeOK
  <1>3. CASE AnnounceAccepted(j)
    <2> DEFINE current == IF CanAccept(w.copy) THEN Accept(w.copy) ELSE w.copy
               next(skip) == [pc |-> "upload", copy |-> current, from |-> current.done,
                              skip |-> skip, item |-> 1, chunk |-> 0]
    <2>1. PICK skip \in SUBSET Chunks :
            /\ Save(j, current)
            /\ SetWorker(j, next(skip))
            /\ peerHas' = [peerHas EXCEPT ![j] = @ \cup skip]
      BY <1>3 DEF AnnounceAccepted
    <2>2. current \in Job
      BY <1>0, EnterType DEF Accept, JobState
    <2>3. next(skip) \in Worker
      BY <2>2 DEF Worker, Job, Working
    <2>4. /\ repo' \in [Jobs -> Job]
          /\ worker' \in [Jobs -> Worker]
      <3> HIDE DEF next, current
      <3>1. QED
        BY <2>1, <2>2, <2>3, TypeSave, TypeSetWorker
    <2>5. peerHas' \in [Jobs -> SUBSET Chunks]
      BY <2>1 DEF TypeOK
    <2>6. QED
      BY <1>3, <2>4, <2>5 DEF AnnounceAccepted, TypeOK
  <1>4. CASE NextFile(j)
    <2>0. w.item + 1 \in Nat
      BY <1>0 DEF Worker
    <2>1. [w EXCEPT !.item = @ + 1, !.chunk = 0] \in Worker
      BY <1>0, <2>0, WorkerMoves
    <2>2. worker' \in [Jobs -> Worker]
      BY <1>4, <2>1, TypeSetWorker DEF NextFile
    <2>3. QED
      BY <1>4, <2>2 DEF NextFile, TypeOK
  <1>5. CASE SkipChunk(j)
    <2>1. [w EXCEPT !.chunk = @ + 1] \in Worker
      BY <1>0 DEF Worker
    <2>2. worker' \in [Jobs -> Worker]
      BY <1>5, <2>1, TypeSetWorker DEF SkipChunk
    <2>3. QED
      BY <1>5, <2>2 DEF SkipChunk, TypeOK
  <1>6. ASSUME AtChunk(j), Stored(j)
        PROVE  peerHas' \in [Jobs -> SUBSET Chunks]
    <2>1. Cursor(j) \in Chunks
      BY <1>0, <1>6, ChunkMember DEF AtChunk, Cursor, Worker
    <2>2. QED
      BY <1>6, <2>1 DEF Stored, TypeOK
  <1>7. CASE UploadAcked(j)
    <2> DEFINE copy == RecordChunkDone(w.copy, w.item, w.chunk)
    <2>1. w.item \in Items /\ w.chunk \in Nat
      BY <1>0, <1>7 DEF UploadAcked, AtChunk, Worker
    <2>2. copy \in Job
      BY <1>0, <2>1, RecordType
    <2>3. [w EXCEPT !.copy = copy, !.chunk = @ + 1] \in Worker
      <3> HIDE DEF copy
      <3>1. w.chunk + 1 \in Nat
        BY <2>1
      <3>2. QED
        BY <1>0, <3>1, <2>2, WorkerMoves
    <2>4. CASE CanRecord(w.copy)
      <3>1. Save(j, copy) /\ SetWorker(j, [w EXCEPT !.copy = copy, !.chunk = @ + 1])
        BY <1>7, <2>4 DEF UploadAcked
      <3>2. QED
        BY <1>6, <1>7, <2>2, <2>3, <3>1, TypeSave, TypeSetWorker DEF UploadAcked, TypeOK
    <2>5. CASE ~CanRecord(w.copy)
      <3>1. End(j, "errored") /\ UNCHANGED repo
        BY <1>7, <2>5 DEF UploadAcked
      <3>2. QED
        BY <1>6, <1>7, <3>1, TypeEnd DEF UploadAcked, TypeOK, Ended
    <2>6. QED
      BY <2>4, <2>5
  <1>8. CASE UploadFails(j)
    <2>1. peerHas' \in [Jobs -> SUBSET Chunks]
      BY <1>6, <1>8 DEF UploadFails, TypeOK
    <2>2. QED
      BY <1>8, <2>1, TypeFailJob DEF UploadFails, TypeOK
  <1>9. CASE Finish(j)
    <2> DEFINE job == IF CanComplete(w.copy) THEN Complete(w.copy) ELSE w.copy
    <2>1. job \in Job
      BY <1>0, CompleteType
    <2>2. Save(j, job) /\ Publish(j, "completed") /\ End(j, "sent")
      BY <1>9 DEF Finish
    <2>3. QED
      <3> HIDE DEF job
      <3>1. QED
        BY <1>9, <2>1, <2>2, TypeSave, TypePublish, TypeEnd
        DEF Finish, TypeOK, Ended, EventKind
  <1>10. CASE WorkerErrors(j)
    <2>1. peerHas' \in [Jobs -> SUBSET Chunks]
      BY <1>6, <1>10 DEF WorkerErrors, TypeOK
    <2>2. QED
      BY <1>10, <2>1, TypeEnd DEF WorkerErrors, TypeOK, Ended
  <1>11. QED
    BY <1>1, <1>2, <1>3, <1>4, <1>5, <1>7, <1>8, <1>9, <1>10 DEF WorkerStep, Proceed

(* The steps other than those of a task.                                   *)
LEMMA TypeOtherSteps ==
  ASSUME TypeOK
  PROVE  /\ \A j \in Jobs : SendFiles(j) => TypeOK'
         /\ \A c \in Cmds, op \in Ops, j \in Jobs : LoadForCmd(c, op, j) => TypeOK'
         /\ \A c \in Cmds : SaveFromCmd(c) => TypeOK'
         /\ RetryScan => TypeOK'
         /\ \A j \in Jobs, due \in BOOLEAN : RetryOne(j, due) => TypeOK'
         /\ Crash => TypeOK'
         /\ Restart => TypeOK'
  <1>1. ASSUME NEW j \in Jobs, SendFiles(j)
        PROVE  TypeOK'
    <2>1. worker' \in [Jobs -> Worker]
      BY <1>1, NoWorkerType, NoJobType, TypeSetWorker DEF SendFiles, Working
    <2>2. QED
      BY <1>1, <2>1, NoJobType, TypeSave, TypePublish DEF SendFiles, TypeOK, EventKind
  <1>2. ASSUME NEW c \in Cmds, NEW op \in Ops, NEW j \in Jobs, LoadForCmd(c, op, j)
        PROVE  TypeOK'
    BY <1>2 DEF LoadForCmd, TypeOK, Cmd
  <1>3. ASSUME NEW c \in Cmds, SaveFromCmd(c)
        PROVE  TypeOK'
    <2>1. cmd[c].op \in Ops /\ cmd[c].job \in Jobs /\ cmd[c].copy \in Job
      BY <1>3 DEF SaveFromCmd, TypeOK, Cmd
    <2>2. repo' \in [Jobs -> Job]
      BY <1>3, <2>1, CommandType, TypeSave DEF SaveFromCmd
    <2>3. QED
      BY <1>3, <2>2, NoCmdType DEF SaveFromCmd, TypeOK
  <1>4. ASSUME RetryScan
        PROVE  TypeOK'
    BY <1>4, NoJobType DEF RetryScan, TypeOK, Sched, IncompleteJobs
  <1>5. ASSUME NEW j \in Jobs, NEW due \in BOOLEAN, RetryOne(j, due)
        PROVE  TypeOK'
    <2>1. sched.copies[j] \in Job
      BY DEF TypeOK, Sched
    <2>2. Enter(sched.copies[j], "active") \in Job
      BY <2>1, EnterType DEF JobState
    <2>3. repo' \in [Jobs -> Job]
      BY <1>5, <2>2, TypeSave DEF RetryOne, TypeOK
    <2>4. sched' \in Sched
      BY <1>5, NoJobType DEF RetryOne, TypeOK, Sched
    <2>5. QED
      BY <1>5, <2>3, <2>4 DEF RetryOne, TypeOK
  <1>6. ASSUME Crash
        PROVE  TypeOK'
    BY <1>6, NoWorkerType, NoJobType, NoCmdType, NoSchedType DEF Crash, TypeOK
  <1>7. ASSUME Restart
        PROVE  TypeOK'
    <2>1. PICK saved \in SUBSET IncompleteJobs, stale \in SUBSET IncompleteJobs :
            repo' = [j \in Jobs |-> IF j \in saved THEN Recovered(repo[j], j \in stale)
                                                  ELSE repo[j]]
      BY <1>7 DEF Restart
    <2>2. \A j \in Jobs : Recovered(repo[j], j \in stale) \in Job
      <3>1. TAKE j \in Jobs
      <3>2. repo[j] \in Job /\ (j \in stale) \in BOOLEAN
        BY DEF TypeOK
      <3>3. QED
        BY <3>2, RecoveredType, Zenon
    <2>3. repo' \in [Jobs -> Job]
      BY <2>1, <2>2 DEF TypeOK
    <2>4. QED
      BY <1>7, <2>3 DEF Restart, TypeOK
  <1>8. QED
    BY <1>1, <1>2, <1>3, <1>4, <1>5, <1>6, <1>7

(* Every step preserves the types.                                         *)
LEMMA TypeNext == TypeOK /\ [Next]_vars => TypeOK'
  <1> SUFFICES ASSUME TypeOK, [Next]_vars
               PROVE  TypeOK'
    OBVIOUS
  <1>1. CASE UNCHANGED vars
    BY <1>1 DEF vars, TypeOK
  <1>2. CASE Next
    BY <1>2, TypeWorkerStep, TypeOtherSteps DEF Next
  <1>3. QED
    BY <1>1, <1>2

(* The variables always have the types TypeOK declares.                    *)
THEOREM TypeCorrect == Spec => []TypeOK
  BY TypeInit, TypeNext, PTL DEF Spec

-----------------------------------------------------------------------------
(* The inductive invariant.                                                *)

(* The invariant holds initially.                                          *)
LEMMA InvInit == Init => IInv
  <1> SUFFICES ASSUME Init
               PROVE  IInv
    OBVIOUS
  <1>1. TypeOK
    BY TypeInit
  <1>2. \A j \in Jobs : TaskInv(j)
    BY SoundNoJob
    DEF Init, TaskInv, CursorSound, OneOutcome, RowExists, NoWorker, Working
  <1>3. CmdCopiesSound /\ SchedCopiesSound
    BY SoundNoJob DEF Init, CmdCopiesSound, SchedCopiesSound, NoCmd, NoSched
  <1>4. QED
    BY <1>1, <1>2, <1>3 DEF IInv

(* A step that touches one job and no copy outside its task keeps the      *)
(* invariant if it keeps that job's part of it.                            *)
LEMMA OneJobSteps ==
  ASSUME IInv, TypeOK', NEW j \in Jobs,
         \A k \in Jobs \ {j} : /\ repo'[k] = repo[k]
                               /\ worker'[k] = worker[k]
                               /\ peerHas'[k] = peerHas[k]
                               /\ events'[k] = events[k],
         peerHas[j] \subseteq peerHas'[j],
         UNCHANGED <<cmd, sched>>,
         TaskInv(j)'
  PROVE  IInv'
  <1>1. \A k \in Jobs : TaskInv(k)'
    BY DEF IInv, TaskInv
  <1>2. \A k \in Jobs : peerHas[k] \subseteq peerHas'[k]
    OBVIOUS
  <1>3. CmdCopiesSound'
    <2>1. \A c \in Cmds : cmd[c].job \in Jobs
      BY DEF IInv, TypeOK, Cmd
    <2>2. QED
      BY <1>2, <2>1, SoundMore DEF IInv, CmdCopiesSound
  <1>4. SchedCopiesSound'
    BY <1>2, SoundMore DEF IInv, SchedCopiesSound
  <1>5. QED
    BY <1>1, <1>3, <1>4 DEF IInv

(* A new job: its row was absent, so it has no task and no outcome.        *)
LEMMA InvSendFiles ==
  ASSUME IInv, NEW j \in Jobs, SendFiles(j)
  PROVE  IInv'
  <1>1. TypeOK'
    BY TypeOtherSteps DEF IInv
  <1>2. /\ worker[j].pc = "idle" \/ worker[j].pc \in Ended
        /\ events[j] = {}
    BY DEF IInv, TaskInv, RowExists, SendFiles
  <1>3. /\ repo'[j] = Created
        /\ worker'[j] = [NoWorker EXCEPT !.pc = "start"]
        /\ events'[j] = {"requested"}
        /\ peerHas' = peerHas
    BY <1>2 DEF IInv, TypeOK, SendFiles, Save, SetWorker, Publish
  <1>4. TaskInv(j)'
    BY <1>3, SoundNoJob
    DEF TaskInv, CursorSound, OneOutcome, RowExists, NoWorker, Created, NoJob
  <1>5. QED
    BY <1>1, <1>3, <1>4, OneJobSteps DEF IInv, TypeOK, SendFiles, Save, SetWorker, Publish

(* A task that ends without an announcement and leaves the row alone.      *)
LEMMA InvErrored ==
  ASSUME IInv, NEW j \in Jobs, TypeOK',
         worker[j].pc \in Working, End(j, "errored"),
         UNCHANGED <<repo, cmd, sched, events>>,
         \A k \in Jobs : peerHas[k] \subseteq peerHas'[k],
         \A k \in Jobs \ {j} : peerHas'[k] = peerHas[k]
  PROVE  IInv'
  <1>1. worker'[j] = [NoWorker EXCEPT !.pc = "errored"]
    BY DEF End, SetWorker, IInv, TypeOK
  <1>2. JobSound(repo[j], peerHas'[j])
    BY SoundMore DEF IInv, TaskInv
  <1>3. repo[j].state # "absent"
    BY DEF IInv, TaskInv, RowExists, Working
  <1>4. TaskInv(j)'
    BY <1>1, <1>2, <1>3, SoundNoJob
    DEF IInv, TaskInv, CursorSound, OneOutcome, RowExists, NoWorker, Working
  <1>5. QED
    BY <1>4, OneJobSteps DEF End, SetWorker, IInv, TypeOK

(* A task that fails its job: the failure is its first announcement.       *)
LEMMA InvFailJob ==
  ASSUME IInv, NEW j \in Jobs, TypeOK',
         worker[j].pc \in {"announce", "upload"}, FailJob(j),
         UNCHANGED <<cmd, sched>>,
         \A k \in Jobs : peerHas[k] \subseteq peerHas'[k],
         \A k \in Jobs \ {j} : peerHas'[k] = peerHas[k]
  PROVE  IInv'
  <1> DEFINE copy == worker[j].copy
  <1>1. CASE CanFail(copy)
    <2>1. Save(j, Fail(copy)) /\ Publish(j, "failed") /\ End(j, "failed")
      BY <1>1 DEF FailJob
    <2>2. copy \in Job /\ JobSound(copy, peerHas'[j])
      BY SoundMore DEF IInv, TaskInv, TypeOK, Worker
    <2>3. JobSound(Fail(copy), peerHas'[j]) /\ Fail(copy).state = "failed"
      BY <2>2, SoundFail
    <2>4. /\ repo'[j] = Fail(copy)
          /\ worker'[j] = [NoWorker EXCEPT !.pc = "failed"]
          /\ events'[j] = events[j] \cup {"failed"}
      BY <2>1 DEF IInv, TypeOK, Save, End, SetWorker, Publish
    <2>5. events[j] \cap {"completed", "failed"} = {}
      BY DEF IInv, TaskInv, OneOutcome, Working
    <2>6. TaskInv(j)'
      BY <2>3, <2>4, <2>5, SoundNoJob
      DEF TaskInv, CursorSound, OneOutcome, RowExists, NoWorker, Working
    <2>7. QED
      BY <2>1, <2>6, OneJobSteps DEF IInv, TypeOK, Save, End, SetWorker, Publish
  <1>2. CASE ~CanFail(copy)
    BY <1>2, InvErrored DEF FailJob, Working
  <1>3. QED
    BY <1>1, <1>2

(* The task loads its row.                                                 *)
LEMMA InvStart ==
  ASSUME IInv, NEW j \in Jobs, TypeOK', Start(j)
  PROVE  IInv'
  <1>1. worker'[j] = [NoWorker EXCEPT !.pc = "announce", !.copy = repo[j]]
    BY DEF Start, SetWorker, IInv, TypeOK
  <1>2. TaskInv(j)'
    BY <1>1 DEF Start, IInv, TaskInv, CursorSound, OneOutcome, RowExists, NoWorker,
      Working
  <1>3. QED
    BY <1>2, OneJobSteps DEF Start, SetWorker, IInv, TypeOK

(* The peer accepts: what it named is in its store, and the item snapshot  *)
(* is sound.                                                               *)
LEMMA InvAnnounceAccepted ==
  ASSUME IInv, NEW j \in Jobs, TypeOK', AnnounceAccepted(j)
  PROVE  IInv'
  <1> DEFINE copy == worker[j].copy
             current == IF CanAccept(copy) THEN Accept(copy) ELSE copy
             next(skip) == [pc |-> "upload", copy |-> current, from |-> current.done,
                            skip |-> skip, item |-> 1, chunk |-> 0]
  <1>1. PICK skip \in SUBSET Chunks :
          /\ Save(j, current)
          /\ SetWorker(j, next(skip))
          /\ peerHas' = [peerHas EXCEPT ![j] = @ \cup skip]
    BY DEF AnnounceAccepted
  <1>2. copy \in Job /\ JobSound(copy, peerHas[j]) /\ copy.state # "absent"
    BY DEF IInv, TaskInv, TypeOK, Worker, RowExists, AnnounceAccepted
  <1>3. /\ current \in Job
        /\ JobSound(current, peerHas[j])
        /\ current.state # "absent"
    <2>1. "active" \in JobState \ {"verifying", "completed"}
      BY DEF JobState
    <2>2. /\ Enter(copy, "active") \in Job
          /\ JobSound(Enter(copy, "active"), peerHas[j])
      BY <1>2, <2>1, SoundEnter, EnterType
    <2>3. Enter(copy, "active").state = "active"
      BY <1>2 DEF Enter, Job
    <2>4. QED
      BY <1>2, <2>2, <2>3 DEF Accept
  <1> HIDE DEF current
  <1>4. /\ repo'[j] = current
        /\ worker'[j] = next(skip)
        /\ peerHas'[j] = peerHas[j] \cup skip
    BY <1>1 DEF IInv, TypeOK, Save, SetWorker
  <1>5. JobSound(current, peerHas'[j])
    BY <1>3, <1>4, SoundMore
  <1>6. CursorSound(next(skip), peerHas'[j])
    <2>1. ASSUME NEW i \in Items, NEW c \in 0..(ChunkCount[i] - 1),
                 Behind(next(skip), i, c) \/ c < current.done[i]
          PROVE  <<i, c>> \in peerHas'[j]
      <3>1. ~Behind(next(skip), i, c)
        BY DEF Behind, Items
      <3>2. current.done[i] \in Nat
        BY <1>3 DEF Job
      <3>3. ChunkCount[i] \in Nat
        BY ManifestAssumption
      <3>4. c \in 0..(current.done[i] - 1)
        BY <2>1, <3>1, <3>2, <3>3
      <3>5. QED
        BY <1>5, <3>4 DEF JobSound
    <2>2. QED
      BY <2>1, <1>4 DEF CursorSound
  <1>7. OneOutcome(events'[j], "upload", peerHas'[j])
    BY DEF AnnounceAccepted, IInv, TaskInv, OneOutcome, Working
  <1>8. TaskInv(j)'
    BY <1>3, <1>4, <1>5, <1>6, <1>7 DEF TaskInv, RowExists
  <1>9. QED
    <2> HIDE DEF next
    <2>1. QED
      BY <1>1, <1>8, OneJobSteps DEF AnnounceAccepted, Save, SetWorker, IInv, TypeOK

(* The cursor moves on over chunks the peer has; nothing else changes.     *)
LEMMA InvCursorMoves ==
  ASSUME IInv, NEW j \in Jobs, TypeOK', NEW item \in Nat, NEW chunk \in Nat,
         item > 0, worker[j].pc = "upload",
         SetWorker(j, [worker[j] EXCEPT !.item = item, !.chunk = chunk]),
         \A i \in Items : \A c \in 0..(ChunkCount[i] - 1) :
           i < item \/ (i = item /\ c < chunk) =>
             Behind(worker[j], i, c) \/ <<i, c>> \in peerHas[j],
         UNCHANGED <<up, repo, cmd, sched, peerHas, events>>
  PROVE  IInv'
  <1> DEFINE w == worker[j]
             next == [w EXCEPT !.item = item, !.chunk = chunk]
  <1>1. worker'[j] = next
    BY DEF SetWorker, IInv, TypeOK
  <1>2. w \in Worker
    BY DEF IInv, TypeOK
  <1>3. /\ next.pc = w.pc /\ next.copy = w.copy /\ next.from = w.from
        /\ next.skip = w.skip /\ next.item = item /\ next.chunk = chunk
    BY <1>2 DEF Worker
  <1> HIDE DEF next
  <1>4. CursorSound(next, peerHas[j])
    BY <1>3 DEF IInv, TaskInv, CursorSound, Behind
  <1>5. TaskInv(j)'
    BY <1>1, <1>3, <1>4 DEF IInv, TaskInv, RowExists
  <1>6. QED
    BY <1>5, OneJobSteps DEF SetWorker, IInv, TypeOK

(* The cursor moves on to the next file.                                   *)
LEMMA InvNextFile ==
  ASSUME IInv, NEW j \in Jobs, TypeOK', NextFile(j)
  PROVE  IInv'
  <1> DEFINE w == worker[j]
  <1>1. w \in Worker /\ w.item + 1 \in Nat /\ w.item \in Nat /\ w.chunk \in Nat
    BY DEF IInv, TypeOK, Worker
  <1>2. SetWorker(j, [w EXCEPT !.item = w.item + 1, !.chunk = 0])
    BY DEF NextFile
  <1>3. ASSUME NEW i \in Items, NEW c \in 0..(ChunkCount[i] - 1),
               i < w.item + 1 \/ (i = w.item + 1 /\ c < 0)
        PROVE  Behind(w, i, c)
    BY <1>1, <1>3, ManifestAssumption DEF NextFile, AtFileEnd, Behind, Items
  <1>4. QED
    <2>1. w.item + 1 > 0
      BY <1>1
    <2>2. \A i \in Items : \A c \in 0..(ChunkCount[i] - 1) :
            i < w.item + 1 \/ (i = w.item + 1 /\ c < 0) =>
              Behind(w, i, c) \/ <<i, c>> \in peerHas[j]
      BY <1>3
    <2>3. w.pc = "upload" /\ UNCHANGED <<up, repo, cmd, sched, peerHas, events>>
      BY DEF NextFile, AtFileEnd
    <2>4. QED
      BY <1>1, <1>2, <2>1, <2>2, <2>3, InvCursorMoves

(* A chunk is skipped when the resumed job's mark is past it or the peer   *)
(* named it: either way the peer has it.                                   *)
LEMMA SkippedIsStored ==
  ASSUME IInv, NEW j \in Jobs, AtChunk(j), PeerAlreadyHas(j)
  PROVE  Cursor(j) \in peerHas[j]
  <1>1. worker[j].item \in Items /\ worker[j].chunk \in 0..(ChunkCount[worker[j].item] - 1)
    BY ManifestAssumption DEF AtChunk, IInv, TypeOK, Worker
  <1>2. CursorSound(worker[j], peerHas[j]) /\ worker[j].pc = "upload"
    BY DEF IInv, TaskInv, AtChunk
  <1>3. QED
    BY <1>1, <1>2 DEF PeerAlreadyHas, Cursor, CursorSound

(* The cursor moves over a skipped chunk.                                  *)
LEMMA InvSkipChunk ==
  ASSUME IInv, NEW j \in Jobs, TypeOK', SkipChunk(j)
  PROVE  IInv'
  <1> DEFINE w == worker[j]
  <1>1. w \in Worker /\ w.chunk + 1 \in Nat /\ w.item \in Nat /\ w.chunk \in Nat
    BY DEF IInv, TypeOK, Worker
  <1>2. [w EXCEPT !.chunk = @ + 1] = [w EXCEPT !.item = w.item, !.chunk = w.chunk + 1]
    BY <1>1 DEF Worker
  <1>3. SetWorker(j, [w EXCEPT !.item = w.item, !.chunk = w.chunk + 1])
    BY <1>2 DEF SkipChunk
  <1>4. <<w.item, w.chunk>> \in peerHas[j]
    BY SkippedIsStored DEF SkipChunk, Cursor
  <1>5. ASSUME NEW i \in Items, NEW c \in 0..(ChunkCount[i] - 1),
               i < w.item \/ (i = w.item /\ c < w.chunk + 1)
        PROVE  Behind(w, i, c) \/ <<i, c>> \in peerHas[j]
    <2>1. CASE i = w.item /\ c = w.chunk
      BY <1>4, <2>1
    <2>2. CASE ~(i = w.item /\ c = w.chunk)
      BY <1>1, <1>5, <2>2 DEF Behind, Items
    <2>3. QED
      BY <2>1, <2>2
  <1>6. w.item > 0 /\ w.pc = "upload" /\ UNCHANGED <<up, repo, cmd, sched, peerHas, events>>
    BY DEF SkipChunk, AtChunk, Items
  <1>7. QED
    <2>1. \A i \in Items : \A c \in 0..(ChunkCount[i] - 1) :
            i < w.item \/ (i = w.item /\ c < w.chunk + 1) =>
              Behind(w, i, c) \/ <<i, c>> \in peerHas[j]
      BY <1>5
    <2>2. QED
      BY <1>1, <1>3, <1>6, <2>1, InvCursorMoves

(* The peer stores the chunk at the cursor.                                *)
LEMMA StoredGrows ==
  ASSUME TypeOK, NEW j \in Jobs, Stored(j) \/ UNCHANGED peerHas
  PROVE  /\ \A k \in Jobs : peerHas[k] \subseteq peerHas'[k]
         /\ \A k \in Jobs \ {j} : peerHas'[k] = peerHas[k]
  BY DEF TypeOK, Stored

(* The uploaded chunk is recorded, which the order of the loops makes      *)
(* sound.                                                                  *)
LEMMA InvUploadAcked ==
  ASSUME IInv, NEW j \in Jobs, TypeOK', UploadAcked(j)
  PROVE  IInv'
  <1> DEFINE w == worker[j]
             copy == RecordChunkDone(w.copy, w.item, w.chunk)
             next == [w EXCEPT !.copy = copy, !.chunk = w.chunk + 1]
             have == peerHas[j] \cup {<<w.item, w.chunk>>}
  <1>0. /\ \A k \in Jobs : peerHas[k] \subseteq peerHas'[k]
        /\ \A k \in Jobs \ {j} : peerHas'[k] = peerHas[k]
    BY StoredGrows DEF UploadAcked, IInv
  <1>1. CASE CanRecord(w.copy)
    <2>1. /\ Save(j, copy)
          /\ SetWorker(j, next)
      BY <1>1 DEF UploadAcked
    <2>2. /\ w \in Worker /\ w.copy \in Job
          /\ w.item \in Items /\ w.item \in Nat /\ w.chunk \in Nat
          /\ w.pc = "upload" /\ w.chunk < ChunkCount[w.item]
      BY DEF UploadAcked, AtChunk, IInv, TypeOK, Worker, Items
    <2>3. peerHas'[j] = have
      BY DEF UploadAcked, Stored, Cursor, IInv, TypeOK
    <2>4. JobSound(w.copy, have) /\ CursorSound(w, have)
      <3>1. JobSound(w.copy, have)
        BY SoundMore DEF IInv, TaskInv
      <3>2. QED
        BY <3>1 DEF IInv, TaskInv, CursorSound
    <2>5. \A d \in 0..w.chunk : <<w.item, d>> \in have
      <3>1. ASSUME NEW d \in 0..w.chunk, d # w.chunk
            PROVE  <<w.item, d>> \in have
        <4>1. d \in 0..(ChunkCount[w.item] - 1) /\ Behind(w, w.item, d)
          BY <2>2, <3>1, ManifestAssumption DEF Behind
        <4>2. QED
          BY <2>2, <2>4, <4>1 DEF CursorSound
      <3>2. QED
        BY <3>1
    <2>6. /\ JobSound(copy, have)
          /\ copy.state \in {"active", "verifying"}
      BY <1>1, <2>2, <2>4, <2>5, SoundRecord
    <2>7. /\ next.pc = "upload" /\ next.copy = copy /\ next.from = w.from
          /\ next.skip = w.skip /\ next.item = w.item /\ next.chunk = w.chunk + 1
      <3> HIDE DEF copy
      <3>1. QED
        BY <2>2 DEF Worker
    <2> HIDE DEF copy, next
    <2>8. CursorSound(next, have)
      <3>1. ASSUME NEW i \in Items, NEW c \in 0..(ChunkCount[i] - 1),
                   Behind(next, i, c) \/ c < next.from[i]
            PROVE  <<i, c>> \in have
        <4>1. CASE i = w.item /\ c = w.chunk
          BY <4>1
        <4>2. CASE ~(i = w.item /\ c = w.chunk)
          <5>1. Behind(w, i, c) \/ c < w.from[i]
            BY <2>2, <2>7, <3>1, <4>2 DEF Behind, Items
          <5>2. QED
            BY <2>2, <2>4, <5>1 DEF CursorSound
        <4>3. QED
          BY <4>1, <4>2
      <3>2. next.skip \subseteq have /\ next.item > 0
        BY <2>2, <2>4, <2>7 DEF CursorSound
      <3>3. QED
        BY <3>1, <3>2 DEF CursorSound
    <2>9. OneOutcome(events[j], next.pc, have)
      BY <2>2, <2>7 DEF IInv, TaskInv, OneOutcome
    <2>10. repo'[j] = copy /\ worker'[j] = next /\ events'[j] = events[j]
      BY <2>1 DEF UploadAcked, Save, SetWorker, IInv, TypeOK
    <2>11. TaskInv(j)'
      BY <2>3, <2>6, <2>7, <2>8, <2>9, <2>10 DEF TaskInv, RowExists
    <2>12. QED
      BY <1>0, <2>1, <2>11, OneJobSteps DEF UploadAcked, Save, SetWorker, IInv, TypeOK
  <1>2. CASE ~CanRecord(w.copy)
    <2>1. End(j, "errored") /\ UNCHANGED <<repo, cmd, sched, events>>
      BY <1>2 DEF UploadAcked
    <2>2. w.pc \in Working
      BY DEF UploadAcked, AtChunk, Working
    <2>3. QED
      BY <1>0, <2>1, <2>2, InvErrored
  <1>3. QED
    BY <1>1, <1>2

(* When the cursor is past the last file the peer has every chunk.         *)
LEMMA AllPushedMeansAll ==
  ASSUME IInv, NEW j \in Jobs, AllPushed(j)
  PROVE  Chunks \subseteq peerHas[j]
  <1>1. ASSUME NEW i \in Items, NEW c \in 0..(ChunkCount[i] - 1)
        PROVE  <<i, c>> \in peerHas[j]
    <2>1. worker[j].item \in Nat /\ worker[j].item > 0 /\ worker[j].item \notin Items
      BY DEF AllPushed, IInv, TaskInv, CursorSound, TypeOK, Worker
    <2>2. i < worker[j].item
      BY <2>1, ManifestAssumption DEF Items
    <2>3. QED
      BY <1>1, <2>2 DEF AllPushed, IInv, TaskInv, CursorSound, Behind
  <1>2. QED
    BY <1>1 DEF Chunks

(* The job is announced as completed.                                      *)
LEMMA InvFinish ==
  ASSUME IInv, NEW j \in Jobs, TypeOK', Finish(j)
  PROVE  IInv'
  <1> DEFINE copy == worker[j].copy
             job == IF CanComplete(copy) THEN Complete(copy) ELSE copy
  <1>1. copy \in Job /\ JobSound(copy, peerHas[j]) /\ copy.state # "absent"
    BY DEF IInv, TaskInv, TypeOK, Worker, RowExists, Finish, AllPushed
  <1>2. JobSound(job, peerHas[j]) /\ job.state # "absent"
    BY <1>1, SoundComplete
  <1> HIDE DEF job
  <1>3. /\ Save(j, job) /\ Publish(j, "completed") /\ End(j, "sent")
        /\ UNCHANGED <<up, cmd, sched, peerHas>>
    BY DEF Finish, job
  <1>4. /\ repo'[j] = job
        /\ worker'[j] = [NoWorker EXCEPT !.pc = "sent"]
        /\ events'[j] = events[j] \cup {"completed"}
    BY <1>3 DEF IInv, TypeOK, Save, End, SetWorker, Publish
  <1>5. events[j] \cap {"completed", "failed"} = {} /\ Chunks \subseteq peerHas[j]
    BY AllPushedMeansAll DEF Finish, AllPushed, IInv, TaskInv, OneOutcome, Working
  <1>6. TaskInv(j)'
    BY <1>2, <1>3, <1>4, <1>5, SoundNoJob
    DEF TaskInv, CursorSound, OneOutcome, RowExists, NoWorker, Working
  <1>7. QED
    BY <1>3, <1>6, OneJobSteps DEF IInv, TypeOK, Save, End, SetWorker, Publish

(* Every step of a task preserves the invariant.                           *)
LEMMA InvWorkerStep ==
  ASSUME IInv, NEW j \in Jobs, WorkerStep(j)
  PROVE  IInv'
  <1>1. TypeOK'
    BY TypeWorkerStep DEF IInv
  <1>2. CASE AnnounceFails(j)
    BY <1>1, <1>2, InvFailJob DEF AnnounceFails
  <1>3. CASE UploadFails(j)
    <2>1. Stored(j) \/ UNCHANGED peerHas
      BY <1>3 DEF UploadFails
    <2>2. QED
      BY <1>1, <1>3, <2>1, InvFailJob, StoredGrows DEF UploadFails, AtChunk, IInv
  <1>4. CASE WorkerErrors(j)
    <2>1. Stored(j) \/ UNCHANGED peerHas
      BY <1>4 DEF WorkerErrors
    <2>2. QED
      BY <1>1, <1>4, <2>1, InvErrored, StoredGrows DEF WorkerErrors, IInv
  <1>5. QED
    BY <1>1, <1>2, <1>3, <1>4, InvStart, InvAnnounceAccepted, InvNextFile,
       InvSkipChunk, InvUploadAcked, InvFinish DEF WorkerStep, Proceed

-----------------------------------------------------------------------------
(* The steps of commands, scheduler, crash and recovery: they write back   *)
(* stale copies, which is harmless for what the rows claim because every   *)
(* copy was sound when taken and the peer never loses a chunk.             *)

(* A command loads a sound row.                                            *)
LEMMA InvLoadForCmd ==
  ASSUME IInv, NEW c \in Cmds, NEW op \in Ops, NEW j \in Jobs, LoadForCmd(c, op, j)
  PROVE  IInv'
  <1>1. TypeOK'
    BY TypeOtherSteps DEF IInv
  <1>2. cmd' = [cmd EXCEPT ![c] = [op |-> op, job |-> j, copy |-> repo[j]]]
    BY DEF LoadForCmd
  <1>3. CmdCopiesSound'
    BY <1>2 DEF LoadForCmd, IInv, TypeOK, CmdCopiesSound, TaskInv
  <1>4. QED
    BY <1>1, <1>3 DEF LoadForCmd, IInv, TaskInv, SchedCopiesSound

(* A row replaced by one that is as sound.                                 *)
LEMMA InvSaved ==
  ASSUME IInv, TypeOK', NEW j \in Jobs, NEW job,
         JobSound(job, peerHas[j]), job.state # "absent",
         Save(j, job), UNCHANGED <<worker, peerHas, events>>
  PROVE  \A k \in Jobs : TaskInv(k)'
  <1>1. repo'[j] = job /\ \A k \in Jobs \ {j} : repo'[k] = repo[k]
    BY DEF Save, IInv, TypeOK
  <1>2. TaskInv(j)'
    BY <1>1 DEF IInv, TaskInv, RowExists
  <1>3. \A k \in Jobs \ {j} : TaskInv(k)'
    BY <1>1 DEF IInv, TaskInv
  <1>4. QED
    BY <1>2, <1>3

(* A command writes its copy back.                                         *)
LEMMA InvSaveFromCmd ==
  ASSUME IInv, NEW c \in Cmds, SaveFromCmd(c)
  PROVE  IInv'
  <1> DEFINE j == cmd[c].job
             job == Apply(cmd[c].op, cmd[c].copy)
  <1>1. TypeOK'
    BY TypeOtherSteps DEF IInv
  <1>2. cmd[c].op \in Ops /\ cmd[c].copy \in Job /\ j \in Jobs
    BY DEF SaveFromCmd, IInv, TypeOK, Cmd
  <1>3. JobSound(cmd[c].copy, peerHas[j])
    BY DEF IInv, CmdCopiesSound
  <1>4. JobSound(job, peerHas[j]) /\ job.state # "absent"
    BY <1>2, <1>3, SoundApply
  <1>5. /\ Save(j, job)
        /\ cmd' = [cmd EXCEPT ![c] = NoCmd]
        /\ UNCHANGED <<up, worker, sched, peerHas, events>>
    BY DEF SaveFromCmd
  <1> HIDE DEF j, job
  <1>6. \A k \in Jobs : TaskInv(k)'
    BY <1>1, <1>2, <1>4, <1>5, InvSaved
  <1>7. CmdCopiesSound'
    BY <1>5, SoundNoJob DEF IInv, TypeOK, CmdCopiesSound, NoCmd
  <1>8. QED
    BY <1>1, <1>5, <1>6, <1>7 DEF IInv, SchedCopiesSound

(* The scheduler loads sound rows.                                         *)
LEMMA InvRetryScan ==
  ASSUME IInv, RetryScan
  PROVE  IInv'
  <1>1. TypeOK'
    BY TypeOtherSteps DEF IInv
  <1>2. sched'.copies = [j \in Jobs |-> IF j \in IncompleteJobs THEN repo[j] ELSE NoJob]
    BY DEF RetryScan
  <1>3. SchedCopiesSound'
    BY <1>2, SoundNoJob DEF RetryScan, IInv, TaskInv, SchedCopiesSound
  <1>4. QED
    BY <1>1, <1>3 DEF RetryScan, IInv, TaskInv, CmdCopiesSound

(* The scheduler writes one copy back.                                     *)
LEMMA InvRetryOne ==
  ASSUME IInv, NEW j \in Jobs, NEW due \in BOOLEAN, RetryOne(j, due)
  PROVE  IInv'
  <1> DEFINE job == Enter(sched.copies[j], "active")
  <1>1. TypeOK'
    BY TypeOtherSteps DEF IInv
  <1>2. sched.copies[j] \in Job /\ JobSound(sched.copies[j], peerHas[j])
    BY DEF IInv, SchedCopiesSound, TypeOK, Sched
  <1>3. JobSound(job, peerHas[j]) /\ job.state = "active"
    <2>1. "active" \in JobState \ {"verifying", "completed"}
      BY DEF JobState
    <2>2. job.state = "active"
      BY <1>2 DEF Enter, Job
    <2>3. QED
      BY <1>2, <2>1, <2>2, SoundEnter
  <1>4. /\ Save(j, job) \/ UNCHANGED repo
        /\ sched'.copies = [sched.copies EXCEPT ![j] = NoJob]
        /\ UNCHANGED <<up, worker, cmd, peerHas, events>>
    BY DEF RetryOne
  <1> HIDE DEF job
  <1>5. \A k \in Jobs : TaskInv(k)'
    <2>1. CASE Save(j, job)
      BY <1>1, <1>3, <1>4, <2>1, InvSaved
    <2>2. CASE UNCHANGED repo
      BY <1>4, <2>2 DEF IInv, TaskInv
    <2>3. QED
      BY <1>4, <2>1, <2>2
  <1>6. SchedCopiesSound'
    BY <1>4, SoundNoJob DEF IInv, TypeOK, Sched, SchedCopiesSound
  <1>7. QED
    BY <1>1, <1>4, <1>5, <1>6 DEF IInv, CmdCopiesSound

(* A crash drops tasks and copies.                                         *)
LEMMA InvCrash ==
  ASSUME IInv, Crash
  PROVE  IInv'
  <1>1. TypeOK'
    BY TypeOtherSteps DEF IInv
  <1>2. \A j \in Jobs : TaskInv(j)'
    BY SoundNoJob
    DEF Crash, IInv, TaskInv, CursorSound, OneOutcome, RowExists, NoWorker, Working
  <1>3. CmdCopiesSound' /\ SchedCopiesSound'
    BY SoundNoJob DEF Crash, CmdCopiesSound, SchedCopiesSound, NoCmd, NoSched
  <1>4. QED
    BY <1>1, <1>2, <1>3 DEF IInv

(* Recovery rewrites the rows.                                             *)
LEMMA InvRestart ==
  ASSUME IInv, Restart
  PROVE  IInv'
  <1>1. TypeOK'
    BY TypeOtherSteps DEF IInv
  <1>2. PICK saved \in SUBSET IncompleteJobs, stale \in SUBSET IncompleteJobs :
          repo' = [j \in Jobs |-> IF j \in saved THEN Recovered(repo[j], j \in stale)
                                                ELSE repo[j]]
    BY DEF Restart
  <1>3. ASSUME NEW j \in Jobs
        PROVE  TaskInv(j)'
    <2>1. repo[j] \in Job /\ JobSound(repo[j], peerHas[j])
      BY DEF IInv, TaskInv, TypeOK
    <2>2. (j \in stale) \in BOOLEAN
      OBVIOUS
    <2>3. /\ JobSound(Recovered(repo[j], j \in stale), peerHas[j])
          /\ repo[j].state # "absent" => Recovered(repo[j], j \in stale).state # "absent"
      BY <2>1, <2>2, SoundRecovered, Zenon
    <2>4. repo'[j] \in {repo[j], Recovered(repo[j], j \in stale)}
      BY <1>2
    <2>5. JobSound(repo'[j], peerHas[j]) /\ (repo[j].state # "absent" => repo'[j].state # "absent")
      BY <2>1, <2>3, <2>4
    <2>6. QED
      BY <2>5 DEF Restart, IInv, TaskInv, RowExists
  <1>4. QED
    BY <1>1, <1>3 DEF Restart, IInv, CmdCopiesSound, SchedCopiesSound

(* The invariant is inductive.                                             *)
LEMMA InvNext == IInv /\ [Next]_vars => IInv'
  <1> SUFFICES ASSUME IInv, [Next]_vars
               PROVE  IInv'
    OBVIOUS
  <1>1. CASE UNCHANGED vars
    <2>1. TypeOK'
      BY <1>1, TypeNext DEF IInv
    <2>2. QED
      BY <1>1, <2>1 DEF vars, IInv, TaskInv, CmdCopiesSound, SchedCopiesSound
  <1>2. CASE Next
    BY <1>2, InvSendFiles, InvWorkerStep, InvLoadForCmd, InvSaveFromCmd,
       InvRetryScan, InvRetryOne, InvCrash, InvRestart DEF Next
  <1>3. QED
    BY <1>1, <1>2

(* The inductive invariant holds in every reachable state.                 *)
LEMMA Inductive == Spec => []IInv
  BY InvInit, InvNext, PTL DEF Spec

(* No row counts a chunk its peer does not have.                           *)
THEOREM ProgressTheorem == Spec => []ProgressIsDelivered
  <1>1. IInv => ProgressIsDelivered
    BY DEF IInv, TaskInv, JobSound, ProgressIsDelivered
  <1>2. QED
    BY <1>1, Inductive, PTL

(* A row is Completed only if its peer has every chunk of every file.      *)
THEOREM CompletedTheorem == Spec => []CompletedIsDelivered
  <1>1. IInv => CompletedIsDelivered
    <2> SUFFICES ASSUME IInv, NEW j \in Jobs, repo[j].state = "completed"
                 PROVE  Chunks \subseteq peerHas[j]
      BY DEF CompletedIsDelivered
    <2>1. repo[j] \in Job /\ JobSound(repo[j], peerHas[j])
      BY DEF IInv, TaskInv, TypeOK
    <2>2. QED
      BY <2>1, SoundIsAll
  <1>2. QED
    BY <1>1, Inductive, PTL

-----------------------------------------------------------------------------
(* TransferSend implements SendPromise.                                    *)

(* The instance talks about the same chunks.                               *)
LEMMA SameChunks == Promise!Chunks = Chunks
  BY DEF Promise!Chunks, Chunks, Promise!Items, Items

(* A task at work has announced nothing.                                   *)
LEMMA WorkingIsOpen ==
  ASSUME IInv, NEW j \in Jobs, worker[j].pc \in Working
  PROVE  Told[j] = "open"
  BY DEF IInv, TaskInv, OneOutcome, Told, OutcomeOf

(* The peer's store is unchanged or grows in one job, by chunks of it.     *)
Grows(j) == \E more \in SUBSET Chunks : peerHas' = [peerHas EXCEPT ![j] = @ \cup more]

(* Storing the chunk at the cursor, or not, lets the store grow by chunks  *)
(* of the job.                                                             *)
LEMMA GrowsByCursor ==
  ASSUME IInv, NEW j \in Jobs, AtChunk(j), Stored(j) \/ UNCHANGED peerHas
  PROVE  Grows(j)
  <1>1. Cursor(j) \in Chunks
    BY ChunkMember DEF IInv, TypeOK, Worker, AtChunk, Cursor
  <1>2. CASE Stored(j)
    <2>1. {Cursor(j)} \in SUBSET Chunks
      BY <1>1
    <2>2. QED
      BY <1>2, <2>1 DEF Stored, Grows
  <1>3. CASE UNCHANGED peerHas
    <2>1. peerHas' = [peerHas EXCEPT ![j] = @ \cup {}]
      BY <1>3 DEF IInv, TypeOK
    <2>2. QED
      BY <2>1 DEF Grows
  <1>4. QED
    BY <1>2, <1>3

(* A step that only delivers.                                              *)
LEMMA MapsToDeliver ==
  ASSUME IInv, NEW j \in Jobs, worker[j].pc \in Working, Grows(j), UNCHANGED events
  PROVE  Promise!Next
  <1>1. Told' = Told
    BY DEF Told
  <1>2. Promise!Deliver(j)
    BY <1>1, WorkingIsOpen, SameChunks DEF Promise!Deliver, Grows
  <1>3. QED
    BY <1>2 DEF Promise!Next

(* A step that announces a failure.                                        *)
LEMMA MapsToFailed ==
  ASSUME IInv, NEW j \in Jobs, worker[j].pc \in Working, Grows(j), Publish(j, "failed")
  PROVE  Promise!Next
  <1>1. "completed" \notin events[j]
    BY DEF IInv, TaskInv, OneOutcome
  <1>2. Told' = [Told EXCEPT ![j] = "failed"]
    <2>1. events' = [events EXCEPT ![j] = events[j] \cup {"failed"}]
      BY DEF Publish
    <2>2. OutcomeOf(events[j] \cup {"failed"}) = "failed"
      BY <1>1 DEF OutcomeOf
    <2>3. QED
      BY <2>1, <2>2 DEF Told, IInv, TypeOK
  <1>3. Promise!AnnounceFailed(j)
    BY <1>2, WorkingIsOpen, SameChunks DEF Promise!AnnounceFailed, Grows
  <1>4. QED
    BY <1>3 DEF Promise!Next

(* The step that announces completion.                                     *)
LEMMA MapsToCompleted ==
  ASSUME IInv, NEW j \in Jobs, Finish(j)
  PROVE  Promise!Next
  <1>1. worker[j].pc \in Working /\ Chunks \subseteq peerHas[j]
    BY AllPushedMeansAll DEF Finish, AllPushed, Working
  <1>2. Publish(j, "completed") /\ peerHas' = peerHas
    BY DEF Finish
  <1>3. Told' = [Told EXCEPT ![j] = "completed"]
    <2>1. events' = [events EXCEPT ![j] = events[j] \cup {"completed"}]
      BY <1>2 DEF Publish
    <2>2. OutcomeOf(events[j] \cup {"completed"}) = "completed"
      BY DEF OutcomeOf
    <2>3. QED
      BY <2>1, <2>2 DEF Told, IInv, TypeOK
  <1>4. Promise!AnnounceCompleted(j)
    BY <1>1, <1>2, <1>3, WorkingIsOpen, SameChunks DEF Promise!AnnounceCompleted
  <1>5. QED
    BY <1>4 DEF Promise!Next

(* Failing a job delivers or announces a failure.                          *)
LEMMA MapsFailJob ==
  ASSUME IInv, NEW j \in Jobs, worker[j].pc \in Working, Grows(j), FailJob(j)
  PROVE  Promise!Next
  BY MapsToDeliver, MapsToFailed DEF FailJob

(* Every step of a task is a step of the promise or changes nothing it     *)
(* sees.                                                                   *)
LEMMA MapsWorkerStep ==
  ASSUME IInv, NEW j \in Jobs, WorkerStep(j)
  PROVE  Promise!Next \/ UNCHANGED <<peerHas, Told>>
  <1>1. CASE Start(j) \/ NextFile(j) \/ SkipChunk(j)
    BY <1>1 DEF Start, NextFile, SkipChunk, Told
  <1>2. CASE AnnounceFails(j)
    <2>1. peerHas' = [peerHas EXCEPT ![j] = @ \cup {}]
      BY <1>2 DEF AnnounceFails, IInv, TypeOK
    <2>2. Grows(j)
      BY <2>1 DEF Grows
    <2>3. QED
      BY <1>2, <2>2, MapsFailJob DEF AnnounceFails, Working
  <1>3. CASE AnnounceAccepted(j)
    <2>1. Grows(j) /\ UNCHANGED events /\ worker[j].pc \in Working
      BY <1>3 DEF AnnounceAccepted, Grows, Working
    <2>2. QED
      BY <2>1, MapsToDeliver
  <1>4. CASE UploadAcked(j)
    BY <1>4, GrowsByCursor, MapsToDeliver DEF UploadAcked, AtChunk, Working
  <1>5. CASE UploadFails(j)
    BY <1>5, GrowsByCursor, MapsFailJob DEF UploadFails, AtChunk, Working
  <1>6. CASE Finish(j)
    BY <1>6, MapsToCompleted
  <1>7. CASE WorkerErrors(j)
    <2>1. CASE UNCHANGED peerHas
      BY <1>7, <2>1 DEF WorkerErrors, Told
    <2>2. CASE AtChunk(j) /\ Stored(j)
      BY <1>7, <2>2, GrowsByCursor, MapsToDeliver DEF WorkerErrors
    <2>3. QED
      BY <1>7, <2>1, <2>2 DEF WorkerErrors
  <1>8. QED
    BY <1>1, <1>2, <1>3, <1>4, <1>5, <1>6, <1>7 DEF WorkerStep, Proceed

(* Every step is a step of the promise or a stutter.                       *)
LEMMA MapsNext == IInv /\ [Next]_vars => [Promise!Next]_<<peerHas, Told>>
  <1> SUFFICES ASSUME IInv, [Next]_vars
               PROVE  Promise!Next \/ UNCHANGED <<peerHas, Told>>
    OBVIOUS
  <1>1. ASSUME NEW j \in Jobs, SendFiles(j)
        PROVE  UNCHANGED <<peerHas, Told>>
    <2>1. events' = [events EXCEPT ![j] = events[j] \cup {"requested"}]
      BY <1>1 DEF SendFiles, Publish
    <2>2. OutcomeOf(events[j] \cup {"requested"}) = OutcomeOf(events[j])
      BY DEF OutcomeOf
    <2>3. QED
      BY <1>1, <2>1, <2>2 DEF SendFiles, Told, IInv, TypeOK
  <1>2. ASSUME UNCHANGED <<peerHas, events>>
        PROVE  UNCHANGED <<peerHas, Told>>
    BY <1>2 DEF Told
  <1>3. CASE UNCHANGED vars
    BY <1>2, <1>3 DEF vars
  <1>4. CASE Next
    BY <1>1, <1>2, <1>4, MapsWorkerStep
    DEF Next, LoadForCmd, SaveFromCmd, RetryScan, RetryOne, Crash, Restart
  <1>5. QED
    BY <1>3, <1>4

(* Every behaviour of the sender keeps the promise to the listeners.       *)
THEOREM PromiseTheorem == Spec => KeepsPromise
  <1>1. Init => Promise!Init
    BY DEF Init, Promise!Init, Told, OutcomeOf
  <1>2. QED
    BY <1>1, Inductive, MapsNext, PTL DEF Spec, KeepsPromise, Promise!Spec,
      Promise!promiseVars

-----------------------------------------------------------------------------
(* The task comes to an end: it counts down a finite set of positions.     *)

(* A position is a file and an index in it, or the file's end.             *)
LEMMA PositionParts ==
  /\ \A p \in Positions : p[1] \in Items /\ p[2] \in Nat
  /\ \A i \in Items : \A c \in 0..ChunkCount[i] : <<i, c>> \in Positions
  <1>1. ASSUME NEW p \in Positions
        PROVE  p[1] \in Items /\ p[2] \in Nat
    <2>1. PICK i \in Items : p \in {i} \X (0..ChunkCount[i])
      BY DEF Positions
    <2>2. p[1] = i /\ p[2] \in 0..ChunkCount[i]
      BY <2>1
    <2>3. QED
      BY <2>2, ManifestAssumption
  <1>2. \A i \in Items : \A c \in 0..ChunkCount[i] : <<i, c>> \in Positions
    BY DEF Positions
  <1>3. QED
    BY <1>1, <1>2

(* What a task has left of its loops is finite, whatever the manifest: the *)
(* countdown ends.                                                         *)
THEOREM LeftIsFinite ==
  ASSUME NEW j \in Jobs
  PROVE  IsFiniteSet(Left(j))
  <1> DEFINE InFile == [i \in Items |-> {i} \X (0..ChunkCount[i])]
             Files == {{i} \X (0..ChunkCount[i]) : i \in Items}
  <1>1. IsFiniteSet(Items)
    BY FS_Interval, ManifestAssumption DEF Items
  <1>2. InFile \in Surjection(Items, Files)
    BY DEF Surjection
  <1>3. IsFiniteSet(Files)
    BY <1>1, <1>2, FS_Surjection
  <1>4. ASSUME NEW F \in Files
        PROVE  IsFiniteSet(F)
    <2>1. PICK i \in Items : F = {i} \X (0..ChunkCount[i])
      OBVIOUS
    <2>2. IsFiniteSet({i})
      BY FS_Singleton
    <2>3. ChunkCount[i] \in Int /\ 0 \in Int
      BY ManifestAssumption
    <2>4. IsFiniteSet(0..ChunkCount[i])
      BY <2>3, FS_Interval
    <2>5. QED
      BY <2>1, <2>2, <2>4, FS_Product
  <1>5. IsFiniteSet(Positions)
    BY <1>3, <1>4, FS_UNION DEF Positions
  <1>6. QED
    BY <1>5, FS_Subset DEF Left

(* The loops stop at the end of a file.                                    *)
CursorInFile(j) ==
  worker[j].pc = "upload" /\ worker[j].item \in Items
    => worker[j].chunk <= ChunkCount[worker[j].item]

CountInv == IInv /\ \A j \in Jobs : CursorInFile(j)

(* The cursor leaves the position where it stood.                          *)
LEMMA CursorAdvances ==
  ASSUME TypeOK, TypeOK', NEW j \in Jobs, CursorInFile(j),
         worker[j].pc = "upload", worker[j].item \in Items,
         \/ worker'[j].item = worker[j].item /\ worker'[j].chunk = worker[j].chunk + 1
         \/ worker'[j].item = worker[j].item + 1 /\ worker'[j].chunk = 0
  PROVE  Left(j)' \subseteq Left(j) /\ Left(j)' # Left(j)
  <1> DEFINE i == worker[j].item
             c == worker[j].chunk
  <1>1. /\ i \in Nat /\ c \in Nat /\ i \in Items /\ ChunkCount[i] \in Nat
        /\ c <= ChunkCount[i]
    BY ManifestAssumption DEF TypeOK, Worker, CursorInFile
  <1>2. \A p \in Positions : p[1] \in Nat /\ p[2] \in Nat
    BY PositionParts DEF Items
  <1>3. Left(j)' \subseteq Left(j)
    BY <1>1, <1>2 DEF Left, Behind, Positions
  <1>4. <<i, c>> \in Left(j)
    <2>1. c \in 0..ChunkCount[i]
      BY <1>1
    <2>2. <<i, c>> \in Positions
      BY <1>1, <2>1, PositionParts
    <2>3. QED
      BY <1>1, <2>2 DEF Left, Behind
  <1>5. <<i, c>> \notin Left(j)'
    BY <1>1 DEF Left, Behind
  <1>6. QED
    BY <1>3, <1>4, <1>5

(* Each step of a task brings it nearer to its end.                        *)
LEMMA StepCountsDown ==
  ASSUME CountInv, TypeOK', NEW j \in Jobs, WorkerStep(j)
  PROVE  /\ Nearer(j) /\ CursorInFile(j)'
         /\ \A k \in Jobs \ {j} : worker'[k] = worker[k]
  <1> DEFINE w == worker[j]
  <1>1. w \in Worker /\ CursorInFile(j) /\ TypeOK
    BY DEF CountInv, IInv, TypeOK
  <1>2. ASSUME NEW how \in Ended, End(j, how)
        PROVE  /\ Nearer(j) /\ CursorInFile(j)'
               /\ \A k \in Jobs \ {j} : worker'[k] = worker[k]
    <2>1. worker' = [worker EXCEPT ![j] = [NoWorker EXCEPT !.pc = how]]
      BY <1>2 DEF End, SetWorker
    <2>2. worker'[j].pc = how
      BY <1>1, <2>1 DEF TypeOK, NoWorker
    <2>3. QED
      BY <2>1, <2>2 DEF Nearer, CursorInFile, Ended
  <1>3. ASSUME FailJob(j)
        PROVE  \E how \in Ended : End(j, how)
    BY <1>3 DEF FailJob, Ended
  <1>4. CASE Start(j)
    <2>1. worker' = [worker EXCEPT ![j] =
                       [NoWorker EXCEPT !.pc = "announce", !.copy = repo[j]]]
          /\ w.pc = "start"
      BY <1>4 DEF Start, SetWorker
    <2>2. worker'[j].pc = "announce"
      BY <1>1, <2>1 DEF TypeOK, NoWorker
    <2>3. QED
      BY <2>1, <2>2 DEF Nearer, CursorInFile
  <1>5. CASE AnnounceAccepted(j)
    <2> DEFINE current == IF CanAccept(w.copy) THEN Accept(w.copy) ELSE w.copy
               next(skip) == [pc |-> "upload", copy |-> current, from |-> current.done,
                              skip |-> skip, item |-> 1, chunk |-> 0]
    <2>1. PICK skip \in SUBSET Chunks : worker' = [worker EXCEPT ![j] = next(skip)]
      BY <1>5 DEF AnnounceAccepted, SetWorker
    <2>2. /\ worker'[j].pc = "upload" /\ worker'[j].chunk = 0
          /\ \A k \in Jobs \ {j} : worker'[k] = worker[k]
      BY <1>1, <2>1 DEF TypeOK
    <2>3. w.pc = "announce"
      BY <1>5 DEF AnnounceAccepted
    <2>4. CursorInFile(j)'
      BY <2>2, ManifestAssumption DEF CursorInFile
    <2>5. QED
      BY <2>2, <2>3, <2>4 DEF Nearer
  <1>6. ASSUME \/ NextFile(j)
               \/ SkipChunk(j)
               \/ UploadAcked(j) /\ ~ End(j, "errored")
        PROVE  /\ Nearer(j) /\ CursorInFile(j)'
               /\ \A k \in Jobs \ {j} : worker'[k] = worker[k]
    <2>1. w.pc = "upload" /\ w.item \in Items
      BY <1>6 DEF NextFile, AtFileEnd, SkipChunk, UploadAcked, AtChunk
    <2>2. CASE NextFile(j)
      <3>1. worker' = [worker EXCEPT ![j] = [w EXCEPT !.item = @ + 1, !.chunk = 0]]
        BY <2>2 DEF NextFile, SetWorker
      <3>2. /\ worker'[j].pc = "upload" /\ worker'[j].item = w.item + 1
            /\ worker'[j].chunk = 0
            /\ \A k \in Jobs \ {j} : worker'[k] = worker[k]
        BY <1>1, <2>1, <3>1 DEF TypeOK, Worker
      <3>3. CursorInFile(j)'
        BY <3>2, ManifestAssumption DEF CursorInFile
      <3>4. QED
        BY <1>1, <2>1, <3>2, <3>3, CursorAdvances DEF Nearer
    <2>3. CASE SkipChunk(j) \/ (UploadAcked(j) /\ ~ End(j, "errored"))
      <3>1. PICK copy : worker' = [worker EXCEPT ![j] =
                                     [w EXCEPT !.copy = copy, !.chunk = @ + 1]]
        <4>1. CASE SkipChunk(j)
          <5>1. worker' = [worker EXCEPT ![j] = [w EXCEPT !.chunk = @ + 1]]
            BY <4>1 DEF SkipChunk, SetWorker
          <5>2. [w EXCEPT !.chunk = @ + 1] = [w EXCEPT !.copy = w.copy, !.chunk = @ + 1]
            BY <1>1 DEF Worker
          <5>3. QED
            BY <5>1, <5>2
        <4>2. CASE UploadAcked(j) /\ ~ End(j, "errored")
          BY <4>2 DEF UploadAcked, SetWorker
        <4>3. QED
          BY <2>3, <4>1, <4>2
      <3>2. /\ worker'[j].pc = "upload" /\ worker'[j].item = w.item
            /\ worker'[j].chunk = w.chunk + 1
            /\ \A k \in Jobs \ {j} : worker'[k] = worker[k]
        BY <1>1, <2>1, <3>1 DEF TypeOK, Worker
      <3>3. w.chunk < ChunkCount[w.item] /\ w.chunk \in Nat /\ ChunkCount[w.item] \in Nat
        BY <1>1, <2>1, <2>3, ManifestAssumption DEF SkipChunk, UploadAcked, AtChunk, Worker
      <3>4. CursorInFile(j)'
        BY <3>2, <3>3 DEF CursorInFile
      <3>5. QED
        BY <1>1, <2>1, <3>2, <3>4, CursorAdvances DEF Nearer
    <2>4. QED
      BY <1>6, <2>2, <2>3
  <1>7. CASE \/ AnnounceFails(j) \/ UploadFails(j) \/ Finish(j) \/ WorkerErrors(j)
             \/ End(j, "errored")
    BY <1>2, <1>3, <1>7 DEF AnnounceFails, UploadFails, Finish, WorkerErrors, Ended
  <1>8. QED
    BY <1>4, <1>5, <1>6, <1>7 DEF WorkerStep, Proceed

(* A running task is touched by its own steps and by a crash only.         *)
LEMMA OthersLeaveTask ==
  ASSUME CountInv, TypeOK', [Next]_vars, NEW j \in Jobs, ~ WorkerStep(j)
  PROVE  /\ worker[j].pc \in Working => worker'[j] \in {worker[j], NoWorker}
         /\ CursorInFile(j)'
  <1>1. CASE worker'[j] \in {worker[j], NoWorker}
    <2>1. NoWorker.pc # "upload"
      BY DEF NoWorker
    <2>2. QED
      BY <1>1, <2>1 DEF CountInv, CursorInFile
  <1>2. CASE SendFiles(j)
    <2>1. worker[j].pc \notin Working
      BY <1>2 DEF SendFiles, CountInv, IInv, TaskInv, RowExists, Working
    <2>2. worker'[j].pc = "start"
      BY <1>2 DEF SendFiles, SetWorker, CountInv, IInv, TypeOK, NoWorker
    <2>3. QED
      BY <2>1, <2>2 DEF CursorInFile
  <1>3. ASSUME NEW k \in Jobs, k # j, SendFiles(k) \/ WorkerStep(k)
        PROVE  worker'[j] = worker[j]
    BY <1>3, StepCountsDown DEF SendFiles, SetWorker, CountInv, IInv, TypeOK
  <1>4. CASE \/ UNCHANGED vars
             \/ \E c \in Cmds, op \in Ops, k \in Jobs : LoadForCmd(c, op, k)
             \/ \E c \in Cmds : SaveFromCmd(c)
             \/ RetryScan \/ Restart
             \/ \E k \in Jobs, due \in BOOLEAN : RetryOne(k, due)
    <2>1. worker' = worker
      BY <1>4 DEF vars, LoadForCmd, SaveFromCmd, RetryScan, Restart, RetryOne
    <2>2. QED
      BY <1>1, <2>1
  <1>5. CASE Crash
    BY <1>1, <1>5 DEF Crash
  <1>6. QED
    BY <1>1, <1>2, <1>3, <1>4, <1>5 DEF Next

(* Every step of a task counts down, and nobody sets it back.              *)
THEOREM CountsDownTheorem == Spec => TaskCountsDown
  <1>1. Init => CountInv
    BY InvInit DEF Init, CountInv, CursorInFile, NoWorker
  <1>2. CountInv /\ [Next]_vars => CountInv'
    <2> SUFFICES ASSUME CountInv, [Next]_vars
                 PROVE  CountInv'
      OBVIOUS
    <2>1. IInv' /\ TypeOK'
      BY InvNext, TypeNext DEF CountInv, IInv
    <2>2. QED
      BY <2>1, StepCountsDown, OthersLeaveTask DEF CountInv
  <1>3. ASSUME CountInv, [Next]_vars
        PROVE  [\A j \in Jobs : worker[j].pc \in Working =>
                  IF WorkerStep(j) THEN Nearer(j)
                  ELSE worker'[j] \in {worker[j], NoWorker}]_vars
    <2>1. TypeOK'
      BY <1>3, TypeNext DEF CountInv, IInv
    <2>2. QED
      BY <1>3, <2>1, StepCountsDown, OthersLeaveTask
  <1>4. QED
    BY <1>1, <1>2, <1>3, PTL DEF Spec, TaskCountsDown

=============================================================================
