------------------------ MODULE TransferReceiveProofs ------------------------
(***************************************************************************)
(* Proofs about TransferReceive, for every set of jobs, number of files    *)
(* and chunks, and number of commands in flight.                           *)
(***************************************************************************)
EXTENDS TransferReceive, TransferJobProofs

-----------------------------------------------------------------------------
(* Type correctness.                                                       *)

(* A fresh receive job is well-typed and claims nothing.                   *)
LEMMA ReceivedSound ==
  Received \in Job /\ \A have : JobSound(Received, have)
  <1>1. Received \in Job
    BY DEF Received, NoJob, Job, JobState, ItemStatus
  <1>2. \A have : JobSound(Received, have)
    BY DEF JobSound, Received, NoJob, Items
  <1>3. QED
    BY <1>1, <1>2

(* The idle command slot is well-typed.                                    *)
LEMMA NoCmdType == NoCmd \in Cmd
  BY NoJobType, ReceiveAssumption DEF NoCmd, Cmd

(* A handler at work has a chunk of the job's manifest.                    *)
LEMMA BusyUpload ==
  ASSUME TypeOK, NEW j \in Jobs, upload[j].pc # "idle"
  PROVE  /\ upload[j] \in Upload
         /\ upload[j].chunk \in Chunks
         /\ upload[j].copy \in Job
  BY DEF TypeOK, Upload, Idle

(* A chunk is a file's number and an index in that file's manifest.        *)
LEMMA ChunkParts ==
  ASSUME NEW chunk \in Chunks
  PROVE  /\ chunk = <<chunk[1], chunk[2]>>
         /\ chunk[1] \in Items
         /\ chunk[2] \in Nat
         /\ chunk[2] < ChunkCount[chunk[1]]
  <1>1. PICK i \in Items : chunk \in {i} \X (0..(ChunkCount[i] - 1))
    BY DEF Chunks
  <1>2. chunk[1] = i /\ chunk[2] \in 0..(ChunkCount[i] - 1) /\ chunk = <<chunk[1], chunk[2]>>
    BY <1>1
  <1>3. QED
    BY <1>2, ManifestAssumption

(* Recording a chunk, and completing, keeps the type.                      *)
LEMMA RecordedType ==
  ASSUME NEW copy \in Job, NEW chunk \in Chunks
  PROVE  Recorded(copy, chunk) \in Job
  BY ChunkParts, RecordType, CompleteType DEF Recorded

(* Every answer keeps the peer's side well-typed and what it has           *)
(* acknowledged grows at most by the chunk answered.                       *)
LEMMA AnswerType ==
  ASSUME TypeOK, NEW j \in Jobs, upload[j].pc # "idle", NEW verified \in BOOLEAN,
         Answer(j, verified)
  PROVE  /\ sender' \in [Jobs -> Sender]
         /\ \A k \in Jobs \ {j} : sender'[k] = sender[k]
         /\ sender'[j].acked \subseteq
              sender[j].acked \cup (IF verified THEN {upload[j].chunk} ELSE {})
  <1>1. sender[j] \in Sender /\ upload[j].chunk \in Chunks
    BY BusyUpload DEF TypeOK
  <1>2. CASE sender[j].pc # "waiting"
    BY <1>2 DEF Answer, TypeOK
  <1>3. CASE sender[j].pc = "waiting" /\ verified
    <2> DEFINE next == [pc |-> "ready", acked |-> sender[j].acked \cup {upload[j].chunk}]
    <2>1. sender' = [sender EXCEPT ![j] = next]
      BY <1>3 DEF Answer
    <2>2. next \in Sender
      BY <1>1 DEF Sender
    <2>3. QED
      BY <1>3, <2>1, <2>2 DEF TypeOK
  <1>4. CASE sender[j].pc = "waiting" /\ ~verified
    <2>1. sender' = [sender EXCEPT ![j].pc = "stopped"]
      BY <1>4 DEF Answer
    <2>2. QED
      BY <1>1, <1>4, <2>1 DEF TypeOK, Sender
  <1>5. QED
    BY <1>2, <1>3, <1>4

(* An answer that is negative or comes too late acknowledges nothing.      *)
LEMMA AnswerAcks ==
  ASSUME TypeOK, NEW j \in Jobs, NEW verified \in BOOLEAN, Answer(j, verified),
         sender[j].pc # "waiting" \/ ~verified
  PROVE  Acked' = Acked
  <1>1. sender' = sender \/ sender' = [sender EXCEPT ![j].pc = "stopped"]
    BY DEF Answer
  <1>2. QED
    BY <1>1 DEF Acked, TypeOK, Sender

(* Every step preserves the types.                                         *)
LEMMA TypeNext == TypeOK /\ [Next]_vars => TypeOK'
  <1> SUFFICES ASSUME TypeOK, [Next]_vars
               PROVE  TypeOK'
    OBVIOUS
  <1>1. CASE UNCHANGED vars
    BY <1>1 DEF vars, TypeOK
  <1>2. ASSUME NEW j \in Jobs, RequestAccepted(j)
        PROVE  TypeOK'
    BY <1>2, ReceivedSound DEF RequestAccepted, Save, TypeOK, Sender
  <1>3. ASSUME NEW j \in Jobs, PeerUploads(j)
        PROVE  TypeOK'
    BY <1>3, NoJobType DEF PeerUploads, SetUpload, TypeOK, Sender, Upload
  <1>4. ASSUME NEW j \in Jobs, PeerStops(j)
        PROVE  TypeOK'
    BY <1>4 DEF PeerStops, TypeOK, Sender
  <1>5. ASSUME NEW j \in Jobs, LoadJob(j)
        PROVE  TypeOK'
    <2>1. [upload[j] EXCEPT !.pc = "loaded", !.copy = repo[j]] \in Upload
      BY <1>5, BusyUpload DEF LoadJob, TypeOK, Upload
    <2>2. QED
      BY <1>5, <2>1 DEF LoadJob, SetUpload, TypeOK
  <1>6. ASSUME NEW j \in Jobs, WriteChunk(j)
        PROVE  TypeOK'
    <2>1. [upload[j] EXCEPT !.pc = "written"] \in Upload /\ upload[j].chunk \in Chunks
      BY <1>6, BusyUpload DEF WriteChunk, Upload
    <2>2. QED
      BY <1>6, <2>1 DEF WriteChunk, SetUpload, TypeOK
  <1>7. ASSUME NEW j \in Jobs, RecordAndAnswer(j)
        PROVE  TypeOK'
    <2>1. upload[j].pc # "idle" /\ (Answer(j, TRUE) \/ Answer(j, FALSE))
      BY <1>7 DEF RecordAndAnswer
    <2>2. sender' \in [Jobs -> Sender]
      BY <2>1, AnswerType
    <2>3. Recorded(upload[j].copy, upload[j].chunk) \in Job
      BY <2>1, BusyUpload, RecordedType
    <2>4. repo' \in [Jobs -> Job]
      BY <1>7, <2>3 DEF RecordAndAnswer, Save, TypeOK
    <2>5. QED
      BY <1>7, <2>2, <2>4 DEF RecordAndAnswer, SetUpload, TypeOK
  <1>8. ASSUME NEW j \in Jobs, UploadErrors(j)
        PROVE  TypeOK'
    <2>1. sender' \in [Jobs -> Sender]
      BY <1>8, AnswerType DEF UploadErrors
    <2>2. QED
      BY <1>8, <2>1 DEF UploadErrors, SetUpload, TypeOK
  <1>9. ASSUME NEW c \in Cmds, NEW op \in Ops, NEW j \in Jobs, LoadForCmd(c, op, j)
        PROVE  TypeOK'
    BY <1>9 DEF LoadForCmd, TypeOK, Cmd
  <1>10. ASSUME NEW c \in Cmds, SaveFromCmd(c)
         PROVE  TypeOK'
    <2>1. cmd[c].op \in Ops /\ cmd[c].job \in Jobs /\ cmd[c].copy \in Job
      BY <1>10 DEF SaveFromCmd, TypeOK, Cmd
    <2>2. Apply(cmd[c].op, cmd[c].copy) \in Job
      BY <2>1, CommandType
    <2>3. QED
      BY <1>10, <2>1, <2>2, NoCmdType DEF SaveFromCmd, Save, TypeOK
  <1>11. CASE Crash
    BY <1>11, NoCmdType DEF Crash, TypeOK
  <1>12. CASE Restart
    BY <1>12, RecoveredType DEF Restart, TypeOK
  <1>13. QED
    BY <1>1, <1>2, <1>3, <1>4, <1>5, <1>6, <1>7, <1>8, <1>9, <1>10, <1>11, <1>12
    DEF Next, Handler

(* The variables always have the types TypeOK declares.                    *)
THEOREM TypeCorrect == Spec => []TypeOK
  <1>1. Init => TypeOK
    BY NoJobType, NoCmdType DEF Init, TypeOK, Sender
  <1>2. QED
    BY <1>1, TypeNext, PTL DEF Spec

-----------------------------------------------------------------------------
(* The inductive invariant: every copy of a job claims no more than what   *)
(* is on disk, and the peer's order of uploads, which record_chunk_done    *)
(* relies on, is the order in which chunks reach the disk.                 *)

(* The invariant holds initially.                                          *)
LEMMA InvInit == Init => IInv
  <1> SUFFICES ASSUME Init
               PROVE  IInv
    OBVIOUS
  <1>1. TypeOK
    BY NoJobType, NoCmdType DEF Init, TypeOK, Sender
  <1>2. \A j \in Jobs : ReceiveInv(j)
    BY SoundNoJob DEF Init, ReceiveInv, InOrder, Idle
  <1>3. CmdCopiesSound
    BY SoundNoJob DEF Init, CmdCopiesSound, NoCmd
  <1>4. QED
    BY <1>1, <1>2, <1>3 DEF IInv

(* A step that touches one job and no command keeps the invariant if it    *)
(* keeps that job's part of it.                                            *)
LEMMA OneJobSteps ==
  ASSUME IInv, TypeOK', NEW j \in Jobs,
         \A k \in Jobs \ {j} : /\ repo'[k] = repo[k]
                               /\ upload'[k] = upload[k]
                               /\ disk'[k] = disk[k]
                               /\ sender'[k] = sender[k],
         disk[j] \subseteq disk'[j],
         UNCHANGED cmd,
         ReceiveInv(j)'
  PROVE  IInv'
  <1>1. \A k \in Jobs : ReceiveInv(k)'
    BY DEF IInv, ReceiveInv
  <1>2. \A k \in Jobs : disk[k] \subseteq disk'[k]
    OBVIOUS
  <1>3. CmdCopiesSound'
    <2>1. \A c \in Cmds : cmd[c].job \in Jobs
      BY DEF IInv, TypeOK, Cmd
    <2>2. QED
      BY <1>2, <2>1, SoundMore DEF IInv, CmdCopiesSound
  <1>4. QED
    BY <1>1, <1>3 DEF IInv

(* A row that only claims what is there replaces another.                  *)
LEMMA InvRequestAccepted ==
  ASSUME IInv, TypeOK', NEW j \in Jobs, RequestAccepted(j)
  PROVE  IInv'
  <1>1. /\ repo'[j] = Received
        /\ sender'[j].acked = sender[j].acked
        /\ upload' = upload /\ disk' = disk
    BY DEF RequestAccepted, Save, IInv, TypeOK, Sender
  <1>2. ReceiveInv(j)'
    BY <1>1, ReceivedSound DEF IInv, ReceiveInv
  <1>3. QED
    BY <1>1, <1>2, OneJobSteps DEF RequestAccepted, Save, IInv, TypeOK

(* The peer sends its next chunk: all before it were acknowledged, and     *)
(* what was acknowledged is on disk.                                       *)
LEMMA InvPeerUploads ==
  ASSUME IInv, TypeOK', NEW j \in Jobs, PeerUploads(j)
  PROVE  IInv'
  <1>1. PICK chunk \in Chunks :
          /\ IsNext(chunk, sender[j].acked)
          /\ SetUpload(j, [pc |-> "arrived", chunk |-> chunk, copy |-> NoJob])
    BY DEF PeerUploads
  <1>2. upload'[j] = [pc |-> "arrived", chunk |-> chunk, copy |-> NoJob]
    BY <1>1 DEF SetUpload, IInv, TypeOK
  <1>3. sender'[j].acked = sender[j].acked /\ repo' = repo /\ disk' = disk
    BY DEF PeerUploads, IInv, TypeOK, Sender
  <1>4. InOrder(upload'[j], disk[j])
    BY <1>1, <1>2 DEF InOrder, IsNext, IInv, ReceiveInv
  <1>5. ReceiveInv(j)'
    BY <1>2, <1>3, <1>4, SoundNoJob DEF IInv, ReceiveInv
  <1>6. QED
    BY <1>1, <1>3, <1>5, OneJobSteps DEF PeerUploads, SetUpload, IInv, TypeOK

(* The peer stops: nothing it was told is taken back.                      *)
LEMMA InvPeerStops ==
  ASSUME IInv, TypeOK', NEW j \in Jobs, PeerStops(j)
  PROVE  IInv'
  <1>1. sender'[j].acked = sender[j].acked
    BY DEF PeerStops, IInv, TypeOK, Sender
  <1>2. ReceiveInv(j)'
    BY <1>1 DEF PeerStops, IInv, ReceiveInv
  <1>3. QED
    BY <1>2, OneJobSteps DEF PeerStops, IInv, TypeOK

(* The handler loads a sound row.                                          *)
LEMMA InvLoadJob ==
  ASSUME IInv, TypeOK', NEW j \in Jobs, LoadJob(j)
  PROVE  IInv'
  <1>1. upload[j] \in Upload
    BY BusyUpload DEF LoadJob, IInv
  <1>2. /\ upload'[j] = [upload[j] EXCEPT !.pc = "loaded", !.copy = repo[j]]
        /\ \A k \in Jobs \ {j} : upload'[k] = upload[k]
    BY DEF LoadJob, SetUpload, IInv, TypeOK
  <1>3. upload'[j].pc = "loaded" /\ upload'[j].copy = repo[j] /\ upload'[j].chunk = upload[j].chunk
    BY <1>1, <1>2 DEF Upload
  <1>4. ReceiveInv(j)'
    BY <1>3 DEF LoadJob, IInv, ReceiveInv, InOrder
  <1>5. QED
    BY <1>2, <1>4, OneJobSteps DEF LoadJob

(* The chunk reaches the disk.                                             *)
LEMMA InvWriteChunk ==
  ASSUME IInv, TypeOK', NEW j \in Jobs, WriteChunk(j)
  PROVE  IInv'
  <1>1. upload[j] \in Upload
    BY BusyUpload DEF WriteChunk, IInv
  <1>2. /\ upload'[j] = [upload[j] EXCEPT !.pc = "written"]
        /\ disk'[j] = disk[j] \cup {upload[j].chunk}
        /\ \A k \in Jobs \ {j} : upload'[k] = upload[k] /\ disk'[k] = disk[k]
    BY DEF WriteChunk, SetUpload, IInv, TypeOK
  <1>3. upload'[j].copy = upload[j].copy /\ upload'[j].chunk = upload[j].chunk
    BY <1>1, <1>2 DEF Upload
  <1>4. JobSound(repo[j], disk'[j]) /\ JobSound(upload[j].copy, disk'[j])
    BY <1>2, SoundMore DEF IInv, ReceiveInv
  <1>5. InOrder(upload'[j], disk'[j])
    BY <1>2, <1>3 DEF WriteChunk, IInv, ReceiveInv, InOrder
  <1>6. ReceiveInv(j)'
    BY <1>2, <1>3, <1>4, <1>5 DEF WriteChunk, IInv, ReceiveInv
  <1>7. QED
    BY <1>2, <1>6, OneJobSteps DEF WriteChunk

(* Recording a chunk that is on disk with all chunks before it.            *)
LEMMA RecordedSound ==
  ASSUME NEW copy \in Job, NEW chunk \in Chunks, NEW have,
         CanRecord(copy), JobSound(copy, have), chunk \in have,
         \A other \in Chunks : Precedes(other, chunk) => other \in have
  PROVE  JobSound(Recorded(copy, chunk), have)
  <1> DEFINE recorded == RecordChunkDone(copy, chunk[1], chunk[2])
  <1>1. chunk[1] \in Items /\ chunk[2] \in Nat /\ chunk[2] < ChunkCount[chunk[1]]
        /\ chunk = <<chunk[1], chunk[2]>>
    BY ChunkParts
  <1>2. \A d \in 0..chunk[2] : <<chunk[1], d>> \in have
    <2>1. ASSUME NEW d \in 0..chunk[2], d # chunk[2]
          PROVE  <<chunk[1], d>> \in have
      <3>1. d \in Nat /\ d < chunk[2] /\ d < ChunkCount[chunk[1]]
        BY <1>1, <2>1, ManifestAssumption
      <3>2. <<chunk[1], d>> \in Chunks
        BY <1>1, <3>1, ChunkMember
      <3>3. Precedes(<<chunk[1], d>>, chunk)
        BY <3>1 DEF Precedes
      <3>4. QED
        BY <3>2, <3>3
    <2>2. QED
      BY <1>1, <2>1
  <1>3. recorded \in Job /\ JobSound(recorded, have)
    BY <1>1, <1>2, RecordType, SoundRecord
  <1> HIDE DEF recorded
  <1>4. CanComplete(recorded) => JobSound(Complete(recorded), have)
    BY <1>3, SoundComplete
  <1>5. QED
    BY <1>3, <1>4 DEF Recorded, recorded

(* The handler is done, with or without a save; what it acknowledges is on *)
(* disk.                                                                   *)
LEMMA InvHandlerEnds ==
  ASSUME IInv, TypeOK', NEW j \in Jobs, NEW verified \in BOOLEAN,
         upload[j].pc # "idle", Answer(j, verified), SetUpload(j, Idle),
         verified => upload[j].chunk \in disk[j],
         \A k \in Jobs \ {j} : repo'[k] = repo[k],
         JobSound(repo'[j], disk[j]),
         UNCHANGED <<disk, cmd>>
  PROVE  IInv'
  <1>1. /\ \A k \in Jobs \ {j} : sender'[k] = sender[k]
        /\ sender'[j].acked \subseteq
             sender[j].acked \cup (IF verified THEN {upload[j].chunk} ELSE {})
    BY AnswerType DEF IInv
  <1>2. sender'[j].acked \subseteq disk[j]
    BY <1>1 DEF IInv, ReceiveInv
  <1>3. upload'[j] = Idle /\ \A k \in Jobs \ {j} : upload'[k] = upload[k]
    BY DEF SetUpload, IInv, TypeOK
  <1>4. ReceiveInv(j)'
    BY <1>2, <1>3, SoundNoJob DEF ReceiveInv, InOrder, Idle
  <1>5. QED
    BY <1>1, <1>3, <1>4, OneJobSteps

(* The handler records the chunk and answers, or answers with an error.    *)
LEMMA InvRecordAndAnswer ==
  ASSUME IInv, TypeOK', NEW j \in Jobs, RecordAndAnswer(j)
  PROVE  IInv'
  <1> DEFINE u == upload[j]
  <1>1. u.chunk \in Chunks /\ u.copy \in Job /\ u.pc = "written"
    BY BusyUpload DEF RecordAndAnswer, IInv
  <1>2. /\ JobSound(repo[j], disk[j]) /\ JobSound(u.copy, disk[j])
        /\ u.chunk \in disk[j] /\ InOrder(u, disk[j])
    BY <1>1 DEF IInv, ReceiveInv
  <1>3. CASE CanRecord(u.copy)
    <2>1. JobSound(Recorded(u.copy, u.chunk), disk[j])
      BY <1>1, <1>2, <1>3, RecordedSound DEF InOrder
    <2>2. Save(j, Recorded(u.copy, u.chunk)) /\ Answer(j, TRUE) /\ SetUpload(j, Idle)
          /\ UNCHANGED <<disk, cmd>>
      BY <1>3 DEF RecordAndAnswer
    <2>3. /\ repo'[j] = Recorded(u.copy, u.chunk)
          /\ \A k \in Jobs \ {j} : repo'[k] = repo[k]
      BY <2>2 DEF Save, IInv, TypeOK
    <2>4. QED
      BY <1>1, <1>2, <2>1, <2>2, <2>3, InvHandlerEnds
  <1>4. CASE ~CanRecord(u.copy)
    <2>1. UNCHANGED repo /\ Answer(j, FALSE) /\ SetUpload(j, Idle) /\ UNCHANGED <<disk, cmd>>
      BY <1>4 DEF RecordAndAnswer
    <2>2. QED
      BY <1>1, <1>2, <2>1, InvHandlerEnds
  <1>5. QED
    BY <1>3, <1>4

(* A handler that fails changes no row.                                    *)
LEMMA InvUploadErrors ==
  ASSUME IInv, TypeOK', NEW j \in Jobs, UploadErrors(j)
  PROVE  IInv'
  <1>1. JobSound(repo[j], disk[j])
    BY DEF IInv, ReceiveInv
  <1>2. QED
    BY <1>1, InvHandlerEnds DEF UploadErrors

(* A command loads a sound row and writes its copy back.                   *)
LEMMA InvCommand ==
  ASSUME IInv, TypeOK', NEW c \in Cmds
  PROVE  /\ \A op \in Ops, j \in Jobs : LoadForCmd(c, op, j) => IInv'
         /\ SaveFromCmd(c) => IInv'
  <1>1. ASSUME NEW op \in Ops, NEW j \in Jobs, LoadForCmd(c, op, j)
        PROVE  IInv'
    <2>1. CmdCopiesSound'
      BY <1>1 DEF LoadForCmd, IInv, TypeOK, CmdCopiesSound, ReceiveInv
    <2>2. QED
      BY <1>1, <2>1 DEF LoadForCmd, IInv, ReceiveInv
  <1>2. ASSUME SaveFromCmd(c)
        PROVE  IInv'
    <2> DEFINE j == cmd[c].job
               job == Apply(cmd[c].op, cmd[c].copy)
    <2>1. cmd[c].op \in Ops /\ j \in Jobs /\ cmd[c].copy \in Job
      BY <1>2 DEF SaveFromCmd, IInv, TypeOK, Cmd
    <2>2. JobSound(cmd[c].copy, disk[j])
      BY DEF IInv, CmdCopiesSound
    <2>3. JobSound(job, disk[j])
      BY <2>1, <2>2, SoundApply
    <2>4. /\ repo' = [repo EXCEPT ![j] = job]
          /\ cmd' = [cmd EXCEPT ![c] = NoCmd]
          /\ UNCHANGED <<disk, upload, sender>>
      BY <1>2 DEF SaveFromCmd, Save
    <2> HIDE DEF j, job
    <2>5. \A k \in Jobs : ReceiveInv(k)'
      BY <2>1, <2>3, <2>4 DEF IInv, TypeOK, ReceiveInv
    <2>6. CmdCopiesSound'
      BY <2>4, SoundNoJob DEF IInv, TypeOK, CmdCopiesSound, NoCmd
    <2>7. QED
      BY <2>5, <2>6 DEF IInv
  <1>3. QED
    BY <1>1, <1>2

(* A crash drops handlers and copies; recovery rewrites the rows.          *)
LEMMA InvCrashRestart ==
  ASSUME IInv, TypeOK', Crash \/ Restart
  PROVE  IInv'
  <1>1. CASE Crash
    <2>1. \A j \in Jobs : ReceiveInv(j)'
      BY <1>1, SoundNoJob DEF Crash, IInv, ReceiveInv, InOrder, Idle
    <2>2. CmdCopiesSound'
      BY <1>1, SoundNoJob DEF Crash, CmdCopiesSound, NoCmd
    <2>3. QED
      BY <2>1, <2>2 DEF IInv
  <1>2. CASE Restart
    <2>1. ASSUME NEW j \in Jobs
          PROVE  ReceiveInv(j)'
      <3>1. repo[j] \in Job /\ JobSound(repo[j], disk[j])
        BY DEF IInv, TypeOK, ReceiveInv
      <3>2. JobSound(Recovered(repo[j], FALSE), disk[j])
        BY <3>1, SoundRecovered
      <3>3. repo'[j] \in {repo[j], Recovered(repo[j], FALSE)}
        BY <1>2 DEF Restart
      <3>4. JobSound(repo'[j], disk[j])
        BY <3>1, <3>2, <3>3
      <3>5. QED
        BY <1>2, <3>4 DEF Restart, IInv, ReceiveInv
    <2>2. QED
      BY <1>2, <2>1 DEF Restart, IInv, CmdCopiesSound
  <1>3. QED
    BY <1>1, <1>2

(* The invariant is inductive.                                             *)
LEMMA InvNext == IInv /\ [Next]_vars => IInv'
  <1> SUFFICES ASSUME IInv, [Next]_vars
               PROVE  IInv'
    OBVIOUS
  <1>1. TypeOK'
    BY TypeNext DEF IInv
  <1>2. CASE UNCHANGED vars
    BY <1>1, <1>2 DEF vars, IInv, ReceiveInv, CmdCopiesSound
  <1>3. CASE Next
    BY <1>1, <1>3, InvRequestAccepted, InvPeerUploads, InvPeerStops, InvLoadJob,
       InvWriteChunk, InvRecordAndAnswer, InvUploadErrors, InvCommand, InvCrashRestart
    DEF Next, Handler
  <1>4. QED
    BY <1>2, <1>3

(* A sound row that is Completed has all chunks.                           *)
LEMMA CompletedStored == IInv => CompletedIsOnDisk
  <1> SUFFICES ASSUME IInv, NEW j \in Jobs, repo[j].state = "completed"
               PROVE  Chunks \subseteq disk[j]
    BY DEF CompletedIsOnDisk
  <1>1. repo[j] \in Job /\ JobSound(repo[j], disk[j])
    BY DEF IInv, TypeOK, ReceiveInv
  <1>2. QED
    BY <1>1, SoundIsAll

(* A row is Completed only when every chunk of every file is on disk.      *)
THEOREM CompletedTheorem == Spec => []CompletedIsOnDisk
  BY CompletedStored, InvInit, InvNext, PTL DEF Spec

-----------------------------------------------------------------------------
(* What was acknowledged is counted.  A file without chunks is never       *)
(* recorded and so never done: the manifest must have none.                *)

NoEmptyFile == Items # {} /\ \A i \in Items : ChunkCount[i] > 0

(* A row counts what was acknowledged, and a file all of whose chunks are  *)
(* counted is marked as done.                                              *)
Counts(job, acked) ==
  /\ \A chunk \in acked : job.done[chunk[1]] > chunk[2]
  /\ \A i \in Items : job.done[i] >= ChunkCount[i] => job.status[i] \in {"verifying", "completed"}

(* The row is Completed as soon as all its files are done, and is what the *)
(* handler at work has loaded; before the request there is neither.        *)
CountInv(j) ==
  /\ sender[j].pc = "idle" => sender[j].acked = {} /\ upload[j].pc = "idle"
  /\ j \notin disturbed =>
       /\ Counts(repo[j], sender[j].acked)
       /\ sender[j].pc # "idle" /\ AllItemsDone(repo[j]) => repo[j].state = "completed"
       /\ upload[j].pc \in {"loaded", "written"} => upload[j].copy = repo[j]

CInv == TypeOK /\ \A j \in Jobs : CountInv(j)

(* Recording a chunk counts it, forgets none, and completes the job when   *)
(* every file is done.                                                     *)
LEMMA RecordedCounts ==
  ASSUME NEW copy \in Job, NEW acked \in SUBSET Chunks, NEW chunk \in Chunks,
         Counts(copy, acked)
  PROVE  /\ Counts(Recorded(copy, chunk), acked \cup {chunk})
         /\ AllItemsDone(Recorded(copy, chunk)) => Recorded(copy, chunk).state = "completed"
  <1> DEFINE i == chunk[1]
             c == chunk[2]
             item == RecordItem(copy, i, c)
             recorded == RecordChunkDone(copy, i, c)
  <1>1. i \in Items /\ c \in Nat
    BY ChunkParts
  <1>2. item \in Job /\ recorded \in Job
    BY <1>1, RecordType
  <1>3. /\ item.done = [copy.done EXCEPT ![i] = HighWater(copy, i, c)]
        /\ item.status = [copy.status EXCEPT ![i] = StatusAt(i, HighWater(copy, i, c))]
    BY <1>1 DEF RecordItem, Job
  <1>4. HighWater(copy, i, c) \in Nat /\ HighWater(copy, i, c) > c
        /\ HighWater(copy, i, c) >= copy.done[i]
    BY <1>1 DEF HighWater, Job
  <1> HIDE DEF item, recorded
  <1>5. Counts(item, acked \cup {chunk})
    <2>1. ASSUME NEW other \in acked \cup {chunk}
          PROVE  item.done[other[1]] > other[2]
      <3>1. other[1] \in Items /\ other[2] \in Nat
        BY ChunkParts
      <3>2. CASE other \in acked /\ other[1] = i
        BY <1>1, <1>3, <1>4, <3>1, <3>2 DEF Counts, Job
      <3>3. CASE other \in acked /\ other[1] # i
        BY <1>1, <1>3, <3>1, <3>3 DEF Counts, Job
      <3>4. CASE other = chunk
        BY <1>1, <1>3, <1>4, <3>4 DEF Job
      <3>5. QED
        BY <3>2, <3>3, <3>4
    <2>2. ASSUME NEW k \in Items, item.done[k] >= ChunkCount[k]
          PROVE  item.status[k] \in {"verifying", "completed"}
      BY <1>1, <1>3, <2>2 DEF Counts, StatusAt, Job
    <2>3. QED
      BY <2>1, <2>2 DEF Counts
  <1>6. /\ recorded.done = item.done /\ recorded.status = item.status
        /\ AllItemsDone(item) => recorded.state = "verifying"
        /\ ~ AllItemsDone(item) => recorded = item
    BY <1>2 DEF recorded, item, RecordChunkDone, Enter, Job
  <1>7. Counts(recorded, acked \cup {chunk})
    BY <1>5, <1>6 DEF Counts
  <1>8. /\ Complete(recorded).done = recorded.done
        /\ \A k \in Items : Complete(recorded).status[k] = "completed"
        /\ Complete(recorded).state = "completed"
    BY <1>2 DEF Complete, Enter, Job
  <1>9. Recorded(copy, chunk) = IF CanComplete(recorded) THEN Complete(recorded) ELSE recorded
    BY DEF Recorded, recorded
  <1>10. CASE CanComplete(recorded)
    BY <1>7, <1>8, <1>9, <1>10 DEF Counts
  <1>11. CASE ~ CanComplete(recorded)
    <2>1. ~ AllItemsDone(recorded)
      BY <1>6, <1>11 DEF CanComplete, AllItemsDone
    <2>2. QED
      BY <1>7, <1>9, <1>11, <2>1
  <1>12. QED
    BY <1>10, <1>11

(* The fresh row of a request counts nothing and is not done.              *)
LEMMA ReceivedCounts ==
  ASSUME NoEmptyFile
  PROVE  Counts(Received, {}) /\ Counts(NoJob, {}) /\ ~ AllItemsDone(Received)
  <1>1. /\ \A i \in Items : Received.done[i] = 0 /\ Received.status[i] = "pending"
        /\ \A i \in Items : NoJob.done[i] = 0 /\ NoJob.status[i] = "pending"
    BY DEF Received, NoJob
  <1>2. \A i \in Items : ~ (0 >= ChunkCount[i])
    BY ManifestAssumption DEF NoEmptyFile
  <1>3. QED
    BY <1>1, <1>2 DEF Counts, AllItemsDone, NoEmptyFile

(* A step about one job that is no command and no crash.                   *)
LEMMA CountOneJob ==
  ASSUME CInv, TypeOK', NEW j \in Jobs,
         \A k \in Jobs \ {j} : /\ repo'[k] = repo[k]
                               /\ upload'[k] = upload[k]
                               /\ sender'[k] = sender[k],
         UNCHANGED disturbed,
         CountInv(j)'
  PROVE  CInv'
  BY DEF CInv, CountInv

(* What an answer does to the peer's side.                                 *)
LEMMA AnswerCounts ==
  ASSUME TypeOK, NEW j \in Jobs, upload[j].pc # "idle", sender[j].pc # "idle",
         NEW verified \in BOOLEAN, Answer(j, verified)
  PROVE  sender'[j].pc # "idle"
  <1>1. sender[j] \in Sender
    BY DEF TypeOK
  <1>2. CASE sender[j].pc # "waiting"
    BY <1>2 DEF Answer
  <1>3. CASE sender[j].pc = "waiting" /\ verified
    <2>1. sender' = [sender EXCEPT ![j] = [pc |-> "ready", acked |-> @.acked \cup {upload[j].chunk}]]
      BY <1>3 DEF Answer
    <2>2. QED
      BY <2>1 DEF TypeOK
  <1>4. CASE sender[j].pc = "waiting" /\ ~ verified
    BY <1>1, <1>4 DEF Answer, TypeOK, Sender
  <1>5. QED
    BY <1>2, <1>3, <1>4

(* The request, the uploads of the peer, and its end.                      *)
LEMMA CountPeer ==
  ASSUME NoEmptyFile, CInv, TypeOK', NEW j \in Jobs,
         RequestAccepted(j) \/ PeerUploads(j) \/ PeerStops(j)
  PROVE  CInv'
  <1>1. sender[j] \in Sender /\ CountInv(j)
    BY DEF CInv, TypeOK
  <1>2. CASE RequestAccepted(j)
    <2>1. /\ repo'[j] = Received /\ upload'[j] = upload[j] /\ disturbed' = disturbed
          /\ sender'[j].pc = "ready" /\ sender'[j].acked = {} /\ upload[j].pc = "idle"
      BY <1>1, <1>2 DEF RequestAccepted, Save, CInv, TypeOK, Sender, CountInv
    <2>2. CountInv(j)'
      BY <2>1, ReceivedCounts DEF CountInv
    <2>3. QED
      BY <1>2, <2>1, <2>2, CountOneJob DEF RequestAccepted, Save, CInv, TypeOK
  <1>3. CASE PeerUploads(j)
    <2>1. /\ sender'[j].pc = "waiting" /\ sender'[j].acked = sender[j].acked
          /\ sender[j].pc = "ready" /\ repo' = repo /\ disturbed' = disturbed
      BY <1>1, <1>3 DEF PeerUploads, CInv, TypeOK, Sender
    <2>2. upload'[j].pc = "arrived"
      BY <1>3 DEF PeerUploads, SetUpload, CInv, TypeOK
    <2>3. CountInv(j)'
      BY <1>1, <2>1, <2>2 DEF CountInv
    <2>4. QED
      BY <1>3, <2>1, <2>3, CountOneJob DEF PeerUploads, SetUpload, CInv, TypeOK
  <1>4. CASE PeerStops(j)
    <2>1. /\ sender'[j].pc = "stopped" /\ sender'[j].acked = sender[j].acked
          /\ sender[j].pc # "idle" /\ repo' = repo /\ upload' = upload /\ disturbed' = disturbed
      BY <1>1, <1>4 DEF PeerStops, CInv, TypeOK, Sender
    <2>2. CountInv(j)'
      BY <1>1, <2>1 DEF CountInv
    <2>3. QED
      BY <1>4, <2>1, <2>2, CountOneJob DEF PeerStops, CInv, TypeOK
  <1>5. QED
    BY <1>2, <1>3, <1>4

(* The handler: it saves what it has loaded, with the chunk recorded.      *)
LEMMA CountHandler ==
  ASSUME NoEmptyFile, CInv, TypeOK', NEW j \in Jobs, Handler(j)
  PROVE  CInv'
  <1>1. sender[j] \in Sender /\ CountInv(j)
    BY DEF CInv, TypeOK
  <1>2. upload[j].pc # "idle" /\ sender[j].pc # "idle"
    BY <1>1 DEF Handler, LoadJob, WriteChunk, RecordAndAnswer, UploadErrors, CountInv
  <1>3. upload[j] \in Upload /\ upload[j].chunk \in Chunks /\ upload[j].copy \in Job
    BY <1>2, BusyUpload DEF CInv
  <1>4. CASE LoadJob(j)
    <2>1. upload'[j] = [upload[j] EXCEPT !.pc = "loaded", !.copy = repo[j]]
          /\ repo' = repo /\ sender' = sender /\ disturbed' = disturbed
      BY <1>4 DEF LoadJob, SetUpload, CInv, TypeOK
    <2>2. upload'[j].pc = "loaded" /\ upload'[j].copy = repo[j]
      BY <1>3, <2>1 DEF Upload
    <2>3. CountInv(j)'
      BY <1>1, <1>2, <2>1, <2>2 DEF CountInv
    <2>4. QED
      BY <1>4, <2>1, <2>3, CountOneJob DEF LoadJob, SetUpload, CInv, TypeOK
  <1>5. CASE WriteChunk(j)
    <2>1. upload'[j] = [upload[j] EXCEPT !.pc = "written"] /\ upload[j].pc = "loaded"
          /\ repo' = repo /\ sender' = sender /\ disturbed' = disturbed
      BY <1>5 DEF WriteChunk, SetUpload, CInv, TypeOK
    <2>2. upload'[j].pc = "written" /\ upload'[j].copy = upload[j].copy
      BY <1>3, <2>1 DEF Upload
    <2>3. CountInv(j)'
      BY <1>1, <1>2, <2>1, <2>2 DEF CountInv
    <2>4. QED
      BY <1>5, <2>1, <2>3, CountOneJob DEF WriteChunk, SetUpload, CInv, TypeOK
  <1>6. CASE RecordAndAnswer(j) \/ UploadErrors(j)
    <2> DEFINE u == upload[j]
    <2>1. /\ upload'[j] = Idle /\ disturbed' = disturbed
          /\ \A k \in Jobs \ {j} : upload'[k] = upload[k] /\ repo'[k] = repo[k]
      BY <1>6 DEF RecordAndAnswer, UploadErrors, SetUpload, Save, CInv, TypeOK
    <2>2. ASSUME NEW verified \in BOOLEAN, Answer(j, verified),
                 j \notin disturbed =>
                    /\ Counts(repo'[j], sender[j].acked \cup (IF verified THEN {u.chunk} ELSE {}))
                    /\ AllItemsDone(repo'[j]) => repo'[j].state = "completed"
          PROVE  CInv'
      <3>1. /\ sender'[j].pc # "idle"
            /\ sender'[j].acked \subseteq sender[j].acked \cup (IF verified THEN {u.chunk} ELSE {})
            /\ \A k \in Jobs \ {j} : sender'[k] = sender[k]
        BY <1>2, <2>2, AnswerCounts, AnswerType DEF CInv
      <3>2. j \notin disturbed => Counts(repo'[j], sender'[j].acked)
        BY <2>2, <3>1 DEF Counts
      <3>3. CountInv(j)'
        BY <2>1, <2>2, <3>1, <3>2 DEF CountInv, Idle
      <3>4. QED
        BY <2>1, <3>1, <3>3, CountOneJob
    <2>3. CASE UNCHANGED repo /\ Answer(j, FALSE)
      BY <1>1, <1>2, <2>2, <2>3 DEF CountInv
    <2>4. CASE /\ u.pc = "written"
               /\ Save(j, Recorded(u.copy, u.chunk)) /\ Answer(j, TRUE)
      <3>1. repo'[j] = Recorded(u.copy, u.chunk)
        BY <2>4 DEF Save, CInv, TypeOK
      <3>2. ASSUME j \notin disturbed
            PROVE  /\ Counts(repo'[j], sender[j].acked \cup {u.chunk})
                   /\ AllItemsDone(repo'[j]) => repo'[j].state = "completed"
        <4>1. u.copy = repo[j] /\ Counts(u.copy, sender[j].acked)
          BY <1>1, <2>4, <3>2 DEF CountInv
        <4>2. sender[j].acked \in SUBSET Chunks
          BY <1>1 DEF Sender
        <4>3. QED
          BY <1>3, <3>1, <4>1, <4>2, RecordedCounts
      <3>3. QED
        BY <2>2, <2>4, <3>2
    <2>5. QED
      BY <1>6, <2>3, <2>4 DEF RecordAndAnswer, UploadErrors
  <1>7. QED
    BY <1>4, <1>5, <1>6 DEF Handler

(* Commands and recovery mark the rows they write.                         *)
LEMMA CountOthers ==
  ASSUME CInv, TypeOK',
         \/ \E c \in Cmds, op \in Ops, j \in Jobs : LoadForCmd(c, op, j)
         \/ \E c \in Cmds : SaveFromCmd(c)
         \/ Crash \/ Restart
  PROVE  CInv'
  <1>1. CASE \E c \in Cmds, op \in Ops, j \in Jobs : LoadForCmd(c, op, j)
    BY <1>1 DEF LoadForCmd, CInv, CountInv
  <1>2. ASSUME NEW c \in Cmds, SaveFromCmd(c)
        PROVE  CInv'
    <2>1. /\ disturbed' = disturbed \cup {cmd[c].job} /\ upload' = upload /\ sender' = sender
          /\ \A j \in Jobs : j # cmd[c].job => repo'[j] = repo[j]
      BY <1>2 DEF SaveFromCmd, Save, CInv, TypeOK
    <2>2. QED
      BY <2>1 DEF CInv, CountInv
  <1>3. CASE Crash
    BY <1>3 DEF Crash, CInv, CountInv, Idle
  <1>4. CASE Restart
    <2>1. \A j \in Jobs : j \notin disturbed' => j \notin disturbed /\ repo'[j] = repo[j]
      BY <1>4 DEF Restart, Recovered
    <2>2. UNCHANGED <<upload, sender>>
      BY <1>4 DEF Restart
    <2>3. QED
      BY <2>1, <2>2 DEF CInv, CountInv
  <1>5. QED
    BY <1>1, <1>2, <1>3, <1>4

(* What was acknowledged is counted, and Completed once everything is,     *)
(* unless a command or recovery wrote the row or a file has no chunks.     *)
THEOREM AckedTheorem ==
  ASSUME NoEmptyFile
  PROVE  Spec => []AckedIsCounted
  <1>1. Init => CInv
    <2> SUFFICES ASSUME Init
                 PROVE  CInv
      OBVIOUS
    <2>1. TypeOK
      BY NoJobType, NoCmdType DEF Init, TypeOK, Sender
    <2>2. QED
      BY <2>1, ReceivedCounts DEF Init, CInv, CountInv, Idle
  <1>2. CInv /\ [Next]_vars => CInv'
    <2> SUFFICES ASSUME CInv, [Next]_vars
                 PROVE  CInv'
      OBVIOUS
    <2>1. TypeOK'
      BY TypeNext DEF CInv
    <2>2. CASE UNCHANGED vars
      BY <2>1, <2>2 DEF vars, CInv, CountInv
    <2>3. CASE Next
      BY <2>1, <2>3, CountPeer, CountHandler, CountOthers DEF Next
    <2>4. QED
      BY <2>2, <2>3
  <1>3. CInv => AckedIsCounted
    <2> SUFFICES ASSUME CInv, NEW j \in Jobs, j \notin disturbed
                 PROVE  /\ \A chunk \in sender[j].acked : repo[j].done[chunk[1]] > chunk[2]
                        /\ sender[j].pc # "idle" /\ sender[j].acked = Chunks => repo[j].state = "completed"
      BY DEF AckedIsCounted
    <2>1. CountInv(j) /\ Counts(repo[j], sender[j].acked) /\ repo[j] \in Job
      BY DEF CInv, CountInv, TypeOK
    <2>2. ASSUME sender[j].acked = Chunks
          PROVE  AllItemsDone(repo[j])
      <3> SUFFICES ASSUME NEW i \in Items
                   PROVE  repo[j].status[i] \in {"verifying", "completed"}
        BY DEF AllItemsDone
      <3>1. ChunkCount[i] \in Nat /\ ChunkCount[i] > 0
        BY ManifestAssumption DEF NoEmptyFile
      <3>2. <<i, ChunkCount[i] - 1>> \in Chunks
        BY <3>1, ChunkMember
      <3>3. repo[j].done[i] > ChunkCount[i] - 1
        BY <2>1, <2>2, <3>2 DEF Counts
      <3>4. QED
        BY <2>1, <3>1, <3>3 DEF Counts, Job
    <2>3. QED
      BY <2>1, <2>2 DEF Counts, CountInv
  <1>4. QED
    BY <1>1, <1>2, <1>3, PTL DEF Spec

-----------------------------------------------------------------------------
(* The receiving side implements ChunkStore.                               *)

(* The chunk that a handler has is the first one not acknowledged, and the *)
(* peer waits for its answer or has given up.                              *)
InTurn(j) ==
  upload[j].pc # "idle" =>
    sender[j].pc \in {"waiting", "stopped"} /\ IsNext(upload[j].chunk, sender[j].acked)

TurnInv == TypeOK /\ \A j \in Jobs : InTurn(j)

(* A handler that ends leaves nothing in its place.                        *)
LEMMA TurnEnds ==
  ASSUME TurnInv, NEW j \in Jobs, upload' = [upload EXCEPT ![j] = Idle],
         \A k \in Jobs \ {j} : sender'[k] = sender[k]
  PROVE  \A k \in Jobs : InTurn(k)'
  BY DEF TurnInv, TypeOK, InTurn, Idle

(* A handler that goes on keeps its chunk.                                 *)
LEMMA TurnGoesOn ==
  ASSUME TurnInv, NEW j \in Jobs, NEW u \in Upload, upload' = [upload EXCEPT ![j] = u],
         upload[j].pc # "idle", u.chunk = upload[j].chunk, sender' = sender
  PROVE  \A k \in Jobs : InTurn(k)'
  BY DEF TurnInv, TypeOK, InTurn

(* The peer uploads one chunk at a time.                                   *)
LEMMA TurnPeer ==
  ASSUME TurnInv, NEW j \in Jobs, RequestAccepted(j) \/ PeerUploads(j) \/ PeerStops(j)
  PROVE  \A k \in Jobs : InTurn(k)'
  <1>1. sender[j] \in Sender /\ InTurn(j)
    BY DEF TurnInv, TypeOK
  <1>2. CASE RequestAccepted(j)
    <2>1. sender' = [sender EXCEPT ![j].pc = "ready"] /\ upload' = upload
          /\ upload[j].pc = "idle"
      BY <1>1, <1>2 DEF RequestAccepted, InTurn
    <2>2. QED
      BY <2>1 DEF TurnInv, TypeOK, InTurn
  <1>3. CASE PeerUploads(j)
    <2>1. PICK chunk \in Chunks :
            /\ IsNext(chunk, sender[j].acked)
            /\ upload' = [upload EXCEPT ![j] =
                            [pc |-> "arrived", chunk |-> chunk, copy |-> NoJob]]
      BY <1>3 DEF PeerUploads, SetUpload
    <2>2. sender' = [sender EXCEPT ![j].pc = "waiting"]
      BY <1>3 DEF PeerUploads
    <2>3. sender'[j].pc = "waiting" /\ sender'[j].acked = sender[j].acked
          /\ \A k \in Jobs \ {j} : sender'[k] = sender[k]
      BY <1>1, <2>2 DEF Sender, TurnInv, TypeOK
    <2>4. QED
      BY <2>1, <2>3 DEF TurnInv, TypeOK, InTurn
  <1>4. CASE PeerStops(j)
    <2>1. sender' = [sender EXCEPT ![j].pc = "stopped"] /\ upload' = upload
      BY <1>4 DEF PeerStops
    <2>2. sender'[j].pc = "stopped" /\ sender'[j].acked = sender[j].acked
          /\ \A k \in Jobs \ {j} : sender'[k] = sender[k]
      BY <1>1, <2>1 DEF Sender, TurnInv, TypeOK
    <2>3. QED
      BY <2>1, <2>2 DEF TurnInv, InTurn
  <1>5. QED
    BY <1>2, <1>3, <1>4

(* Handlers work on one chunk from beginning to end.                       *)
LEMMA TurnHandler ==
  ASSUME TurnInv, NEW j \in Jobs, Handler(j)
  PROVE  \A k \in Jobs : InTurn(k)'
  <1>1. upload[j].pc # "idle" /\ TypeOK
    BY DEF Handler, LoadJob, WriteChunk, RecordAndAnswer, UploadErrors, TurnInv
  <1>2. upload[j] \in Upload /\ repo[j] \in Job
    BY <1>1, BusyUpload DEF TypeOK
  <1>3. CASE LoadJob(j)
    BY <1>1, <1>2, <1>3, TurnGoesOn DEF LoadJob, SetUpload, Upload
  <1>4. CASE WriteChunk(j)
    BY <1>1, <1>2, <1>4, TurnGoesOn DEF WriteChunk, SetUpload, Upload
  <1>5. CASE RecordAndAnswer(j)
    <2>1. PICK verified \in BOOLEAN : Answer(j, verified)
      BY <1>5 DEF RecordAndAnswer
    <2>2. QED
      BY <1>1, <1>5, <2>1, AnswerType, TurnEnds DEF RecordAndAnswer, SetUpload
  <1>6. CASE UploadErrors(j)
    BY <1>1, <1>6, AnswerType, TurnEnds DEF UploadErrors, SetUpload
  <1>7. QED
    BY <1>3, <1>4, <1>5, <1>6 DEF Handler

(* The chunks are in turn in every state.                                  *)
LEMMA TurnNext == TurnInv /\ [Next]_vars => TurnInv'
  <1> SUFFICES ASSUME TurnInv, [Next]_vars
               PROVE  TurnInv'
    OBVIOUS
  <1>1. TypeOK'
    BY TypeNext DEF TurnInv
  <1>2. CASE UNCHANGED vars
    BY <1>1, <1>2 DEF vars, TurnInv, InTurn
  <1>3. CASE \E c \in Cmds, op \in Ops, j \in Jobs : LoadForCmd(c, op, j)
    BY <1>1, <1>3 DEF LoadForCmd, TurnInv, InTurn
  <1>4. CASE \E c \in Cmds : SaveFromCmd(c)
    BY <1>1, <1>4 DEF SaveFromCmd, TurnInv, InTurn
  <1>5. CASE Crash \/ Restart
    <2>1. Idle.pc = "idle"
      BY DEF Idle
    <2>2. /\ sender' = sender
          /\ \A j \in Jobs : upload'[j] = upload[j] \/ upload'[j] = Idle
      BY <1>5 DEF Crash, Restart
    <2>3. QED
      BY <1>1, <2>1, <2>2 DEF TurnInv, InTurn
  <1>6. ASSUME NEW j \in Jobs,
               RequestAccepted(j) \/ PeerUploads(j) \/ PeerStops(j) \/ Handler(j)
        PROVE  TurnInv'
    BY <1>1, <1>6, TurnPeer, TurnHandler DEF TurnInv
  <1>7. QED
    BY <1>2, <1>3, <1>4, <1>5, <1>6 DEF Next

StoreInv == IInv /\ TurnInv

(* A row that is Completed after a step has all chunks then.               *)
LEMMA CompletedAfter ==
  ASSUME StoreInv'
  PROVE  \A j \in Jobs : repo'[j].state = "completed" => Chunks \subseteq disk'[j]
  <1>1. IInv' => CompletedIsOnDisk'
    BY CompletedStored, PTL
  <1>2. QED
    BY <1>1 DEF StoreInv, CompletedIsOnDisk

(* The state of one row is all that is shown anew.                         *)
LEMMA RowShows ==
  ASSUME NEW j \in Jobs, \A k \in Jobs \ {j} : repo'[k] = repo[k],
         repo'[j].state = "completed" => Chunks \subseteq disk[j]
  PROVE  Store!Shows(j)
  <1>1. CASE repo'[j].state = "completed"
    <2>1. CompleteJobs' = CompleteJobs \cup {j}
      BY <1>1 DEF CompleteJobs
    <2>2. QED
      BY <1>1, <2>1 DEF Store!Shows, Store!Chunks, Chunks, Store!Items, Items
  <1>2. CASE repo'[j].state # "completed"
    <2>1. CompleteJobs' = CompleteJobs \ {j}
      BY <1>2 DEF CompleteJobs
    <2>2. QED
      BY <2>1 DEF Store!Shows
  <1>3. QED
    BY <1>1, <1>2

(* Writing a chunk stores the one whose turn it is.                        *)
LEMMA MapsWriteChunk ==
  ASSUME StoreInv, NEW j \in Jobs, WriteChunk(j)
  PROVE  Store!Store(j)
  <1> DEFINE chunk == upload[j].chunk
  <1>1. chunk \in Chunks /\ IsNext(chunk, sender[j].acked)
    BY BusyUpload DEF StoreInv, TurnInv, InTurn, WriteChunk
  <1>2. chunk \in Chunks \ Acked[j]
    BY <1>1 DEF IsNext, Acked
  <1>3. Store!Before(chunk) \subseteq Acked[j]
    BY <1>1 DEF IsNext, Precedes, Acked, Store!Before, Store!Chunks, Chunks, Store!Items,
      Items
  <1>4. disk' = [disk EXCEPT ![j] = @ \cup {chunk}] /\ UNCHANGED <<Acked, CompleteJobs>>
    BY DEF WriteChunk, Acked, CompleteJobs
  <1>5. QED
    BY <1>2, <1>3, <1>4 DEF Store!Store, Store!Chunks, Chunks, Store!Items, Items

(* The answer acknowledges the chunk if the peer still waits for it, and   *)
(* the row may become Completed at the same time.                          *)
LEMMA MapsRecordAndAnswer ==
  ASSUME StoreInv, StoreInv', NEW j \in Jobs, RecordAndAnswer(j)
  PROVE  Store!Acknowledge(j) \/ Store!ChangeState(j)
  <1> DEFINE chunk == upload[j].chunk
  <1>1. /\ chunk \in disk[j] /\ chunk \notin sender[j].acked
        /\ sender[j].pc \in {"waiting", "stopped"} /\ sender[j] \in Sender
    BY DEF StoreInv, IInv, TypeOK, ReceiveInv, TurnInv, InTurn, IsNext, RecordAndAnswer
  <1>2. disk' = disk /\ \A k \in Jobs \ {j} : repo'[k] = repo[k]
    BY DEF RecordAndAnswer, Save, StoreInv, IInv, TypeOK
  <1>3. repo'[j].state = "completed" => Chunks \subseteq disk[j]
    BY <1>2, CompletedAfter
  <1>4. Store!Shows(j)
    BY <1>2, <1>3, RowShows
  <1>5. CASE sender[j].pc = "waiting" /\ Answer(j, TRUE)
    <2>1. sender' = [sender EXCEPT ![j] =
                       [pc |-> "ready", acked |-> sender[j].acked \cup {chunk}]]
      BY <1>5 DEF Answer
    <2>2. Acked' = [Acked EXCEPT ![j] = @ \cup {chunk}]
      BY <2>1 DEF Acked, StoreInv, IInv, TypeOK
    <2>3. chunk \in disk[j] \ Acked[j]
      BY <1>1 DEF Acked
    <2>4. QED
      BY <1>2, <1>4, <2>2, <2>3 DEF Store!Acknowledge
  <1>6. CASE sender[j].pc # "waiting" \/ Answer(j, FALSE)
    <2>1. PICK verified \in BOOLEAN : /\ Answer(j, verified)
                                      /\ sender[j].pc # "waiting" \/ ~verified
      BY <1>6 DEF RecordAndAnswer
    <2>2. Acked' = Acked
      BY <2>1, AnswerAcks DEF StoreInv, IInv
    <2>3. QED
      BY <1>2, <1>4, <2>2 DEF Store!ChangeState
  <1>7. QED
    BY <1>5, <1>6 DEF RecordAndAnswer

(* Everything else changes at most the state shown.                        *)
LEMMA MapsOthers ==
  ASSUME StoreInv, StoreInv'
  PROVE  /\ \A j \in Jobs : RequestAccepted(j) => Store!ChangeState(j)
         /\ \A c \in Cmds : SaveFromCmd(c) => Store!ChangeState(cmd[c].job)
         /\ Restart => UNCHANGED <<disk, Acked, CompleteJobs>>
         /\ \A j \in Jobs : PeerUploads(j) \/ PeerStops(j) \/ LoadJob(j) \/ UploadErrors(j)
              => UNCHANGED <<disk, Acked, CompleteJobs>>
  <1>1. ASSUME NEW j \in Jobs, RequestAccepted(j)
        PROVE  Store!ChangeState(j)
    <2>1. /\ repo' = [repo EXCEPT ![j] = Received] /\ disk' = disk
          /\ sender' = [sender EXCEPT ![j].pc = "ready"]
      BY <1>1 DEF RequestAccepted, Save
    <2>2. repo'[j].state # "completed" /\ \A k \in Jobs \ {j} : repo'[k] = repo[k]
      BY <2>1 DEF StoreInv, IInv, TypeOK, Received, NoJob
    <2>3. Acked' = Acked
      BY <2>1 DEF Acked, StoreInv, IInv, TypeOK, Sender
    <2>4. QED
      BY <2>1, <2>2, <2>3, RowShows DEF Store!ChangeState
  <1>2. ASSUME NEW c \in Cmds, SaveFromCmd(c)
        PROVE  Store!ChangeState(cmd[c].job)
    <2> DEFINE j == cmd[c].job
    <2>1. j \in Jobs
      BY DEF StoreInv, IInv, TypeOK, Cmd
    <2>2. /\ \A k \in Jobs \ {j} : repo'[k] = repo[k]
          /\ disk' = disk /\ Acked' = Acked
      BY <1>2 DEF SaveFromCmd, Save, StoreInv, IInv, TypeOK, Acked
    <2>3. repo'[j].state = "completed" => Chunks \subseteq disk[j]
      BY <2>1, <2>2, CompletedAfter
    <2>4. QED
      BY <2>1, <2>2, <2>3, RowShows DEF Store!ChangeState
  <1>3. ASSUME Restart
        PROVE  UNCHANGED <<disk, Acked, CompleteJobs>>
    <2>1. ASSUME NEW j \in Jobs
          PROVE  repo'[j].state = "completed" <=> repo[j].state = "completed"
      <3>1. repo[j] \in Job /\ repo'[j] \in {repo[j], Recovered(repo[j], FALSE)}
        BY <1>3 DEF Restart, StoreInv, IInv, TypeOK
      <3>2. QED
        BY <3>1 DEF Recovered, CanPause, Pause, Enter, Job
    <2>2. QED
      BY <1>3, <2>1 DEF Restart, Acked, CompleteJobs
  <1>4. ASSUME NEW j \in Jobs, PeerUploads(j) \/ PeerStops(j) \/ LoadJob(j) \/ UploadErrors(j)
        PROVE  UNCHANGED <<disk, Acked, CompleteJobs>>
    <2>1. UNCHANGED <<disk, repo>>
      BY <1>4 DEF PeerUploads, PeerStops, LoadJob, UploadErrors
    <2>2. Acked' = Acked
      <3>1. CASE LoadJob(j)
        BY <3>1 DEF LoadJob, Acked
      <3>2. CASE UploadErrors(j)
        BY <3>2, AnswerAcks DEF UploadErrors, StoreInv, IInv
      <3>3. CASE PeerUploads(j) \/ PeerStops(j)
        <4>1. PICK pc \in {"waiting", "stopped"} : sender' = [sender EXCEPT ![j].pc = pc]
          BY <3>3 DEF PeerUploads, PeerStops
        <4>2. \A k \in Jobs : sender'[k].acked = sender[k].acked
          BY <4>1 DEF StoreInv, IInv, TypeOK, Sender
        <4>3. QED
          BY <4>2 DEF Acked
      <3>4. QED
        BY <1>4, <3>1, <3>2, <3>3
    <2>3. QED
      BY <2>1, <2>2 DEF CompleteJobs
  <1>5. QED
    BY <1>1, <1>2, <1>3, <1>4

(* Every step is a step of ChunkStore or stutters.                         *)
LEMMA MapsNext ==
  ASSUME StoreInv, StoreInv', [Next]_vars
  PROVE  [Store!Next]_(Store!storeVars)
  <1>1. CASE UNCHANGED vars \/ Crash
             \/ \E c \in Cmds, op \in Ops, j \in Jobs : LoadForCmd(c, op, j)
    <2>1. UNCHANGED <<disk, repo, sender>>
      BY <1>1 DEF vars, Crash, LoadForCmd
    <2>2. QED
      BY <2>1 DEF Store!storeVars, Acked, CompleteJobs
  <1>2. ASSUME NEW j \in Jobs,
               RequestAccepted(j) \/ PeerUploads(j) \/ PeerStops(j) \/ Handler(j)
        PROVE  [Store!Next]_(Store!storeVars)
    BY <1>2, MapsWriteChunk, MapsRecordAndAnswer, MapsOthers
    DEF Handler, Store!Next, Store!storeVars
  <1>3. ASSUME NEW c \in Cmds, SaveFromCmd(c)
        PROVE  [Store!Next]_(Store!storeVars)
    <2>1. cmd[c].job \in Jobs
      BY DEF StoreInv, IInv, TypeOK, Cmd
    <2>2. QED
      BY <1>3, <2>1, MapsOthers DEF Store!Next
  <1>4. CASE Restart
    BY <1>4, MapsOthers DEF Store!storeVars
  <1>5. QED
    BY <1>1, <1>2, <1>3, <1>4 DEF Next

(* Receiving keeps what ChunkStore promises the peer and the user.         *)
THEOREM ChunksTheorem == Spec => KeepsChunks
  <1>1. Init => StoreInv /\ Store!Init
    <2> SUFFICES ASSUME Init
                 PROVE  StoreInv /\ Store!Init
      OBVIOUS
    <2>1. StoreInv
      BY InvInit DEF Init, StoreInv, TurnInv, InTurn, IInv, Idle
    <2>2. Store!Init
      BY DEF Init, Store!Init, Acked, CompleteJobs, NoJob
    <2>3. QED
      BY <2>1, <2>2
  <1>2. StoreInv /\ [Next]_vars => StoreInv'
    BY InvNext, TurnNext DEF StoreInv
  <1>3. QED
    BY <1>1, <1>2, MapsNext, PTL DEF Spec, KeepsChunks, Store!Spec, Store!storeVars

=============================================================================
