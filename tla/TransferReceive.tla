--------------------------- MODULE TransferReceive ---------------------------
(***************************************************************************)
(* The receiving side of transfers: the HTTP handlers for a peer's request *)
(* and for its chunk uploads, the commands that act on the same rows, and  *)
(* crash recovery.  An upload handler loads the row, writes the chunk to   *)
(* the target file in a blocking task, and only then records the chunk in  *)
(* its copy and saves the copy; commands and recovery may save in between. *)
(*                                                                         *)
(* The sending peer is the environment.  It does what execute_send does:   *)
(* one upload at a time, chunk after chunk and file after file, the next   *)
(* one after a positive answer, and none after an error or a timeout.      *)
(***************************************************************************)
EXTENDS TransferJob

CONSTANTS
  Jobs,  (* job ids                                                        *)
  Cmds   (* command invocations that can be in flight at once              *)

ASSUME ReceiveAssumption == Jobs # {}

VARIABLES
  up,        (* the program is running                                     *)
  repo,      (* per job id, its row                                        *)
  disk,      (* per job, the chunks in its target files                    *)
  upload,    (* per job, the upload handler at work for it                 *)
  cmd,       (* per invocation, the command between its load and its save  *)
  sender,    (* per job, the peer's side of it                             *)
  disturbed  (* the jobs written by a command or by recovery (history)     *)

vars == <<up, repo, disk, upload, cmd, sender, disturbed>>

-----------------------------------------------------------------------------
Upload == [pc : {"arrived", "loaded", "written"}, chunk : Chunks, copy : Job]

Idle == [pc |-> "idle", chunk |-> <<>>, copy |-> NoJob]

(* acked: the chunks acknowledged as verified and recorded.                *)
Sender == [pc : {"idle", "ready", "waiting", "stopped"}, acked : SUBSET Chunks]

Cmd == [op : Ops \cup {"none"}, job : Jobs, copy : Job]
NoCmd == [op |-> "none", job |-> CHOOSE j \in Jobs : TRUE, copy |-> NoJob]

TypeOK ==
  /\ up \in BOOLEAN
  /\ repo \in [Jobs -> Job]
  /\ disk \in [Jobs -> SUBSET Chunks]
  /\ upload \in [Jobs -> Upload \cup {Idle}]
  /\ cmd \in [Cmds -> Cmd]
  /\ sender \in [Jobs -> Sender]
  /\ disturbed \subseteq Jobs

Init ==
  /\ up = TRUE
  /\ repo = [j \in Jobs |-> NoJob]
  /\ disk = [j \in Jobs |-> {}]
  /\ upload = [j \in Jobs |-> Idle]
  /\ cmd = [c \in Cmds |-> NoCmd]
  /\ sender = [j \in Jobs |-> [pc |-> "idle", acked |-> {}]]
  /\ disturbed = {}

Save(j, job) == repo' = [repo EXCEPT ![j] = job]

SetUpload(j, u) == upload' = [upload EXCEPT ![j] = u]

-----------------------------------------------------------------------------
(* The peer.                                                               *)

(* Chunks are uploaded in the order of files and of indices in a file.     *)
Precedes(a, b) == a[1] < b[1] \/ (a[1] = b[1] /\ a[2] < b[2])

IsNext(chunk, acked) ==
  chunk \notin acked /\ \A other \in Chunks : Precedes(other, chunk) => other \in acked

PeerUploads(j) ==
  /\ up
  /\ sender[j].pc = "ready"
  /\ \E chunk \in Chunks :
       /\ IsNext(chunk, sender[j].acked)
       /\ SetUpload(j, [pc |-> "arrived", chunk |-> chunk, copy |-> NoJob])
  /\ sender' = [sender EXCEPT ![j].pc = "waiting"]
  /\ UNCHANGED <<up, repo, disk, cmd, disturbed>>

(* A timeout, a lost connection or answer, or the end of the peer's task.  *)
PeerStops(j) ==
  /\ sender[j].pc \in {"ready", "waiting"}
  /\ sender' = [sender EXCEPT ![j].pc = "stopped"]
  /\ UNCHANGED <<up, repo, disk, upload, cmd, disturbed>>

(* The answer to an upload; a peer that stopped waiting does not hear it.  *)
Answer(j, verified) ==
  sender' = IF sender[j].pc # "waiting" THEN sender
            ELSE IF verified
            THEN [sender EXCEPT ![j] = [pc |-> "ready", acked |-> @.acked \cup {upload[j].chunk}]]
            ELSE [sender EXCEPT ![j].pc = "stopped"]

-----------------------------------------------------------------------------
(* handle_transfer_request and handle_chunk_upload.                        *)

(* A request that passed the trust check, whose sender is Paired and may   *)
(* push into the share it names.  The row starts out Active.               *)
Received == [NoJob EXCEPT !.state = "active"]

RequestAccepted(j) ==
  /\ up
  /\ sender[j].pc = "idle"
  /\ Save(j, Received)
  /\ sender' = [sender EXCEPT ![j].pc = "ready"]
  /\ UNCHANGED <<up, disk, upload, cmd, disturbed>>

LoadJob(j) ==
  /\ upload[j].pc = "arrived"
  /\ SetUpload(j, [upload[j] EXCEPT !.pc = "loaded", !.copy = repo[j]])
  /\ UNCHANGED <<up, repo, disk, cmd, sender, disturbed>>

(* Mutant of WriteChunk: the file is opened with truncate(true).           *)
WriteTruncates(j) ==
  /\ upload[j].pc = "loaded"
  /\ disk' = [disk EXCEPT ![j] = {upload[j].chunk}]
  /\ SetUpload(j, [upload[j] EXCEPT !.pc = "written"])
  /\ UNCHANGED <<up, repo, cmd, sender, disturbed>>

(* The content has the announced hash and is written at the chunk's offset *)
(* whatever state the job is in.                                           *)
WriteChunk(j) ==
  /\ upload[j].pc = "loaded"
  /\ disk' = [disk EXCEPT ![j] = @ \cup {upload[j].chunk}]
  /\ SetUpload(j, [upload[j] EXCEPT !.pc = "written"])
  /\ UNCHANGED <<up, repo, cmd, sender, disturbed>>

(* record_chunk_done, and complete() at once when it made the job          *)
(* Verifying.                                                              *)
Recorded(copy, chunk) ==
  LET recorded == RecordChunkDone(copy, chunk[1], chunk[2])
  IN IF CanComplete(recorded) THEN Complete(recorded) ELSE recorded

(* Mutant of RecordAndAnswer: the blocking task that writes is not awaited. *)
AnswerUnawaited(j) ==
  /\ upload[j].pc \in {"loaded", "written"}
  /\ LET u == upload[j]
     IN IF CanRecord(u.copy)
        THEN Save(j, Recorded(u.copy, u.chunk)) /\ Answer(j, TRUE)
        ELSE UNCHANGED repo /\ Answer(j, FALSE)
  /\ SetUpload(j, Idle)
  /\ UNCHANGED <<up, disk, cmd, disturbed>>

(* Mutant of RecordAndAnswer: the answer goes out, the save is forgotten   *)
(* unless the job is complete.                                             *)
AnswerWithoutSave(j) ==
  /\ upload[j].pc = "written"
  /\ LET u == upload[j]
     IN IF CanRecord(u.copy)
        THEN (IF CanComplete(Recorded(u.copy, u.chunk))
              THEN Save(j, Recorded(u.copy, u.chunk)) ELSE UNCHANGED repo) /\ Answer(j, TRUE)
        ELSE UNCHANGED repo /\ Answer(j, FALSE)
  /\ SetUpload(j, Idle)
  /\ UNCHANGED <<up, disk, cmd, disturbed>>

RecordAndAnswer(j) ==
  /\ upload[j].pc = "written"
  /\ LET u == upload[j]
     IN IF CanRecord(u.copy)
        THEN Save(j, Recorded(u.copy, u.chunk)) /\ Answer(j, TRUE)
        ELSE UNCHANGED repo /\ Answer(j, FALSE)
  /\ SetUpload(j, Idle)
  /\ UNCHANGED <<up, disk, cmd, disturbed>>

(* The error answers: a hash that does not match (the peer's file changed  *)
(* after it was hashed), a write or a save that fails.                     *)
UploadErrors(j) ==
  /\ upload[j].pc # "idle"
  /\ SetUpload(j, Idle)
  /\ Answer(j, FALSE)
  /\ UNCHANGED <<up, repo, disk, cmd, disturbed>>

-----------------------------------------------------------------------------
(* Commands, the peer's /transfer/cancel, and crash recovery.              *)

LoadForCmd(c, op, j) ==
  /\ up
  /\ cmd[c].op = "none"
  /\ repo[j].state # "absent"
  /\ CanApply(op, repo[j])
  /\ cmd' = [cmd EXCEPT ![c] = [op |-> op, job |-> j, copy |-> repo[j]]]
  /\ UNCHANGED <<up, repo, disk, upload, sender, disturbed>>

SaveFromCmd(c) ==
  /\ cmd[c].op # "none"
  /\ Save(cmd[c].job, Apply(cmd[c].op, cmd[c].copy))
  /\ cmd' = [cmd EXCEPT ![c] = NoCmd]
  /\ disturbed' = disturbed \cup {cmd[c].job}
  /\ UNCHANGED <<up, disk, upload, sender>>

Crash ==
  /\ up
  /\ up' = FALSE
  /\ upload' = [j \in Jobs |-> Idle]
  /\ cmd' = [c \in Cmds |-> NoCmd]
  /\ UNCHANGED <<repo, disk, sender, disturbed>>

(* No receive job is ever Pending, so none is cancelled as stale.  A query *)
(* or a save that fails leaves rows as they were.                          *)
Restart ==
  /\ ~up
  /\ up' = TRUE
  /\ \E saved \in SUBSET Jobs :
       repo' = [j \in Jobs |-> IF j \in saved THEN Recovered(repo[j], FALSE) ELSE repo[j]]
  /\ disturbed' = {j \in Jobs : repo[j].state # "absent"} \cup disturbed
  /\ UNCHANGED <<disk, upload, cmd, sender>>

-----------------------------------------------------------------------------
Handler(j) == LoadJob(j) \/ WriteChunk(j) \/ RecordAndAnswer(j) \/ UploadErrors(j)

Next ==
  \/ \E j \in Jobs : RequestAccepted(j) \/ PeerUploads(j) \/ PeerStops(j) \/ Handler(j)
  \/ \E c \in Cmds, op \in Ops, j \in Jobs : LoadForCmd(c, op, j)
  \/ \E c \in Cmds : SaveFromCmd(c)
  \/ Crash
  \/ Restart

Spec == Init /\ [][Next]_vars

-----------------------------------------------------------------------------
(* The inductive invariant behind the theorems of TransferReceiveProofs.   *)

(* A chunk is in flight only when all chunks before it are on disk.        *)
InOrder(u, have) ==
  u.pc # "idle" => \A other \in Chunks : Precedes(other, u.chunk) => other \in have

ReceiveInv(j) ==
  /\ JobSound(repo[j], disk[j])
  /\ JobSound(upload[j].copy, disk[j])
  /\ upload[j].pc = "written" => upload[j].chunk \in disk[j]
  /\ InOrder(upload[j], disk[j])
  /\ sender[j].acked \subseteq disk[j]

CmdCopiesSound == \A c \in Cmds : JobSound(cmd[c].copy, disk[cmd[c].job])

IInv ==
  /\ TypeOK
  /\ \A j \in Jobs : ReceiveInv(j)
  /\ CmdCopiesSound

-----------------------------------------------------------------------------
(* Properties.                                                             *)

(* A row is Completed only when every chunk of every file is in the target *)
(* files, though handler, commands and recovery overwrite each other's     *)
(* rows, and complete() checks nothing (handle_chunk_upload).  It rests on *)
(* a peer that uploads in order, as execute_send does: the handler itself  *)
(* checks no order.                                                        *)
CompletedIsOnDisk ==
  \A j \in Jobs : repo[j].state = "completed" => Chunks \subseteq disk[j]

(* What was acknowledged is counted: as long as neither a command nor      *)
(* recovery wrote the row, it counts every chunk acknowledged to the peer, *)
(* and it is Completed once all of them are.  For jobs without empty       *)
(* files: a file without chunks is never marked as done.                   *)
AckedIsCounted ==
  \A j \in Jobs \ disturbed :
    /\ \A chunk \in sender[j].acked : repo[j].done[chunk[1]] > chunk[2]
    /\ sender[j].pc # "idle" /\ sender[j].acked = Chunks => repo[j].state = "completed"

(* Whatever handlers, commands, crashes and recovery do, the files, the    *)
(* answers and the state shown keep to ChunkStore.                         *)
Acked == [j \in Jobs |-> sender[j].acked]

CompleteJobs == {j \in Jobs : repo[j].state = "completed"}

Store == INSTANCE ChunkStore WITH stored <- disk, acked <- Acked, complete <- CompleteJobs

KeepsChunks == Store!Spec

=============================================================================
