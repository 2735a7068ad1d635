---------------------------- MODULE TransferSend ----------------------------
(***************************************************************************)
(* The sending side of transfers on one desktop: the rows of the transfer  *)
(* repository and everything that writes them back -                       *)
(*   - the background task execute_send that pushes a job to its peer,     *)
(*   - the user's commands accept, pause, resume and cancel,               *)
(*   - the retry scheduler, and                                            *)
(*   - crash recovery when the program starts again.                       *)
(* Each of them loads a row, awaits, and saves the whole row it computed   *)
(* from that copy: a save is one SQLite transaction, but nothing ties it   *)
(* to the load, so copies go stale while others save.                      *)
(*                                                                         *)
(* The peer is the environment: it accepts, rejects or does not answer,    *)
(* names chunks it already has, stores what is uploaded, and an answer     *)
(* may be lost after the chunk was stored.                                 *)
(***************************************************************************)
EXTENDS TransferJob

CONSTANTS
  Jobs,       (* job ids                                                   *)
  Cmds,       (* command invocations that can be in flight at once         *)
  MaxRetries  (* MAX_RETRIES of the retry scheduler                        *)

ASSUME SendAssumption ==
  /\ MaxRetries \in Nat
  /\ Jobs # {}

VARIABLES
  up,       (* the program is running                                      *)
  repo,     (* per job id, its row                                         *)
  worker,   (* per job id, its execute_send task                           *)
  cmd,      (* per invocation, the command between its load and its save   *)
  sched,    (* the retry scheduler between its query and its saves         *)
  peerHas,  (* per job, the chunks the peer stored or said it has          *)
  events    (* per job, the kinds of events published for it (history)     *)

vars == <<up, repo, worker, cmd, sched, peerHas, events>>

-----------------------------------------------------------------------------
Working == {"start", "announce", "upload"}
Ended == {"sent", "failed", "errored"}   (* Ok; Err after a TransferFailed; other Err *)

(* from: chunks_done in the item snapshot; item, chunk: the loops' cursor. *)
Worker == [pc : {"idle"} \cup Working \cup Ended,
           copy : Job,
           from : [Items -> Nat],
           skip : SUBSET Chunks,
           item : Nat,
           chunk : Nat]

NoWorker == [pc |-> "idle", copy |-> NoJob, from |-> NoJob.done, skip |-> {},
             item |-> 1, chunk |-> 0]

Cmd == [op : Ops \cup {"none"}, job : Jobs, copy : Job]
NoCmd == [op |-> "none", job |-> CHOOSE j \in Jobs : TRUE, copy |-> NoJob]

Sched == [todo : SUBSET Jobs, copies : [Jobs -> Job]]
NoSched == [todo |-> {}, copies |-> [j \in Jobs |-> NoJob]]

EventKind == {"requested", "completed", "failed"}

TypeOK ==
  /\ up \in BOOLEAN
  /\ repo \in [Jobs -> Job]
  /\ worker \in [Jobs -> Worker]
  /\ cmd \in [Cmds -> Cmd]
  /\ sched \in Sched
  /\ peerHas \in [Jobs -> SUBSET Chunks]
  /\ events \in [Jobs -> SUBSET EventKind]

Init ==
  /\ up = TRUE
  /\ repo = [j \in Jobs |-> NoJob]
  /\ worker = [j \in Jobs |-> NoWorker]
  /\ cmd = [c \in Cmds |-> NoCmd]
  /\ sched = NoSched
  /\ peerHas = [j \in Jobs |-> {}]
  /\ events = [j \in Jobs |-> {}]

-----------------------------------------------------------------------------
(* The repository and the bus.                                             *)

Save(j, job) == repo' = [repo EXCEPT ![j] = job]

Publish(j, kind) == events' = [events EXCEPT ![j] = @ \cup {kind}]

(* The task's local state after a step; most steps move one or two fields. *)
SetWorker(j, w) == worker' = [worker EXCEPT ![j] = w]

(* find_incomplete_jobs.                                                   *)
IncompleteJobs ==
  {j \in Jobs : repo[j].state \notin {"absent", "completed", "failed", "cancelled"}}

-----------------------------------------------------------------------------
(* send_files and execute_send.                                            *)

(* The peer is paired and every file was hashed; a failure before the save *)
(* leaves no trace and is not an action.                                   *)
SendFiles(j) ==
  /\ up
  /\ repo[j].state = "absent"
  /\ Save(j, Created)
  /\ Publish(j, "requested")
  /\ SetWorker(j, [NoWorker EXCEPT !.pc = "start"])
  /\ UNCHANGED <<up, cmd, sched, peerHas>>

Start(j) ==
  /\ worker[j].pc = "start"
  /\ SetWorker(j, [NoWorker EXCEPT !.pc = "announce", !.copy = repo[j]])
  /\ UNCHANGED <<up, repo, cmd, sched, peerHas, events>>

(* The task ends.  Its local state is dropped.                             *)
End(j, how) == SetWorker(j, [NoWorker EXCEPT !.pc = how])

(* Mutant of FailJob: without the return the loop goes on after a failure. *)
FailJobGoesOn(j) ==
  /\ Save(j, Fail(worker[j].copy))
  /\ Publish(j, "failed")
  /\ UNCHANGED worker

(* `fail` on the task's copy, save and publish; when the copy cannot be    *)
(* failed the `?` on fail() ends the task with nothing saved or published. *)
FailJob(j) ==
  LET copy == worker[j].copy
  IN IF CanFail(copy)
     THEN Save(j, Fail(copy)) /\ Publish(j, "failed") /\ End(j, "failed")
     ELSE End(j, "errored") /\ UNCHANGED <<repo, events>>

(* request_transfer returned an error, or the peer answered "rejected".    *)
AnnounceFails(j) ==
  /\ worker[j].pc = "announce"
  /\ FailJob(j)
  /\ UNCHANGED <<up, cmd, sched, peerHas>>

AnnounceAccepted(j) ==
  /\ worker[j].pc = "announce"
  /\ \E skip \in SUBSET Chunks :
       LET copy == worker[j].copy
           current == IF CanAccept(copy) THEN Accept(copy) ELSE copy
       IN /\ Save(j, current)
          /\ SetWorker(j, [pc |-> "upload", copy |-> current, from |-> current.done,
                           skip |-> skip, item |-> 1, chunk |-> 0])
          /\ peerHas' = [peerHas EXCEPT ![j] = @ \cup skip]
  /\ UNCHANGED <<up, cmd, sched, events>>

(* The cursor is at a chunk; at the end of a file; past the last file.     *)
AtChunk(j) ==
  /\ worker[j].pc = "upload"
  /\ worker[j].item \in Items
  /\ worker[j].chunk < ChunkCount[worker[j].item]

AtFileEnd(j) ==
  /\ worker[j].pc = "upload"
  /\ worker[j].item \in Items
  /\ worker[j].chunk >= ChunkCount[worker[j].item]

AllPushed(j) == worker[j].pc = "upload" /\ worker[j].item \notin Items

Cursor(j) == <<worker[j].item, worker[j].chunk>>

PeerAlreadyHas(j) ==
  \/ worker[j].chunk < worker[j].from[worker[j].item]
  \/ Cursor(j) \in worker[j].skip

NextFile(j) ==
  /\ AtFileEnd(j)
  /\ SetWorker(j, [worker[j] EXCEPT !.item = @ + 1, !.chunk = 0])
  /\ UNCHANGED <<up, repo, cmd, sched, peerHas, events>>

(* Mutant of SkipChunk: `continue` before the index is advanced.           *)
SkipChunkStays(j) ==
  /\ AtChunk(j)
  /\ PeerAlreadyHas(j)
  /\ UNCHANGED vars

SkipChunk(j) ==
  /\ AtChunk(j)
  /\ PeerAlreadyHas(j)
  /\ SetWorker(j, [worker[j] EXCEPT !.chunk = @ + 1])
  /\ UNCHANGED <<up, repo, cmd, sched, peerHas, events>>

Stored(j) == peerHas' = [peerHas EXCEPT ![j] = @ \cup {Cursor(j)}]

(* The upload was acknowledged: record, save, publish progress.  A copy    *)
(* that is not Active cannot record and ends the task.                     *)
UploadAcked(j) ==
  /\ AtChunk(j)
  /\ ~PeerAlreadyHas(j)
  /\ Stored(j)
  /\ LET w == worker[j]
         copy == RecordChunkDone(w.copy, w.item, w.chunk)
     IN IF CanRecord(w.copy)
        THEN /\ Save(j, copy)
             /\ SetWorker(j, [w EXCEPT !.copy = copy, !.chunk = @ + 1])
        ELSE End(j, "errored") /\ UNCHANGED repo
  /\ UNCHANGED <<up, cmd, sched, events>>

(* Mutant of UploadFails: a failed upload is counted and the loop goes on. *)
UploadFailureCounts(j) ==
  /\ AtChunk(j)
  /\ ~PeerAlreadyHas(j)
  /\ CanRecord(worker[j].copy)
  /\ LET copy == RecordChunkDone(worker[j].copy, worker[j].item, worker[j].chunk)
     IN /\ Save(j, copy)
        /\ SetWorker(j, [worker[j] EXCEPT !.copy = copy, !.chunk = @ + 1])
  /\ UNCHANGED <<up, cmd, sched, peerHas, events>>

(* No answer within the client's timeout, or an error status: the peer may *)
(* have stored the chunk or not.                                           *)
UploadFails(j) ==
  /\ AtChunk(j)
  /\ ~PeerAlreadyHas(j)
  /\ Stored(j) \/ UNCHANGED peerHas
  /\ FailJob(j)
  /\ UNCHANGED <<up, cmd, sched>>

(* "treat as success": a copy that is not Verifying is saved as it is.     *)
Finish(j) ==
  /\ AllPushed(j)
  /\ LET copy == worker[j].copy
     IN Save(j, IF CanComplete(copy) THEN Complete(copy) ELSE copy)
  /\ Publish(j, "completed")
  /\ End(j, "sent")
  /\ UNCHANGED <<up, cmd, sched, peerHas>>

(* The errors that leave by a bare `?`: the row or the peer's device is    *)
(* not found or no longer Paired, a chunk cannot be read from disk, a save *)
(* fails (the chunk before it was stored by the peer).                     *)
WorkerErrors(j) ==
  /\ worker[j].pc \in Working
  /\ \/ UNCHANGED peerHas
     \/ AtChunk(j) /\ ~PeerAlreadyHas(j) /\ Stored(j)
  /\ End(j, "errored")
  /\ UNCHANGED <<up, repo, cmd, sched, events>>

Proceed(j) ==
  \/ Start(j) \/ AnnounceFails(j) \/ AnnounceAccepted(j)
  \/ NextFile(j) \/ SkipChunk(j) \/ UploadAcked(j) \/ UploadFails(j)
  \/ Finish(j)

WorkerStep(j) == Proceed(j) \/ WorkerErrors(j)

-----------------------------------------------------------------------------
(* accept_transfer, pause_transfer, resume_transfer and cancel_transfer.   *)
(* The cancellation of a peer's jobs by the cleanup handler and by the     *)
(* peer's /transfer/cancel are the same load, cancel and save.             *)

LoadForCmd(c, op, j) ==
  /\ up
  /\ cmd[c].op = "none"
  /\ repo[j].state # "absent"
  /\ CanApply(op, repo[j])
  /\ cmd' = [cmd EXCEPT ![c] = [op |-> op, job |-> j, copy |-> repo[j]]]
  /\ UNCHANGED <<up, repo, worker, sched, peerHas, events>>

SaveFromCmd(c) ==
  /\ cmd[c].op # "none"
  /\ Save(cmd[c].job, Apply(cmd[c].op, cmd[c].copy))
  /\ cmd' = [cmd EXCEPT ![c] = NoCmd]
  /\ UNCHANGED <<up, worker, sched, peerHas, events>>

-----------------------------------------------------------------------------
(* The retry scheduler: every 30 s it queries the incomplete jobs and sets *)
(* the Failed ones among them back to Active.  The back-off of 2^retries   *)
(* seconds, at most 16 s, may or may not have passed.                      *)

RetryScan ==
  /\ up
  /\ sched.todo = {}
  /\ IncompleteJobs # {}
  /\ sched' = [todo |-> IncompleteJobs,
               copies |-> [j \in Jobs |-> IF j \in IncompleteJobs
                                          THEN repo[j] ELSE NoJob]]
  /\ UNCHANGED <<up, repo, worker, cmd, peerHas, events>>

Retryable(job) == job.state = "failed" /\ job.retries < MaxRetries

RetryOne(j, due) ==
  /\ j \in sched.todo
  /\ IF Retryable(sched.copies[j]) /\ due
     THEN Save(j, Enter(sched.copies[j], "active"))
     ELSE UNCHANGED repo
  /\ sched' = [todo |-> sched.todo \ {j}, copies |-> [sched.copies EXCEPT ![j] = NoJob]]
  /\ UNCHANGED <<up, worker, cmd, peerHas, events>>

-----------------------------------------------------------------------------
(* A crash ends every task; the rows stay.                                 *)
Crash ==
  /\ up
  /\ up' = FALSE
  /\ worker' = [j \in Jobs |-> NoWorker]
  /\ cmd' = [c \in Cmds |-> NoCmd]
  /\ sched' = NoSched
  /\ UNCHANGED <<repo, peerHas, events>>

(* Recovery blocks the start of everything else, and doing part of it      *)
(* before another crash is the same as doing it later.  A query or a save  *)
(* that fails leaves rows as they were, and the program starts all the     *)
(* same.                                                                   *)
Restart ==
  /\ ~up
  /\ up' = TRUE
  /\ \E saved \in SUBSET IncompleteJobs : \E stale \in SUBSET saved :
       repo' = [j \in Jobs |-> IF j \in saved THEN Recovered(repo[j], j \in stale)
                                             ELSE repo[j]]
  /\ UNCHANGED <<worker, cmd, sched, peerHas, events>>

-----------------------------------------------------------------------------
Next ==
  \/ \E j \in Jobs : SendFiles(j) \/ WorkerStep(j)
  \/ \E c \in Cmds, op \in Ops, j \in Jobs : LoadForCmd(c, op, j)
  \/ \E c \in Cmds : SaveFromCmd(c)
  \/ RetryScan
  \/ \E j \in Jobs, due \in BOOLEAN : RetryOne(j, due)
  \/ Crash
  \/ Restart

Spec == Init /\ [][Next]_vars

(* Tasks are run by the Tokio scheduler, every request of the client times *)
(* out after 30 s, and the retry loop is a task too.  Users owe nothing,   *)
(* internal errors need not happen, and nothing obliges the program to be  *)
(* started again.                                                          *)
Fairness ==
  /\ \A j \in Jobs : WF_vars(Proceed(j))
  /\ \A c \in Cmds : WF_vars(SaveFromCmd(c))
  /\ WF_vars(RetryScan)
  /\ \A j \in Jobs : SF_vars(RetryOne(j, TRUE))

FairSpec == Spec /\ Fairness

-----------------------------------------------------------------------------
(* The inductive invariant behind the theorems of TransferSendProofs.      *)

(* The peer has every chunk behind the cursor and every chunk skipped.     *)
Behind(w, i, c) == i < w.item \/ (i = w.item /\ c < w.chunk)

CursorSound(w, have) ==
  w.pc = "upload" =>
    /\ \A i \in Items : \A c \in 0..(ChunkCount[i] - 1) :
         Behind(w, i, c) \/ c < w.from[i] => <<i, c>> \in have
    /\ w.skip \subseteq have
    /\ w.item > 0

(* An announced outcome is the last thing a task does, and there is one.   *)
OneOutcome(told, pc, have) ==
  /\ told \cap {"completed", "failed"} # {} => pc \notin Working
  /\ ~({"completed", "failed"} \subseteq told)
  /\ "completed" \in told => Chunks \subseteq have

(* A job with a task or an event has a row, so that it is not sent again.  *)
RowExists(row, w, told) ==
  /\ w.pc # "idle" \/ told # {} => row.state # "absent"
  /\ w.pc \in {"announce", "upload"} => w.copy.state # "absent"

TaskInv(j) ==
  /\ JobSound(repo[j], peerHas[j])
  /\ JobSound(worker[j].copy, peerHas[j])
  /\ CursorSound(worker[j], peerHas[j])
  /\ OneOutcome(events[j], worker[j].pc, peerHas[j])
  /\ RowExists(repo[j], worker[j], events[j])

CmdCopiesSound == \A c \in Cmds : JobSound(cmd[c].copy, peerHas[cmd[c].job])

SchedCopiesSound == \A j \in Jobs : JobSound(sched.copies[j], peerHas[j])

IInv ==
  /\ TypeOK
  /\ \A j \in Jobs : TaskInv(j)
  /\ CmdCopiesSound
  /\ SchedCopiesSound

-----------------------------------------------------------------------------
(* Properties.                                                             *)

(* chunks_done of a row never counts a chunk the peer does not have, also  *)
(* after commands, recovery and the task overwrote each other's rows with  *)
(* stale copies (record_chunk_done, the high-water mark used to resume).   *)
ProgressIsDelivered ==
  \A j \in Jobs, i \in Items :
    \A c \in 0..(repo[j].done[i] - 1) : <<i, c>> \in peerHas[j]

(* A row is Completed only if the peer has every chunk of every file       *)
(* (execute_send, record_chunk_done, complete).                            *)
CompletedIsDelivered ==
  \A j \in Jobs : repo[j].state = "completed" => Chunks \subseteq peerHas[j]

(* The bus tells one outcome per job, and TransferCompleted only when the  *)
(* peer has every chunk, whatever state the row was left in.               *)
OutcomeOf(kinds) == IF "completed" \in kinds THEN "completed"
                    ELSE IF "failed" \in kinds THEN "failed" ELSE "open"

Told == [j \in Jobs |-> OutcomeOf(events[j])]

Promise == INSTANCE SendPromise WITH held <- peerHas, told <- Told

KeepsPromise == Promise!Spec

(* Where the loops over files and chunks can stand: at a chunk, or at the  *)
(* end of a file.  Left: from the cursor on.                               *)
Positions == UNION {{i} \X (0..ChunkCount[i]) : i \in Items}

Left(j) == {p \in Positions : ~ Behind(worker[j], p[1], p[2])}

(* A task goes from phase to phase, and in the last one leaves a position  *)
(* behind, until it ends.                                                  *)
Nearer(j) ==
  \/ worker'[j].pc \in Ended
  \/ worker[j].pc = "start" /\ worker'[j].pc = "announce"
  \/ worker[j].pc = "announce" /\ worker'[j].pc = "upload"
  \/ /\ worker[j].pc = "upload" /\ worker'[j].pc = "upload"
     /\ Left(j)' \subseteq Left(j) /\ Left(j)' # Left(j)

(* Every step of execute_send brings it nearer to its end, and nobody else *)
(* touches it, except that the program may end: retries, commands and a    *)
(* second send_files never set a running task back.                        *)
TaskCountsDown ==
  [][\A j \in Jobs : worker[j].pc \in Working =>
       IF WorkerStep(j) THEN Nearer(j) ELSE worker'[j] \in {worker[j], NoWorker}]_vars

(* Every execute_send task ends, whatever the users and the peer do.       *)
SendTerminates ==
  \A j \in Jobs : worker[j].pc \in Working ~> worker[j].pc \notin Working

(* lib.rs:348: the retry scheduler checks failed transfers every 30 s; so  *)
(* a row that failed fewer than MaxRetries times does not stay Failed.     *)
FailedIsRetried ==
  \A j \in Jobs : (up /\ Retryable(repo[j])) ~> ~(up /\ Retryable(repo[j]))

=============================================================================
