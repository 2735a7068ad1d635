------------------------------ MODULE SyncFlow ------------------------------
(* The file index of one path of a share on every device, kept by the      *)
(* indexer (indexer_service.rs) and merged by HttpSyncFlow, step by step   *)
(* as its awaits allow (http_sync_flow.rs, handle_sync_index of            *)
(* http_server.rs).  The SyncPull and SyncPush jobs a plan stores are not  *)
(* run by anything in the program, so no step moves content.               *)
EXTENDS SyncPlan

CONSTANTS
  Tasks,        \* runs of execute: trigger_sync and the auto-sync scheduler
  MaxVersion    \* bound on the changes each device makes to the entry

ASSUME BoundsAssumption == MaxVersion \in [Devices -> Nat]
ASSUME SomeDevice == Devices # {}

VARIABLES
  index,    \* the row of file_entries
  asked,    \* join of the versions SyncPull jobs and conflict rows ask for
  indexer,  \* process_events between reading the row and saving it
  task      \* locals of HttpSyncFlow::execute

vars == <<index, asked, indexer, task>>

Events == {"modified", "deleted"}

Rows == Entry \cup {NoEntry}

Indexer == [pc : {"idle"} \cup Events, copy : Rows]

IdleIndexer == [pc |-> "idle", copy |-> NoEntry]

Task == [pc : {"idle", "fetched", "planned", "recorded", "loaded"},
         at : Devices, class : {"push", "pull", "conflict"},
         local : Rows, remote : Rows, copy : Rows]

Someone == CHOOSE d \in Devices : TRUE

IdleTask == [pc |-> "idle", at |-> Someone, class |-> "push",
             local |-> NoEntry, remote |-> NoEntry, copy |-> NoEntry]

TypeOK ==
  /\ index \in [Devices -> Rows]
  /\ asked \in [Devices -> Vectors]
  /\ indexer \in [Devices -> Indexer]
  /\ task \in [Tasks -> Task]

Init ==
  /\ index = [d \in Devices |-> NoEntry]
  /\ asked = [d \in Devices |-> Zero]
  /\ indexer = [d \in Devices |-> IdleIndexer]
  /\ task = [t \in Tasks |-> IdleTask]

MayChange(e, d) == e.kind # "none" => e.version[d] < MaxVersion[d]

-----------------------------------------------------------------------------
(* process_events takes one event of the watcher at a time; the row is     *)
(* read before the file is hashed and saved after it.  Users change files  *)
(* at any time and the watcher reports a change once or several times, so  *)
(* that any event may be next and the file may or may not be there.  A     *)
(* query that fails is taken for one that finds no row.  A deletion with   *)
(* no row changes nothing.                                                 *)
Found(d) == {index[d], NoEntry}

IndexLoad(d, event) ==
  /\ indexer[d].pc = "idle"
  /\ \E e \in Found(d) :
       /\ event = "deleted" => e.kind # "none"
       /\ indexer' = [indexer EXCEPT ![d] = [pc |-> event, copy |-> e]]
  /\ UNCHANGED <<index, asked, task>>

Indexed(e, d, now) ==
  IF e.kind = "none" THEN NewEntry(d, now) ELSE UpdateContent(e, d, now)

IndexSave(d) ==
  /\ indexer[d].pc = "modified"
  /\ MayChange(indexer[d].copy, d)
  /\ \E now \in Times : index' = [index EXCEPT ![d] = Indexed(indexer[d].copy, d, now)]
  /\ indexer' = [indexer EXCEPT ![d] = IdleIndexer]
  /\ UNCHANGED <<asked, task>>

IndexDeletion(d) ==
  /\ indexer[d].pc = "deleted"
  /\ indexer[d].copy.kind # "none" /\ MayChange(indexer[d].copy, d)
  /\ index' = [index EXCEPT ![d] = MarkDeleted(indexer[d].copy, d)]
  /\ indexer' = [indexer EXCEPT ![d] = IdleIndexer]
  /\ UNCHANGED <<asked, task>>

(* The file is gone or cannot be hashed, or the save fails: the event is   *)
(* dropped.                                                                *)
IndexSkip(d) ==
  /\ indexer[d].pc # "idle"
  /\ indexer' = [indexer EXCEPT ![d] = IdleIndexer]
  /\ UNCHANGED <<index, asked, task>>

(* cleanup_expired_tombstones.  Thirty days may pass at any time.          *)
CleanupTombstone(d) ==
  /\ index[d].kind = "tombstone"
  /\ index' = [index EXCEPT ![d] = NoEntry]
  /\ UNCHANGED <<asked, indexer, task>>

-----------------------------------------------------------------------------
(* HttpSyncFlow::execute.  The policy check and the request succeed, and   *)
(* the peer answers with its index, an empty one if its query fails.       *)
Fetch(t, d, p) ==
  /\ task[t].pc = "idle" /\ d # p
  /\ \E e \in Found(p) :
       task' = [task EXCEPT ![t] = [IdleTask EXCEPT
         !.pc = "fetched", !.at = d, !.remote = e]]
  /\ UNCHANGED <<index, asked, indexer>>

(* generate_plan reads the local index, and the share again: the           *)
(* permission may be another by now.  A plan without actions is done.  An  *)
(* action keeps the entry it moves, a conflict both.                       *)
PlanClass(w, canPull, canPush) ==
  Filtered(Class(index[w.at], w.remote), canPull, canPush)

(* Mutant: without the test for an empty plan.                             *)
PlannedAnyhow(w, class) == [w EXCEPT !.pc = "planned", !.class = class]

Planned(w, class) ==
  IF class = "unchanged" THEN IdleTask
  ELSE [w EXCEPT !.pc = "planned", !.class = class,
                 !.local = IF class = "pull" THEN NoEntry ELSE index[w.at],
                 !.remote = IF class = "push" THEN NoEntry ELSE @]

Plan(t) ==
  /\ task[t].pc = "fetched"
  /\ \E canPull, canPush \in BOOLEAN :
       task' = [task EXCEPT ![t] = Planned(@, PlanClass(@, canPull, canPush))]
  /\ UNCHANGED <<index, asked, indexer>>

(* Mutant: conflicts are not stored.                                       *)
ExecuteWithoutConflicts(t) ==
  /\ task[t].pc = "planned"
  /\ asked' = IF task[t].class # "pull" THEN asked
              ELSE [asked EXCEPT ![task[t].at] = Merge(@, task[t].remote.version)]
  /\ task' = [task EXCEPT ![t].pc = "recorded"]
  /\ UNCHANGED <<index, indexer>>

(* execute_plan stores a SyncPull job for what it pulls and a row for a    *)
(* conflict.  A SyncPush job asks for nothing.                             *)
ExecutePlan(t) ==
  /\ task[t].pc = "planned"
  /\ asked' = IF task[t].class = "push" THEN asked
              ELSE [asked EXCEPT ![task[t].at] = Merge(@, task[t].remote.version)]
  /\ task' = [task EXCEPT ![t].pc = "recorded"]
  /\ UNCHANGED <<index, indexer>>

(* update_versions reads the row again ...                                 *)
UpdateLoad(t) ==
  /\ task[t].pc = "recorded"
  /\ task' = [task EXCEPT ![t].pc = "loaded", ![t].copy = index[task[t].at]]
  /\ UNCHANGED <<index, asked, indexer>>

(* ... and saves it with the other version merged in.                      *)
Updated(w) ==
  CASE w.class = "pull" /\ w.copy.kind = "none" -> w.remote
    [] w.class = "pull" /\ w.copy.kind # "none" -> ApplyRemoteVersion(w.copy, w.remote)
    [] w.class = "push" /\ w.copy.kind # "none" -> ApplyRemoteVersion(w.copy, w.local)
    [] w.class = "conflict" /\ w.copy.kind # "none" ->
         [w.copy EXCEPT !.version = Merge(w.local.version, w.remote.version)]

UpdateSave(t) ==
  /\ task[t].pc = "loaded"
  /\ task' = [task EXCEPT ![t] = IdleTask]
  /\ index' = IF task[t].class # "pull" /\ task[t].copy.kind = "none" THEN index
              ELSE [index EXCEPT ![task[t].at] = Updated(task[t])]
  /\ UNCHANGED <<asked, indexer>>

(* Any await of execute may return an error, which ends it.                *)
TaskErrors(t) ==
  /\ task[t].pc # "idle"
  /\ task' = [task EXCEPT ![t] = IdleTask]
  /\ UNCHANGED <<index, asked, indexer>>

-----------------------------------------------------------------------------
(* verify_filesystem_consistency runs before anything else is started: a   *)
(* file may be gone, have another size, or neither.  The version of        *)
(* changed content stays as it is, and an error ends the check.            *)
Verified(e, d) ==
  IF e.kind # "live" THEN {e}
  ELSE {e, [e EXCEPT !.by = d]} \cup
       (IF MayChange(e, d) THEN {MarkDeleted(e, d)} ELSE {})

(* The program ends and is started again: rows stay, all else is lost.     *)
Restart(d) ==
  /\ \E e \in Verified(index[d], d) : index' = [index EXCEPT ![d] = e]
  /\ indexer' = [indexer EXCEPT ![d] = IdleIndexer]
  /\ task' = [t \in Tasks |-> IF task[t].at = d THEN IdleTask ELSE task[t]]
  /\ UNCHANGED asked

-----------------------------------------------------------------------------
Next ==
  \/ \E d \in Devices :
       \/ \E event \in Events : IndexLoad(d, event)
       \/ IndexSave(d) \/ IndexDeletion(d) \/ IndexSkip(d)
       \/ CleanupTombstone(d) \/ Restart(d)
  \/ \E t \in Tasks :
       \/ \E d, p \in Devices : Fetch(t, d, p)
       \/ Plan(t) \/ ExecutePlan(t) \/ UpdateLoad(t) \/ UpdateSave(t)
       \/ TaskErrors(t)

Spec == Init /\ [][Next]_vars

-----------------------------------------------------------------------------
(* The inductive invariant behind the theorems of SyncFlowProofs: every    *)
(* copy of a row that may be saved claims only what was asked for.         *)
Within(e, d) ==
  e.kind # "none" => \A p \in Devices : d # p => e.version[p] <= asked[d][p]

RemoteAsked(w) ==
  w.pc \in {"recorded", "loaded"} /\ w.class # "push" =>
    IsAncestorOf(w.remote.version, asked[w.at])

PlanSound(w) ==
  w.pc \in {"planned", "recorded", "loaded"} =>
    /\ w.class # "push" => w.remote.kind # "none"
    /\ w.class # "pull" => w.local.kind # "none"

TaskInv(t) ==
  /\ Within(task[t].local, task[t].at)
  /\ Within(task[t].copy, task[t].at)
  /\ RemoteAsked(task[t])
  /\ PlanSound(task[t])

IInv ==
  /\ TypeOK
  /\ \A d \in Devices : Within(index[d], d) /\ Within(indexer[d].copy, d)
  /\ \A t \in Tasks : TaskInv(t)

-----------------------------------------------------------------------------
(* Properties.                                                             *)

(* sync_flow.rs:11: partial failure is safe, for versions are not updated  *)
(* before the plan was executed.  What a device claims to know of another  *)
(* one's changes it has asked for: a SyncPull job or a conflict row names  *)
(* a version at least as new, whatever failed or was restarted in between. *)
LearntIsAsked ==
  \A d, p \in Devices : d # p /\ index[d].kind # "none" =>
    index[d].version[p] <= asked[d][p]

(* conflict_policy.rs:14: both peers compute the same name, that is the    *)
(* same loser, independently; and one side pulls what the other pushes.    *)
PlansMirror ==
  \A d, p \in Devices : d # p =>
    /\ Class(index[p], index[d]) = OpposingClass(Class(index[d], index[p]))
    /\ Class(index[d], index[p]) = "conflict" => Agree(index[d], index[p])

(* sync_plan_generator.rs:56: deletions actually reach the peer.  When     *)
(* update_versions has merged a pulled tombstone that supersedes the row,  *)
(* the row is a tombstone; with equal versions no later plan makes it one. *)
DeletionsReachPeer ==
  [][\A t \in Tasks :
       /\ UpdateSave(t) /\ task[t].class = "pull"
       /\ task[t].remote.kind = "tombstone" /\ task[t].copy.kind # "none"
       /\ IsAncestorOf(task[t].copy.version, task[t].remote.version)
       => index'[task[t].at].kind = "tombstone"]_vars

=============================================================================
