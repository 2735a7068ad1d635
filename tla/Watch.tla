-------------------------------- MODULE Watch --------------------------------
(***************************************************************************)
(* The files of one share on one device and the rows of the file index     *)
(* that follow them: start_watching with its race between two callers, the *)
(* callback of the notify watcher, process_events, and the check of the    *)
(* index when the program starts (indexer_service.rs, notify_watcher.rs).  *)
(*                                                                         *)
(* The index has two other writers, a run of HttpSyncFlow::execute that    *)
(* updates versions and the purge of tombstones; their versions and plans  *)
(* are in SyncFlow, here they are somebody who saves rows.                 *)
(*                                                                         *)
(* A content stands for the bytes of a file, its hash and its blocks.      *)
(* Files that .syncignore or the watcher's name filter hides are not among *)
(* the Paths.  A channel that is full makes the watcher wait, so a queue   *)
(* has no bound of its own.                                                *)
(***************************************************************************)
EXTENDS Sequences, Integers

CONSTANTS
  Paths,      (* files of the share                                        *)
  Contents,   (* what a file may contain                                   *)
  Size,       (* the length of each content                                *)
  Calls,      (* calls of start_watching during a life of the program      *)
  NoCall,     (* not a call                                                *)
  MaxChanges  (* changes of files by the user and of rows by the other     *)
              (* writers in a behaviour, a bound for TLC                   *)

ASSUME WatchAssumption ==
  /\ Size \in [Contents -> Nat]
  /\ NoCall \notin Calls
  /\ MaxChanges \in Nat

Absent == "absent"

ASSUME AbsentAssumption == Absent \notin Contents

VARIABLES
  disk,      (* per path, the file                                         *)
  changes,   (* how many changes there were, for the bound                 *)
  pc,        (* per call of start_watching, where it is                    *)
  installed, (* the calls whose watcher the adapter holds                  *)
  mapped,    (* the call whose handle active_watchers holds                *)
  queue,     (* per call, the channel of its watcher                       *)
  indexer,   (* per call, the process_events it spawned                    *)
  index,     (* per path, the row of file_entries                          *)
  merge,     (* the run that updates versions: the row it has loaded       *)
  seen,      (* per call, the paths changed since it has a watcher, except *)
             (* those of which a database error hid an event (history)     *)
  renamed,   (* absent paths whose file was renamed (history)              *)
  removed,   (* paths that were deleted here or by the peer, or found      *)
             (* missing at a start (history)                               *)
  undone     (* paths whose row another writer replaced by an older copy   *)
             (* or the peer's, or purged under an existing file, since     *)
             (* process_events saved it (history)                          *)

files == <<disk, changes, renamed>>
others == <<merge, undone>>
vars == <<files, pc, installed, mapped, queue, indexer, index, merge, seen, removed, undone>>

Sizes == {Size[x] : x \in Contents}

NoRow == [size |-> 0, sha |-> Absent, blocks |-> Absent, deleted |-> FALSE]
Row == [size : Sizes, sha : Contents, blocks : Contents, deleted : BOOLEAN] \cup {NoRow}

Event == [type : {"modified", "deleted"}, path : Paths]

(* process_events: waiting, past the query, past the length of the file,   *)
(* past its hash and past its blocks; the path, and what it holds.         *)
Indexer ==
  [at : {"none", "waiting"}] \cup
  [at : {"modified", "deleted"}, path : Paths, copy : Row] \cup
  [at : {"measured"}, path : Paths, copy : Row, size : Sizes] \cup
  [at : {"hashed"}, path : Paths, copy : Row, size : Sizes, sha : Contents] \cup
  [at : {"read"}, path : Paths, copy : Row, size : Sizes, sha : Contents, blocks : Contents]

Merge == [at : {"idle"}] \cup [at : {"loaded"}, path : Paths, copy : Row]
NoMerge == [at |-> "idle"]

NoIndexer == [at |-> "none"]
WaitingIndexer == [at |-> "waiting"]

TypeOK ==
  /\ disk \in [Paths -> Contents \cup {Absent}]
  /\ changes \in 0..MaxChanges
  /\ pc \in [Calls -> {"idle", "checked", "registered", "losing", "done"}]
  /\ installed \subseteq Calls
  /\ mapped \in Calls \cup {NoCall}
  /\ queue \in [Calls -> Seq(Event)]
  /\ indexer \in [Calls -> Indexer]
  /\ index \in [Paths -> Row]
  /\ seen \in [Calls -> SUBSET Paths]
  /\ merge \in Merge
  /\ renamed \subseteq Paths /\ removed \subseteq Paths /\ undone \subseteq Paths

Init ==
  /\ disk = [p \in Paths |-> Absent] /\ changes = 0
  /\ pc = [c \in Calls |-> "idle"] /\ installed = {} /\ mapped = NoCall
  /\ queue = [c \in Calls |-> <<>>]
  /\ indexer = [c \in Calls |-> NoIndexer]
  /\ index = [p \in Paths |-> NoRow]
  /\ seen = [c \in Calls |-> {}]
  /\ merge = NoMerge
  /\ renamed = {} /\ removed = {} /\ undone = {}

-----------------------------------------------------------------------------
(* The user changes files.  notify reports a creation and a modification,  *)
(* which are handled alike, a removal, and for a rename a modification of  *)
(* the old and of the new path; every watcher installed gets every report. *)

Modified(p) == [type |-> "modified", path |-> p]
Deleted(p) == [type |-> "deleted", path |-> p]

Report(events, paths) ==
  /\ changes < MaxChanges
  /\ changes' = changes + 1
  /\ queue' = [c \in Calls |-> IF c \in installed THEN queue[c] \o events ELSE queue[c]]
  /\ seen' = [c \in Calls |-> IF c \in installed THEN seen[c] \cup paths ELSE seen[c]]
  /\ UNCHANGED <<pc, installed, mapped, indexer, index, others>>

Write(p, content) ==
  /\ disk[p] # content
  /\ disk' = [disk EXCEPT ![p] = content]
  /\ Report(<<Modified(p)>>, {p})
  /\ renamed' = renamed \ {p}
  /\ UNCHANGED removed

(* Mutant of Delete: a removal is reported as a modification.              *)
DeleteModifies(p) ==
  /\ disk[p] # Absent
  /\ disk' = [disk EXCEPT ![p] = Absent]
  /\ Report(<<Modified(p)>>, {p})
  /\ renamed' = renamed \ {p}
  /\ removed' = removed \cup {p}

Delete(p) ==
  /\ disk[p] # Absent
  /\ disk' = [disk EXCEPT ![p] = Absent]
  /\ Report(<<Deleted(p)>>, {p})
  /\ renamed' = renamed \ {p}
  /\ removed' = removed \cup {p}

Rename(p, q) ==
  /\ p # q /\ disk[p] # Absent
  /\ disk' = [disk EXCEPT ![p] = Absent, ![q] = disk[p]]
  /\ Report(<<Modified(p), Modified(q)>>, {p, q})
  /\ renamed' = (renamed \ {q}) \cup {p}
  /\ UNCHANGED removed

-----------------------------------------------------------------------------
(* start_watching.                                                         *)

Check(c) ==
  /\ pc[c] = "idle"
  /\ pc' = [pc EXCEPT ![c] = IF mapped # NoCall THEN "done" ELSE "checked"]
  /\ UNCHANGED <<files, installed, mapped, queue, indexer, index, seen, removed, others>>

(* The share is loaded and the watcher registered, or one of both fails.   *)
Register(c) ==
  /\ pc[c] = "checked"
  /\ \/ pc' = [pc EXCEPT ![c] = "registered"] /\ installed' = installed \cup {c}
     \/ pc' = [pc EXCEPT ![c] = "done"] /\ UNCHANGED installed
  /\ UNCHANGED <<files, mapped, queue, indexer, index, seen, removed, others>>

(* Mutant of Insert: without the second look at the map.                   *)
InsertUnchecked(c) ==
  /\ pc[c] = "registered"
  /\ pc' = [pc EXCEPT ![c] = "done"]
  /\ mapped' = c
  /\ indexer' = [indexer EXCEPT ![c] = WaitingIndexer]
  /\ UNCHANGED <<files, installed, queue, index, seen, removed, others>>

(* The map is looked at again under its lock.  The first caller spawns     *)
(* process_events, the other one takes its watcher back.                   *)
Insert(c) ==
  /\ pc[c] = "registered"
  /\ \/ /\ mapped = NoCall
        /\ mapped' = c
        /\ indexer' = [indexer EXCEPT ![c] = WaitingIndexer]
        /\ pc' = [pc EXCEPT ![c] = "done"]
     \/ /\ mapped # NoCall
        /\ pc' = [pc EXCEPT ![c] = "losing"]
        /\ UNCHANGED <<mapped, indexer>>
  /\ UNCHANGED <<files, installed, queue, index, seen, removed, others>>

Unwatch(c) ==
  /\ pc[c] = "losing"
  /\ pc' = [pc EXCEPT ![c] = "done"]
  /\ installed' = installed \ {c}
  /\ queue' = [queue EXCEPT ![c] = <<>>]
  /\ seen' = [seen EXCEPT ![c] = {}]
  /\ UNCHANGED <<files, mapped, indexer, index, removed, others>>

-----------------------------------------------------------------------------
(* process_events of the call c.                                           *)

Becomes(c, i) == indexer' = [indexer EXCEPT ![c] = i]
IgnoredEvent(c, p) == seen' = [seen EXCEPT ![c] = @ \ {p}]

(* An event is received and the row read; a query that fails passes for    *)
(* no row.                                                                 *)
TakeEvent(c) ==
  /\ indexer[c].at = "waiting" /\ queue[c] # <<>>
  /\ queue' = [queue EXCEPT ![c] = Tail(@)]
  /\ LET e == Head(queue[c]) IN
       \/ /\ Becomes(c, [at |-> e.type, path |-> e.path, copy |-> index[e.path]])
          /\ UNCHANGED seen
       \/ /\ Becomes(c, [at |-> e.type, path |-> e.path, copy |-> NoRow])
          /\ IgnoredEvent(c, e.path)
  /\ UNCHANGED <<files, pc, installed, mapped, index, removed, others>>

(* The file is looked at three times.  An event whose file cannot be read  *)
(* by then is dropped; otherwise the task goes on with what it found.      *)
Reads(c, at, next) ==
  /\ indexer[c].at = at
  /\ IF disk[indexer[c].path] = Absent THEN Becomes(c, WaitingIndexer) ELSE Becomes(c, next)
  /\ UNCHANGED <<files, pc, installed, mapped, queue, index, seen, removed, others>>

ReadLength(c) ==
  LET i == indexer[c] IN
  Reads(c, "modified", [at |-> "measured", path |-> i.path, copy |-> i.copy,
                        size |-> Size[disk[i.path]]])

(* Mutant of HashFile: a file that is gone gets a hash, too.               *)
HashMissing(c) ==
  LET i == indexer[c] IN
  /\ i.at = "measured"
  /\ Becomes(c, [at |-> "hashed", path |-> i.path, copy |-> i.copy, size |-> i.size,
                 sha |-> disk[i.path]])
  /\ UNCHANGED <<files, pc, installed, mapped, queue, index, seen, removed, others>>

(* Mutant of HashFile: a file that cannot be read ends the task.           *)
HashFileOrStop(c) ==
  LET i == indexer[c] IN
  /\ i.at = "measured"
  /\ IF disk[i.path] = Absent THEN Becomes(c, NoIndexer)
     ELSE Becomes(c, [at |-> "hashed", path |-> i.path, copy |-> i.copy, size |-> i.size,
                      sha |-> disk[i.path]])
  /\ UNCHANGED <<files, pc, installed, mapped, queue, index, seen, removed, others>>

HashFile(c) ==
  LET i == indexer[c] IN
  Reads(c, "measured", [at |-> "hashed", path |-> i.path, copy |-> i.copy, size |-> i.size,
                        sha |-> disk[i.path]])

(* The blocks, cut to chunks that the length read first determines.        *)
ReadBlocks(c) ==
  LET i == indexer[c] IN
  Reads(c, "hashed", [at |-> "read", path |-> i.path, copy |-> i.copy, size |-> i.size,
                      sha |-> i.sha, blocks |-> disk[i.path]])

(* The row read before, with the new content; a tombstone stays one.       *)
SaveContent(c) ==
  /\ indexer[c].at = "read"
  /\ LET i == indexer[c] IN
       \/ /\ index' = [index EXCEPT ![i.path] =
                         [size |-> i.size, sha |-> i.sha, blocks |-> i.blocks,
                          deleted |-> i.copy.deleted]]
          /\ undone' = undone \ {i.path}
          /\ UNCHANGED seen
       \/ IgnoredEvent(c, i.path) /\ UNCHANGED <<index, undone>>
  /\ Becomes(c, WaitingIndexer)
  /\ UNCHANGED <<files, pc, installed, mapped, queue, removed, merge>>

(* A row becomes a tombstone; without a row nothing is to be done.         *)
SaveDeletion(c) ==
  /\ indexer[c].at = "deleted"
  /\ LET i == indexer[c] IN
       \/ /\ i.copy = NoRow
          /\ UNCHANGED <<index, seen, undone>>
       \/ /\ i.copy # NoRow
          /\ index' = [index EXCEPT ![i.path] = [i.copy EXCEPT !.deleted = TRUE]]
          /\ undone' = undone \ {i.path}
          /\ UNCHANGED seen
       \/ /\ i.copy # NoRow
          /\ IgnoredEvent(c, i.path) /\ UNCHANGED <<index, undone>>
  /\ Becomes(c, WaitingIndexer)
  /\ UNCHANGED <<files, pc, installed, mapped, queue, removed, merge>>

-----------------------------------------------------------------------------
(* The other writers.                                                      *)

(* update_versions loads the row of a path of its plan ...                 *)
MergeLoad(p) ==
  /\ merge = NoMerge
  /\ changes < MaxChanges
  /\ changes' = changes + 1
  /\ merge' = [at |-> "loaded", path |-> p, copy |-> index[p]]
  /\ UNCHANGED <<disk, renamed, pc, installed, mapped, queue, indexer, index, seen, removed, undone>>

(* ... and saves it with another version, or a pulled row of the peer in   *)
(* the place of none, for which one whose length, hash and blocks agree    *)
(* stands: such a row is not this device's to keep, whatever is in it.  A  *)
(* push or a conflict without a row, and an error, leave the index alone.  *)
(* Runs of several peers are taken one at a time.                          *)
MergeSave ==
  /\ merge # NoMerge
  /\ merge' = NoMerge
  /\ LET p == merge.path IN
       \/ /\ merge.copy # NoRow
          /\ index' = [index EXCEPT ![p] = merge.copy]
          /\ undone' = IF index[p] = merge.copy THEN undone ELSE undone \cup {p}
          /\ UNCHANGED removed
       \/ /\ merge.copy = NoRow
          /\ \E x \in Contents, deleted \in BOOLEAN :
               /\ index' = [index EXCEPT ![p] =
                              [size |-> Size[x], sha |-> x, blocks |-> x, deleted |-> deleted]]
               /\ removed' = IF deleted THEN removed \cup {p} ELSE removed
          /\ undone' = undone \cup {p}
       \/ UNCHANGED <<index, removed, undone>>
  /\ UNCHANGED <<files, pc, installed, mapped, queue, indexer, seen>>

(* cleanup_expired_tombstones                                              *)
Purge(p) ==
  /\ index[p].deleted
  /\ changes < MaxChanges
  /\ changes' = changes + 1
  /\ index' = [index EXCEPT ![p] = NoRow]
  /\ undone' = IF disk[p] = Absent THEN undone ELSE undone \cup {p}
  /\ UNCHANGED <<disk, renamed, pc, installed, mapped, queue, indexer, merge, seen, removed>>

-----------------------------------------------------------------------------
(* verify_filesystem_consistency looks at the rows that are not            *)
(* tombstones: a missing file makes one, another length is stored with a   *)
(* new hash, but no new blocks.  A new file, or one of the same length, is *)
(* not noticed.                                                            *)
Verified(p) ==
  LET r == index[p] IN
    IF r = NoRow \/ r.deleted THEN r
    ELSE IF disk[p] = Absent THEN [r EXCEPT !.deleted = TRUE]
    ELSE IF Size[disk[p]] # r.size THEN [r EXCEPT !.size = Size[disk[p]], !.sha = disk[p]]
    ELSE r

(* The program ends and starts again; the first error ends the check, so   *)
(* that some rows may not have been looked at.  Nothing is watched until   *)
(* start_watching is called.                                               *)
Restart ==
  /\ \E checked \in SUBSET Paths :
       /\ index' = [p \in Paths |-> IF p \in checked THEN Verified(p) ELSE index[p]]
       /\ removed' = removed \cup {p \in checked : disk[p] = Absent /\ index[p] # NoRow}
  /\ pc' = [c \in Calls |-> "idle"] /\ installed' = {} /\ mapped' = NoCall
  /\ queue' = [c \in Calls |-> <<>>]
  /\ indexer' = [c \in Calls |-> NoIndexer]
  /\ seen' = [c \in Calls |-> {}]
  /\ merge' = NoMerge
  /\ UNCHANGED <<files, undone>>

CallStep(c) == Check(c) \/ Register(c) \/ Insert(c) \/ Unwatch(c)

IndexerStep(c) ==
  TakeEvent(c) \/ ReadLength(c) \/ HashFile(c) \/ ReadBlocks(c) \/ SaveContent(c) \/ SaveDeletion(c)

Next ==
  \/ \E p \in Paths :
       \/ Delete(p) \/ MergeLoad(p) \/ Purge(p)
       \/ \E content \in Contents : Write(p, content)
       \/ \E q \in Paths : Rename(p, q)
  \/ \E c \in Calls : CallStep(c) \/ IndexerStep(c)
  \/ MergeSave
  \/ Restart

Spec == Init /\ [][Next]_vars

(* process_events is a task of the runtime, and reads and queries end.     *)
Fairness == \A c \in Calls : WF_vars(IndexerStep(c))

FairSpec == Spec /\ Fairness

-----------------------------------------------------------------------------
(* However calls of start_watching overlap, one of them is in the map, it  *)
(* alone has a task that takes its events, and no watcher is left behind   *)
(* by the others.                                                          *)
WatchersAreOwned ==
  \A c \in Calls :
    /\ indexer[c].at # "none" <=> c = mapped
    /\ c = mapped => c \in installed
    /\ c \in installed => c = mapped \/ pc[c] \in {"registered", "losing"}

(* The row agrees with the file, as far as the code makes it: the old path *)
(* of a rename keeps its row, what has once been deleted may stay a        *)
(* tombstone although it is there again, and another writer may undo it.   *)
Current(p) ==
  \/ p \in undone
  \/ /\ disk[p] = Absent
     /\ index[p] = NoRow \/ index[p].deleted \/ p \in renamed
  \/ /\ disk[p] # Absent
     /\ index[p].size = Size[disk[p]] /\ index[p].sha = disk[p] /\ index[p].blocks = disk[p]
     /\ index[p].deleted => p \in removed

(* When process_events waits and has nothing to take, the row of every     *)
(* file that has changed since the watcher was registered is current:      *)
(* length, hash and blocks alike.  A change between the reads of a file,   *)
(* or between a read and the save, is never the last word.                 *)
IndexFollowsDisk ==
  \A c \in Calls :
    (indexer[c].at = "waiting" /\ queue[c] = <<>>) => \A p \in seen[c] : Current(p)

(* A change is indexed in the end.                                         *)
ChangesAreIndexed ==
  \A c \in Calls, p \in Paths :
    (mapped = c /\ p \in seen[c]) ~> (mapped # c \/ p \notin seen[c] \/ Current(p))
=============================================================================
