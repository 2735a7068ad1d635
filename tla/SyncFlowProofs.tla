--------------------------- MODULE SyncFlowProofs ---------------------------
(***************************************************************************)
(* Proofs about SyncFlow, for every set of devices, number of runs of      *)
(* execute, number of changes and set of timestamps.                       *)
(***************************************************************************)
EXTENDS SyncFlow, TLAPS

-----------------------------------------------------------------------------
(* Vectors and rows.                                                       *)

(* increment yields a vector and changes the component of one device.      *)
LEMMA IncrementLaws ==
  ASSUME NEW v \in Vectors, NEW d \in Devices
  PROVE  /\ Zero \in Vectors /\ Increment(v, d) \in Vectors
         /\ \A p \in Devices : p # d => Increment(v, d)[p] = v[p]
  BY DEF Vectors, Zero, Increment

(* merge yields the least upper bound.                                     *)
LEMMA MergeLaws ==
  ASSUME NEW v \in Vectors, NEW w \in Vectors
  PROVE  /\ Merge(v, w) \in Vectors
         /\ \A p \in Devices : Merge(v, w)[p] \in {v[p], w[p]}
         /\ IsAncestorOf(v, Merge(v, w)) /\ IsAncestorOf(w, Merge(v, w))
  BY DEF Vectors, Merge, IsAncestorOf

(* A row that is there is an entry.                                        *)
LEMMA RowIsEntry ==
  ASSUME NEW e \in Rows, e.kind # "none"
  PROVE  e \in Entry
  BY DEF Rows, NoEntry

(* The absent row is a row, and says so.                                   *)
LEMMA NoEntryIsRow == NoEntry \in Rows /\ NoEntry.kind = "none"
  BY DEF Rows, NoEntry

(* An entry is not the absent row.                                         *)
LEMMA EntryFacts ==
  ASSUME NEW e \in Entry
  PROVE  e \in Rows /\ e.kind # "none" /\ e.version \in Vectors
  BY DEF Entry, Rows

(* What the indexer stores.                                                *)
LEMMA IndexerEntries ==
  ASSUME NEW d \in Devices, NEW now \in Times, NEW e \in Rows
  PROVE  /\ Indexed(e, d, now) \in Entry
         /\ e.kind # "none" => MarkDeleted(e, d) \in Entry
         /\ \A p \in Devices : p # d =>
              /\ e.kind # "none" => /\ Indexed(e, d, now).version[p] = e.version[p]
                                    /\ MarkDeleted(e, d).version[p] = e.version[p]
              /\ e.kind = "none" => Indexed(e, d, now).version[p] = 0
  <1>1. CASE e.kind = "none"
    <2>1. NewEntry(d, now) \in Entry
      BY DEF NewEntry, Entry, Vectors, Zero, Increment
    <2>2. \A p \in Devices : p # d => NewEntry(d, now).version[p] = 0
      BY DEF NewEntry, Zero, Increment
    <2>3. QED
      BY <1>1, <2>1, <2>2 DEF Indexed
  <1>2. CASE e.kind # "none"
    <2>1. e \in Entry /\ e.version \in Vectors
      BY <1>2, RowIsEntry, EntryFacts
    <2>2. /\ Increment(e.version, d) \in Vectors
          /\ \A p \in Devices : p # d => Increment(e.version, d)[p] = e.version[p]
      BY <2>1, IncrementLaws
    <2>3. UpdateContent(e, d, now) \in Entry /\ MarkDeleted(e, d) \in Entry
      BY <2>1, <2>2 DEF UpdateContent, MarkDeleted, Entry
    <2>4. /\ UpdateContent(e, d, now).version = Increment(e.version, d)
          /\ MarkDeleted(e, d).version = Increment(e.version, d)
      BY <2>1 DEF UpdateContent, MarkDeleted, Entry
    <2>5. Indexed(e, d, now) = UpdateContent(e, d, now)
      BY <1>2 DEF Indexed
    <2>6. QED
      BY <1>2, <2>2, <2>3, <2>4, <2>5
  <1>3. QED
    BY <1>1, <1>2

(* What the consistency check leaves in a row.                             *)
LEMMA VerifiedRows ==
  ASSUME NEW d \in Devices, NEW e \in Rows, NEW f \in Verified(e, d)
  PROVE  /\ f \in Rows
         /\ f.kind # "none" => e.kind # "none"
         /\ \A p \in Devices : p # d /\ f.kind # "none" => f.version[p] = e.version[p]
  <1>1. CASE f = e
    BY <1>1
  <1>2. CASE e.kind = "live" /\ f = [e EXCEPT !.by = d]
    BY <1>2, RowIsEntry DEF Entry, Rows
  <1>3. CASE e.kind = "live" /\ f = MarkDeleted(e, d)
    <2>1. PICK now \in Times : TRUE
      BY TimesAssumption
    <2>2. QED
      BY <1>3, <2>1, IndexerEntries, EntryFacts
  <1>4. QED
    BY <1>1, <1>2, <1>3 DEF Verified

-----------------------------------------------------------------------------
(* Type correctness.                                                       *)

(* The idle task and the idle indexer are well-typed.                      *)
LEMMA IdleTypes == IdleTask \in Task /\ IdleIndexer \in Indexer
  <1>1. Someone \in Devices
    BY SomeDevice DEF Someone
  <1>2. QED
    BY <1>1, NoEntryIsRow DEF IdleTask, Task, IdleIndexer, Indexer

(* What update_versions stores is an entry.                                *)
LEMMA UpdatedEntry ==
  ASSUME NEW w \in Task, w.pc = "loaded", PlanSound(w),
         w.class = "pull" \/ w.copy.kind # "none"
  PROVE  Updated(w) \in Entry
  <1>1. CASE w.class = "pull"
    <2>1. w.remote \in Entry
      BY <1>1, RowIsEntry DEF PlanSound, Task
    <2>2. CASE w.copy.kind = "none"
      BY <1>1, <2>1, <2>2 DEF Updated
    <2>3. CASE w.copy.kind # "none"
      <3>1. w.copy \in Entry
        BY <2>3, RowIsEntry DEF Task
      <3>2. Merge(w.copy.version, w.remote.version) \in Vectors
        BY <2>1, <3>1, MergeLaws, EntryFacts
      <3>3. ApplyRemoteVersion(w.copy, w.remote) \in Entry
        BY <3>1, <3>2 DEF ApplyRemoteVersion, Entry
      <3>4. QED
        BY <1>1, <2>3, <3>3 DEF Updated
    <2>4. QED
      BY <2>2, <2>3
  <1>2. CASE w.class = "push"
    <2>1. w.copy \in Entry /\ w.local \in Entry
      BY <1>2, RowIsEntry DEF PlanSound, Task
    <2>2. Merge(w.copy.version, w.local.version) \in Vectors
      BY <2>1, MergeLaws, EntryFacts
    <2>3. ApplyRemoteVersion(w.copy, w.local) \in Entry
      BY <2>1, <2>2 DEF ApplyRemoteVersion, Entry
    <2>4. QED
      BY <1>2, <2>3 DEF Updated
  <1>3. CASE w.class = "conflict"
    <2>1. w.copy \in Entry /\ w.local \in Entry /\ w.remote \in Entry
      BY <1>3, RowIsEntry DEF PlanSound, Task
    <2>2. Merge(w.local.version, w.remote.version) \in Vectors
      BY <2>1, MergeLaws, EntryFacts
    <2>3. [w.copy EXCEPT !.version = Merge(w.local.version, w.remote.version)] \in Entry
      BY <2>1, <2>2 DEF Entry
    <2>4. QED
      BY <1>3, <2>3 DEF Updated
  <1>4. QED
    BY <1>1, <1>2, <1>3 DEF Task

(* A task that moves on, begins or ends stays well-typed.                  *)
LEMMA TypeTask ==
  ASSUME TypeOK, NEW t \in Tasks, NEW w \in Task, task' = [task EXCEPT ![t] = w]
  PROVE  task' \in [Tasks -> Task]
  BY DEF TypeOK

(* The steps of the indexer preserve the types.                            *)
LEMMA TypeIndexer ==
  ASSUME TypeOK, NEW d \in Devices,
         \/ \E event \in Events : IndexLoad(d, event)
         \/ IndexSave(d) \/ IndexDeletion(d) \/ IndexSkip(d)
         \/ CleanupTombstone(d) \/ Restart(d)
  PROVE  TypeOK'
  <1>1. index[d] \in Rows /\ indexer[d].copy \in Rows
    BY DEF TypeOK, Indexer
  <1>2. ASSUME NEW event \in Events, IndexLoad(d, event)
        PROVE  TypeOK'
    <2>1. PICK e \in Rows : indexer' = [indexer EXCEPT ![d] = [pc |-> event, copy |-> e]]
      BY <1>1, <1>2, NoEntryIsRow DEF IndexLoad, Found
    <2>2. QED
      BY <1>2, <2>1 DEF IndexLoad, TypeOK, Indexer
  <1>3. CASE IndexSave(d)
    <2>1. PICK now \in Times : index' = [index EXCEPT ![d] = Indexed(indexer[d].copy, d, now)]
      BY <1>3 DEF IndexSave
    <2>2. Indexed(indexer[d].copy, d, now) \in Rows
      BY <1>1, IndexerEntries, EntryFacts
    <2>3. QED
      BY <1>3, <2>1, <2>2, IdleTypes DEF IndexSave, TypeOK
  <1>4. CASE IndexDeletion(d)
    <2>1. PICK now \in Times : TRUE
      BY TimesAssumption
    <2>2. MarkDeleted(indexer[d].copy, d) \in Rows
      BY <1>1, <1>4, <2>1, IndexerEntries, EntryFacts DEF IndexDeletion
    <2>3. QED
      BY <1>4, <2>2, IdleTypes DEF IndexDeletion, TypeOK
  <1>5. CASE IndexSkip(d)
    BY <1>5, IdleTypes DEF IndexSkip, TypeOK
  <1>6. CASE CleanupTombstone(d)
    BY <1>6, NoEntryIsRow DEF CleanupTombstone, TypeOK
  <1>7. CASE Restart(d)
    <2>1. PICK e \in Verified(index[d], d) : index' = [index EXCEPT ![d] = e]
      BY <1>7 DEF Restart
    <2>2. e \in Rows
      BY <1>1, VerifiedRows
    <2>3. QED
      BY <1>7, <2>1, <2>2, IdleTypes DEF Restart, TypeOK
  <1>8. QED
    BY <1>2, <1>3, <1>4, <1>5, <1>6, <1>7

(* What a plan is made of.                                                 *)
LEMMA PlannedFacts ==
  ASSUME NEW w \in Task, index[w.at] \in Rows,
         NEW canPull \in BOOLEAN, NEW canPush \in BOOLEAN
  PROVE  LET c == PlanClass(w, canPull, canPush)
             p == Planned(w, c)
         IN /\ p \in Task /\ PlanSound(p)
            /\ p = IdleTask \/ p.pc = "planned"
            /\ p.local = NoEntry \/ (p.local = index[w.at] /\ p.at = w.at)
            /\ p.copy \in {NoEntry, w.copy}
            /\ p.at = w.at \/ p = IdleTask
  <1> DEFINE c == PlanClass(w, canPull, canPush)
  <1>1. c \in {"push", "pull", "conflict", "unchanged"}
    BY DEF PlanClass, Filtered, Class
  <1>2. /\ c \in {"push", "conflict"} => index[w.at].kind # "none"
        /\ c \in {"pull", "conflict"} => w.remote.kind # "none"
    BY DEF PlanClass, Filtered, Class, OnlyIn, Newer
  <1>3. CASE c = "unchanged"
    BY <1>3, IdleTypes DEF Planned, IdleTask, PlanSound
  <1>4. CASE c # "unchanged"
    <2> DEFINE p == [w EXCEPT !.pc = "planned", !.class = c,
                       !.local = IF c = "pull" THEN NoEntry ELSE index[w.at],
                       !.remote = IF c = "push" THEN NoEntry ELSE @]
    <2>1. Planned(w, c) = p
      BY <1>4 DEF Planned
    <2> HIDE DEF c
    <2>2. /\ p \in Task /\ p.pc = "planned" /\ p.class = c /\ p.at = w.at
          /\ p.copy = w.copy
          /\ p.local = IF c = "pull" THEN NoEntry ELSE index[w.at]
          /\ p.remote = IF c = "push" THEN NoEntry ELSE w.remote
      BY <1>1, <1>4, NoEntryIsRow DEF Task
    <2>3. PlanSound(p)
      BY <1>1, <1>2, <1>4, <2>2 DEF PlanSound
    <2> HIDE DEF p
    <2>4. QED
      BY <2>1, <2>2, <2>3 DEF c
  <1>5. QED
    BY <1>3, <1>4

(* The steps of execute preserve the types.                                *)
LEMMA TypeExecute ==
  ASSUME TypeOK, NEW t \in Tasks, PlanSound(task[t]),
         \/ \E d, p \in Devices : Fetch(t, d, p)
         \/ Plan(t) \/ ExecutePlan(t) \/ UpdateLoad(t) \/ UpdateSave(t)
         \/ TaskErrors(t)
  PROVE  TypeOK'
  <1>0. task[t] \in Task /\ index[task[t].at] \in Rows
    BY DEF TypeOK, Task
  <1>1. ASSUME NEW d \in Devices, NEW p \in Devices, Fetch(t, d, p)
        PROVE  TypeOK'
    <2>1. PICK e \in Rows :
            task' = [task EXCEPT ![t] = [IdleTask EXCEPT
              !.pc = "fetched", !.at = d, !.remote = e]]
      BY <1>1, NoEntryIsRow DEF Fetch, Found, TypeOK
    <2>2. [IdleTask EXCEPT !.pc = "fetched", !.at = d, !.remote = e] \in Task
      BY IdleTypes DEF Task
    <2>3. QED
      BY <1>1, <2>1, <2>2, TypeTask DEF Fetch, TypeOK
  <1>2. CASE Plan(t)
    <2>1. PICK canPull \in BOOLEAN, canPush \in BOOLEAN :
            task' = [task EXCEPT ![t] = Planned(task[t], PlanClass(task[t], canPull, canPush))]
      BY <1>2 DEF Plan
    <2>2. Planned(task[t], PlanClass(task[t], canPull, canPush)) \in Task
      BY <1>0, PlannedFacts
    <2>3. QED
      BY <1>2, <2>1, <2>2, TypeTask DEF Plan, TypeOK
  <1>3. CASE ExecutePlan(t)
    <2>1. task' \in [Tasks -> Task]
      BY <1>0, <1>3 DEF ExecutePlan, TypeOK, Task
    <2>2. CASE task[t].class = "push"
      BY <1>3, <2>1, <2>2 DEF ExecutePlan, TypeOK
    <2>3. CASE task[t].class # "push"
      <3>1. task[t].remote.version \in Vectors
        BY <1>0, <1>3, <2>3, RowIsEntry, EntryFacts DEF ExecutePlan, PlanSound, Task
      <3>2. Merge(asked[task[t].at], task[t].remote.version) \in Vectors
        BY <1>0, <3>1, MergeLaws DEF TypeOK, Task
      <3>3. QED
        BY <1>0, <1>3, <2>1, <2>3, <3>2 DEF ExecutePlan, TypeOK
    <2>4. QED
      BY <2>2, <2>3
  <1>4. CASE UpdateLoad(t)
    BY <1>0, <1>4 DEF UpdateLoad, TypeOK, Task
  <1>5. CASE UpdateSave(t)
    <2>1. task' \in [Tasks -> Task]
      BY <1>5, IdleTypes DEF UpdateSave, TypeOK
    <2>2. index' \in [Devices -> Rows]
      <3>1. CASE task[t].class # "pull" /\ task[t].copy.kind = "none"
        BY <1>5, <3>1 DEF UpdateSave, TypeOK
      <3>2. CASE task[t].class = "pull" \/ task[t].copy.kind # "none"
        <4>1. Updated(task[t]) \in Rows
          BY <1>0, <1>5, <3>2, UpdatedEntry, EntryFacts DEF UpdateSave
        <4>2. QED
          BY <1>5, <3>2, <4>1 DEF UpdateSave, TypeOK
      <3>3. QED
        BY <3>1, <3>2
    <2>3. QED
      BY <1>5, <2>1, <2>2 DEF UpdateSave, TypeOK
  <1>6. CASE TaskErrors(t)
    BY <1>6, IdleTypes DEF TaskErrors, TypeOK
  <1>7. QED
    BY <1>1, <1>2, <1>3, <1>4, <1>5, <1>6

-----------------------------------------------------------------------------
(* What is claimed was asked for.                                          *)

(* What an idle task and the absent row claim: nothing.                    *)
LEMMA IdleClaims ==
  /\ \A d \in Devices : Within(NoEntry, d)
  /\ Within(IdleTask.local, IdleTask.at) /\ Within(IdleTask.copy, IdleTask.at)
  /\ RemoteAsked(IdleTask) /\ PlanSound(IdleTask)
  /\ \A d \in Devices : Within(IdleIndexer.copy, d)
  BY NoEntryIsRow DEF Within, IdleTask, IdleIndexer, RemoteAsked, PlanSound

(* Rows made by the indexer claim no more than the copy they are made of.  *)
LEMMA IndexerClaims ==
  ASSUME TypeOK, NEW d \in Devices, NEW now \in Times, NEW e \in Rows, Within(e, d)
  PROVE  /\ Within(Indexed(e, d, now), d)
         /\ e.kind # "none" => Within(MarkDeleted(e, d), d)
  <1>1. asked[d] \in Vectors
    BY DEF TypeOK
  <1>2. CASE e.kind = "none"
    BY <1>1, <1>2, IndexerEntries DEF Within, Vectors
  <1>3. CASE e.kind # "none"
    BY <1>1, <1>3, IndexerEntries DEF Within
  <1>4. QED
    BY <1>2, <1>3

(* What update_versions saves claims no more than its three entries.       *)
LEMMA UpdatedClaims ==
  ASSUME TypeOK, NEW w \in Task, w.pc = "loaded",
         Within(w.local, w.at), Within(w.copy, w.at), RemoteAsked(w), PlanSound(w),
         w.class = "pull" \/ w.copy.kind # "none"
  PROVE  Within(Updated(w), w.at)
  <1> DEFINE Known(v) == \A p \in Devices : w.at # p => v[p] <= asked[w.at][p]
  <1>1. w.at \in Devices /\ w.local \in Rows /\ w.remote \in Rows /\ w.copy \in Rows
    BY DEF Task
  <1>2. w.class # "push" => w.remote \in Entry /\ Known(w.remote.version)
    BY <1>1, RowIsEntry DEF RemoteAsked, PlanSound, IsAncestorOf
  <1>3. w.class # "pull" => w.local \in Entry /\ Known(w.local.version)
    BY <1>1, RowIsEntry DEF PlanSound, Within
  <1>4. w.copy.kind # "none" => w.copy \in Entry /\ Known(w.copy.version)
    BY <1>1, RowIsEntry DEF Within
  <1>5. ASSUME NEW v \in Vectors, NEW u \in Vectors, Known(v), Known(u)
        PROVE  Known(Merge(v, u))
    BY <1>5, MergeLaws
  <1>6. ASSUME NEW f \in Rows, Known(f.version)
        PROVE  Within(f, w.at)
    BY <1>6 DEF Within
  <1>7. Known(Updated(w).version)
    <2>1. CASE w.class = "pull" /\ w.copy.kind = "none"
      BY <1>2, <2>1 DEF Updated
    <2>2. CASE w.class = "pull" /\ w.copy.kind # "none"
      <3>1. Updated(w).version = Merge(w.copy.version, w.remote.version)
        BY <1>4, <2>2 DEF Updated, ApplyRemoteVersion, Entry
      <3>2. QED
        BY <1>2, <1>4, <1>5, <2>2, <3>1, EntryFacts
    <2>3. CASE w.class = "push"
      <3>1. Updated(w).version = Merge(w.copy.version, w.local.version)
        BY <1>4, <2>3 DEF Updated, ApplyRemoteVersion, Entry
      <3>2. QED
        BY <1>3, <1>4, <1>5, <2>3, <3>1, EntryFacts
    <2>4. CASE w.class = "conflict"
      <3>1. Updated(w).version = Merge(w.local.version, w.remote.version)
        BY <1>4, <2>4 DEF Updated, Entry
      <3>2. QED
        BY <1>2, <1>3, <1>5, <2>4, <3>1, EntryFacts
    <2>5. QED
      BY <2>1, <2>2, <2>3, <2>4 DEF Task
  <1>8. QED
    BY <1>6, <1>7, UpdatedEntry, EntryFacts

(* The steps of the indexer preserve the invariant: they ask for nothing   *)
(* and claim nothing.                                                      *)
LEMMA IndexerInv ==
  ASSUME IInv, NEW d \in Devices,
         \/ \E event \in Events : IndexLoad(d, event)
         \/ IndexSave(d) \/ IndexDeletion(d) \/ IndexSkip(d)
         \/ CleanupTombstone(d) \/ Restart(d)
  PROVE  IInv'
  <1>1. TypeOK /\ TypeOK'
    BY TypeIndexer DEF IInv
  <1>2. /\ index[d] \in Rows /\ Within(index[d], d)
        /\ indexer[d].copy \in Rows /\ Within(indexer[d].copy, d)
    BY <1>1 DEF IInv, TypeOK, Indexer
  <1>3. asked' = asked
    BY DEF IndexLoad, IndexSave, IndexDeletion, IndexSkip, CleanupTombstone, Restart
  <1>4. PICK e \in Rows, r \in Indexer :
          /\ index' = [index EXCEPT ![d] = e] /\ Within(e, d)
          /\ indexer' = [indexer EXCEPT ![d] = r] /\ Within(r.copy, d)
    <2>0. /\ indexer[d] \in Indexer
          /\ index = [index EXCEPT ![d] = index[d]]
          /\ indexer = [indexer EXCEPT ![d] = indexer[d]]
      BY <1>1 DEF TypeOK
    <2>1. ASSUME NEW event \in Events, IndexLoad(d, event)
          PROVE  \E r \in Indexer : indexer' = [indexer EXCEPT ![d] = r] /\ Within(r.copy, d)
      <3>0. PICK e \in Rows :
              /\ indexer' = [indexer EXCEPT ![d] = [pc |-> event, copy |-> e]]
              /\ Within(e, d)
        BY <1>2, <2>1, NoEntryIsRow, IdleClaims DEF IndexLoad, Found
      <3> DEFINE r == [pc |-> event, copy |-> e]
      <3>1. r \in Indexer /\ r.copy = e
        BY DEF Indexer
      <3>2. indexer' = [indexer EXCEPT ![d] = r]
        BY <3>0
      <3> HIDE DEF r
      <3>3. Within(r.copy, d)
        BY <3>0, <3>1
      <3>4. QED
        BY <3>1, <3>2, <3>3
    <2>2. CASE \E event \in Events : IndexLoad(d, event)
      BY <1>2, <2>0, <2>1, <2>2 DEF IndexLoad
    <2>3. CASE IndexSave(d)
      <3>1. PICK now \in Times : index' = [index EXCEPT ![d] = Indexed(indexer[d].copy, d, now)]
        BY <2>3 DEF IndexSave
      <3>2. Indexed(indexer[d].copy, d, now) \in Rows /\ Within(Indexed(indexer[d].copy, d, now), d)
        BY <1>1, <1>2, IndexerEntries, IndexerClaims, EntryFacts
      <3>3. QED
        BY <2>3, <3>1, <3>2, IdleTypes, IdleClaims DEF IndexSave
    <2>4. CASE IndexDeletion(d)
      <3>1. PICK now \in Times : TRUE
        BY TimesAssumption
      <3>2. MarkDeleted(indexer[d].copy, d) \in Rows /\ Within(MarkDeleted(indexer[d].copy, d), d)
        BY <1>1, <1>2, <2>4, IndexerEntries, IndexerClaims, EntryFacts DEF IndexDeletion
      <3>3. QED
        BY <2>4, <3>2, IdleTypes, IdleClaims DEF IndexDeletion
    <2>5. CASE IndexSkip(d)
      BY <1>2, <2>0, <2>5, IdleTypes, IdleClaims DEF IndexSkip
    <2>6. CASE CleanupTombstone(d)
      BY <1>2, <2>0, <2>6, NoEntryIsRow, IdleClaims DEF CleanupTombstone
    <2>7. CASE Restart(d)
      <3>1. PICK e \in Verified(index[d], d) : index' = [index EXCEPT ![d] = e]
        BY <2>7 DEF Restart
      <3>2. e \in Rows /\ Within(e, d)
        BY <1>2, VerifiedRows DEF Within
      <3>3. QED
        BY <2>7, <3>1, <3>2, IdleTypes, IdleClaims DEF Restart
    <2>8. QED
      BY <2>2, <2>3, <2>4, <2>5, <2>6, <2>7
  <1>5. \A t \in Tasks : task'[t] \in {task[t], IdleTask}
    BY <1>1 DEF TypeOK, IndexLoad, IndexSave, IndexDeletion, IndexSkip,
                CleanupTombstone, Restart
  <1>6. \A q \in Devices : Within(index[q], q)' /\ Within(indexer[q].copy, q)'
    BY <1>1, <1>3, <1>4 DEF IInv, TypeOK, Within
  <1>7. ASSUME NEW t \in Tasks
        PROVE  TaskInv(t)'
    <2>1. CASE task'[t] = task[t]
      BY <1>3, <2>1 DEF IInv, TaskInv, Within, RemoteAsked, PlanSound
    <2>2. CASE task'[t] = IdleTask
      BY <1>3, <2>2, IdleClaims DEF TaskInv, Within, RemoteAsked, PlanSound
    <2>3. QED
      BY <1>5, <2>1, <2>2
  <1>8. QED
    BY <1>1, <1>6, <1>7 DEF IInv

(* The steps of execute preserve the invariant.                            *)
LEMMA ExecuteInv ==
  ASSUME IInv, NEW t \in Tasks,
         \/ \E d, p \in Devices : Fetch(t, d, p)
         \/ Plan(t) \/ ExecutePlan(t) \/ UpdateLoad(t) \/ UpdateSave(t)
         \/ TaskErrors(t)
  PROVE  IInv'
  <1>1. TypeOK /\ TypeOK' /\ TaskInv(t) /\ PlanSound(task[t])
    BY TypeExecute DEF IInv, TaskInv
  <1>2. task[t] \in Task /\ task[t].at \in Devices /\ index[task[t].at] \in Rows
    BY <1>1 DEF TypeOK, Task
  <1>3. \A q \in Devices : \A p \in Devices : asked[q][p] <= asked'[q][p]
    <2>1. \A q \in Devices : \A p \in Devices : asked[q][p] \in Nat
      BY <1>1 DEF TypeOK, Vectors
    <2>2. CASE asked' = asked
      BY <2>1, <2>2
    <2>3. CASE ExecutePlan(t) /\ task[t].class # "push"
      <3>1. task[t].remote.version \in Vectors
        BY <1>1, <1>2, <2>3, RowIsEntry, EntryFacts DEF ExecutePlan, PlanSound, Task
      <3>2. IsAncestorOf(asked[task[t].at], Merge(asked[task[t].at], task[t].remote.version))
        BY <1>1, <1>2, <3>1, MergeLaws DEF TypeOK
      <3>3. QED
        BY <1>1, <1>2, <2>1, <2>3, <3>2 DEF ExecutePlan, IsAncestorOf, TypeOK
    <2>4. QED
      BY <2>2, <2>3 DEF Fetch, Plan, ExecutePlan, UpdateLoad, UpdateSave, TaskErrors
  <1>4. \A e \in Rows : \A q \in Devices : 
          Within(e, q) => (e.kind # "none" =>
             \A p \in Devices : q # p => e.version[p] <= asked'[q][p])
    <2>1. \A q \in Devices : \A p \in Devices : asked[q][p] \in Nat /\ asked'[q][p] \in Nat
      BY <1>1 DEF TypeOK, Vectors
    <2>2. \A e \in Rows : e.kind # "none" => \A p \in Devices : e.version[p] \in Nat
      BY RowIsEntry, EntryFacts DEF Vectors
    <2>3. QED
      BY <1>3, <2>1, <2>2 DEF Within
  <1>5. \A q \in Devices : Within(index[q], q)' /\ Within(indexer[q].copy, q)'
    <2>1. \A q \in Devices : indexer'[q].copy = indexer[q].copy
      BY DEF Fetch, Plan, ExecutePlan, UpdateLoad, UpdateSave, TaskErrors
    <2>2. \A q \in Devices : Within(indexer[q].copy, q)'
      BY <1>1, <1>4, <2>1 DEF IInv, TypeOK, Indexer, Within
    <2>3. CASE index' = index
      BY <1>1, <1>4, <2>2, <2>3 DEF IInv, TypeOK, Within
    <2>4. CASE UpdateSave(t) /\ (task[t].class = "pull" \/ task[t].copy.kind # "none")
      <3>1. Within(Updated(task[t]), task[t].at)
        BY <1>1, <1>2, <2>4, UpdatedClaims DEF UpdateSave, TaskInv
      <3>2. \A q \in Devices : index'[q] = IF q = task[t].at THEN Updated(task[t]) ELSE index[q]
        BY <1>1, <2>4 DEF UpdateSave, TypeOK
      <3>3. asked' = asked
        BY <2>4 DEF UpdateSave
      <3>4. QED
        BY <2>2, <3>1, <3>2, <3>3 DEF IInv, Within
    <2>5. QED
      BY <2>3, <2>4 DEF Fetch, Plan, ExecutePlan, UpdateLoad, UpdateSave, TaskErrors
  <1>6. ASSUME NEW s \in Tasks, task'[s] = task[s]
        PROVE  TaskInv(s)'
    <2>1. task[s] \in Task /\ TaskInv(s)
      BY <1>1 DEF IInv, TypeOK
    <2>2. Within(task[s].local, task[s].at)' /\ Within(task[s].copy, task[s].at)'
      BY <1>4, <1>6, <2>1 DEF TaskInv, Within, Task
    <2>3. PlanSound(task[s])'
      BY <1>6, <2>1 DEF TaskInv, PlanSound
    <2>4. RemoteAsked(task[s])'
      <3>1. ASSUME task[s].pc \in {"recorded", "loaded"}, task[s].class # "push"
            PROVE  /\ IsAncestorOf(task[s].remote.version, asked[task[s].at])
                   /\ task[s].remote.version \in Vectors
        BY <2>1, <3>1, RowIsEntry, EntryFacts DEF TaskInv, RemoteAsked, PlanSound, Task
      <3>2. asked[task[s].at] \in Vectors /\ asked'[task[s].at] \in Vectors /\ task[s].at \in Devices
        BY <1>1, <2>1 DEF TypeOK, Task
      <3>3. QED
        BY <1>3, <1>6, <3>1, <3>2 DEF RemoteAsked, IsAncestorOf, Vectors
    <2>5. QED
      BY <2>2, <2>3, <2>4 DEF TaskInv
  <1>7. TaskInv(t)'
    <2>1. ASSUME NEW w \in Task, task'[t] = w, RemoteAsked(w)', PlanSound(w),
                 Within(w.local, w.at), Within(w.copy, w.at)
          PROVE  TaskInv(t)'
      <3>1. Within(task[t].local, task[t].at)' /\ Within(task[t].copy, task[t].at)'
        BY <1>4, <2>1 DEF Within, Task
      <3>2. QED
        BY <2>1, <3>1 DEF TaskInv, RemoteAsked, PlanSound
    <2>2. CASE task'[t] = IdleTask
      BY <2>1, <2>2, IdleTypes, IdleClaims DEF RemoteAsked, IdleTask
    <2>3. ASSUME NEW d \in Devices, NEW p \in Devices, Fetch(t, d, p)
          PROVE  TaskInv(t)'
      <3>0. PICK e \in Rows :
              task' = [task EXCEPT ![t] = [IdleTask EXCEPT
                !.pc = "fetched", !.at = d, !.remote = e]]
        BY <1>1, <2>3, NoEntryIsRow DEF Fetch, Found, TypeOK
      <3> DEFINE w == [IdleTask EXCEPT !.pc = "fetched", !.at = d, !.remote = e]
      <3>1. /\ w \in Task /\ w.pc = "fetched" /\ w.local = NoEntry /\ w.copy = NoEntry
            /\ w.at = d
        BY <1>1, IdleTypes DEF TypeOK, Task, IdleTask
      <3>2. task'[t] = w
        BY <1>1, <3>0 DEF TypeOK
      <3> HIDE DEF w
      <3>3. QED
        BY <2>1, <3>1, <3>2, IdleClaims DEF RemoteAsked, PlanSound
    <2>4. CASE Plan(t)
      <3>1. PICK canPull \in BOOLEAN, canPush \in BOOLEAN :
              task' = [task EXCEPT ![t] = Planned(task[t], PlanClass(task[t], canPull, canPush))]
        BY <2>4 DEF Plan
      <3> DEFINE w == Planned(task[t], PlanClass(task[t], canPull, canPush))
      <3>2. /\ w \in Task /\ PlanSound(w)
            /\ w = IdleTask \/ w.pc = "planned"
            /\ w.local = NoEntry \/ (w.local = index[task[t].at] /\ w.at = task[t].at)
            /\ w.copy \in {NoEntry, task[t].copy}
            /\ w.at = task[t].at \/ w = IdleTask
        BY <1>2, PlannedFacts
      <3>3. task'[t] = w
        BY <1>1, <3>1 DEF TypeOK
      <3> HIDE DEF w
      <3>4. CASE w = IdleTask
        BY <2>2, <3>3, <3>4
      <3>5. CASE w # IdleTask
        <4>1. Within(w.local, w.at) /\ Within(w.copy, w.at)
          BY <1>1, <1>2, <3>2, <3>5, IdleClaims DEF IInv, TaskInv, Task
        <4>2. QED
          BY <2>1, <3>2, <3>3, <3>5, <4>1 DEF RemoteAsked
      <3>6. QED
        BY <3>4, <3>5
    <2>5. CASE ExecutePlan(t)
      <3>1. PICK w \in Task :
              /\ w = [task[t] EXCEPT !.pc = "recorded"]
              /\ w.pc = "recorded" /\ w.local = task[t].local
              /\ w.copy = task[t].copy /\ w.at = task[t].at /\ w.class = task[t].class
              /\ w.remote = task[t].remote
        <4> DEFINE u == [task[t] EXCEPT !.pc = "recorded"]
        <4>1. /\ u \in Task /\ u.pc = "recorded" /\ u.local = task[t].local
              /\ u.copy = task[t].copy /\ u.at = task[t].at /\ u.class = task[t].class
              /\ u.remote = task[t].remote
          BY <1>2 DEF Task
        <4>2. QED
          BY <4>1
      <3>2. task'[t] = w
        BY <1>1, <2>5, <3>1 DEF ExecutePlan, TypeOK
      <3>3. w.class # "push" => IsAncestorOf(w.remote.version, asked'[w.at])
        <4>1. CASE w.class # "push"
          <5>1. task[t].remote.version \in Vectors
            BY <1>1, <1>2, <2>5, <3>1, <4>1, RowIsEntry, EntryFacts
               DEF ExecutePlan, PlanSound, Task
          <5>2. asked'[task[t].at] = Merge(asked[task[t].at], task[t].remote.version)
            BY <1>1, <1>2, <2>5, <3>1, <4>1 DEF ExecutePlan, TypeOK
          <5>3. QED
            BY <1>1, <1>2, <3>1, <5>1, <5>2, MergeLaws DEF TypeOK
        <4>2. QED
          BY <4>1
      <3>4. PlanSound(w)
        BY <1>1, <2>5, <3>1 DEF ExecutePlan, PlanSound
      <3>5. RemoteAsked(w)'
        BY <3>3 DEF RemoteAsked, IsAncestorOf
      <3>6. QED
        BY <1>1, <2>1, <3>1, <3>2, <3>4, <3>5 DEF TaskInv
    <2>6. CASE UpdateLoad(t)
      <3>1. PICK w \in Task :
              /\ w = [task[t] EXCEPT !.pc = "loaded", !.copy = index[task[t].at]]
              /\ w.pc = "loaded" /\ w.local = task[t].local
              /\ w.copy = index[task[t].at] /\ w.at = task[t].at
              /\ w.class = task[t].class /\ w.remote = task[t].remote
        <4> DEFINE u == [task[t] EXCEPT !.pc = "loaded", !.copy = index[task[t].at]]
        <4>1. /\ u \in Task /\ u.pc = "loaded" /\ u.local = task[t].local
              /\ u.copy = index[task[t].at] /\ u.at = task[t].at
              /\ u.class = task[t].class /\ u.remote = task[t].remote
          BY <1>2 DEF Task
        <4>2. QED
          BY <4>1
      <3>2. task'[t] = w /\ asked' = asked
        BY <1>1, <2>6, <3>1 DEF UpdateLoad, TypeOK
      <3>3. PlanSound(w) /\ RemoteAsked(w)'
        BY <1>1, <2>6, <3>1, <3>2 DEF UpdateLoad, PlanSound, RemoteAsked, TaskInv, IsAncestorOf
      <3>4. Within(w.copy, w.at) /\ Within(w.local, w.at)
        BY <1>1, <1>2, <3>1 DEF IInv, TaskInv
      <3>5. QED
        BY <2>1, <3>1, <3>2, <3>3, <3>4
    <2>7. CASE UpdateSave(t) \/ TaskErrors(t)
      BY <1>1, <2>2, <2>7 DEF UpdateSave, TaskErrors, TypeOK
    <2>8. QED
      BY <2>3, <2>4, <2>5, <2>6, <2>7
  <1>8. \A s \in Tasks : s # t => task'[s] = task[s]
    BY <1>1 DEF TypeOK, Fetch, Plan, ExecutePlan, UpdateLoad, UpdateSave, TaskErrors
  <1>9. \A s \in Tasks : TaskInv(s)'
    BY <1>6, <1>7, <1>8
  <1>10. QED
    BY <1>1, <1>5, <1>9 DEF IInv

-----------------------------------------------------------------------------
(* IInv is inductive: copies of rows that wait to be saved, the remote row *)
(* a task has recorded and the rows themselves claim only what was asked.  *)
THEOREM Inductive == Spec => []IInv
  <1>1. Init => IInv
    <2> SUFFICES ASSUME Init PROVE IInv
      OBVIOUS
    <2>1. TypeOK
      BY IdleTypes, NoEntryIsRow, IncrementLaws DEF Init, TypeOK, Vectors, Zero
    <2>2. \A d \in Devices : Within(index[d], d) /\ Within(indexer[d].copy, d)
      BY IdleClaims DEF Init
    <2>3. \A t \in Tasks : TaskInv(t)
      BY IdleClaims DEF Init, TaskInv
    <2>4. QED
      BY <2>1, <2>2, <2>3 DEF IInv
  <1>2. IInv /\ [Next]_vars => IInv'
    <2> SUFFICES ASSUME IInv, [Next]_vars PROVE IInv'
      OBVIOUS
    <2>1. CASE UNCHANGED vars
      BY <2>1 DEF vars, IInv, TypeOK, TaskInv, Within, RemoteAsked, PlanSound
    <2>2. CASE Next
      BY <2>2, IndexerInv, ExecuteInv DEF Next
    <2>3. QED
      BY <2>1, <2>2
  <1>3. QED
    BY <1>1, <1>2, PTL DEF Spec

(* Every reachable state is well-typed.                                    *)
THEOREM TypeCorrect == Spec => []TypeOK
  <1>1. IInv => TypeOK
    BY DEF IInv
  <1>2. QED
    BY <1>1, Inductive, PTL

(* A device asked for every change of another one that its row claims to   *)
(* include, whatever failed or restarted before (sync_flow.rs:11).         *)
THEOREM LearntTheorem == Spec => []LearntIsAsked
  <1>1. IInv => LearntIsAsked
    BY DEF IInv, LearntIsAsked, Within
  <1>2. QED
    BY <1>1, Inductive, PTL

(* Two devices classify a path in opposite ways and agree on the loser of  *)
(* a conflict (conflict_policy.rs:14).                                     *)
THEOREM MirrorTheorem == Spec => []PlansMirror
  <1>1. ASSUME NEW a \in Rows, NEW b \in Rows
        PROVE  Class(b, a) = OpposingClass(Class(a, b))
    BY DEF Class, OpposingClass, OnlyIn, Newer, ConflictsWith
  <1>2. ASSUME NEW a \in Entry, NEW b \in Entry
        PROVE  Agree(a, b)
    <2>1. a.at \in Nat /\ b.at \in Nat /\ a.by \in Nat /\ b.by \in Nat
          /\ a.kind \in {"live", "tombstone"} /\ b.kind \in {"live", "tombstone"}
      BY TimesAssumption, DevicesAssumption DEF Entry
    <2>2. CASE a.kind = "tombstone" \/ b.kind = "tombstone"
      BY <2>1, <2>2 DEF Agree, SameStamp, Decide, Opposite
    <2>3. CASE a.kind = "live" /\ b.kind = "live"
      <3>1. SameStamp(a, b) \/ (Loses(a, b) /\ ~Loses(b, a)) \/ (Loses(b, a) /\ ~Loses(a, b))
        BY <2>1, <2>3 DEF SameStamp, Loses
      <3>2. QED
        BY <2>3, <3>1 DEF Agree, Decide, Opposite
    <2>4. QED
      BY <2>1, <2>2, <2>3
  <1>3. TypeOK => PlansMirror
    <2>1. ASSUME NEW a \in Rows, NEW b \in Rows, Class(a, b) = "conflict"
          PROVE  a \in Entry /\ b \in Entry
      BY <2>1, RowIsEntry DEF Class
    <2>2. QED
      BY <1>1, <1>2, <2>1 DEF TypeOK, PlansMirror
  <1>4. QED
    BY <1>3, TypeCorrect, PTL
=============================================================================
