---------------------------- MODULE WatchProofs ----------------------------
(***************************************************************************)
(* Proofs about Watch, for every set of files, of contents and of          *)
(* overlapping calls of start_watching, and any number of changes.         *)
(***************************************************************************)
EXTENDS Watch, SequenceTheorems, TLAPS

(* Where a process_events stands that has taken an event.                  *)
Stages == {"modified", "deleted", "measured", "hashed", "read"}

Busy(c, p) ==
  indexer[c].at \in Stages /\ indexer[c].path = p

(* An event of p is in s, and the event at i is the last one.              *)
Has(s, p) == \E i \in DOMAIN s : s[i].path = p
IsLast(s, i, p) ==
  i \in DOMAIN s /\ s[i].path = p /\ \A k \in DOMAIN s : s[k].path = p => k <= i

-----------------------------------------------------------------------------
(* WatchersAreOwned with what a call in flight has: it holds a watcher     *)
(* from its registration until it is in the map or gives the watcher back, *)
(* and what is not installed receives nothing.                             *)
OwnInv(c) ==
  /\ indexer[c].at # "none" <=> c = mapped
  /\ c = mapped => c \in installed /\ pc[c] = "done"
  /\ pc[c] \in {"registered", "losing"} => c \in installed
  /\ c \in installed => c = mapped \/ pc[c] \in {"registered", "losing"}
  /\ c \notin installed => queue[c] = <<>> /\ seen[c] = {}

(* Whatever says that a path is deleted, says so of a path that was: rows, *)
(* copies of rows in flight, and events.                                   *)
RemovedInv ==
  /\ \A p \in Paths : index[p].deleted => p \in removed
  /\ merge # NoMerge /\ merge.copy.deleted => merge.path \in removed
  /\ \A c \in Calls :
       /\ indexer[c].at \in Stages =>
            (indexer[c].copy.deleted => indexer[c].path \in removed)
       /\ indexer[c].at = "deleted" => indexer[c].path \in removed
       /\ \A i \in DOMAIN queue[c] :
            queue[c][i].type = "deleted" => queue[c][i].path \in removed

(* What an event that nothing has followed says of its file.               *)
EventFits(type, p) ==
  /\ type = "modified" => disk[p] # Absent \/ p \in renamed
  /\ type = "deleted" => disk[p] = Absent

(* The last event of a path on its way fits its file.                      *)
QueueInv(c, p) ==
  \A i \in DOMAIN queue[c] : IsLast(queue[c], i, p) => EventFits(queue[c][i].type, p)

(* What process_events holds of a path it works on is not out of date,     *)
(* unless another event of the path is on its way.                         *)
Progress(c, p) ==
  LET i == indexer[c] IN
    /\ i.at \in {"modified", "deleted"} => EventFits(i.at, p)
    /\ i.at \in {"measured", "hashed", "read"} => disk[p] # Absent /\ i.size = Size[disk[p]]
    /\ i.at \in {"hashed", "read"} => i.sha = disk[p]
    /\ i.at = "read" => i.blocks = disk[p]
    /\ i.at = "deleted" /\ i.copy = NoRow => index[p] = NoRow \/ p \in undone

SeenInv(c, p) ==
  p \in seen[c] /\ ~ Has(queue[c], p) =>
    /\ indexer[c].at # "none"
    /\ IF Busy(c, p) THEN Progress(c, p) ELSE Current(p)

FollowInv(c, p) == QueueInv(c, p) /\ SeenInv(c, p)

IInv ==
  /\ TypeOK
  /\ \A c \in Calls : OwnInv(c)
  /\ RemovedInv
  /\ \A c \in Calls, p \in Paths : FollowInv(c, p)

-----------------------------------------------------------------------------
(* Types.                                                                  *)

(* What process_events holds has the fields of its stage.                  *)
LEMMA IndexerFields ==
  ASSUME TypeOK, NEW c \in Calls
  PROVE  /\ indexer[c].at \in {"none", "waiting"} \cup Stages
         /\ indexer[c].at \in Stages =>
              indexer[c].path \in Paths /\ indexer[c].copy \in Row
         /\ indexer[c].at \in {"measured", "hashed", "read"} => indexer[c].size \in Sizes
         /\ indexer[c].at \in {"hashed", "read"} => indexer[c].sha \in Contents
         /\ indexer[c].at = "read" => indexer[c].blocks \in Contents
  BY DEF TypeOK, Indexer, Stages

(* What u has of the events of p, when it is s followed by t.              *)
Extends(u, s, t, p) ==
  /\ u \in Seq(Event)
  /\ Has(u, p) <=> Has(s, p) \/ Has(t, p)
  /\ \A i \in DOMAIN u :
       \/ i \in DOMAIN s /\ u[i] = s[i]
       \/ i - Len(s) \in DOMAIN t /\ u[i] = t[i - Len(s)]
  /\ \A i : IsLast(u, i, p) =>
       \/ ~ Has(t, p) /\ IsLast(s, i, p) /\ u[i] = s[i]
       \/ IsLast(t, i - Len(s), p) /\ u[i] = t[i - Len(s)]

(* Appending to a queue.                                                   *)
LEMMA Appended ==
  ASSUME NEW s \in Seq(Event), NEW t \in Seq(Event), NEW p
  PROVE  Extends(s \o t, s, t, p)
  <1> DEFINE u == s \o t
  <1>1. /\ u \in Seq(Event)
        /\ Len(s) \in Nat /\ Len(t) \in Nat
        /\ DOMAIN s = 1..Len(s) /\ DOMAIN t = 1..Len(t) /\ DOMAIN u = 1..Len(s) + Len(t)
        /\ \A i \in 1..Len(s) : u[i] = s[i]
        /\ \A i \in 1..Len(t) : u[Len(s) + i] = t[i]
    BY ConcatProperties
  <1> HIDE DEF u
  <1>2. \A i \in DOMAIN u :
          \/ i \in DOMAIN s /\ u[i] = s[i]
          \/ i - Len(s) \in DOMAIN t /\ u[i] = t[i - Len(s)]
    <2> SUFFICES ASSUME NEW i \in DOMAIN u, i \notin DOMAIN s
                 PROVE  i - Len(s) \in DOMAIN t /\ u[i] = t[i - Len(s)]
      BY <1>1
    <2>1. i - Len(s) \in 1..Len(t) /\ Len(s) + (i - Len(s)) = i
      BY <1>1
    <2>2. QED
      BY <1>1, <2>1
  <1>3. Has(u, p) <=> Has(s, p) \/ Has(t, p)
    <2>1. Has(t, p) => Has(u, p)
      <3> SUFFICES ASSUME NEW k \in DOMAIN t, t[k].path = p
                   PROVE  Has(u, p)
        BY DEF Has
      <3>1. Len(s) + k \in DOMAIN u
        BY <1>1
      <3>2. QED
        BY <1>1, <3>1 DEF Has
    <2>2. Has(s, p) => Has(u, p)
      BY <1>1 DEF Has
    <2>3. QED
      BY <1>2, <2>1, <2>2 DEF Has
  <1>4. ASSUME NEW i, IsLast(u, i, p)
        PROVE  \/ ~ Has(t, p) /\ IsLast(s, i, p) /\ u[i] = s[i]
               \/ IsLast(t, i - Len(s), p) /\ u[i] = t[i - Len(s)]
    <2>1. CASE i \in DOMAIN s
      <3>1. u[i] = s[i] /\ IsLast(s, i, p)
        BY <1>1, <1>4, <2>1 DEF IsLast
      <3>2. ASSUME NEW k \in DOMAIN t, t[k].path = p
            PROVE  FALSE
        <4>1. Len(s) + k \in DOMAIN u /\ u[Len(s) + k].path = p
          BY <1>1, <3>2
        <4>2. Len(s) + k <= i
          BY <1>4, <4>1 DEF IsLast
        <4>3. QED
          BY <1>1, <2>1, <4>2
      <3>3. QED
        BY <3>1, <3>2 DEF Has
    <2>2. CASE i \notin DOMAIN s
      <3>1. i - Len(s) \in DOMAIN t /\ u[i] = t[i - Len(s)] /\ u[i].path = p
        BY <1>2, <1>4, <2>2 DEF IsLast
      <3>2. ASSUME NEW k \in DOMAIN t, t[k].path = p
            PROVE  k <= i - Len(s)
        <4>1. Len(s) + k \in DOMAIN u /\ u[Len(s) + k].path = p
          BY <1>1, <3>2
        <4>2. Len(s) + k <= i /\ i \in DOMAIN u
          BY <1>4, <4>1 DEF IsLast
        <4>3. QED
          BY <1>1, <4>2
      <3>3. QED
        BY <3>1, <3>2 DEF IsLast
    <2>3. QED
      BY <2>1, <2>2
  <1>5. QED
    BY <1>1, <1>2, <1>3, <1>4 DEF Extends, u

(* What u has of the events of p, when it is s without its first event.    *)
Drops(u, s, p) ==
  /\ Has(s, p) => Has(u, p) \/ s[1].path = p
  /\ \A i : IsLast(u, i, p) => IsLast(s, i + 1, p) /\ u[i] = s[i + 1]
  /\ s[1].path = p /\ ~ Has(u, p) => IsLast(s, 1, p)

(* Taking the first event from a queue.                                    *)
LEMMA Taken ==
  ASSUME NEW s \in Seq(Event), s # <<>>, NEW p
  PROVE  Drops(Tail(s), s, p)
  <1> DEFINE u == Tail(s)
  <1>1. /\ u \in Seq(Event) /\ Head(s) \in Event /\ Head(s) = s[1]
        /\ Len(s) \in Nat /\ 1 \in DOMAIN s
        /\ DOMAIN s = 1..Len(s) /\ DOMAIN u = 1..Len(s) - 1
        /\ \A i \in DOMAIN u : i + 1 \in DOMAIN s /\ u[i] = s[i + 1]
        /\ \A i \in DOMAIN s : i = 1 \/ (i - 1 \in DOMAIN u /\ u[i - 1] = s[i])
    BY HeadTailProperties
  <1> HIDE DEF u
  <1>2. Has(s, p) => Has(u, p) \/ s[1].path = p
    BY <1>1 DEF Has
  <1>3. ASSUME NEW i, IsLast(u, i, p)
        PROVE  IsLast(s, i + 1, p) /\ u[i] = s[i + 1]
    <2>1. i \in DOMAIN u /\ i + 1 \in DOMAIN s /\ s[i + 1].path = p
      BY <1>1, <1>3 DEF IsLast
    <2>2. ASSUME NEW k \in DOMAIN s, s[k].path = p
          PROVE  k <= i + 1
      <3>1. CASE k = 1
        BY <1>1, <2>1, <3>1
      <3>2. CASE k # 1
        <4>1. k - 1 \in DOMAIN u /\ u[k - 1].path = p
          BY <1>1, <2>2, <3>2
        <4>2. k - 1 <= i
          BY <1>3, <4>1 DEF IsLast
        <4>3. QED
          BY <1>1, <2>1, <4>2
      <3>3. QED
        BY <3>1, <3>2
    <2>3. QED
      BY <1>1, <2>1, <2>2 DEF IsLast
  <1>4. s[1].path = p /\ ~ Has(u, p) => IsLast(s, 1, p)
    BY <1>1 DEF Has, IsLast
  <1>5. QED
    BY <1>2, <1>3, <1>4 DEF Drops, u

-----------------------------------------------------------------------------
(* The user.                                                               *)

(* A change of files keeps the invariant when its events name the paths it *)
(* changes and the last event of each fits what the file has become.       *)
LEMMA ReportKeeps ==
  ASSUME IInv, NEW events \in Seq(Event), NEW paths \in SUBSET Paths,
         Report(events, paths),
         disk' \in [Paths -> Contents \cup {Absent}],
         renamed' \subseteq Paths, removed' \subseteq Paths, removed \subseteq removed',
         \A p \in paths : Has(events, p),
         \A i \in DOMAIN events : events[i].type = "deleted" => events[i].path \in removed',
         \A p \in Paths \ paths : disk'[p] = disk[p] /\ (p \in renamed' <=> p \in renamed),
         \A p \in Paths \ paths : ~ Has(events, p),
         \A p \in paths : \A i : IsLast(events, i, p) => EventFits(events[i].type, p)'
  PROVE  IInv'
  <1>1. /\ UNCHANGED <<pc, installed, mapped, indexer, index, merge, undone>>
        /\ queue \in [Calls -> Seq(Event)]
        /\ \A c \in Calls : c \in installed => queue'[c] = queue[c] \o events
                                             /\ seen'[c] = seen[c] \cup paths
        /\ \A c \in Calls : c \notin installed => queue'[c] = queue[c] /\ seen'[c] = seen[c]
    BY DEF Report, others, IInv, TypeOK
  <1>2. ASSUME NEW c \in Calls, c \in installed, NEW p
        PROVE  Extends(queue'[c], queue[c], events, p)
    <2>1. queue[c] \in Seq(Event) /\ queue'[c] = queue[c] \o events
      BY <1>2, <1>1
    <2>2. QED
      BY <2>1, Appended
  <1>3. TypeOK'
    <2>1. queue' \in [Calls -> Seq(Event)]
      <3>1. \A c \in Calls : queue'[c] \in Seq(Event)
        BY <1>1, <1>2 DEF Extends
      <3>2. QED
        BY <3>1 DEF Report
    <2>2. seen' \in [Calls -> SUBSET Paths]
      BY DEF Report, IInv, TypeOK
    <2>3. changes' \in 0..MaxChanges
      BY WatchAssumption DEF Report, IInv, TypeOK
    <2>4. QED
      BY <1>1, <2>1, <2>2, <2>3 DEF IInv, TypeOK
  <1>4. ASSUME NEW c \in Calls
        PROVE  OwnInv(c)'
    BY <1>1 DEF IInv, OwnInv
  <1>5. RemovedInv'
    <2>1. ASSUME NEW c \in Calls, NEW i \in DOMAIN queue'[c], queue'[c][i].type = "deleted"
          PROVE  queue'[c][i].path \in removed'
      <3>1. CASE c \notin installed
        BY <1>1, <2>1, <3>1 DEF IInv, RemovedInv
      <3>2. CASE c \in installed
        <4>1. \/ i \in DOMAIN queue[c] /\ queue'[c][i] = queue[c][i]
              \/ i - Len(queue[c]) \in DOMAIN events
                   /\ queue'[c][i] = events[i - Len(queue[c])]
          BY <1>2, <3>2 DEF Extends
        <4>2. QED
          BY <2>1, <4>1 DEF IInv, RemovedInv
      <3>3. QED
        BY <3>1, <3>2
    <2>2. QED
      BY <1>1, <2>1 DEF IInv, RemovedInv
  <1>6. ASSUME NEW c \in Calls, NEW p \in Paths
        PROVE  FollowInv(c, p)'
    <2>1. CASE c \notin installed
      <3>1. queue'[c] = <<>> /\ seen'[c] = {}
        BY <1>1, <2>1 DEF IInv, OwnInv
      <3>2. QED
        BY <3>1 DEF FollowInv, QueueInv, SeenInv, IsLast
    <2>2. CASE c \in installed /\ p \in paths
      <3>1. Has(queue'[c], p)
        BY <1>2, <2>2 DEF Extends
      <3>2. ASSUME NEW i, IsLast(queue'[c], i, p)
            PROVE  EventFits(queue[c][i].type, p)'
        <4>1. IsLast(events, i - Len(queue[c]), p)
                /\ queue'[c][i] = events[i - Len(queue[c])]
          BY <1>2, <2>2, <3>2 DEF Extends
        <4>2. QED
          BY <2>2, <4>1
      <3>3. QED
        BY <3>1, <3>2 DEF FollowInv, QueueInv, SeenInv
    <2>3. CASE c \in installed /\ p \notin paths
      <3>1. ~ Has(events, p) /\ disk'[p] = disk[p] /\ (p \in renamed' <=> p \in renamed)
        BY <2>3
      <3>2. Has(queue'[c], p) <=> Has(queue[c], p)
        BY <1>2, <2>3, <3>1 DEF Extends
      <3>3. QueueInv(c, p)'
        <4>1. ASSUME NEW i, IsLast(queue'[c], i, p)
              PROVE  IsLast(queue[c], i, p) /\ queue'[c][i] = queue[c][i]
          <5>1. ~ IsLast(events, i - Len(queue[c]), p)
            BY <3>1 DEF Has, IsLast
          <5>2. QED
            BY <1>2, <2>3, <4>1, <5>1 DEF Extends
        <4>2. QED
          BY <3>1, <4>1 DEF QueueInv, IsLast, EventFits, IInv, FollowInv
      <3>4. SeenInv(c, p)'
        <4>1. p \in seen'[c] => p \in seen[c]
          BY <1>1, <2>3
        <4>2. /\ Busy(c, p)' <=> Busy(c, p)
              /\ Progress(c, p) => Progress(c, p)'
          BY <1>1, <3>1 DEF Busy, Progress, EventFits
        <4>3. Current(p) => Current(p)'
          BY <1>1, <3>1 DEF Current
        <4>4. QED
          BY <1>1, <3>2, <4>1, <4>2, <4>3 DEF SeenInv, IInv, FollowInv
      <3>5. QED
        BY <3>3, <3>4 DEF FollowInv
    <2>4. QED
      BY <2>1, <2>2, <2>3
  <1>7. QED
    BY <1>3, <1>4, <1>5, <1>6 DEF IInv

(* Writing, deleting and renaming a file are such changes.                 *)
LEMMA UserKeeps ==
  ASSUME IInv, NEW p \in Paths,
         \/ Delete(p)
         \/ \E content \in Contents : Write(p, content)
         \/ \E q \in Paths : Rename(p, q)
  PROVE  IInv'
  <1>1. /\ disk \in [Paths -> Contents \cup {Absent}]
        /\ renamed \subseteq Paths /\ removed \subseteq Paths
    BY DEF IInv, TypeOK
  <1>2. CASE Delete(p)
    <2> DEFINE events == <<Deleted(p)>>
    <2>1. /\ events \in Seq(Event) /\ DOMAIN events = {1}
          /\ events[1].type = "deleted" /\ events[1].path = p
      BY DEF Deleted, Event
    <2>2. Report(events, {p})
      BY <1>2 DEF Delete
    <2>3. disk'[p] = Absent /\ renamed' = renamed \ {p} /\ removed' = removed \cup {p}
          /\ disk' = [disk EXCEPT ![p] = Absent]
      BY <1>1, <1>2 DEF Delete
    <2> HIDE DEF events
    <2>4. \A q : Has(events, q) <=> q = p
      BY <2>1 DEF Has
    <2>5. \A q \in {p} : \A i : IsLast(events, i, q) => EventFits(events[i].type, q)'
      BY <2>1, <2>3 DEF IsLast, EventFits
    <2>6. QED
      BY <1>1, <2>1, <2>2, <2>3, <2>4, <2>5, ReportKeeps
  <1>3. CASE \E content \in Contents : Write(p, content)
    <2>0. PICK content \in Contents : Write(p, content)
      BY <1>3
    <2> DEFINE events == <<Modified(p)>>
    <2>1. /\ events \in Seq(Event) /\ DOMAIN events = {1}
          /\ events[1].type = "modified" /\ events[1].path = p
      BY DEF Modified, Event
    <2>2. Report(events, {p})
      BY <2>0 DEF Write
    <2>3. disk'[p] = content /\ renamed' = renamed \ {p} /\ removed' = removed
          /\ disk' = [disk EXCEPT ![p] = content] /\ content # Absent
      BY <1>1, <2>0, AbsentAssumption DEF Write
    <2> HIDE DEF events
    <2>4. \A q : Has(events, q) <=> q = p
      BY <2>1 DEF Has
    <2>5. \A q \in {p} : \A i : IsLast(events, i, q) => EventFits(events[i].type, q)'
      BY <2>1, <2>3 DEF IsLast, EventFits
    <2>6. QED
      BY <1>1, <2>1, <2>2, <2>3, <2>4, <2>5, ReportKeeps
  <1>4. CASE \E q \in Paths : Rename(p, q)
    <2>0. PICK q \in Paths : Rename(p, q)
      BY <1>4
    <2> DEFINE events == <<Modified(p), Modified(q)>>
    <2>1. /\ events \in Seq(Event) /\ DOMAIN events = {1, 2}
          /\ events[1].type = "modified" /\ events[1].path = p
          /\ events[2].type = "modified" /\ events[2].path = q
      BY DEF Modified, Event
    <2>2. Report(events, {p, q})
      BY <2>0 DEF Rename
    <2>3. /\ disk' = [disk EXCEPT ![p] = Absent, ![q] = disk[p]]
          /\ p # q /\ disk[p] # Absent /\ disk'[q] = disk[p]
          /\ renamed' = (renamed \ {q}) \cup {p} /\ removed' = removed
      BY <1>1, <2>0 DEF Rename
    <2> HIDE DEF events
    <2>4. \A r : Has(events, r) <=> r \in {p, q}
      BY <2>1 DEF Has
    <2>5. \A r \in {p, q} : \A i : IsLast(events, i, r) => EventFits(events[i].type, r)'
      BY <2>1, <2>3 DEF IsLast, EventFits
    <2>6. QED
      BY <1>1, <2>1, <2>2, <2>3, <2>4, <2>5, ReportKeeps
  <1>5. QED
    BY <1>2, <1>3, <1>4

-----------------------------------------------------------------------------
(* start_watching.                                                         *)

(* A call that goes on keeps the invariant: an event that came before its  *)
(* watcher was in the map is still in its queue.                           *)
LEMMA CallKeeps ==
  ASSUME IInv, NEW d \in Calls, CallStep(d)
  PROVE  IInv'
  <1>1. /\ TypeOK /\ OwnInv(d) /\ RemovedInv /\ d # NoCall
        /\ UNCHANGED <<disk, changes, renamed, index, removed, merge, undone>>
    BY WatchAssumption DEF IInv, CallStep, Check, Register, Insert, Unwatch, files, others
  <1>2. /\ pc' = [pc EXCEPT ![d] = pc'[d]]
        /\ pc'[d] \in {"checked", "registered", "losing", "done"}
        /\ indexer' = [indexer EXCEPT ![d] = indexer'[d]]
        /\ installed' \ {d} = installed \ {d}
        /\ queue' = [queue EXCEPT ![d] = queue'[d]] /\ seen' = [seen EXCEPT ![d] = seen'[d]]
    BY <1>1 DEF TypeOK, CallStep, Check, Register, Insert, Unwatch
  <1>3. \/ indexer'[d] = indexer[d] /\ mapped' = mapped
        \/ /\ indexer'[d] = WaitingIndexer /\ mapped = NoCall /\ mapped' = d
           /\ pc[d] = "registered" /\ pc'[d] = "done"
           /\ installed' = installed
    BY <1>1 DEF TypeOK, CallStep, Check, Register, Insert, Unwatch
  <1>4. \/ queue'[d] = queue[d] /\ seen'[d] = seen[d] /\ installed \subseteq installed'
        \/ queue'[d] = <<>> /\ seen'[d] = {} /\ d \notin installed'
    BY <1>1 DEF TypeOK, CallStep, Check, Register, Insert, Unwatch
  <1>5. TypeOK'
    <2>1. pc' \in [Calls -> {"idle", "checked", "registered", "losing", "done"}]
      BY <1>1, <1>2 DEF TypeOK
    <2>2. installed' \subseteq Calls /\ mapped' \in Calls \cup {NoCall}
      BY <1>1, <1>2, <1>3 DEF TypeOK
    <2>3. seen' \in [Calls -> SUBSET Paths]
      <3>1. seen'[d] \in SUBSET Paths
        BY <1>1, <1>4 DEF TypeOK
      <3>2. QED
        BY <1>1, <1>2, <3>1 DEF TypeOK
    <2>4. queue' \in [Calls -> Seq(Event)]
      <3>1. queue[d] \in Seq(Event) /\ <<>> \in Seq(Event)
        BY <1>1 DEF TypeOK
      <3>2. queue'[d] \in Seq(Event)
        BY <1>4, <3>1
      <3>3. QED
        BY <1>1, <1>2, <3>2 DEF TypeOK
    <2>5. indexer' \in [Calls -> Indexer]
      <3>1. indexer'[d] \in Indexer
        BY <1>1, <1>3 DEF TypeOK, Indexer, WaitingIndexer
      <3>2. QED
        BY <1>1, <1>2, <3>1 DEF TypeOK
    <2>6. QED
      BY <1>1, <2>1, <2>2, <2>3, <2>4, <2>5 DEF TypeOK
  <1>6. ASSUME NEW c \in Calls
        PROVE  OwnInv(c)'
    <2>1. CASE c = d
      <3>1. CASE Check(d)
        BY <1>1, <2>1, <3>1 DEF Check, OwnInv, TypeOK
      <3>2. CASE Register(d)
        BY <1>1, <2>1, <3>2 DEF Register, OwnInv, TypeOK
      <3>3. CASE Insert(d)
        BY <1>1, <2>1, <3>3 DEF Insert, OwnInv, TypeOK, WaitingIndexer
      <3>4. CASE Unwatch(d)
        BY <1>1, <2>1, <3>4 DEF Unwatch, OwnInv, TypeOK
      <3>5. QED
        BY <3>1, <3>2, <3>3, <3>4 DEF CallStep
    <2>2. CASE c # d
      BY <1>1, <1>2, <1>3, <2>2, WatchAssumption DEF OwnInv, TypeOK, IInv
    <2>3. QED
      BY <2>1, <2>2
  <1>7. RemovedInv'
    <2> SUFFICES ASSUME NEW c \in Calls
                 PROVE  /\ indexer'[c] = indexer[c] \/ indexer'[c] = WaitingIndexer
                        /\ queue'[c] = queue[c] \/ queue'[c] = <<>>
      BY <1>1 DEF RemovedInv, WaitingIndexer, Stages
    <2>1. QED
      BY <1>1, <1>2, <1>3, <1>4 DEF TypeOK
  <1>8. ASSUME NEW c \in Calls, NEW p \in Paths
        PROVE  FollowInv(c, p)'
    <2>1. FollowInv(c, p)
      BY DEF IInv
    <2>2. \/ queue'[c] = queue[c] /\ seen'[c] = seen[c]
          \/ queue'[c] = <<>> /\ seen'[c] = {}
      BY <1>1, <1>2, <1>4 DEF TypeOK
    <2>3. QueueInv(c, p)'
      BY <1>1, <2>1, <2>2 DEF FollowInv, QueueInv, IsLast, EventFits
    <2>4. CASE indexer'[c] = indexer[c]
      BY <1>1, <2>1, <2>2, <2>3, <2>4
      DEF FollowInv, SeenInv, Busy, Progress, Current, EventFits, Has
    <2>5. CASE indexer'[c] # indexer[c]
      <3>1. c = d /\ mapped = NoCall
        BY <1>1, <1>2, <1>3, <2>5 DEF TypeOK
      <3>2. indexer[c].at = "none"
        BY <1>1, <3>1 DEF OwnInv
      <3>3. SeenInv(c, p)'
        BY <2>1, <2>2, <3>2 DEF FollowInv, SeenInv, Has
      <3>4. QED
        BY <2>3, <3>3 DEF FollowInv
    <2>6. QED
      BY <2>4, <2>5
  <1>9. QED
    BY <1>5, <1>6, <1>7, <1>8 DEF IInv

-----------------------------------------------------------------------------
(* process_events.                                                         *)

(* A step of the task keeps the invariant when it does so for its call:    *)
(* the other calls have no task, and all their events are in their queues. *)
LEMMA IndexerKeeps ==
  ASSUME IInv, NEW d \in Calls,
         UNCHANGED <<files, pc, installed, mapped, removed, merge>>,
         indexer[d].at # "none", indexer'[d].at # "none",
         \A c \in Calls \ {d} : indexer'[c] = indexer[c] /\ queue'[c] = queue[c]
                                                       /\ seen'[c] = seen[c],
         TypeOK',
         \A p \in Paths : index'[p].deleted => p \in removed,
         indexer'[d].at \in Stages =>
           (indexer'[d].copy.deleted => indexer'[d].path \in removed),
         indexer'[d].at = "deleted" => indexer'[d].path \in removed,
         \A i \in DOMAIN queue'[d] :
           queue'[d][i].type = "deleted" => queue'[d][i].path \in removed,
         \A p \in Paths : FollowInv(d, p)'
  PROVE  IInv'
  <1>1. UNCHANGED <<disk, changes, renamed, pc, installed, mapped, removed, merge>>
    BY DEF files
  <1>2. ASSUME NEW c \in Calls
        PROVE  OwnInv(c)'
    BY <1>1 DEF IInv, OwnInv
  <1>3. RemovedInv'
    BY <1>1 DEF IInv, RemovedInv, Stages
  <1>4. ASSUME NEW c \in Calls \ {d}, NEW p \in Paths
        PROVE  FollowInv(c, p)'
    <2>1. indexer[c].at = "none" /\ FollowInv(c, p)
      BY DEF IInv, OwnInv
    <2>2. QueueInv(c, p)'
      BY <1>1, <2>1 DEF FollowInv, QueueInv, IsLast, EventFits
    <2>3. SeenInv(c, p)'
      BY <2>1 DEF FollowInv, SeenInv, Has
    <2>4. QED
      BY <2>2, <2>3 DEF FollowInv
  <1>5. QED
    BY <1>2, <1>3, <1>4 DEF IInv

(* An event that is taken finds the row, or hides itself.                  *)
LEMMA TakeEventKeeps ==
  ASSUME IInv, NEW d \in Calls, TakeEvent(d)
  PROVE  IInv'
  <1> DEFINE e == Head(queue[d])
  <1>1. /\ TypeOK /\ RemovedInv /\ indexer[d].at = "waiting"
        /\ queue[d] \in Seq(Event) /\ queue[d] # <<>> /\ queue'[d] = Tail(queue[d])
        /\ queue' = [queue EXCEPT ![d] = Tail(queue[d])]
        /\ UNCHANGED <<files, pc, installed, mapped, index, removed, merge, undone>>
    BY DEF IInv, TypeOK, TakeEvent, others
  <1>2. e \in Event /\ e = queue[d][1] /\ 1 \in DOMAIN queue[d] /\ queue'[d] \in Seq(Event)
    BY <1>1, HeadTailProperties
  <1>3. PICK row \in Row :
          /\ indexer' = [indexer EXCEPT ![d] = [at |-> e.type, path |-> e.path, copy |-> row]]
          /\ \/ row = index[e.path] /\ seen' = seen
             \/ row = NoRow /\ seen' = [seen EXCEPT ![d] = @ \ {e.path}]
    <2>1. e.path \in Paths /\ index[e.path] \in Row /\ NoRow \in Row
      BY <1>1, <1>2 DEF TypeOK, Event, Row
    <2>2. QED
      BY <2>1 DEF TakeEvent, Becomes, IgnoredEvent
  <1>4. /\ e.path \in Paths /\ e.type \in {"modified", "deleted"}
        /\ indexer'[d] = [at |-> e.type, path |-> e.path, copy |-> row]
        /\ \A c \in Calls \ {d} : /\ indexer'[c] = indexer[c] /\ queue'[c] = queue[c]
                                  /\ seen'[c] = seen[c]
        /\ \/ row = index[e.path] /\ seen'[d] = seen[d]
           \/ row = NoRow /\ seen'[d] = seen[d] \ {e.path}
    BY <1>1, <1>2, <1>3 DEF TypeOK, Event
  <1>5. TypeOK'
    <2>1. queue' \in [Calls -> Seq(Event)]
      BY <1>1, <1>2 DEF TypeOK
    <2>2. indexer' \in [Calls -> Indexer]
      <3>1. indexer'[d] \in Indexer
        BY <1>4 DEF Indexer
      <3>2. QED
        BY <1>1, <1>3, <1>4, <3>1 DEF TypeOK
    <2>3. seen' \in [Calls -> SUBSET Paths]
      BY <1>1, <1>3 DEF TypeOK
    <2>4. QED
      BY <1>1, <2>1, <2>2, <2>3 DEF TypeOK, files
  <1>6. e.type = "deleted" => e.path \in removed
    BY <1>1, <1>2 DEF RemovedInv
  <1>7. row.deleted => e.path \in removed
    BY <1>1, <1>4 DEF RemovedInv, NoRow
  <1>8. \A i \in DOMAIN queue'[d] :
          queue'[d][i].type = "deleted" => queue'[d][i].path \in removed
    <2>1. \A i \in DOMAIN Tail(queue[d]) :
            i + 1 \in DOMAIN queue[d] /\ Tail(queue[d])[i] = queue[d][i + 1]
      BY <1>1, HeadTailProperties
    <2>2. QED
      BY <1>1, <2>1 DEF RemovedInv
  <1>9. ASSUME NEW p \in Paths
        PROVE  FollowInv(d, p)'
    <2>1. Drops(queue'[d], queue[d], p)
      BY <1>1, Taken
    <2>2. FollowInv(d, p)
      BY DEF IInv
    <2>3. QueueInv(d, p)'
      BY <1>1, <2>1, <2>2 DEF Drops, FollowInv, QueueInv, IsLast, EventFits, files
    <2>4. SeenInv(d, p)'
      <3> SUFFICES ASSUME p \in seen'[d], ~ Has(queue'[d], p)
                   PROVE  IF e.path = p THEN Progress(d, p)' ELSE Current(p)
        BY <1>1, <1>4 DEF SeenInv, Busy, Current, files, Stages
      <3>1. CASE e.path # p
        BY <1>1, <1>2, <1>4, <2>1, <2>2, <3>1 DEF Drops, FollowInv, SeenInv, Busy, Stages
      <3>2. CASE e.path = p
        <4>1. EventFits(e.type, p)
          BY <1>2, <2>1, <2>2, <3>2 DEF Drops, FollowInv, QueueInv, IsLast
        <4>2. row = index[p]
          BY <1>4, <3>2
        <4>3. QED
          BY <1>1, <1>4, <3>2, <4>1, <4>2 DEF Progress, EventFits, files
      <3>3. QED
        BY <3>1, <3>2
    <2>5. QED
      BY <2>3, <2>4 DEF FollowInv
  <1>10. QED
    BY <1>1, <1>4, <1>5, <1>6, <1>7, <1>8, <1>9, IndexerKeeps DEF RemovedInv

(* A step that takes no event keeps the invariant when it does so for the  *)
(* path it works on, and leaves the rows of the others alone.              *)
LEMMA StageKeeps ==
  ASSUME IInv, NEW d \in Calls, NEW q, q = indexer[d].path,
         indexer[d].at \in Stages, indexer'[d].at \in Stages \cup {"waiting"},
         UNCHANGED <<files, pc, installed, mapped, queue, removed, merge>>,
         indexer' = [indexer EXCEPT ![d] = indexer'[d]], indexer'[d] \in Indexer,
         seen' = [seen EXCEPT ![d] = seen'[d]],
         seen'[d] \subseteq seen[d],
         index' \in [Paths -> Row], undone' \subseteq Paths,
         \A p \in Paths \ {q} :
           index'[p] = index[p] /\ (p \in undone' <=> p \in undone),
         indexer'[d].at \in Stages =>
           /\ indexer'[d].path = q /\ indexer'[d].copy = indexer[d].copy
           /\ indexer'[d].at # "deleted",
         index'[q].deleted => q \in removed,
         q \in seen'[d] /\ Progress(d, q) =>
           IF indexer'[d].at = "waiting" THEN Current(q)' ELSE Progress(d, q)'
  PROVE  IInv'
  <1>1. /\ TypeOK /\ RemovedInv /\ q \in Paths
        /\ UNCHANGED <<disk, changes, renamed, pc, installed, mapped, queue, removed, merge>>
    BY IndexerFields DEF IInv, Stages, files
  <1>2. TypeOK'
    <2>1. indexer' \in [Calls -> Indexer]
      BY <1>1 DEF TypeOK
    <2>2. seen' \in [Calls -> SUBSET Paths]
      BY <1>1 DEF TypeOK
    <2>3. QED
      BY <1>1, <2>1, <2>2 DEF TypeOK
  <1>3. \A c \in Calls \ {d} : indexer'[c] = indexer[c] /\ seen'[c] = seen[c]
    BY <1>1 DEF TypeOK
  <1>4. \A p \in Paths : index'[p].deleted => p \in removed
    BY <1>1 DEF RemovedInv
  <1>5. /\ indexer[d].at \in Stages
        /\ indexer[d].copy.deleted => q \in removed
    BY <1>1 DEF Stages, RemovedInv
  <1>6. ASSUME NEW p \in Paths
        PROVE  FollowInv(d, p)'
    <2>1. FollowInv(d, p)
      BY DEF IInv
    <2>2. QueueInv(d, p)'
      BY <1>1, <2>1 DEF FollowInv, QueueInv, IsLast, EventFits
    <2>3. SeenInv(d, p)'
      <3> SUFFICES ASSUME p \in seen'[d], ~ Has(queue[d], p)
                   PROVE  IF Busy(d, p)' THEN Progress(d, p)' ELSE Current(p)'
        BY <1>1 DEF SeenInv, Stages
      <3>1. IF Busy(d, p) THEN Progress(d, p) ELSE Current(p)
        BY <2>1 DEF FollowInv, SeenInv
      <3>2. CASE p # q
        <4>1. ~ Busy(d, p) /\ ~ Busy(d, p)'
          BY <3>2 DEF Busy, Stages
        <4>2. Current(p)
          BY <3>1, <4>1
        <4>3. QED
          BY <1>1, <3>2, <4>1, <4>2 DEF Current
      <3>3. CASE p = q
        <4>1. Progress(d, p)
          BY <1>5, <3>1, <3>3 DEF Busy
        <4>2. IF indexer'[d].at = "waiting" THEN Current(q)' ELSE Progress(d, q)'
          BY <3>3, <4>1
        <4>3. Busy(d, p)' <=> indexer'[d].at # "waiting"
          BY <3>3 DEF Busy, Stages
        <4>4. QED
          BY <3>3, <4>2, <4>3
      <3>4. QED
        BY <3>2, <3>3
    <2>4. QED
      BY <2>2, <2>3 DEF FollowInv
  <1>7. indexer[d].at # "none" /\ indexer'[d].at # "none"
    BY DEF Stages
  <1>8. /\ indexer'[d].at \in Stages => (indexer'[d].copy.deleted => indexer'[d].path \in removed)
        /\ indexer'[d].at # "deleted"
    BY <1>5 DEF Stages
  <1>9. \A i \in DOMAIN queue'[d] :
          queue'[d][i].type = "deleted" => queue'[d][i].path \in removed
    BY <1>1 DEF RemovedInv
  <1>10. QED
    BY <1>1, <1>2, <1>3, <1>4, <1>6, <1>7, <1>8, <1>9, IndexerKeeps

(* What the three reads have in common: the file is still that of the last *)
(* event, or the event is dropped because the file is gone again.          *)
LEMMA ReadsKeeps ==
  ASSUME IInv, NEW d \in Calls, NEW at \in {"modified", "measured", "hashed"}, NEW next,
         NEW p, p = indexer[d].path, Reads(d, at, next),
         disk[p] # Absent =>
           /\ next \in Indexer /\ next.at \in {"measured", "hashed", "read"}
           /\ next.path = p /\ next.copy = indexer[d].copy,
         disk[p] # Absent /\ Progress(d, p) =>
           /\ next.size = Size[disk[p]]
           /\ next.at \in {"hashed", "read"} => next.sha = disk[p]
           /\ next.at = "read" => next.blocks = disk[p]
  PROVE  IInv'
  <1> DEFINE i == indexer[d]
  <1>1. /\ TypeOK /\ i.at = at /\ p \in Paths /\ i.copy \in Row
        /\ disk[p] \in Contents \cup {Absent}
        /\ UNCHANGED <<files, pc, installed, mapped, queue, index, seen, removed, merge, undone>>
    BY IndexerFields DEF IInv, TypeOK, Reads, others, Stages
  <1>2. \/ /\ disk[p] = Absent /\ indexer'[d] = WaitingIndexer
           /\ indexer' = [indexer EXCEPT ![d] = WaitingIndexer]
        \/ /\ disk[p] # Absent /\ indexer'[d] = next
           /\ indexer' = [indexer EXCEPT ![d] = next]
    BY <1>1 DEF Reads, Becomes, TypeOK
  <1>3. indexer'[d] \in Indexer
    BY <1>2 DEF Indexer, WaitingIndexer
  <1>4. Progress(d, p) =>
          IF indexer'[d].at = "waiting" THEN Current(p)' ELSE Progress(d, p)'
    <2> SUFFICES ASSUME Progress(d, p)
                 PROVE  IF indexer'[d].at = "waiting" THEN Current(p)' ELSE Progress(d, p)'
      OBVIOUS
    <2>1. CASE disk[p] = Absent
      <3>1. p \in renamed /\ indexer'[d].at = "waiting"
        BY <1>1, <1>2, <2>1 DEF Progress, EventFits, WaitingIndexer
      <3>2. Current(p)'
        BY <1>1, <2>1, <3>1 DEF Current, files
      <3>3. QED
        BY <3>1, <3>2
    <2>2. CASE disk[p] # Absent
      BY <1>1, <1>2, <2>2 DEF Progress, files
    <2>3. QED
      BY <2>1, <2>2
  <1>5. /\ seen' = [seen EXCEPT ![d] = seen'[d]]
        /\ index' \in [Paths -> Row] /\ undone' \subseteq Paths
    BY <1>1 DEF TypeOK
  <1>6. /\ i.at \in Stages /\ indexer'[d].at \in Stages \cup {"waiting"}
        /\ indexer' = [indexer EXCEPT ![d] = indexer'[d]]
        /\ indexer'[d].at \in Stages =>
             /\ indexer'[d].path = p /\ indexer'[d].copy = i.copy /\ indexer'[d].at # "deleted"
    BY <1>1, <1>2 DEF Stages, WaitingIndexer
  <1>7. index[p].deleted => p \in removed
    BY <1>1 DEF IInv, RemovedInv
  <1>8. QED
    BY <1>1, <1>3, <1>4, <1>5, <1>6, <1>7, StageKeeps

(* The length.                                                             *)
LEMMA ReadLengthKeeps ==
  ASSUME IInv, NEW d \in Calls, ReadLength(d)
  PROVE  IInv'
  <1> DEFINE i == indexer[d]
             next == [at |-> "measured", path |-> i.path, copy |-> i.copy,
                      size |-> Size[disk[i.path]]]
  <1>1. Reads(d, "modified", next)
    BY DEF ReadLength
  <1>2. i.path \in Paths /\ i.copy \in Row /\ disk[i.path] \in Contents \cup {Absent}
    BY <1>1, IndexerFields DEF IInv, TypeOK, Reads, Stages
  <1>3. disk[i.path] # Absent => next \in Indexer
    BY <1>2 DEF Indexer, Sizes
  <1> HIDE DEF next
  <1>4. QED
    BY <1>1, <1>3, ReadsKeeps DEF next

(* The hash, of a file that has not changed since an event of it.          *)
LEMMA HashFileKeeps ==
  ASSUME IInv, NEW d \in Calls, HashFile(d)
  PROVE  IInv'
  <1> DEFINE i == indexer[d]
             next == [at |-> "hashed", path |-> i.path, copy |-> i.copy, size |-> i.size,
                      sha |-> disk[i.path]]
  <1>1. Reads(d, "measured", next)
    BY DEF HashFile
  <1>2. /\ i.at = "measured" /\ i.path \in Paths /\ i.copy \in Row /\ i.size \in Sizes
        /\ disk[i.path] \in Contents \cup {Absent}
    BY <1>1, IndexerFields DEF IInv, TypeOK, Reads, Stages
  <1>3. disk[i.path] # Absent => next \in Indexer
    BY <1>2 DEF Indexer
  <1>4. Progress(d, i.path) => next.size = Size[disk[i.path]]
    BY <1>2 DEF Progress
  <1>5. QED
    BY <1>1, <1>3, <1>4, ReadsKeeps

(* The blocks.                                                             *)
LEMMA ReadBlocksKeeps ==
  ASSUME IInv, NEW d \in Calls, ReadBlocks(d)
  PROVE  IInv'
  <1> DEFINE i == indexer[d]
             next == [at |-> "read", path |-> i.path, copy |-> i.copy, size |-> i.size,
                      sha |-> i.sha, blocks |-> disk[i.path]]
  <1>1. Reads(d, "hashed", next)
    BY DEF ReadBlocks
  <1>2. /\ i.at = "hashed" /\ i.path \in Paths /\ i.copy \in Row
        /\ i.size \in Sizes /\ i.sha \in Contents
        /\ disk[i.path] \in Contents \cup {Absent}
    BY <1>1, IndexerFields DEF IInv, TypeOK, Reads, Stages
  <1>3. disk[i.path] # Absent => next \in Indexer
    BY <1>2 DEF Indexer
  <1>4. Progress(d, i.path) => next.size = Size[disk[i.path]] /\ next.sha = disk[i.path]
    BY <1>2 DEF Progress
  <1>5. QED
    BY <1>1, <1>3, <1>4, ReadsKeeps

(* What is saved is what the reads found, if no event has come since.     *)
LEMMA SaveContentKeeps ==
  ASSUME IInv, NEW d \in Calls, SaveContent(d)
  PROVE  IInv'
  <1> DEFINE i == indexer[d]
  <1>0. PICK p : p = i.path
    OBVIOUS
  <1>1. /\ TypeOK /\ i.at = "read" /\ p \in Paths /\ i.copy \in Row
        /\ i.size \in Sizes /\ i.sha \in Contents /\ i.blocks \in Contents
        /\ disk[p] \in Contents \cup {Absent}
        /\ i.copy.deleted => p \in removed
        /\ index[p].deleted => p \in removed
        /\ UNCHANGED <<files, pc, installed, mapped, queue, removed, merge>>
    BY <1>0, IndexerFields DEF IInv, TypeOK, SaveContent, RemovedInv
  <1>2. /\ indexer' = [indexer EXCEPT ![d] = indexer'[d]] /\ indexer'[d] = WaitingIndexer
        /\ indexer'[d] \in Indexer
    BY <1>1 DEF SaveContent, Becomes, TypeOK, Indexer, WaitingIndexer
  <1> DEFINE row == [size |-> i.size, sha |-> i.sha, blocks |-> i.blocks,
                     deleted |-> i.copy.deleted]
  <1>3. \/ /\ index' = [index EXCEPT ![p] = row]
           /\ undone' = undone \ {p} /\ seen' = seen
        \/ /\ seen' = [seen EXCEPT ![d] = @ \ {p}]
           /\ index' = index /\ undone' = undone
    BY <1>0 DEF SaveContent, IgnoredEvent
  <1>4. row \in Row /\ (row.deleted => p \in removed)
    <2>1. i.copy.deleted \in BOOLEAN
      <3>1. CASE i.copy = NoRow
        BY <3>1 DEF NoRow
      <3>2. CASE i.copy \in [size : Sizes, sha : Contents, blocks : Contents, deleted : BOOLEAN]
        BY <3>2
      <3>3. QED
        BY <1>1, <3>1, <3>2 DEF Row
    <2>2. QED
      BY <1>1, <2>1 DEF Row
  <1> HIDE DEF row
  <1>5. /\ seen' = [seen EXCEPT ![d] = seen'[d]] /\ seen'[d] \subseteq seen[d]
        /\ index' \in [Paths -> Row] /\ undone' \subseteq Paths
        /\ \A r \in Paths \ {p} : index'[r] = index[r] /\ (r \in undone' <=> r \in undone)
        /\ index'[p].deleted => p \in removed
    BY <1>1, <1>3, <1>4 DEF TypeOK
  <1>6. p \in seen'[d] /\ Progress(d, p) => Current(p)'
    <2> SUFFICES ASSUME p \in seen'[d], Progress(d, p)
                 PROVE  Current(p)'
      OBVIOUS
    <2>1. index'[p] = row
      BY <1>1, <1>3 DEF TypeOK
    <2>2. /\ i.size = Size[disk[p]] /\ i.sha = disk[p] /\ i.blocks = disk[p]
          /\ disk[p] # Absent
      BY <1>1, AbsentAssumption DEF Progress
    <2>3. QED
      BY <1>1, <2>1, <2>2 DEF Current, files, row
  <1>7. /\ i.at \in Stages /\ indexer'[d].at \in Stages \cup {"waiting"}
        /\ indexer'[d].at = "waiting" /\ indexer'[d].at \notin Stages
    BY <1>1, <1>2 DEF Stages, WaitingIndexer
  <1>8. QED
    BY <1>0, <1>1, <1>2, <1>5, <1>6, <1>7, StageKeeps

(* A row that was found becomes a tombstone.                               *)
LEMMA SaveDeletionKeeps ==
  ASSUME IInv, NEW d \in Calls, SaveDeletion(d)
  PROVE  IInv'
  <1> DEFINE i == indexer[d]
  <1>0. PICK p : p = i.path
    OBVIOUS
  <1>1. /\ TypeOK /\ i.at = "deleted" /\ p \in Paths /\ i.copy \in Row /\ p \in removed
        /\ disk[p] \in Contents \cup {Absent}
        /\ index[p].deleted => p \in removed
        /\ UNCHANGED <<files, pc, installed, mapped, queue, removed, merge>>
    BY <1>0, IndexerFields DEF IInv, TypeOK, SaveDeletion, RemovedInv
  <1>2. /\ indexer' = [indexer EXCEPT ![d] = indexer'[d]] /\ indexer'[d] = WaitingIndexer
        /\ indexer'[d] \in Indexer
    BY <1>1 DEF SaveDeletion, Becomes, TypeOK, Indexer, WaitingIndexer
  <1> DEFINE row == [i.copy EXCEPT !.deleted = TRUE]
  <1>3. \/ i.copy = NoRow /\ index' = index /\ undone' = undone /\ seen' = seen
        \/ /\ i.copy # NoRow
           /\ index' = [index EXCEPT ![p] = row]
           /\ undone' = undone \ {p} /\ seen' = seen
        \/ /\ seen' = [seen EXCEPT ![d] = @ \ {p}]
           /\ index' = index /\ undone' = undone
    BY <1>0 DEF SaveDeletion, IgnoredEvent
  <1>4. i.copy # NoRow => row \in Row /\ row.deleted
    BY <1>1 DEF Row
  <1>5. /\ seen' = [seen EXCEPT ![d] = seen'[d]] /\ seen'[d] \subseteq seen[d]
        /\ index' \in [Paths -> Row] /\ undone' \subseteq Paths
        /\ \A r \in Paths \ {p} : index'[r] = index[r] /\ (r \in undone' <=> r \in undone)
        /\ index'[p].deleted => p \in removed
    BY <1>1, <1>3, <1>4 DEF TypeOK
  <1>6. p \in seen'[d] /\ Progress(d, p) => Current(p)'
    <2> SUFFICES ASSUME p \in seen'[d], Progress(d, p)
                 PROVE  Current(p)'
      OBVIOUS
    <2>1. \/ i.copy = NoRow /\ index' = index /\ undone' = undone
          \/ i.copy # NoRow /\ index'[p] = row
      BY <1>1, <1>3 DEF TypeOK
    <2>2. disk[p] = Absent /\ (i.copy = NoRow => index[p] = NoRow \/ p \in undone)
      BY <1>1 DEF Progress, EventFits
    <2>3. QED
      BY <1>1, <1>4, <2>1, <2>2 DEF Current, files
  <1>7. /\ i.at \in Stages /\ indexer'[d].at \in Stages \cup {"waiting"}
        /\ indexer'[d].at = "waiting" /\ indexer'[d].at \notin Stages
    BY <1>1, <1>2 DEF Stages, WaitingIndexer
  <1>8. QED
    BY <1>0, <1>1, <1>2, <1>5, <1>6, <1>7, StageKeeps

-----------------------------------------------------------------------------
(* The other writers.                                                      *)

(* A row that somebody else changes is remembered as undone, unless it     *)
(* stays what it is or the path is rid of both its file and its row.       *)
LEMMA OthersKeep ==
  ASSUME IInv,
         UNCHANGED <<disk, renamed, pc, installed, mapped, queue, indexer, seen>>,
         TypeOK', removed \subseteq removed',
         merge' # NoMerge => (merge'.copy.deleted => merge'.path \in removed'),
         \A p \in Paths :
           /\ index'[p].deleted => p \in removed'
           /\ p \in undone => p \in undone'
           /\ \/ index'[p] = index[p]
              \/ p \in undone'
              \/ index'[p] = NoRow /\ disk[p] = Absent
  PROVE  IInv'
  <1>1. \A c \in Calls : OwnInv(c)'
    BY DEF IInv, OwnInv
  <1>2. RemovedInv'
    BY DEF IInv, RemovedInv
  <1>3. ASSUME NEW c \in Calls, NEW p \in Paths
        PROVE  FollowInv(c, p)'
    <2>1. FollowInv(c, p)
      BY DEF IInv
    <2>2. QueueInv(c, p)'
      BY <2>1 DEF FollowInv, QueueInv, IsLast, EventFits
    <2>3. Current(p) => Current(p)'
      BY DEF Current
    <2>4. Progress(c, p) => Progress(c, p)'
      BY DEF Progress, EventFits
    <2>5. Busy(c, p)' <=> Busy(c, p)
      BY DEF Busy
    <2>6. QED
      BY <2>1, <2>2, <2>3, <2>4, <2>5 DEF FollowInv, SeenInv
  <1>4. QED
    BY <1>1, <1>2, <1>3 DEF IInv

(* A run that updates versions, and the purge of tombstones.               *)
LEMMA WritersKeep ==
  ASSUME IInv, MergeSave \/ \E p \in Paths : MergeLoad(p) \/ Purge(p)
  PROVE  IInv'
  <1>1. TypeOK /\ RemovedInv
    BY DEF IInv
  <1>2. ASSUME NEW p \in Paths, MergeLoad(p)
        PROVE  IInv'
    <2>1. /\ UNCHANGED <<disk, renamed, pc, installed, mapped, queue, indexer, index, seen, removed, undone>>
          /\ merge' = [at |-> "loaded", path |-> p, copy |-> index[p]]
      BY <1>2 DEF MergeLoad
    <2>2. TypeOK'
      <3>1. merge' \in Merge
        BY <1>1, <2>1 DEF TypeOK, Merge
      <3>2. changes' \in 0..MaxChanges
        BY <1>1, <1>2, WatchAssumption DEF MergeLoad, TypeOK
      <3>3. QED
        BY <1>1, <2>1, <3>1, <3>2 DEF TypeOK
    <2>3. QED
      BY <1>1, <2>1, <2>2, OthersKeep DEF RemovedInv
  <1>3. ASSUME NEW p \in Paths, Purge(p)
        PROVE  IInv'
    <2>1. /\ UNCHANGED <<disk, renamed, pc, installed, mapped, queue, indexer, seen, removed, merge>>
          /\ index' = [index EXCEPT ![p] = NoRow]
          /\ undone' = IF disk[p] = Absent THEN undone ELSE undone \cup {p}
      BY <1>3 DEF Purge
    <2>2. NoRow \in Row /\ ~ NoRow.deleted
      BY DEF Row, NoRow
    <2>3. TypeOK'
      <3>1. index' \in [Paths -> Row]
        BY <1>1, <2>1, <2>2 DEF TypeOK
      <3>2. changes' \in 0..MaxChanges
        BY <1>1, <1>3, WatchAssumption DEF Purge, TypeOK
      <3>3. QED
        BY <1>1, <2>1, <3>1, <3>2 DEF TypeOK
    <2>4. \A q \in Paths :
            /\ index'[q].deleted => q \in removed
            /\ q \in undone => q \in undone'
            /\ \/ index'[q] = index[q]
               \/ q \in undone'
               \/ index'[q] = NoRow /\ disk[q] = Absent
      BY <1>1, <2>1, <2>2 DEF TypeOK, RemovedInv
    <2>5. QED
      BY <1>1, <2>1, <2>3, <2>4, OthersKeep DEF RemovedInv
  <1>4. CASE MergeSave
    <2> DEFINE p == merge.path
    <2>0. PICK q : q = merge.path
      OBVIOUS
    <2>1. /\ UNCHANGED <<disk, changes, renamed, pc, installed, mapped, queue, indexer, seen>>
          /\ merge' = NoMerge /\ merge # NoMerge
          /\ q \in Paths /\ merge.copy \in Row
          /\ merge.copy.deleted => q \in removed
      BY <1>1, <1>4, <2>0 DEF MergeSave, TypeOK, Merge, NoMerge, files, RemovedInv
    <2>2. \/ /\ index' = index /\ removed' = removed /\ undone' = undone
          \/ \E row \in Row :
               /\ index' = [index EXCEPT ![q] = row]
               /\ removed' = removed \/ removed' = removed \cup {q}
               /\ row.deleted => q \in removed'
               /\ undone' = undone \cup {q} \/ (undone' = undone /\ index[q] = row)
      <3>1. \A x \in Contents, deleted \in BOOLEAN :
              [size |-> Size[x], sha |-> x, blocks |-> x, deleted |-> deleted] \in Row
        BY DEF Row, Sizes
      <3>2. ASSUME NEW x \in Contents, NEW deleted \in BOOLEAN,
                   index' = [index EXCEPT ![q] =
                     [size |-> Size[x], sha |-> x, blocks |-> x, deleted |-> deleted]],
                   removed' = IF deleted THEN removed \cup {q} ELSE removed,
                   undone' = undone \cup {q}
            PROVE  \E row \in Row :
                     /\ index' = [index EXCEPT ![q] = row]
                     /\ removed' = removed \/ removed' = removed \cup {q}
                     /\ row.deleted => q \in removed'
                     /\ undone' = undone \cup {q} \/ (undone' = undone /\ index[q] = row)
        <4> DEFINE row == [size |-> Size[x], sha |-> x, blocks |-> x, deleted |-> deleted]
        <4>1. row \in Row /\ (row.deleted <=> deleted)
          BY <3>1
        <4> HIDE DEF row
        <4>2. index' = [index EXCEPT ![q] = row]
          BY <3>2 DEF row
        <4>3. QED
          BY <3>2, <4>1, <4>2
      <3>3. QED
        BY <1>4, <2>0, <2>1, <3>2 DEF MergeSave
    <2>3. NoMerge \in Merge
      BY DEF NoMerge, Merge
    <2>4. TypeOK'
      <3>1. index' \in [Paths -> Row] /\ removed' \subseteq Paths /\ undone' \subseteq Paths
        BY <1>1, <2>1, <2>2 DEF TypeOK
      <3>2. QED
        BY <1>1, <2>1, <2>3, <3>1 DEF TypeOK
    <2>5. /\ removed \subseteq removed'
          /\ \A r \in Paths :
               /\ index'[r].deleted => r \in removed'
               /\ r \in undone => r \in undone'
               /\ index'[r] = index[r] \/ r \in undone'
      BY <1>1, <2>1, <2>2 DEF TypeOK, RemovedInv
    <2>6. QED
      BY <2>1, <2>4, <2>5, OthersKeep
  <1>5. QED
    BY <1>2, <1>3, <1>4

-----------------------------------------------------------------------------
(* A restart forgets everything but the files, the rows and the histories. *)
LEMMA RestartKeeps ==
  ASSUME IInv, Restart
  PROVE  IInv'
  <1>1. /\ TypeOK /\ RemovedInv
        /\ UNCHANGED <<disk, changes, renamed, undone>>
        /\ pc' = [c \in Calls |-> "idle"] /\ installed' = {} /\ mapped' = NoCall
        /\ queue' = [c \in Calls |-> <<>>]
        /\ indexer' = [c \in Calls |-> NoIndexer]
        /\ seen' = [c \in Calls |-> {}]
        /\ merge' = NoMerge
    BY DEF IInv, Restart, files
  <1>2. PICK checked \in SUBSET Paths :
          /\ index' = [p \in Paths |-> IF p \in checked THEN Verified(p) ELSE index[p]]
          /\ removed' = removed \cup {p \in checked : disk[p] = Absent /\ index[p] # NoRow}
    BY DEF Restart
  <1>3. ASSUME NEW p \in Paths
        PROVE  /\ Verified(p) \in Row
               /\ Verified(p).deleted => index[p].deleted \/ (disk[p] = Absent /\ index[p] # NoRow)
    <2> DEFINE row == index[p]
    <2>1. row \in Row /\ disk[p] \in Contents \cup {Absent}
      BY <1>1 DEF TypeOK
    <2>2. CASE row = NoRow \/ row.deleted
      BY <2>1, <2>2 DEF Verified
    <2>3. CASE row # NoRow /\ ~ row.deleted
      <3>1. row \in [size : Sizes, sha : Contents, blocks : Contents, deleted : BOOLEAN]
        BY <2>1, <2>3 DEF Row
      <3>2. CASE disk[p] = Absent
        <4>1. Verified(p) = [row EXCEPT !.deleted = TRUE]
          BY <2>3, <3>2 DEF Verified
        <4>2. QED
          BY <2>3, <3>1, <3>2, <4>1 DEF Row
      <3>3. CASE disk[p] # Absent
        <4>1. Verified(p) \in {[row EXCEPT !.size = Size[disk[p]], !.sha = disk[p]], row}
          BY <2>3, <3>3 DEF Verified
        <4>2. Size[disk[p]] \in Sizes
          BY <2>1, <3>3 DEF Sizes
        <4>3. QED
          BY <2>1, <2>3, <3>1, <3>3, <4>1, <4>2 DEF Row
      <3>4. QED
        BY <3>2, <3>3
    <2>4. QED
      BY <2>2, <2>3
  <1>4. TypeOK'
    <2>1. index' \in [Paths -> Row] /\ removed' \subseteq Paths
      BY <1>1, <1>2, <1>3 DEF TypeOK
    <2>2. queue' \in [Calls -> Seq(Event)]
      <3>1. <<>> \in Seq(Event)
        OBVIOUS
      <3>2. QED
        BY <1>1, <3>1
    <2>3. indexer' \in [Calls -> Indexer] /\ merge' \in Merge
      BY <1>1 DEF Indexer, NoIndexer, Merge, NoMerge
    <2>4. /\ pc' \in [Calls -> {"idle", "checked", "registered", "losing", "done"}]
          /\ seen' \in [Calls -> SUBSET Paths]
      BY <1>1
    <2>5. QED
      BY <1>1, <2>1, <2>2, <2>3, <2>4 DEF TypeOK
  <1>5. \A c \in Calls : OwnInv(c)'
    BY <1>1, WatchAssumption DEF OwnInv, NoIndexer
  <1>6. RemovedInv'
    <2>1. \A p \in Paths : index'[p].deleted => p \in removed'
      BY <1>1, <1>2, <1>3 DEF RemovedInv
    <2>2. QED
      BY <1>1, <2>1 DEF RemovedInv, NoIndexer, Stages
  <1>7. \A c \in Calls, p \in Paths : FollowInv(c, p)'
    BY <1>1 DEF FollowInv, QueueInv, SeenInv, IsLast
  <1>8. QED
    BY <1>4, <1>5, <1>6, <1>7 DEF IInv

(* The invariant is inductive.                                             *)
LEMMA Inductive == Spec => []IInv
  <1>1. Init => IInv
    <2> SUFFICES ASSUME Init
                 PROVE  IInv
      OBVIOUS
    <2>1. TypeOK
      <3>1. <<>> \in Seq(Event) /\ NoRow \in Row /\ NoIndexer \in Indexer /\ NoMerge \in Merge
        BY DEF Row, NoRow, Indexer, NoIndexer, Merge, NoMerge
      <3>2. QED
        BY <3>1, WatchAssumption DEF Init, TypeOK
    <2>2. \A c \in Calls : OwnInv(c)
      BY WatchAssumption DEF Init, OwnInv, NoIndexer
    <2>3. RemovedInv
      BY DEF Init, RemovedInv, NoRow, NoIndexer, Stages
    <2>4. ASSUME NEW c \in Calls, NEW p \in Paths
          PROVE  FollowInv(c, p)
      <3>1. queue[c] = <<>> /\ seen[c] = {}
        BY DEF Init
      <3>2. QED
        BY <3>1 DEF FollowInv, QueueInv, SeenInv, IsLast
    <2>5. QED
      BY <2>1, <2>2, <2>3, <2>4 DEF IInv
  <1>2. IInv /\ [Next]_vars => IInv'
    <2> SUFFICES ASSUME IInv, [Next]_vars
                 PROVE  IInv'
      OBVIOUS
    <2>1. CASE UNCHANGED vars
      <3>1. IInv' <=> IInv
        BY <2>1 DEF vars, files, others, IInv, TypeOK, OwnInv, RemovedInv, FollowInv,
          QueueInv, Stages,
          SeenInv, IsLast, Has, EventFits, Busy, Progress, Current
      <3>2. QED
        BY <3>1
    <2>2. CASE Next
      BY <2>2, UserKeeps, CallKeeps, TakeEventKeeps, ReadLengthKeeps, HashFileKeeps,
        ReadBlocksKeeps, SaveContentKeeps, SaveDeletionKeeps, WritersKeep, RestartKeeps
      DEF Next, IndexerStep
    <2>3. QED
      BY <2>1, <2>2
  <1>3. QED
    BY <1>1, <1>2, PTL DEF Spec

-----------------------------------------------------------------------------
(* Files, rows, watchers, queues and tasks stay where the code has them.   *)
THEOREM TypeCorrect == Spec => []TypeOK
  BY Inductive, PTL DEF IInv

(* However calls of start_watching overlap, one is in the map, it alone    *)
(* has a task, and no watcher is left behind.                              *)
THEOREM OwnedTheorem == Spec => []WatchersAreOwned
  <1>1. IInv => WatchersAreOwned
    BY DEF IInv, OwnInv, WatchersAreOwned
  <1>2. QED
    BY <1>1, Inductive, PTL

(* When process_events has nothing left to take, the rows of the files     *)
(* that have changed under its watcher are current.                        *)
THEOREM FollowsTheorem == Spec => []IndexFollowsDisk
  <1>1. IInv => IndexFollowsDisk
    <2> SUFFICES ASSUME IInv, NEW c \in Calls, indexer[c].at = "waiting", queue[c] = <<>>,
                        NEW p \in seen[c]
                 PROVE  Current(p)
      BY DEF IndexFollowsDisk
    <2>1. p \in Paths
      BY DEF IInv, TypeOK
    <2>2. SeenInv(c, p) /\ ~ Busy(c, p) /\ ~ Has(queue[c], p)
      BY <2>1 DEF IInv, FollowInv, Busy, Has, Stages
    <2>3. QED
      BY <2>2 DEF SeenInv
  <1>2. QED
    BY <1>1, Inductive, PTL

=============================================================================
