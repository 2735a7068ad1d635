-------------------------------- MODULE Events --------------------------------
(***************************************************************************)
(* The event bus of one device (a broadcast channel of Tokio) and its two  *)
(* receivers that act on what they hear: the cleanup after a revocation    *)
(* (CascadeCleanupHandler) and the auto-sync scheduler of lib.rs.  The     *)
(* channel keeps the last Capacity events; a receiver that falls behind    *)
(* is told Lagged once and goes on with the oldest event kept.             *)
(*                                                                         *)
(* The security handler only counts and the bridge to the user interface   *)
(* only forwards: neither has a state that matters here.  What services do *)
(* to a job is in TransferSend and TransferReceive; here a service loads   *)
(* the row, and saves it some time later, open or closed.                  *)
(***************************************************************************)
EXTENDS Sequences, Integers

CONSTANTS
  Shares,     (* shares whose files change                                 *)
  Devices,    (* peers that are revoked                                    *)
  NoDevice,   (* not a peer                                                *)
  Jobs,       (* transfer jobs                                             *)
  PeerOf,     (* the peer of each job                                      *)
  Capacity,   (* events the channel keeps; 1024 in the program             *)
  MaxEvents   (* events published before the program ends, a bound for TLC *)

ASSUME EventsAssumption ==
  /\ PeerOf \in [Jobs -> Devices]
  /\ NoDevice \notin Devices
  /\ Capacity \in Nat \ {0} /\ MaxEvents \in Nat

VARIABLES
  ring,      (* the events the channel keeps, oldest first                 *)
  unread,    (* per receiver, how many events it has not received;         *)
             (* Capacity + 1: more than the channel keeps                  *)
  published, (* how many events were published, for the bound              *)
  job,       (* per job, its row: open is pending, active or paused        *)
  held,      (* jobs of which a service holds a copy                       *)
  cleanup,   (* the cleanup handler: running, the revoked device it works  *)
             (* on, whether it has queried, the jobs still to be cancelled *)
  pending,   (* per share, its entry in the map of the auto-sync scheduler *)
  flush,     (* shares the current tick has still to flush                 *)
  dirty,     (* shares changed since their last synchronisation (history)  *)
  lost,      (* of these, the ones the scheduler cannot know of (history)  *)
  owed       (* jobs that a revocation found open and that still are, or   *)
             (* that no cleanup has cancelled (history)                    *)

vars == <<ring, unread, published, job, held, cleanup, pending, flush, dirty, lost, owed>>

sync == <<pending, flush, dirty, lost>>
jobs == <<job, held, cleanup, owed>>
bus == <<ring, unread, published>>

Receivers == {"cleanup", "autosync"}

Event == [type : {"LocalIndexChanged"}, about : Shares]
    \cup [type : {"TrustRevoked"}, about : Devices]
    \cup [type : {"Other"}, about : {NoDevice}]

Cleanup == [running : BOOLEAN, about : Devices \cup {NoDevice},
            queried : BOOLEAN, todo : SUBSET Jobs]

Waiting == [running |-> TRUE, about |-> NoDevice, queried |-> FALSE, todo |-> {}]

TypeOK ==
  /\ ring \in Seq(Event) /\ Len(ring) <= Capacity
  /\ unread \in [Receivers -> 0..Capacity + 1]
  /\ \A r \in Receivers : unread[r] <= Capacity => unread[r] <= Len(ring)
  /\ published \in 0..MaxEvents
  /\ job \in [Jobs -> {"none", "open", "closed", "cancelled"}]
  /\ held \subseteq Jobs
  /\ cleanup \in Cleanup
  /\ cleanup.about = NoDevice => cleanup.todo = {} /\ ~ cleanup.queried
  /\ \A j \in cleanup.todo : PeerOf[j] = cleanup.about
  /\ pending \in [Shares -> {"none", "fresh", "due"}]
  /\ flush \subseteq Shares
  /\ lost \subseteq dirty /\ dirty \subseteq Shares
  /\ owed \subseteq Jobs

Init ==
  /\ ring = <<>> /\ unread = [r \in Receivers |-> 0] /\ published = 0
  /\ job = [j \in Jobs |-> "none"] /\ held = {}
  /\ cleanup = Waiting
  /\ pending = [s \in Shares |-> "none"] /\ flush = {}
  /\ dirty = {} /\ lost = {} /\ owed = {}

-----------------------------------------------------------------------------
(* The channel.                                                            *)

Lagging(r) == unread[r] > Capacity
NextEvent(r) == ring[Len(ring) - unread[r] + 1]

(* The events that r will still receive.                                   *)
Ahead(r) ==
  LET n == IF Lagging(r) THEN Capacity ELSE unread[r]
  IN  {ring[i] : i \in Len(ring) - n + 1 .. Len(ring)}

Changed(s) == [type |-> "LocalIndexChanged", about |-> s]
Revoked(d) == [type |-> "TrustRevoked", about |-> d]

(* publish: the oldest event is overwritten when the channel is full, and  *)
(* never waits for a receiver.                                             *)
Publish(e) ==
  /\ published < MaxEvents
  /\ published' = published + 1
  /\ ring' = IF Len(ring) < Capacity THEN Append(ring, e) ELSE Append(Tail(ring), e)
  /\ unread' = [r \in Receivers |-> IF Lagging(r) THEN unread[r] ELSE unread[r] + 1]

Take(r) ==
  /\ unread[r] > 0 /\ ~ Lagging(r)
  /\ unread' = [unread EXCEPT ![r] = @ - 1]
  /\ UNCHANGED <<ring, published>>

(* Mutant of Oldest: one event more than the channel keeps.                *)
OldestAndOne(r) == unread' = [unread EXCEPT ![r] = Len(ring) + 2]

(* After Lagged the receiver stands at the oldest event kept.              *)
Oldest(r) == unread' = [unread EXCEPT ![r] = Len(ring)]

(* The scheduler knows, or will hear, that s has changed.                  *)
Known(s) == pending[s] # "none" \/ Changed(s) \in Ahead("autosync")

-----------------------------------------------------------------------------
(* The services that publish, and what they do to the jobs.                *)

(* process_events has saved a row of the index.                            *)
PublishChange(s) ==
  /\ Publish(Changed(s))
  /\ dirty' = dirty \cup {s}
  /\ lost' = lost \ {s}
  /\ UNCHANGED <<pending, flush, job, held, cleanup, owed>>

(* revoke_trust and reject_pairing have saved the device as revoked.       *)
PublishRevoked(d) ==
  /\ Publish(Revoked(d))
  /\ owed' = owed \cup {j \in Jobs : PeerOf[j] = d /\ job[j] = "open"}
  /\ UNCHANGED <<job, held, cleanup, sync>>

(* Progress of transfers, members, conflicts, pairings.                    *)
PublishOther ==
  /\ Publish([type |-> "Other", about |-> NoDevice])
  /\ UNCHANGED <<jobs, sync>>

JobLoaded(j) ==
  /\ j \notin held /\ job[j] \in {"open", "closed"}
  /\ held' = held \cup {j}
  /\ UNCHANGED <<job, cleanup, owed, bus, sync>>

(* A new job, or the whole row from the copy a service holds, whatever the *)
(* row says by now.                                                        *)
JobSaved(j) ==
  /\ j \in held \/ job[j] = "none"
  /\ \E state \in {"open", "closed", "cancelled"} :
       /\ job' = [job EXCEPT ![j] = state]
       /\ owed' = IF state = "open" THEN owed ELSE owed \ {j}
  /\ held' \in {held \cup {j}, held \ {j}}
  /\ UNCHANGED <<cleanup, bus, sync>>

-----------------------------------------------------------------------------
(* CascadeCleanupHandler::start handles one event at a time.               *)

CleanupTakes ==
  /\ cleanup.running /\ cleanup.about = NoDevice
  /\ Take("cleanup")
  /\ LET e == NextEvent("cleanup") IN
       cleanup' = IF e.type = "TrustRevoked" THEN [cleanup EXCEPT !.about = e.about] ELSE cleanup
  /\ UNCHANGED <<job, held, owed, sync>>

(* Mutant of CleanupLags: the handler goes on, as the others do.           *)
CleanupGoesOn ==
  /\ cleanup.running /\ cleanup.about = NoDevice
  /\ Lagging("cleanup")
  /\ Oldest("cleanup")
  /\ UNCHANGED <<ring, published, jobs, sync>>

(* `while let Ok` ends at the first Lagged.                                *)
CleanupLags ==
  /\ cleanup.running /\ cleanup.about = NoDevice
  /\ Lagging("cleanup")
  /\ Oldest("cleanup")
  /\ cleanup' = [cleanup EXCEPT !.running = FALSE]
  /\ UNCHANGED <<ring, published, job, held, owed, sync>>

(* Mutant of CleanupQueries: jobs that are running are left alone.         *)
CleanupSparesRunning ==
  /\ cleanup.about # NoDevice /\ ~ cleanup.queried
  /\ cleanup' = [cleanup EXCEPT !.queried = TRUE,
       !.todo = {j \in Jobs \ held : PeerOf[j] = cleanup.about /\ job[j] = "open"}]
  /\ UNCHANGED <<job, held, owed, bus, sync>>

(* find_actions_by_peer finds the jobs of the peer that are open, or the   *)
(* query fails and nothing is cancelled.                                   *)
CleanupQueries ==
  /\ cleanup.about # NoDevice /\ ~ cleanup.queried
  /\ \/ /\ cleanup' = [cleanup EXCEPT !.queried = TRUE,
                         !.todo = {j \in Jobs : PeerOf[j] = cleanup.about /\ job[j] = "open"}]
        /\ UNCHANGED owed
     \/ /\ cleanup' = [cleanup EXCEPT !.queried = TRUE]
        /\ owed' = owed \ {j \in Jobs : PeerOf[j] = cleanup.about}
  /\ UNCHANGED <<job, held, bus, sync>>

(* The copy is cancelled, which it allows in every state, and the row      *)
(* saved; a save that fails is skipped.                                    *)
CleanupCancels(j) ==
  /\ j \in cleanup.todo
  /\ cleanup' = [cleanup EXCEPT !.todo = @ \ {j}]
  /\ owed' = owed \ {j}
  /\ job' = [job EXCEPT ![j] = "cancelled"] \/ UNCHANGED job
  /\ UNCHANGED <<held, bus, sync>>

(* find_by_member fails always: share_id is a column of both tables that   *)
(* its statement joins.  No share is changed, and the event is done with.  *)
CleanupEnds ==
  /\ cleanup.queried /\ cleanup.todo = {}
  /\ cleanup' = Waiting
  /\ UNCHANGED <<job, held, owed, bus, sync>>

-----------------------------------------------------------------------------
(* The auto-sync scheduler.                                                *)

AutoTakes ==
  /\ flush = {}
  /\ Take("autosync")
  /\ LET e == NextEvent("autosync") IN
       pending' = IF e.type = "LocalIndexChanged"
                  THEN [pending EXCEPT ![e.about] = "fresh"] ELSE pending
  /\ UNCHANGED <<flush, dirty, lost, jobs>>

(* Lagged is ignored: changes among the events skipped are lost unless     *)
(* the share is known from another one.                                    *)
AutoLags ==
  /\ flush = {}
  /\ Lagging("autosync")
  /\ Oldest("autosync")
  /\ lost' = lost \cup {s \in dirty : ~ Known(s)}
  /\ UNCHANGED <<ring, published, pending, flush, dirty, jobs>>

(* Five seconds have passed since the last change of s was received.       *)
Age(s) ==
  /\ pending[s] = "fresh"
  /\ pending' = [pending EXCEPT ![s] = "due"]
  /\ UNCHANGED <<flush, dirty, lost, jobs, bus>>

Due == {s \in Shares : pending[s] = "due"}

(* Mutant of Tick: every look at an entry starts its five seconds again.   *)
TickRestarts ==
  /\ flush = {}
  /\ Due # {}
  /\ pending' = [s \in Shares |-> IF s \in Due THEN "fresh" ELSE pending[s]]
  /\ UNCHANGED <<flush, dirty, lost, jobs, bus>>

(* The second of the timeout has passed: what is due will be flushed.  An  *)
(* event may be there by then, since select! looks at its branches in any  *)
(* order.                                                                  *)
Tick ==
  /\ flush = {}
  /\ Due # {}
  /\ flush' = Due
  /\ UNCHANGED <<pending, dirty, lost, jobs, bus>>

(* Mutant of FlushOne: the map is cleared.                                 *)
FlushAll(s) ==
  /\ s \in flush
  /\ flush' = flush \ {s}
  /\ pending' = [x \in Shares |-> "none"]
  /\ dirty' = dirty \ {s} /\ lost' = lost \ {s}
  /\ UNCHANGED <<jobs, bus>>

(* The entry goes first.  Then execute is spawned for every member that is *)
(* paired, or a query fails and the change is forgotten.                   *)
FlushOne(s) ==
  /\ s \in flush
  /\ flush' = flush \ {s}
  /\ pending' = [pending EXCEPT ![s] = "none"]
  /\ \/ dirty' = dirty \ {s} /\ lost' = lost \ {s}
     \/ /\ lost' = lost \cup ({s} \cap {x \in dirty : Changed(x) \notin Ahead("autosync")})
        /\ UNCHANGED dirty
  /\ UNCHANGED <<jobs, bus>>

-----------------------------------------------------------------------------
(* The program ends and starts again: jobs are stored, recovery pauses or  *)
(* cancels open ones, or fails to; a Verifying one refuses to be paused.   *)
(* The channel and the map of changes are not stored.                      *)
Crash ==
  /\ ring' = <<>> /\ unread' = [r \in Receivers |-> 0] /\ published' = 0
  /\ cleanup' = Waiting
  /\ held' = {}
  /\ \E cancelled \in SUBSET Jobs :
       job' = [j \in Jobs |-> IF j \in cancelled /\ job[j] = "open" THEN "cancelled"
                             ELSE job[j]]
  /\ pending' = [s \in Shares |-> "none"] /\ flush' = {}
  /\ lost' = dirty
  /\ owed' = {}
  /\ UNCHANGED dirty

CleanupStep ==
  \/ CleanupTakes \/ CleanupLags \/ CleanupQueries \/ CleanupEnds
  \/ \E j \in Jobs : CleanupCancels(j)

SchedulerStep == AutoTakes \/ AutoLags \/ Tick \/ \E s \in Shares : FlushOne(s)

Next ==
  \/ \E s \in Shares : PublishChange(s) \/ Age(s)
  \/ \E d \in Devices : PublishRevoked(d)
  \/ PublishOther
  \/ \E j \in Jobs : JobLoaded(j) \/ JobSaved(j)
  \/ CleanupStep
  \/ SchedulerStep
  \/ Crash

Spec == Init /\ [][Next]_vars

(* Both receivers are tasks of the runtime, every query of theirs ends,    *)
(* and time passes.  Nobody has to publish anything.                       *)
Fairness ==
  /\ WF_vars(CleanupStep)
  /\ WF_vars(SchedulerStep)
  /\ \A s \in Shares : WF_vars(Age(s))

FairSpec == Spec /\ Fairness

-----------------------------------------------------------------------------
(* A share whose files changed is known to the scheduler until it is       *)
(* synchronised, except where the channel has overwritten the event, a     *)
(* query failed or the program ended: no order of events, ticks and        *)
(* flushes forgets a change otherwise.                                     *)
ChangeIsRemembered ==
  \A s \in dirty :
    \/ s \in lost
    \/ Changed(s) \in Ahead("autosync") \/ Lagging("autosync")
    \/ pending[s] # "none"

(* A job that was open when its peer was revoked is cancelled or closed,   *)
(* or the handler will still see to it - unless a database error or the    *)
(* end of the program stopped it, or the handler has left its loop.        *)
RevocationIsRemembered ==
  \A j \in owed :
    \/ ~ cleanup.running
    \/ Revoked(PeerOf[j]) \in Ahead("cleanup") \/ Lagging("cleanup")
    \/ cleanup.about = PeerOf[j] /\ ~ cleanup.queried
    \/ j \in cleanup.todo

(* A change is synchronised in the end, which is to say that execute is    *)
(* spawned, or lost as above: the debounce and the flush of the scheduler  *)
(* do not hold it back for ever, once events no longer arrive faster than  *)
(* the timeout of one second (MaxEvents ends them; the code has no bound,  *)
(* and a stream without a pause never lets it tick).                       *)
ChangesAreSynced == \A s \in Shares : s \in dirty ~> (s \notin dirty \/ s \in lost)

(* A revocation reaches the jobs of the peer in the end - each is          *)
(* cancelled, or closed, or its save was tried and failed - or the handler *)
(* has left its loop.                                                      *)
RevocationsCascade == \A j \in Jobs : j \in owed ~> (j \notin owed \/ ~ cleanup.running)
=============================================================================
