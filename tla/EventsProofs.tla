----------------------------- MODULE EventsProofs -----------------------------
(***************************************************************************)
(* Proofs about Events, for every capacity of the channel and any number   *)
(* of shares, peers and jobs.  The lemmas of the first part say what an    *)
(* operation of the channel does to the events that a receiver has ahead;  *)
(* the rest of the proof uses nothing else of it.                          *)
(***************************************************************************)
EXTENDS Events, TransferList, FiniteSetTheorems, SequenceTheorems, TLAPS

(* The channel as TypeOK has it; and a receiver lags behind a full channel  *)
(* only, so that after Lagged it has Capacity events to read.              *)
LagInv == \A r \in Receivers : Lagging(r) => Len(ring) = Capacity

BusOK ==
  /\ ring \in Seq(Event) /\ Len(ring) <= Capacity
  /\ unread \in [Receivers -> 0..Capacity + 1]
  /\ \A r \in Receivers : unread[r] <= Capacity => unread[r] <= Len(ring)
  /\ published \in 0..MaxEvents
  /\ LagInv

(* The receivers and the jobs: the rest of TypeOK; only open jobs are      *)
(* owed, no job waits to be cancelled before the query, and the handler    *)
(* leaves its loop between two events only.                                *)
ReceiversOK ==
  /\ job \in [Jobs -> {"none", "open", "closed", "cancelled"}]
  /\ held \subseteq Jobs
  /\ cleanup \in Cleanup
  /\ cleanup.about = NoDevice => cleanup.todo = {} /\ ~ cleanup.queried
  /\ \A j \in cleanup.todo : PeerOf[j] = cleanup.about
  /\ pending \in [Shares -> {"none", "fresh", "due"}]
  /\ flush \subseteq Shares
  /\ lost \subseteq dirty /\ dirty \subseteq Shares
  /\ owed \subseteq Jobs
  /\ \A j \in owed : job[j] = "open"
  /\ ~ cleanup.queried => cleanup.todo = {}
  /\ ~ cleanup.running => cleanup.about = NoDevice

IInv == BusOK /\ ReceiversOK /\ ChangeIsRemembered /\ RevocationIsRemembered

-----------------------------------------------------------------------------
(* The channel.                                                            *)

(* What is kept after an event was published.                              *)
LEMMA RingAfterPublish ==
  ASSUME BusOK, NEW e \in Event, Publish(e)
  PROVE  /\ ring' \in Seq(Event) /\ Len(ring') <= Capacity
         /\ Len(ring) < Capacity => /\ Len(ring') = Len(ring) + 1
                                    /\ \A i \in 1..Len(ring) : ring'[i] = ring[i]
         /\ Len(ring) = Capacity => /\ Len(ring') = Capacity
                                    /\ \A i \in 2..Len(ring) : ring'[i - 1] = ring[i]
         /\ ring'[Len(ring')] = e
  <1> USE EventsAssumption
  <1>1. CASE Len(ring) < Capacity
    <2>1. ring' = Append(ring, e)
      BY <1>1 DEF Publish
    <2>2. QED
      BY <1>1, <2>1 DEF BusOK
  <1>2. CASE Len(ring) = Capacity
    <2>1. ring' = Append(Tail(ring), e)
      BY <1>2 DEF Publish, BusOK
    <2>2. Tail(ring) \in Seq(Event) /\ Len(Tail(ring)) = Len(ring) - 1
      BY <1>2 DEF BusOK
    <2>3. \A i \in 2..Len(ring) : Tail(ring)[i - 1] = ring[i]
      BY <1>2 DEF BusOK
    <2>4. ring' \in Seq(Event) /\ Len(ring') = Capacity /\ ring'[Len(ring')] = e
      BY <1>2, <2>1, <2>2
    <2>5. \A i \in 2..Len(ring) : ring'[i - 1] = ring[i]
      BY <1>2, <2>1, <2>2, <2>3
    <2>6. QED
      BY <1>2, <2>4, <2>5
  <1>3. QED
    BY <1>1, <1>2 DEF BusOK

(* A published event is ahead of everybody, and so is what was, except for *)
(* a receiver that lags behind now.                                        *)
LEMMA AheadAfterPublish ==
  ASSUME BusOK, NEW e \in Event, Publish(e), NEW r \in Receivers
  PROVE  Lagging(r)' \/ Ahead(r)' = Ahead(r) \cup {e}
  <1> USE EventsAssumption
  <1>1. CASE Lagging(r)
    BY <1>1 DEF Publish, Lagging, BusOK
  <1>2. CASE ~ Lagging(r) /\ unread[r] = Capacity
    BY <1>2 DEF Publish, Lagging, BusOK
  <1>3. CASE ~ Lagging(r) /\ unread[r] < Capacity
    <2>1. unread'[r] = unread[r] + 1 /\ ~ Lagging(r)' /\ unread[r] \in Nat /\ unread[r] <= Len(ring)
      BY <1>3 DEF Publish, Lagging, BusOK
    <2>2. Ahead(r) = {ring[i] : i \in Len(ring) - unread[r] + 1 .. Len(ring)}
      BY <1>3 DEF Ahead
    <2>3. Ahead(r)' = {ring'[i] : i \in Len(ring') - unread[r] .. Len(ring')}
      BY <2>1 DEF Ahead, BusOK
    <2>4. Len(ring) \in Nat
      BY DEF BusOK
    <2>5. CASE Len(ring) < Capacity
      <3>1. /\ Len(ring') = Len(ring) + 1 /\ ring'[Len(ring')] = e
            /\ \A i \in 1..Len(ring) : ring'[i] = ring[i]
        BY <2>5, RingAfterPublish
      <3>2. \A i \in Len(ring) - unread[r] + 1 .. Len(ring) :
               i \in Len(ring') - unread[r] .. Len(ring') /\ ring'[i] = ring[i]
        BY <2>1, <2>4, <3>1
      <3>3. \A i \in Len(ring') - unread[r] .. Len(ring') :
               \/ i = Len(ring')
               \/ i \in Len(ring) - unread[r] + 1 .. Len(ring) /\ ring'[i] = ring[i]
        BY <2>1, <2>4, <3>1
      <3>4. Len(ring') \in Len(ring') - unread[r] .. Len(ring')
        BY <2>1, <2>4, <3>1
      <3>5. QED
        BY <2>2, <2>3, <3>1, <3>2, <3>3, <3>4
    <2>6. CASE Len(ring) = Capacity
      <3>1. \A i \in Len(ring) - unread[r] + 1 .. Len(ring) :
               i - 1 \in Len(ring') - unread[r] .. Len(ring') /\ ring'[i - 1] = ring[i]
        BY <1>3, <2>1, <2>4, <2>6, RingAfterPublish
      <3>2. \A i \in Len(ring') - unread[r] .. Len(ring') - 1 :
               i + 1 \in Len(ring) - unread[r] + 1 .. Len(ring) /\ ring'[i] = ring[i + 1]
        <4> SUFFICES ASSUME NEW i \in Len(ring') - unread[r] .. Len(ring') - 1
                     PROVE  i + 1 \in Len(ring) - unread[r] + 1 .. Len(ring) /\ ring'[i] = ring[i + 1]
          OBVIOUS
        <4>1. i + 1 \in 2 .. Len(ring) /\ i + 1 \in Len(ring) - unread[r] + 1 .. Len(ring)
                /\ (i + 1) - 1 = i
          BY <1>3, <2>1, <2>4, <2>6, RingAfterPublish
        <4>2. QED
          BY <2>6, <4>1, RingAfterPublish
      <3>3. ring'[Len(ring')] = e /\ Len(ring') = Capacity
        BY <2>6, RingAfterPublish
      <3>4. Ahead(r) \subseteq Ahead(r)'
        BY <2>2, <2>3, <3>1
      <3>5. Ahead(r)' \subseteq Ahead(r) \cup {e}
        <4> SUFFICES ASSUME NEW i \in Len(ring') - unread[r] .. Len(ring')
                     PROVE  ring'[i] \in Ahead(r) \cup {e}
          BY <2>3
        <4>1. CASE i = Len(ring')
          BY <3>3, <4>1
        <4>2. CASE i # Len(ring')
          <5>1. i \in Len(ring') - unread[r] .. Len(ring') - 1
            BY <2>1, <3>3, <4>2
          <5>2. QED
            BY <2>2, <3>2, <5>1
        <4>3. QED
          BY <4>1, <4>2
      <3>6. e \in Ahead(r)'
        BY <2>1, <2>3, <3>3
      <3>7. QED
        BY <3>4, <3>5, <3>6
    <2>7. QED
      BY <2>4, <2>5, <2>6 DEF BusOK
  <1>4. QED
    BY <1>1, <1>2, <1>3 DEF Lagging, BusOK

(* The channel stays as it should be.                                      *)
LEMMA BusPublish ==
  ASSUME BusOK, NEW e \in Event, Publish(e)
  PROVE  BusOK'
  <1> USE EventsAssumption
  <1>1. published' \in 0..MaxEvents
    BY DEF Publish, BusOK
  <1>2. unread' \in [Receivers -> 0..Capacity + 1]
    BY DEF Publish, BusOK, Lagging
  <1>3. ASSUME NEW r \in Receivers
        PROVE  (unread'[r] <= Capacity => unread'[r] <= Len(ring')) /\ (Lagging(r)' => Len(ring') = Capacity)
    BY RingAfterPublish DEF Publish, BusOK, Lagging, LagInv
  <1>4. QED
    BY <1>1, <1>2, <1>3, RingAfterPublish DEF BusOK, LagInv

(* Nothing but the event taken is ahead no more, and only of its receiver. *)
LEMMA AheadAfterTake ==
  ASSUME BusOK, NEW r \in Receivers, Take(r)
  PROVE  /\ BusOK'
         /\ NextEvent(r) \in Event
         /\ ~ Lagging(r)'
         /\ Ahead(r) \subseteq Ahead(r)' \cup {NextEvent(r)}
         /\ \A q \in Receivers \ {r} : Ahead(q)' = Ahead(q) /\ Lagging(q)' = Lagging(q)
  <1> USE EventsAssumption
  <1>1. /\ unread[r] \in Nat /\ unread[r] > 0 /\ unread[r] <= Capacity
        /\ unread'[r] = unread[r] - 1
        /\ \A q \in Receivers \ {r} : unread'[q] = unread[q]
        /\ ring' = ring /\ published' = published
        /\ unread[r] <= Len(ring) /\ Len(ring) \in Nat
    BY DEF Take, Lagging, BusOK
  <1>2. NextEvent(r) \in Event
    <2>1. Len(ring) - unread[r] + 1 \in 1..Len(ring)
      BY <1>1
    <2>2. QED
      BY <2>1 DEF NextEvent, BusOK
  <1>3. BusOK'
    <2>1. unread' \in [Receivers -> 0..Capacity + 1]
      BY <1>1 DEF Take, BusOK
    <2>2. QED
      BY <1>1, <2>1 DEF BusOK, LagInv, Lagging
  <1>4. ~ Lagging(r)'
    BY <1>1 DEF Lagging
  <1>5. Ahead(r) \subseteq Ahead(r)' \cup {NextEvent(r)}
    <2>1. Ahead(r) = {ring[i] : i \in Len(ring) - unread[r] + 1 .. Len(ring)}
      BY <1>1 DEF Ahead, Lagging
    <2>2. Ahead(r)' = {ring[i] : i \in Len(ring) - (unread[r] - 1) + 1 .. Len(ring)}
      BY <1>1, <1>4 DEF Ahead
    <2>3. \A i \in Len(ring) - unread[r] + 1 .. Len(ring) :
             \/ i = Len(ring) - unread[r] + 1
             \/ i \in Len(ring) - (unread[r] - 1) + 1 .. Len(ring)
      BY <1>1
    <2>4. QED
      BY <2>1, <2>2, <2>3 DEF NextEvent
  <1>6. \A q \in Receivers \ {r} : Ahead(q)' = Ahead(q) /\ Lagging(q)' = Lagging(q)
    BY <1>1 DEF Ahead, Lagging
  <1>7. QED
    BY <1>2, <1>3, <1>4, <1>5, <1>6

(* After Lagged everything that was ahead still is.                        *)
LEMMA AheadAfterLag ==
  ASSUME BusOK, NEW r \in Receivers, Lagging(r), Oldest(r), UNCHANGED <<ring, published>>
  PROVE  /\ BusOK'
         /\ ~ Lagging(r)'
         /\ Ahead(r)' = Ahead(r)
         /\ \A q \in Receivers \ {r} : Ahead(q)' = Ahead(q) /\ Lagging(q)' = Lagging(q)
  <1> USE EventsAssumption
  <1>1. /\ unread'[r] = Len(ring) /\ Len(ring) = Capacity /\ ring' = ring /\ published' = published
        /\ \A q \in Receivers \ {r} : unread'[q] = unread[q]
    BY DEF Oldest, BusOK, LagInv
  <1>2. BusOK'
    <2>1. unread' \in [Receivers -> 0..Capacity + 1]
      BY <1>1 DEF Oldest, BusOK
    <2>2. QED
      BY <1>1, <2>1 DEF BusOK, LagInv, Lagging
  <1>3. ~ Lagging(r)'
    BY <1>1 DEF Lagging
  <1>4. Ahead(r)' = Ahead(r)
    BY <1>1, <1>3 DEF Ahead
  <1>5. \A q \in Receivers \ {r} : Ahead(q)' = Ahead(q) /\ Lagging(q)' = Lagging(q)
    BY <1>1 DEF Ahead, Lagging
  <1>6. QED
    BY <1>2, <1>3, <1>4, <1>5

(* Who does not touch the channel changes nothing of what is ahead.        *)
LEMMA AheadKept ==
  ASSUME UNCHANGED bus, NEW r \in Receivers
  PROVE  Ahead(r)' = Ahead(r) /\ Lagging(r)' = Lagging(r) /\ (BusOK => BusOK')
  BY DEF bus, Ahead, Lagging, BusOK, LagInv

-----------------------------------------------------------------------------
(* What is published.                                                      *)

(* An event that is published takes nothing from what is remembered.       *)
LEMMA RememberedAfterPublish ==
  ASSUME IInv, NEW e \in Event, Publish(e)
  PROVE  /\ BusOK'
         /\ \A r \in Receivers : Lagging(r)' \/ e \in Ahead(r)'
         /\ \A s \in dirty : \/ s \in lost
                             \/ Changed(s) \in Ahead("autosync")' \/ Lagging("autosync")'
                             \/ pending[s] # "none"
         /\ \A j \in owed : \/ ~ cleanup.running
                            \/ Revoked(PeerOf[j]) \in Ahead("cleanup")' \/ Lagging("cleanup")'
                            \/ cleanup.about = PeerOf[j] /\ ~ cleanup.queried
                            \/ j \in cleanup.todo
  <1>1. BusOK'
    BY BusPublish DEF IInv
  <1>2. \A r \in Receivers : Lagging(r)' \/ Ahead(r)' = Ahead(r) \cup {e}
    BY AheadAfterPublish DEF IInv
  <1>3. \A r \in Receivers : Lagging(r) => Lagging(r)'
    BY DEF IInv, BusOK, Publish, Lagging
  <1>4. "autosync" \in Receivers /\ "cleanup" \in Receivers
    BY DEF Receivers
  <1>5. QED
    BY <1>1, <1>2, <1>3, <1>4 DEF IInv, ChangeIsRemembered, RevocationIsRemembered

LEMMA PublishChangeKeeps ==
  ASSUME IInv, NEW s \in Shares, PublishChange(s)
  PROVE  IInv'
  <1>1. Changed(s) \in Event /\ Publish(Changed(s)) /\ "autosync" \in Receivers
    BY DEF PublishChange, Changed, Event, Receivers
  <1>2. /\ dirty' = dirty \cup {s} /\ lost' = lost \ {s}
        /\ UNCHANGED <<pending, flush, job, held, cleanup, owed>>
    BY DEF PublishChange
  <1>3. ReceiversOK'
    BY <1>2 DEF IInv, ReceiversOK
  <1>4. ChangeIsRemembered'
    <2> SUFFICES ASSUME NEW x \in dirty'
                 PROVE  \/ x \in lost'
                        \/ Changed(x) \in Ahead("autosync")' \/ Lagging("autosync")'
                        \/ pending'[x] # "none"
      BY DEF ChangeIsRemembered, Changed
    <2>1. CASE x = s
      BY <1>1, <2>1, RememberedAfterPublish
    <2>2. CASE x # s
      BY <1>1, <1>2, <2>2, RememberedAfterPublish
    <2>3. QED
      BY <2>1, <2>2
  <1>5. RevocationIsRemembered'
    BY <1>1, <1>2, RememberedAfterPublish DEF RevocationIsRemembered, Revoked
  <1>6. QED
    BY <1>1, <1>3, <1>4, <1>5, RememberedAfterPublish DEF IInv

LEMMA PublishRevokedKeeps ==
  ASSUME IInv, NEW d \in Devices, PublishRevoked(d)
  PROVE  IInv'
  <1>1. Revoked(d) \in Event /\ Publish(Revoked(d)) /\ "cleanup" \in Receivers
    BY DEF PublishRevoked, Revoked, Event, Receivers
  <1>2. /\ owed' = owed \cup {j \in Jobs : PeerOf[j] = d /\ job[j] = "open"}
        /\ UNCHANGED <<job, held, cleanup, pending, flush, dirty, lost>>
    BY DEF PublishRevoked, sync
  <1>3. ReceiversOK'
    BY <1>2 DEF IInv, ReceiversOK
  <1>4. ChangeIsRemembered'
    BY <1>1, <1>2, RememberedAfterPublish DEF ChangeIsRemembered, Changed
  <1>5. RevocationIsRemembered'
    <2> SUFFICES ASSUME NEW j \in owed'
                 PROVE  \/ ~ cleanup'.running
                        \/ Revoked(PeerOf[j]) \in Ahead("cleanup")' \/ Lagging("cleanup")'
                        \/ cleanup'.about = PeerOf[j] /\ ~ cleanup'.queried
                        \/ j \in cleanup'.todo
      BY DEF RevocationIsRemembered, Revoked
    <2>1. CASE j \in owed
      BY <1>1, <1>2, <2>1, RememberedAfterPublish
    <2>2. CASE PeerOf[j] = d
      BY <1>1, <2>2, RememberedAfterPublish
    <2>3. QED
      BY <1>2, <2>1, <2>2
  <1>6. QED
    BY <1>1, <1>3, <1>4, <1>5, RememberedAfterPublish DEF IInv

LEMMA PublishOtherKeeps ==
  ASSUME IInv, PublishOther
  PROVE  IInv'
  <1> DEFINE e == [type |-> "Other", about |-> NoDevice]
  <1>1. e \in Event /\ Publish(e) /\ UNCHANGED <<jobs, sync>>
    BY DEF PublishOther, Event
  <1> HIDE DEF e
  <1>2. BusOK' /\ ChangeIsRemembered' /\ RevocationIsRemembered'
    BY <1>1, RememberedAfterPublish
    DEF ChangeIsRemembered, RevocationIsRemembered, Changed, Revoked, jobs, sync
  <1>3. ReceiversOK'
    BY <1>1 DEF IInv, ReceiversOK, jobs, sync
  <1>4. QED
    BY <1>2, <1>3 DEF IInv

-----------------------------------------------------------------------------
(* The services and their jobs.                                            *)

(* A step that neither touches the channel nor the scheduler.              *)
LEMMA BusUntouched ==
  ASSUME IInv, UNCHANGED bus
  PROVE  /\ BusOK'
         /\ \A r \in Receivers : Ahead(r)' = Ahead(r) /\ Lagging(r)' = Lagging(r)
         /\ "autosync" \in Receivers /\ "cleanup" \in Receivers
         /\ UNCHANGED sync => ChangeIsRemembered'
  <1>1. BusOK'
    BY DEF IInv, BusOK, LagInv, Lagging, bus
  <1>2. \A r \in Receivers : Ahead(r)' = Ahead(r) /\ Lagging(r)' = Lagging(r)
    BY AheadKept
  <1>3. "autosync" \in Receivers /\ "cleanup" \in Receivers
    BY DEF Receivers
  <1>4. UNCHANGED sync => ChangeIsRemembered'
    BY <1>2, <1>3 DEF IInv, ChangeIsRemembered, Changed, sync
  <1>5. QED
    BY <1>1, <1>2, <1>3, <1>4

LEMMA JobLoadedKeeps ==
  ASSUME IInv, NEW j \in Jobs, JobLoaded(j)
  PROVE  IInv'
  <1>1. /\ held' = held \cup {j}
        /\ UNCHANGED <<job, cleanup, owed>> /\ UNCHANGED bus /\ UNCHANGED sync
    BY DEF JobLoaded
  <1>2. ReceiversOK'
    BY <1>1 DEF IInv, ReceiversOK, sync
  <1>3. RevocationIsRemembered'
    BY <1>1, BusUntouched DEF IInv, RevocationIsRemembered, Revoked
  <1>4. QED
    BY <1>1, <1>2, <1>3, BusUntouched DEF IInv

(* A job saved as open stays owed, any other save settles it.              *)
LEMMA JobSavedKeeps ==
  ASSUME IInv, NEW j \in Jobs, JobSaved(j)
  PROVE  IInv'
  <1>1. PICK state \in {"open", "closed", "cancelled"} :
           /\ job' = [job EXCEPT ![j] = state]
           /\ owed' = IF state = "open" THEN owed ELSE owed \ {j}
    BY DEF JobSaved
  <1>2. /\ held' \in {held \cup {j}, held \ {j}}
        /\ UNCHANGED cleanup /\ UNCHANGED bus /\ UNCHANGED sync
    BY DEF JobSaved
  <1>3. owed' \subseteq owed
    BY <1>1
  <1>4. ReceiversOK'
    <2>1. job' \in [Jobs -> {"none", "open", "closed", "cancelled"}] /\ held' \subseteq Jobs
      BY <1>1, <1>2 DEF IInv, ReceiversOK
    <2>2. \A k \in owed' : job'[k] = "open"
      BY <1>1 DEF IInv, ReceiversOK
    <2>3. QED
      BY <1>2, <1>3, <2>1, <2>2 DEF IInv, ReceiversOK, sync
  <1>5. RevocationIsRemembered'
    BY <1>2, <1>3, BusUntouched DEF IInv, RevocationIsRemembered, Revoked
  <1>6. QED
    BY <1>2, <1>4, <1>5, BusUntouched DEF IInv

-----------------------------------------------------------------------------
(* The cleanup handler.                                                    *)

(* The event taken is the one that was ahead no longer, and if it is a     *)
(* revocation, the handler works on it.                                    *)
LEMMA CleanupTakesKeeps ==
  ASSUME IInv, CleanupTakes
  PROVE  IInv'
  <1> DEFINE e == NextEvent("cleanup")
  <1>1. /\ cleanup.running /\ cleanup.about = NoDevice /\ Take("cleanup")
        /\ cleanup' = IF e.type = "TrustRevoked" THEN [cleanup EXCEPT !.about = e.about] ELSE cleanup
        /\ UNCHANGED <<job, held, owed>> /\ UNCHANGED sync
    BY DEF CleanupTakes
  <1>2. "cleanup" \in Receivers /\ "autosync" \in Receivers \ {"cleanup"}
    BY DEF Receivers
  <1>3. /\ BusOK' /\ e \in Event /\ ~ Lagging("cleanup")'
        /\ Ahead("cleanup") \subseteq Ahead("cleanup")' \cup {e}
        /\ Ahead("autosync")' = Ahead("autosync") /\ Lagging("autosync")' = Lagging("autosync")
    BY <1>1, <1>2, AheadAfterTake DEF IInv
  <1>4. ~ Lagging("cleanup")
    BY <1>1 DEF Take
  <1>5. e.type = "TrustRevoked" => e.about \in Devices
    BY <1>3 DEF Event
  <1> HIDE DEF e
  <1>6. cleanup \in Cleanup /\ cleanup.todo = {} /\ ~ cleanup.queried
    BY <1>1 DEF IInv, ReceiversOK
  <1>7. /\ cleanup' \in Cleanup /\ cleanup'.todo = {} /\ ~ cleanup'.queried /\ cleanup'.running
        /\ e.type = "TrustRevoked" => cleanup'.about = e.about
    BY <1>1, <1>5, <1>6 DEF Cleanup
  <1>8. ReceiversOK'
    BY <1>1, <1>7 DEF IInv, ReceiversOK, sync
  <1>9. ChangeIsRemembered'
    BY <1>1, <1>3 DEF IInv, ChangeIsRemembered, Changed, sync
  <1>10. RevocationIsRemembered'
    <2> SUFFICES ASSUME NEW j \in owed
                 PROVE  \/ Revoked(PeerOf[j]) \in Ahead("cleanup")'
                        \/ cleanup'.about = PeerOf[j] /\ ~ cleanup'.queried
      BY <1>1 DEF RevocationIsRemembered, Revoked
    <2>1. j \in Jobs /\ PeerOf[j] # cleanup.about
      BY <1>1, EventsAssumption DEF IInv, ReceiversOK
    <2>2. Revoked(PeerOf[j]) \in Ahead("cleanup")
      BY <1>1, <1>4, <1>6, <2>1 DEF IInv, RevocationIsRemembered
    <2>3. CASE e = Revoked(PeerOf[j])
      BY <1>7, <2>3 DEF Revoked
    <2>4. QED
      BY <1>3, <2>2, <2>3
  <1>11. QED
    BY <1>3, <1>8, <1>9, <1>10 DEF IInv

(* The handler leaves its loop.                                            *)
LEMMA CleanupLagsKeeps ==
  ASSUME IInv, CleanupLags
  PROVE  IInv'
  <1>1. /\ cleanup.about = NoDevice /\ Lagging("cleanup") /\ Oldest("cleanup")
        /\ cleanup' = [cleanup EXCEPT !.running = FALSE]
        /\ UNCHANGED <<ring, published>> /\ UNCHANGED <<job, held, owed>> /\ UNCHANGED sync
    BY DEF CleanupLags
  <1>2. "cleanup" \in Receivers /\ "autosync" \in Receivers \ {"cleanup"}
    BY DEF Receivers
  <1>3. BusOK' /\ Ahead("autosync")' = Ahead("autosync") /\ Lagging("autosync")' = Lagging("autosync")
    BY <1>1, <1>2, AheadAfterLag DEF IInv
  <1>4. cleanup \in Cleanup
    BY DEF IInv, ReceiversOK
  <1>5. /\ cleanup' \in Cleanup /\ ~ cleanup'.running /\ cleanup'.about = cleanup.about
        /\ cleanup'.todo = cleanup.todo /\ cleanup'.queried = cleanup.queried
    BY <1>1, <1>4 DEF Cleanup
  <1>6. ReceiversOK'
    BY <1>1, <1>5 DEF IInv, ReceiversOK, sync
  <1>7. ChangeIsRemembered'
    BY <1>1, <1>3 DEF IInv, ChangeIsRemembered, Changed, sync
  <1>8. RevocationIsRemembered'
    BY <1>5 DEF RevocationIsRemembered
  <1>9. QED
    BY <1>3, <1>6, <1>7, <1>8 DEF IInv

(* A job that is owed is open, so that the query finds it.                 *)
LEMMA CleanupQueriesKeeps ==
  ASSUME IInv, CleanupQueries
  PROVE  IInv'
  <1> DEFINE found == {j \in Jobs : PeerOf[j] = cleanup.about /\ job[j] = "open"}
  <1>1. /\ cleanup.about # NoDevice /\ ~ cleanup.queried
        /\ UNCHANGED <<job, held>> /\ UNCHANGED bus /\ UNCHANGED sync
    BY DEF CleanupQueries
  <1>2. cleanup \in Cleanup /\ cleanup.todo = {} /\ cleanup.running
    BY <1>1 DEF IInv, ReceiversOK
  <1>3. \/ cleanup' = [cleanup EXCEPT !.queried = TRUE, !.todo = found] /\ owed' = owed
        \/ /\ cleanup' = [cleanup EXCEPT !.queried = TRUE]
           /\ owed' = owed \ {j \in Jobs : PeerOf[j] = cleanup.about}
    BY DEF CleanupQueries
  <1>4. owed \subseteq Jobs /\ \A j \in owed : job[j] = "open"
    BY DEF IInv, ReceiversOK
  <1>5. /\ cleanup' \in Cleanup /\ cleanup'.queried /\ cleanup'.running = cleanup.running
        /\ cleanup'.about = cleanup.about /\ cleanup'.todo \subseteq found
        /\ \A j \in owed' : PeerOf[j] = cleanup.about => j \in cleanup'.todo
        /\ owed' \subseteq owed
    <2>1. CASE cleanup' = [cleanup EXCEPT !.queried = TRUE, !.todo = found] /\ owed' = owed
      <3>1. cleanup'.todo = found /\ cleanup' \in Cleanup /\ cleanup'.queried
             /\ cleanup'.about = cleanup.about /\ cleanup'.running = cleanup.running
        BY <1>2, <2>1 DEF Cleanup
      <3>2. \A j \in owed : PeerOf[j] = cleanup.about => j \in found
        BY <1>4
      <3>3. QED
        BY <2>1, <3>1, <3>2
    <2>2. CASE /\ cleanup' = [cleanup EXCEPT !.queried = TRUE]
               /\ owed' = owed \ {j \in Jobs : PeerOf[j] = cleanup.about}
      BY <1>2, <1>4, <2>2 DEF Cleanup
    <2>3. QED
      BY <1>3, <2>1, <2>2
  <1>6. ReceiversOK'
    BY <1>1, <1>2, <1>5 DEF IInv, ReceiversOK, sync
  <1>7. RevocationIsRemembered'
    BY <1>1, <1>2, <1>5, BusUntouched DEF IInv, RevocationIsRemembered, Revoked
  <1>8. QED
    BY <1>1, <1>6, <1>7, BusUntouched DEF IInv

LEMMA CleanupCancelsKeeps ==
  ASSUME IInv, NEW j \in Jobs, CleanupCancels(j)
  PROVE  IInv'
  <1>1. /\ j \in cleanup.todo
        /\ cleanup' = [cleanup EXCEPT !.todo = @ \ {j}]
        /\ owed' = owed \ {j}
        /\ job' = [job EXCEPT ![j] = "cancelled"] \/ UNCHANGED job
        /\ UNCHANGED held /\ UNCHANGED bus /\ UNCHANGED sync
    BY DEF CleanupCancels
  <1>2. cleanup \in Cleanup
    BY DEF IInv, ReceiversOK
  <1>3. /\ cleanup' \in Cleanup /\ cleanup'.todo = cleanup.todo \ {j}
        /\ cleanup'.running = cleanup.running /\ cleanup'.about = cleanup.about
        /\ cleanup'.queried = cleanup.queried
    BY <1>1, <1>2 DEF Cleanup
  <1>4. /\ job' \in [Jobs -> {"none", "open", "closed", "cancelled"}]
        /\ \A k \in Jobs \ {j} : job'[k] = job[k]
    BY <1>1 DEF IInv, ReceiversOK
  <1>5. ReceiversOK'
    BY <1>1, <1>3, <1>4 DEF IInv, ReceiversOK, sync
  <1>6. RevocationIsRemembered'
    BY <1>1, <1>3, BusUntouched DEF IInv, RevocationIsRemembered, Revoked
  <1>7. QED
    BY <1>1, <1>5, <1>6, BusUntouched DEF IInv

LEMMA CleanupEndsKeeps ==
  ASSUME IInv, CleanupEnds
  PROVE  IInv'
  <1>1. /\ cleanup.queried /\ cleanup.todo = {} /\ cleanup' = Waiting
        /\ UNCHANGED <<job, held, owed>> /\ UNCHANGED bus /\ UNCHANGED sync
    BY DEF CleanupEnds
  <1>2. cleanup.running
    BY <1>1 DEF IInv, ReceiversOK
  <1>3. ReceiversOK'
    BY <1>1 DEF IInv, ReceiversOK, sync, Waiting, Cleanup
  <1>4. RevocationIsRemembered'
    BY <1>1, <1>2, BusUntouched DEF IInv, RevocationIsRemembered, Revoked
  <1>5. QED
    BY <1>1, <1>3, <1>4, BusUntouched DEF IInv

-----------------------------------------------------------------------------
(* The scheduler.                                                          *)

(* The change taken from the channel is in the map instead.                *)
LEMMA AutoTakesKeeps ==
  ASSUME IInv, AutoTakes
  PROVE  IInv'
  <1> DEFINE e == NextEvent("autosync")
  <1>1. /\ Take("autosync")
        /\ pending' = IF e.type = "LocalIndexChanged"
                      THEN [pending EXCEPT ![e.about] = "fresh"] ELSE pending
        /\ UNCHANGED <<flush, dirty, lost>> /\ UNCHANGED jobs
    BY DEF AutoTakes
  <1>2. "autosync" \in Receivers /\ "cleanup" \in Receivers \ {"autosync"}
    BY DEF Receivers
  <1>3. /\ BusOK' /\ e \in Event
        /\ Ahead("autosync") \subseteq Ahead("autosync")' \cup {e}
        /\ Ahead("cleanup")' = Ahead("cleanup") /\ Lagging("cleanup")' = Lagging("cleanup")
    BY <1>1, <1>2, AheadAfterTake DEF IInv
  <1>4. ~ Lagging("autosync")
    BY <1>1 DEF Take
  <1>5. e.type = "LocalIndexChanged" => e.about \in Shares
    BY <1>3 DEF Event
  <1> HIDE DEF e
  <1>6. /\ pending' \in [Shares -> {"none", "fresh", "due"}]
        /\ \A s \in Shares : /\ pending[s] # "none" => pending'[s] # "none"
                             /\ e = Changed(s) => pending'[s] # "none"
    <2>1. pending \in [Shares -> {"none", "fresh", "due"}]
      BY DEF IInv, ReceiversOK
    <2>2. \A s \in Shares : e = Changed(s) => e.type = "LocalIndexChanged" /\ e.about = s
      BY DEF Changed
    <2>3. QED
      BY <1>1, <1>5, <2>1, <2>2
  <1>7. ReceiversOK'
    BY <1>1, <1>6 DEF IInv, ReceiversOK, jobs
  <1>8. ChangeIsRemembered'
    <2> SUFFICES ASSUME NEW s \in dirty
                 PROVE  s \in lost \/ Changed(s) \in Ahead("autosync")' \/ pending'[s] # "none"
      BY <1>1 DEF ChangeIsRemembered, Changed
    <2>1. s \in Shares
      BY DEF IInv, ReceiversOK
    <2>2. s \in lost \/ Changed(s) \in Ahead("autosync") \/ pending[s] # "none"
      BY <1>4 DEF IInv, ChangeIsRemembered
    <2>3. QED
      BY <1>3, <1>6, <2>1, <2>2
  <1>9. RevocationIsRemembered'
    BY <1>1, <1>3 DEF IInv, RevocationIsRemembered, Revoked, jobs
  <1>10. QED
    BY <1>3, <1>7, <1>8, <1>9 DEF IInv

(* What the scheduler cannot know of any more is lost.                     *)
LEMMA AutoLagsKeeps ==
  ASSUME IInv, AutoLags
  PROVE  IInv'
  <1>1. /\ Lagging("autosync") /\ Oldest("autosync")
        /\ lost' = lost \cup {s \in dirty : ~ Known(s)}
        /\ UNCHANGED <<ring, published>> /\ UNCHANGED <<pending, flush, dirty>> /\ UNCHANGED jobs
    BY DEF AutoLags
  <1>2. "autosync" \in Receivers /\ "cleanup" \in Receivers \ {"autosync"}
    BY DEF Receivers
  <1>3. /\ BusOK' /\ Ahead("autosync")' = Ahead("autosync")
        /\ Ahead("cleanup")' = Ahead("cleanup") /\ Lagging("cleanup")' = Lagging("cleanup")
    BY <1>1, <1>2, AheadAfterLag DEF IInv
  <1>4. ReceiversOK'
    BY <1>1 DEF IInv, ReceiversOK, jobs
  <1>5. ChangeIsRemembered'
    BY <1>1, <1>3 DEF ChangeIsRemembered, Changed, Known
  <1>6. RevocationIsRemembered'
    BY <1>1, <1>3 DEF IInv, RevocationIsRemembered, Revoked, jobs
  <1>7. QED
    BY <1>3, <1>4, <1>5, <1>6 DEF IInv

LEMMA AgeKeeps ==
  ASSUME IInv, NEW s \in Shares, Age(s)
  PROVE  IInv'
  <1>1. /\ pending' = [pending EXCEPT ![s] = "due"]
        /\ UNCHANGED <<flush, dirty, lost>> /\ UNCHANGED jobs /\ UNCHANGED bus
    BY DEF Age
  <1>2. ReceiversOK'
    BY <1>1 DEF IInv, ReceiversOK, jobs
  <1>3. ChangeIsRemembered'
    BY <1>1, BusUntouched DEF IInv, ReceiversOK, ChangeIsRemembered, Changed
  <1>4. RevocationIsRemembered'
    BY <1>1, BusUntouched DEF IInv, RevocationIsRemembered, Revoked, jobs
  <1>5. QED
    BY <1>1, <1>2, <1>3, <1>4, BusUntouched DEF IInv

LEMMA TickKeeps ==
  ASSUME IInv, Tick
  PROVE  IInv'
  <1>1. /\ flush' \subseteq Shares
        /\ UNCHANGED <<pending, dirty, lost>> /\ UNCHANGED jobs /\ UNCHANGED bus
    BY DEF Tick, Due
  <1>2. ReceiversOK'
    BY <1>1 DEF IInv, ReceiversOK, jobs
  <1>3. ChangeIsRemembered'
    BY <1>1, BusUntouched DEF IInv, ChangeIsRemembered, Changed
  <1>4. RevocationIsRemembered'
    BY <1>1, BusUntouched DEF IInv, RevocationIsRemembered, Revoked, jobs
  <1>5. QED
    BY <1>1, <1>2, <1>3, <1>4, BusUntouched DEF IInv

(* Only the entry of s is removed; if s is not synchronised either, it is  *)
(* lost or another change of it is ahead.                                  *)
LEMMA FlushOneKeeps ==
  ASSUME IInv, NEW s \in Shares, FlushOne(s)
  PROVE  IInv'
  <1>1. /\ flush' = flush \ {s} /\ pending' = [pending EXCEPT ![s] = "none"]
        /\ UNCHANGED jobs /\ UNCHANGED bus
    BY DEF FlushOne
  <1>2. \/ dirty' = dirty \ {s} /\ lost' = lost \ {s}
        \/ /\ lost' = lost \cup ({s} \cap {x \in dirty : Changed(x) \notin Ahead("autosync")})
           /\ dirty' = dirty
    BY DEF FlushOne
  <1>3. ReceiversOK'
    <2>1. lost' \subseteq dirty' /\ dirty' \subseteq Shares
      BY <1>2 DEF IInv, ReceiversOK
    <2>2. QED
      BY <1>1, <2>1 DEF IInv, ReceiversOK, jobs
  <1>4. ChangeIsRemembered'
    <2> SUFFICES ASSUME NEW x \in dirty'
                 PROVE  \/ x \in lost'
                        \/ Changed(x) \in Ahead("autosync") \/ Lagging("autosync")
                        \/ pending'[x] # "none"
      BY <1>1, BusUntouched DEF ChangeIsRemembered, Changed
    <2>1. CASE x = s
      BY <1>2, <2>1
    <2>2. CASE x # s
      <3>1. x \in dirty /\ (x \in lost => x \in lost') /\ pending'[x] = pending[x]
        BY <1>1, <1>2, <2>2 DEF IInv, ReceiversOK
      <3>2. QED
        BY <3>1 DEF IInv, ChangeIsRemembered
    <2>3. QED
      BY <2>1, <2>2
  <1>5. RevocationIsRemembered'
    BY <1>1, BusUntouched DEF IInv, RevocationIsRemembered, Revoked, jobs
  <1>6. QED
    BY <1>1, <1>3, <1>4, <1>5, BusUntouched DEF IInv

-----------------------------------------------------------------------------
(* The program ends: nothing is owed any more, and every change that was   *)
(* not synchronised is lost.                                               *)
LEMMA CrashKeeps ==
  ASSUME IInv, Crash
  PROVE  IInv'
  <1>1. /\ ring' = <<>> /\ unread' = [r \in Receivers |-> 0] /\ published' = 0
        /\ cleanup' = Waiting /\ held' = {}
        /\ pending' = [s \in Shares |-> "none"] /\ flush' = {}
        /\ lost' = dirty /\ owed' = {} /\ dirty' = dirty
    BY DEF Crash
  <1>2. job' \in [Jobs -> {"none", "open", "closed", "cancelled"}]
    BY DEF Crash, IInv, ReceiversOK
  <1>3. BusOK'
    BY <1>1, EventsAssumption DEF BusOK, LagInv, Lagging
  <1>4. ReceiversOK'
    BY <1>1, <1>2 DEF IInv, ReceiversOK, Waiting, Cleanup
  <1>5. ChangeIsRemembered' /\ RevocationIsRemembered'
    BY <1>1 DEF ChangeIsRemembered, RevocationIsRemembered
  <1>6. QED
    BY <1>3, <1>4, <1>5 DEF IInv

-----------------------------------------------------------------------------
LEMMA InitEstablishes == Init => IInv
  <1> SUFFICES ASSUME Init
               PROVE  IInv
    OBVIOUS
  <1>1. BusOK
    BY EventsAssumption DEF Init, BusOK, LagInv, Lagging
  <1>2. ReceiversOK
    BY DEF Init, ReceiversOK, Waiting, Cleanup
  <1>3. ChangeIsRemembered /\ RevocationIsRemembered
    BY DEF Init, ChangeIsRemembered, RevocationIsRemembered
  <1>4. QED
    BY <1>1, <1>2, <1>3 DEF IInv

LEMMA StepPreserves == IInv /\ [Next]_vars => IInv'
  <1> SUFFICES ASSUME IInv, [Next]_vars
               PROVE  IInv'
    OBVIOUS
  <1>1. CASE \E s \in Shares : PublishChange(s) \/ Age(s)
    BY <1>1, PublishChangeKeeps, AgeKeeps
  <1>2. CASE \E d \in Devices : PublishRevoked(d)
    BY <1>2, PublishRevokedKeeps
  <1>3. CASE PublishOther
    BY <1>3, PublishOtherKeeps
  <1>4. CASE \E j \in Jobs : JobLoaded(j) \/ JobSaved(j)
    BY <1>4, JobLoadedKeeps, JobSavedKeeps
  <1>5. CASE CleanupStep
    BY <1>5, CleanupTakesKeeps, CleanupLagsKeeps, CleanupQueriesKeeps, CleanupEndsKeeps,
       CleanupCancelsKeeps DEF CleanupStep
  <1>6. CASE SchedulerStep
    BY <1>6, AutoTakesKeeps, AutoLagsKeeps, TickKeeps, FlushOneKeeps DEF SchedulerStep
  <1>7. CASE Crash
    BY <1>7, CrashKeeps
  <1>8. CASE UNCHANGED vars
    <2>1. UNCHANGED bus /\ UNCHANGED jobs /\ UNCHANGED sync
      BY <1>8 DEF vars, bus, jobs, sync
    <2>2. ReceiversOK'
      BY <2>1 DEF IInv, ReceiversOK, jobs, sync
    <2>3. RevocationIsRemembered'
      BY <2>1, BusUntouched DEF IInv, RevocationIsRemembered, Revoked, jobs
    <2>4. QED
      BY <2>1, <2>2, <2>3, BusUntouched DEF IInv
  <1>9. QED
    BY <1>1, <1>2, <1>3, <1>4, <1>5, <1>6, <1>7, <1>8 DEF Next

LEMMA Invariance == Spec => []IInv
  <1>1. Init => IInv
    BY InitEstablishes
  <1>2. IInv /\ [Next]_vars => IInv'
    BY StepPreserves
  <1>3. QED
    BY <1>1, <1>2, PTL DEF Spec

-----------------------------------------------------------------------------
(* The channel never keeps more than its capacity, no receiver waits for   *)
(* more than it keeps without being told Lagged, and the receivers and the *)
(* jobs have their types.                                                  *)
THEOREM TypeCorrect == Spec => []TypeOK
  <1>1. IInv => TypeOK
    BY DEF IInv, BusOK, ReceiversOK, TypeOK
  <1>2. QED
    BY <1>1, Invariance, PTL

(* However the events of all services are interleaved with the ticks and   *)
(* flushes of the scheduler, a share whose files changed is in its map or  *)
(* ahead of it, unless the channel overwrote the event, a query failed or  *)
(* the program ended.                                                      *)
THEOREM ChangeTheorem == Spec => []ChangeIsRemembered
  <1>1. IInv => ChangeIsRemembered
    BY DEF IInv
  <1>2. QED
    BY <1>1, Invariance, PTL

(* However services load and save jobs while the handler works, a job that *)
(* was open at the revocation of its peer is cancelled or closed, or the   *)
(* handler still knows of it; the ways out are a database error, the end   *)
(* of the program, and a handler that has left its loop.                   *)
THEOREM RevocationTheorem == Spec => []RevocationIsRemembered
  <1>1. IInv => RevocationIsRemembered
    BY DEF IInv
  <1>2. QED
    BY <1>1, Invariance, PTL
-----------------------------------------------------------------------------
(* The list of the user interface (TransferList), behind the bridge.       *)

BridgeEvent == [type : {"requested", "progress"} \cup Outcomes, job : Transfers]

(* Of the events of a job that are on their way, the request is the first  *)
(* and an outcome the last: the task has ended with it.                    *)
InOrder(j) ==
  \A i \in DOMAIN bridge : bridge[i].job = j =>
    /\ task[j].pc # "none"
    /\ bridge[i].type = "requested" =>
         \A k \in DOMAIN bridge : bridge[k].job = j => i <= k
    /\ bridge[i].type \in Outcomes =>
         /\ task[j].pc = "ended"
         /\ \A k \in DOMAIN bridge : bridge[k].job = j => k <= i

(* After the outcome of a job nothing of it is on its way.                 *)
NothingAfter(j) ==
  told[j] # "none" => /\ task[j].pc = "ended"
                      /\ \A i \in DOMAIN bridge : bridge[i].job # j

(* A job that is sent is listed, or will be by its request.                *)
WillBeListed(j) ==
  task[j].pc # "none" /\ j \notin skipped =>
    \/ Listed(j)
    \/ \E i \in DOMAIN bridge : bridge[i].job = j /\ bridge[i].type = "requested"

(* OutcomeIsShown without CHOOSE.                                          *)
Shown(j) ==
  told[j] # "none" /\ j \notin skipped =>
    \E i \in DOMAIN list :
      /\ list[i].job = j /\ list[i].state = told[j]
      /\ \A k \in DOMAIN list : list[k].job = j => i <= k

TransferInv(j) == InOrder(j) /\ NothingAfter(j) /\ WillBeListed(j) /\ Shown(j)

ListInv == ListTypeOK /\ \A j \in Transfers : TransferInv(j)

-----------------------------------------------------------------------------
(* Every set of numbers has a least one, because the sets of those below   *)
(* each of them are finite.                                                *)
LEMMA LeastNumber ==
  ASSUME NEW S \in SUBSET Nat, S # {}
  PROVE  \E m \in S : \A k \in S : m <= k
  <1> DEFINE Below == {0..m : m \in S}
  <1>1. Below \subseteq FiniteSubsetsOf(Nat) /\ Below # {}
    <2>1. ASSUME NEW m \in S
          PROVE  IsFiniteSet(0..m) /\ 0..m \subseteq Nat
      BY FS_Interval
    <2>2. QED
      BY <2>1 DEF FiniteSubsetsOf
  <1> HIDE DEF Below
  <1>2. PICK B \in Below : \A C \in Below : ~ (<<C, B>> \in StrictSubsetOrdering(Nat))
    BY <1>1, FS_StrictSubsetOrderingWellFounded, WFMin
  <1>3. PICK m \in S : B = 0..m
    BY <1>2 DEF Below
  <1>4. ASSUME NEW k \in S, ~ (m <= k)
        PROVE  FALSE
    <2>1. 0..k \in Below
      BY DEF Below
    <2>2. 0..k \subseteq 0..m /\ 0..k # 0..m
      <3>1. m \in 0..m /\ m \notin 0..k
        BY <1>4
      <3>2. QED
        BY <3>1, <1>4
    <2>3. <<0..k, 0..m>> \in StrictSubsetOrdering(Nat)
      BY <2>2 DEF StrictSubsetOrdering
    <2>4. QED
      BY <1>2, <1>3, <2>1, <2>3
  <1>5. QED
    BY <1>4

(* First finds the first entry of a job that is listed.                    *)
LEMMA FirstIsLeast ==
  ASSUME list \in Seq(Entry), NEW j, Listed(j)
  PROVE  /\ First(j) \in DOMAIN list /\ list[First(j)].job = j
         /\ \A k \in DOMAIN list : list[k].job = j => First(j) <= k
  <1> DEFINE Of == {i \in DOMAIN list : list[i].job = j}
  <1>1. Of \in SUBSET Nat /\ Of # {}
    BY DEF Listed
  <1>2. \E i \in Of : \A k \in Of : i <= k
    BY <1>1, LeastNumber
  <1>3. QED
    BY <1>2 DEF First

(* Changing the state of the first entry of a job moves no entry.          *)
LEMMA StateChanged ==
  ASSUME list \in Seq(Entry), NEW j, Listed(j),
         NEW s, [job |-> j, state |-> s] \in Entry,
         list' = [list EXCEPT ![First(j)].state = s]
  PROVE  /\ list' \in Seq(Entry) /\ DOMAIN list' = DOMAIN list
         /\ \A i \in DOMAIN list : list'[i].job = list[i].job
         /\ \A i \in DOMAIN list : i # First(j) => list'[i] = list[i]
         /\ list'[First(j)].state = s
  <1>1. First(j) \in DOMAIN list /\ list[First(j)].job = j
    BY FirstIsLeast
  <1>2. list[First(j)] \in Entry
    BY <1>1
  <1>3. /\ [list[First(j)] EXCEPT !.state = s] \in Entry
        /\ [list[First(j)] EXCEPT !.state = s].job = j
        /\ [list[First(j)] EXCEPT !.state = s].state = s
    BY <1>1, <1>2 DEF Entry
  <1> DEFINE e == [list[First(j)] EXCEPT !.state = s]
  <1>4. list' = [list EXCEPT ![First(j)] = e]
    OBVIOUS
  <1>5. e \in Entry /\ e.job = j /\ e.state = s
    BY <1>3
  <1>6. First(j) \in 1..Len(list) /\ DOMAIN list = 1..Len(list)
    BY <1>1
  <1> HIDE DEF e
  <1>7. /\ list' \in Seq(Entry) /\ Len(list') = Len(list)
        /\ \A i \in 1..Len(list) : list'[i] = IF i = First(j) THEN e ELSE list[i]
    BY <1>4, <1>5, <1>6, ExceptSeq
  <1>8. QED
    BY <1>1, <1>5, <1>6, <1>7

-----------------------------------------------------------------------------
(* Publishing.                                                             *)

(* An event that is published comes after all others.                      *)
LEMMA AfterPublish ==
  ASSUME bridge \in Seq(BridgeEvent), NEW type, NEW j, [type |-> type, job |-> j] \in BridgeEvent,
         Emit(type, j)
  PROVE  /\ bridge' \in Seq(BridgeEvent) /\ Len(bridge) \in Nat
         /\ DOMAIN bridge = 1..Len(bridge) /\ DOMAIN bridge' = 1..Len(bridge) + 1
         /\ \A i \in DOMAIN bridge : bridge'[i] = bridge[i]
         /\ bridge'[Len(bridge) + 1].type = type /\ bridge'[Len(bridge) + 1].job = j
  BY DEF Emit

(* Publishing an event of another job changes nothing of j.                *)
LEMMA OthersPublish ==
  ASSUME bridge \in Seq(BridgeEvent), NEW type, NEW d, [type |-> type, job |-> d] \in BridgeEvent,
         Emit(type, d), UNCHANGED <<list, told, skipped>>,
         NEW j \in Transfers \ {d}, TransferInv(j), task'[j] = task[j]
  PROVE  TransferInv(j)'
  <1>1. InOrder(j)'
    BY AfterPublish DEF TransferInv, InOrder
  <1>2. NothingAfter(j)'
    BY AfterPublish DEF TransferInv, NothingAfter
  <1>3. WillBeListed(j)'
    BY AfterPublish DEF TransferInv, WillBeListed, Listed
  <1>4. Shown(j)'
    BY DEF TransferInv, Shown
  <1>5. QED
    BY <1>1, <1>2, <1>3, <1>4 DEF TransferInv

(* send_files publishes the first event of its job.                        *)
LEMMA SendFilesKeeps ==
  ASSUME ListInv, NEW d \in Transfers, SendFiles(d)
  PROVE  ListInv'
  <1>1. bridge \in Seq(BridgeEvent) /\ [type |-> "requested", job |-> d] \in BridgeEvent
    BY DEF ListInv, ListTypeOK, BridgeEvent
  <1>2. Emit("requested", d) /\ UNCHANGED <<list, told, skipped>>
    BY DEF SendFiles
  <1>3. task[d].pc = "none" /\ task' \in [Transfers -> Task] /\ task'[d].pc = "running"
        /\ \A j \in Transfers \ {d} : task'[j] = task[j]
    BY DEF SendFiles, ListInv, ListTypeOK, Task
  <1>4. ListTypeOK'
    <2>1. bridge' \in Seq(BridgeEvent)
      BY <1>1, <1>2, AfterPublish
    <2>2. QED
      BY <1>3, <2>1 DEF SendFiles, ListInv, ListTypeOK, BridgeEvent
  <1>5. TransferInv(d)'
    <2>1. \A i \in DOMAIN bridge : bridge[i].job # d
      BY <1>3 DEF ListInv, TransferInv, InOrder
    <2>2. told'[d] = "none"
      BY <1>2, <1>3 DEF ListInv, TransferInv, NothingAfter
    <2>3. InOrder(d)'
      BY <1>1, <1>2, <1>3, <2>1, AfterPublish DEF InOrder, Outcomes
    <2>4. WillBeListed(d)'
      BY <1>1, <1>2, AfterPublish DEF WillBeListed
    <2>5. QED
      BY <2>2, <2>3, <2>4 DEF TransferInv, NothingAfter, Shown
  <1>6. ASSUME NEW j \in Transfers \ {d}
        PROVE  TransferInv(j)'
    BY <1>1, <1>2, <1>3, OthersPublish DEF ListInv
  <1>7. QED
    BY <1>4, <1>5, <1>6 DEF ListInv

(* The task of a job publishes while it runs, and an outcome when it ends. *)
LEMMA TaskStepKeeps ==
  ASSUME ListInv, NEW d \in Transfers,
         TaskProgress(d) \/ \E outcome \in Outcomes : TaskEnds(d, outcome)
  PROVE  ListInv'
  <1>0. task[d] \in Task
    BY DEF ListInv, ListTypeOK
  <1>1. PICK type \in {"progress"} \cup Outcomes :
          /\ Emit(type, d)
          /\ task' \in [Transfers -> Task]
          /\ task'[d].pc = IF type = "progress" THEN "running" ELSE "ended"
    <2>1. CASE TaskProgress(d)
      <3>1. task[d].progress + 1 \in 0..MaxProgress
        BY <1>0, <2>1, ListAssumption DEF TaskProgress, Task
      <3>2. task' \in [Transfers -> Task] /\ task'[d].pc = "running"
        BY <1>0, <2>1, <3>1 DEF TaskProgress, Task, ListInv, ListTypeOK
      <3>3. QED
        BY <2>1, <3>2 DEF TaskProgress
    <2>2. CASE \E outcome \in Outcomes : TaskEnds(d, outcome)
      <3>1. PICK outcome \in Outcomes : TaskEnds(d, outcome)
        BY <2>2
      <3>2. task' \in [Transfers -> Task] /\ task'[d].pc = "ended"
        BY <1>0, <3>1 DEF TaskEnds, Task, ListInv, ListTypeOK
      <3>3. QED
        BY <3>1, <3>2 DEF TaskEnds, Outcomes
    <2>3. QED
      BY <2>1, <2>2
  <1>2. bridge \in Seq(BridgeEvent) /\ [type |-> type, job |-> d] \in BridgeEvent
    BY DEF ListInv, ListTypeOK, BridgeEvent
  <1>3. /\ task[d].pc = "running" /\ UNCHANGED <<list, answers, calls, told, skipped>>
        /\ \A j \in Transfers \ {d} : task'[j] = task[j]
    BY DEF TaskProgress, TaskEnds, ListInv, ListTypeOK
  <1>4. ListTypeOK'
    <2>1. bridge' \in Seq(BridgeEvent)
      BY <1>1, <1>2, AfterPublish
    <2>2. QED
      BY <1>1, <1>3, <2>1 DEF ListInv, ListTypeOK, BridgeEvent
  <1>5. TransferInv(d)'
    <2>1. told'[d] = "none"
      BY <1>3 DEF ListInv, TransferInv, NothingAfter
    <2>2. \A i \in DOMAIN bridge : bridge[i].job = d => bridge[i].type \notin Outcomes
      BY <1>3 DEF ListInv, TransferInv, InOrder
    <2>3. InOrder(d)'
      BY <1>1, <1>2, <2>2, AfterPublish DEF ListInv, TransferInv, InOrder, Outcomes
    <2>4. WillBeListed(d)'
      BY <1>1, <1>2, <1>3, AfterPublish DEF ListInv, TransferInv, WillBeListed, Listed
    <2>5. QED
      BY <2>1, <2>3, <2>4 DEF TransferInv, NothingAfter, Shown
  <1>6. ASSUME NEW j \in Transfers \ {d}
        PROVE  TransferInv(j)'
    BY <1>1, <1>2, <1>3, OthersPublish DEF ListInv
  <1>7. QED
    BY <1>4, <1>5, <1>6 DEF ListInv

(* A task that ends with an error publishes nothing.                       *)
LEMMA TaskErrorsKeeps ==
  ASSUME ListInv, NEW d \in Transfers, TaskErrors(d)
  PROVE  ListInv'
  <1>1. /\ task' \in [Transfers -> Task]
        /\ task[d].pc = "running" /\ task'[d].pc = "ended"
        /\ \A j \in Transfers \ {d} : task'[j] = task[j]
    BY DEF TaskErrors, ListInv, ListTypeOK, Task
  <1>2. UNCHANGED <<list, bridge, answers, calls, told, skipped>>
    BY DEF TaskErrors
  <1>3. ListTypeOK'
    BY <1>1, <1>2 DEF ListInv, ListTypeOK
  <1>4. ASSUME NEW j \in Transfers
        PROVE  TransferInv(j)'
    <2>1. task'[j].pc # "none" <=> task[j].pc # "none"
      BY <1>1
    <2>2. task[j].pc = "ended" => task'[j].pc = "ended"
      BY <1>1
    <2>3. InOrder(j)'
      BY <1>2, <2>1, <2>2 DEF ListInv, TransferInv, InOrder
    <2>4. NothingAfter(j)' /\ WillBeListed(j)' /\ Shown(j)'
      BY <1>2, <2>1, <2>2 DEF ListInv, TransferInv, NothingAfter, WillBeListed, Listed, Shown
    <2>5. QED
      BY <2>3, <2>4 DEF TransferInv
  <1>5. QED
    BY <1>3, <1>4 DEF ListInv

-----------------------------------------------------------------------------
(* What an event does on the bridge when it is taken from it.              *)
LEMMA AfterTaking ==
  ASSUME bridge \in Seq(BridgeEvent), bridge # <<>>, bridge' = Tail(bridge)
  PROVE  /\ bridge' \in Seq(BridgeEvent) /\ Head(bridge) \in BridgeEvent /\ Head(bridge) = bridge[1]
         /\ Len(bridge) \in Nat /\ 1 \in DOMAIN bridge
         /\ DOMAIN bridge = 1..Len(bridge) /\ DOMAIN bridge' = 1..Len(bridge) - 1
         /\ \A i \in DOMAIN bridge' : i + 1 \in DOMAIN bridge /\ bridge'[i] = bridge[i + 1]
         /\ \A i \in DOMAIN bridge : i = 1 \/ (i - 1 \in DOMAIN bridge' /\ bridge'[i - 1] = bridge[i])
  BY HeadTailProperties

(* The events that remain are in order.                                    *)
LEMMA OrderAfterTaking ==
  ASSUME bridge \in Seq(BridgeEvent), bridge # <<>>, bridge' = Tail(bridge), UNCHANGED task,
         NEW j \in Transfers, InOrder(j)
  PROVE  InOrder(j)'
  <1> SUFFICES ASSUME NEW i \in DOMAIN bridge', bridge'[i].job = j
               PROVE  /\ task[j].pc # "none"
                      /\ bridge'[i].type = "requested" =>
                           \A k \in DOMAIN bridge' : bridge'[k].job = j => i <= k
                      /\ bridge'[i].type \in Outcomes =>
                           /\ task[j].pc = "ended"
                           /\ \A k \in DOMAIN bridge' : bridge'[k].job = j => k <= i
    BY DEF InOrder
  <1>1. i + 1 \in DOMAIN bridge /\ bridge'[i] = bridge[i + 1]
    BY AfterTaking
  <1>2. ASSUME NEW k \in DOMAIN bridge', bridge'[k].job = j
        PROVE  k + 1 \in DOMAIN bridge /\ bridge[k + 1].job = j /\ k \in Int /\ i \in Int
    BY <1>2, AfterTaking
  <1>3. QED
    BY <1>1, <1>2 DEF InOrder

(* A request that is taken from the bridge is the only one that may leave  *)
(* its job unlisted.                                                       *)
LEMMA ListedAfterTaking ==
  ASSUME bridge \in Seq(BridgeEvent), bridge # <<>>, bridge' = Tail(bridge),
         UNCHANGED <<task, skipped>>,
         NEW j \in Transfers, TransferInv(j), bridge[1].type # "requested",
         DOMAIN list' = DOMAIN list, \A i \in DOMAIN list : list'[i].job = list[i].job
  PROVE  WillBeListed(j)'
  <1> SUFFICES ASSUME task[j].pc # "none", j \notin skipped, ~ Listed(j)'
               PROVE  \E i \in DOMAIN bridge' :
                        bridge'[i].job = j /\ bridge'[i].type = "requested"
    BY DEF WillBeListed
  <1>1. ~ Listed(j)
    BY DEF Listed
  <1>2. PICK i \in DOMAIN bridge : bridge[i].job = j /\ bridge[i].type = "requested"
    BY <1>1 DEF TransferInv, WillBeListed
  <1>3. i # 1
    BY <1>2
  <1>4. QED
    BY <1>2, <1>3, AfterTaking

(* The bridge skips an event: a request that is skipped is remembered.     *)
LEMMA BridgeSkipsKeeps ==
  ASSUME ListInv, BridgeSkips
  PROVE  ListInv'
  <1>1. bridge \in Seq(BridgeEvent) /\ bridge # <<>> /\ bridge' = Tail(bridge)
        /\ UNCHANGED <<list, task, answers, calls, told>>
    BY DEF ListInv, ListTypeOK, BridgeEvent, BridgeSkips
  <1>2. skipped \subseteq skipped'
        /\ (Head(bridge).type = "requested" => Head(bridge).job \in skipped')
    BY DEF BridgeSkips
  <1>3. ListTypeOK'
    <2>1. bridge' \in Seq(BridgeEvent) /\ Head(bridge).job \in Transfers
      BY <1>1, AfterTaking DEF BridgeEvent
    <2>2. QED
      BY <1>1, <2>1 DEF BridgeSkips, ListInv, ListTypeOK, BridgeEvent
  <1>4. ASSUME NEW j \in Transfers
        PROVE  TransferInv(j)'
    <2>1. InOrder(j)'
      BY <1>1, OrderAfterTaking DEF ListInv, TransferInv
    <2>2. NothingAfter(j)'
      BY <1>1, AfterTaking DEF ListInv, TransferInv, NothingAfter
    <2>3. WillBeListed(j)'
      <3> SUFFICES ASSUME task[j].pc # "none", j \notin skipped', ~ Listed(j)
                   PROVE  \E i \in DOMAIN bridge' :
                            bridge'[i].job = j /\ bridge'[i].type = "requested"
        BY <1>1 DEF WillBeListed, Listed
      <3>1. PICK i \in DOMAIN bridge : bridge[i].job = j /\ bridge[i].type = "requested"
        BY <1>2 DEF ListInv, TransferInv, WillBeListed
      <3>2. i # 1
        BY <1>1, <1>2, <3>1, AfterTaking
      <3>3. QED
        BY <1>1, <3>1, <3>2, AfterTaking
    <2>4. Shown(j)'
      BY <1>1, <1>2 DEF ListInv, TransferInv, Shown
    <2>5. QED
      BY <2>1, <2>2, <2>3, <2>4 DEF TransferInv
  <1>5. QED
    BY <1>3, <1>4 DEF ListInv

-----------------------------------------------------------------------------
(* The entries of the list.                                                *)

(* A list in which the first entry of j shows the same as before.          *)
LEMMA ShownKept ==
  ASSUME NEW j \in Transfers, TransferInv(j), UNCHANGED <<told, skipped>>,
         NEW shift \in {0, 1}, list \in Seq(Entry), list' \in Seq(Entry),
         \A i \in DOMAIN list :
           /\ i + shift \in DOMAIN list'
           /\ list'[i + shift].job = list[i].job
           /\ list[i].job = j => list'[i + shift] = list[i],
         \A k \in DOMAIN list' : list'[k].job = j =>
           \/ k - shift \in DOMAIN list
           \/ \A i \in DOMAIN list : i + shift <= k
  PROVE  Shown(j)'
  <1> SUFFICES ASSUME told[j] # "none", j \notin skipped
               PROVE  \E i \in DOMAIN list' :
                        /\ list'[i].job = j /\ list'[i].state = told[j]
                        /\ \A k \in DOMAIN list' : list'[k].job = j => i <= k
    BY DEF Shown
  <1>1. PICK i \in DOMAIN list :
          /\ list[i].job = j /\ list[i].state = told[j]
          /\ \A k \in DOMAIN list : list[k].job = j => i <= k
    BY DEF TransferInv, Shown
  <1>2. i \in Nat /\ DOMAIN list = 1..Len(list) /\ DOMAIN list' = 1..Len(list')
    OBVIOUS
  <1>3. ASSUME NEW k \in DOMAIN list', list'[k].job = j
        PROVE  i + shift <= k
    <2>1. CASE k - shift \in DOMAIN list
      <3>1. list[k - shift].job = j
        BY <1>2, <1>3, <2>1
      <3>2. QED
        BY <1>1, <1>2, <2>1, <3>1
    <2>2. CASE \A m \in DOMAIN list : m + shift <= k
      BY <2>2
    <2>3. QED
      BY <1>3, <2>1, <2>2
  <1>4. QED
    BY <1>1, <1>3

(* Who is listed stays listed.                                             *)
LEMMA ListedKept ==
  ASSUME NEW j \in Transfers, TransferInv(j), UNCHANGED <<task, skipped, bridge>>,
         \A i \in DOMAIN list : \E k \in DOMAIN list' : list'[k].job = list[i].job
  PROVE  InOrder(j)' /\ WillBeListed(j)'
  BY DEF TransferInv, InOrder, WillBeListed, Listed

(* An entry at the end of the list comes after those that are shown.       *)
LEMMA SendAnsweredKeeps ==
  ASSUME ListInv, NEW d \in Transfers, SendAnswered(d)
  PROVE  ListInv'
  <1>1. list \in Seq(Entry) /\ list' = Append(list, NewEntry(d)) /\ NewEntry(d) \in Entry
        /\ UNCHANGED <<task, bridge, calls, told, skipped>>
    BY DEF SendAnswered, NewEntry, Entry, ListInv, ListTypeOK
  <1>2. /\ list' \in Seq(Entry) /\ Len(list) \in Nat
        /\ DOMAIN list = 1..Len(list) /\ DOMAIN list' = 1..Len(list) + 1
        /\ \A i \in 1..Len(list) : list'[i] = list[i]
    BY <1>1
  <1>3. ListTypeOK'
    BY <1>1, <1>2 DEF SendAnswered, ListInv, ListTypeOK
  <1>4. ASSUME NEW j \in Transfers
        PROVE  TransferInv(j)'
    <2>1. Shown(j)'
      <3>1. \A k \in DOMAIN list' : k - 0 \in DOMAIN list \/ \A i \in DOMAIN list : i + 0 <= k
        BY <1>2
      <3>2. \A i \in DOMAIN list : i + 0 \in DOMAIN list' /\ list'[i + 0] = list[i]
        BY <1>2
      <3>3. QED
        BY <1>1, <1>2, <3>1, <3>2, ShownKept DEF ListInv
    <2>2. InOrder(j)' /\ WillBeListed(j)'
      BY <1>1, <1>2, ListedKept DEF ListInv
    <2>3. NothingAfter(j)'
      BY <1>1 DEF ListInv, TransferInv, NothingAfter
    <2>4. QED
      BY <2>1, <2>2, <2>3 DEF TransferInv
  <1>5. QED
    BY <1>3, <1>4 DEF ListInv

(* The state of the first entry of d changes: who is listed does not, and  *)
(* other jobs are shown as before.                                         *)
LEMMA EntryChanges ==
  ASSUME ListInv, NEW d \in Transfers, NEW s, [job |-> d, state |-> s] \in Entry, SetState(d, s)
  PROVE  /\ list' \in Seq(Entry) /\ DOMAIN list' = DOMAIN list
         /\ \A i \in DOMAIN list : list'[i].job = list[i].job
         /\ \A i \in DOMAIN list : list[i].job # d => list'[i] = list[i]
         /\ Listed(d) => /\ First(d) \in DOMAIN list
                         /\ list'[First(d)].state = s /\ list'[First(d)].job = d
                         /\ \A k \in DOMAIN list' : list'[k].job = d => First(d) <= k
  <1>1. list \in Seq(Entry)
    BY DEF ListInv, ListTypeOK
  <1>2. CASE Listed(d)
    <2>1. list' = [list EXCEPT ![First(d)].state = s]
      BY <1>2 DEF SetState
    <2>2. First(d) \in DOMAIN list /\ list[First(d)].job = d
          /\ \A k \in DOMAIN list : list[k].job = d => First(d) <= k
      BY <1>1, <1>2, FirstIsLeast
    <2>3. /\ list' \in Seq(Entry) /\ DOMAIN list' = DOMAIN list
          /\ \A i \in DOMAIN list : list'[i].job = list[i].job
          /\ \A i \in DOMAIN list : i # First(d) => list'[i] = list[i]
          /\ list'[First(d)].state = s
      BY <1>1, <1>2, <2>1, StateChanged
    <2>4. QED
      BY <2>2, <2>3
  <1>3. CASE ~ Listed(d)
    BY <1>1, <1>3 DEF SetState
  <1>4. QED
    BY <1>2, <1>3

(* The other jobs are shown as before when the first entry of d changes.   *)
LEMMA OthersShown ==
  ASSUME ListInv, NEW d \in Transfers, list' \in Seq(Entry), DOMAIN list' = DOMAIN list,
         \A i \in DOMAIN list : list'[i].job = list[i].job,
         \A i \in DOMAIN list : list[i].job # d => list'[i] = list[i],
         NEW j \in Transfers \ {d}, told'[j] = told[j], UNCHANGED skipped
  PROVE  Shown(j)'
  BY DEF ListInv, TransferInv, Shown

(* A command that is answered changes the entry, and no outcome is told    *)
(* last any more.                                                          *)
LEMMA AnsweredKeeps ==
  ASSUME ListInv, NEW call \in Command, Answered(call)
  PROVE  ListInv'
  <1>1. call.op \in Ops /\ call.job \in Transfers
        /\ calls' \in [Command -> 0..MaxCalls]
        /\ UNCHANGED <<task, bridge, answers, skipped>>
    <2>1. call.op \in Ops /\ call.job \in Transfers
      BY DEF Command
    <2>2. calls[call] \in 0..MaxCalls /\ calls[call] > 0
      BY DEF Answered, ListInv, ListTypeOK
    <2>3. calls[call] - 1 \in 0..MaxCalls
      BY <2>2, ListAssumption
    <2>4. QED
      BY <2>1, <2>3 DEF Answered, ListInv, ListTypeOK
  <1>2. CASE UNCHANGED <<list, told>>
    BY <1>1, <1>2 DEF ListInv, ListTypeOK, TransferInv, InOrder, NothingAfter, WillBeListed, Listed, Shown
  <1>3. CASE SetState(call.job, StateAfter(call.op)) /\ told' = [told EXCEPT ![call.job] = "none"]
    <2>1. [job |-> call.job, state |-> StateAfter(call.op)] \in Entry
      BY <1>1 DEF StateAfter, Ops, Entry
    <2>2. /\ list' \in Seq(Entry) /\ DOMAIN list' = DOMAIN list
          /\ \A i \in DOMAIN list : list'[i].job = list[i].job
          /\ \A i \in DOMAIN list : list[i].job # call.job => list'[i] = list[i]
      BY <1>1, <1>3, <2>1, EntryChanges
    <2>3. told' \in [Transfers -> Outcomes \cup {"none"}] /\ told'[call.job] = "none"
          /\ \A j \in Transfers \ {call.job} : told'[j] = told[j]
      BY <1>1, <1>3 DEF ListInv, ListTypeOK
    <2>4. ListTypeOK'
      BY <1>1, <2>2, <2>3 DEF ListInv, ListTypeOK
    <2>5. ASSUME NEW j \in Transfers
          PROVE  TransferInv(j)'
      <3>1. InOrder(j)' /\ WillBeListed(j)'
        BY <1>1, <2>2, ListedKept DEF ListInv
      <3>2. NothingAfter(j)'
        BY <1>1, <2>3 DEF ListInv, TransferInv, NothingAfter
      <3>3. Shown(j)'
        <4>1. CASE j = call.job
          BY <2>3, <4>1 DEF Shown
        <4>2. CASE j # call.job
          BY <1>1, <2>2, <2>3, <4>2, OthersShown
        <4>3. QED
          BY <4>1, <4>2
      <3>4. QED
        BY <3>1, <3>2, <3>3 DEF TransferInv
    <2>6. QED
      BY <2>4, <2>5 DEF ListInv
  <1>4. QED
    BY <1>2, <1>3 DEF Answered

-----------------------------------------------------------------------------
(* The listener.                                                           *)

(* A request is entered at the top: the others move down together, and of  *)
(* its own job no outcome was told yet.                                    *)
LEMMA RequestedKeeps ==
  ASSUME ListInv, Deliver, Head(bridge).type = "requested", OnRequested(Head(bridge).job),
         UNCHANGED told
  PROVE  ListInv'
  <1> DEFINE d == Head(bridge).job
  <1>1. bridge \in Seq(BridgeEvent) /\ bridge # <<>> /\ bridge' = Tail(bridge)
        /\ UNCHANGED <<task, answers, calls, skipped>> /\ list \in Seq(Entry)
    BY DEF ListInv, ListTypeOK, BridgeEvent, Deliver
  <1>2. d \in Transfers /\ bridge[1].job = d /\ 1 \in DOMAIN bridge
    BY <1>1, AfterTaking DEF BridgeEvent
  <1>3. told[d] = "none"
    BY <1>2 DEF ListInv, TransferInv, NothingAfter
  <1> HIDE DEF d
  <1>4. PICK shift \in {0, 1} :
          /\ list' \in Seq(Entry)
          /\ \A i \in DOMAIN list : i + shift \in DOMAIN list' /\ list'[i + shift] = list[i]
          /\ \A k \in DOMAIN list' : list'[k].job = d \/ k - shift \in DOMAIN list
          /\ \E k \in DOMAIN list' : list'[k].job = d
    <2>1. CASE Listed(d)
      <3>1. list' = list
        BY <2>1 DEF OnRequested, d
      <3>2. QED
        BY <1>1, <2>1, <3>1 DEF Listed
    <2>2. CASE ~ Listed(d)
      <3>1. list' = <<NewEntry(d)>> \o list
        BY <2>2 DEF OnRequested, d
      <3>2. NewEntry(d) \in Entry /\ NewEntry(d).job = d
        BY <1>2 DEF NewEntry, Entry
      <3>3. <<NewEntry(d)>> \in Seq(Entry) /\ Len(<<NewEntry(d)>>) = 1 /\ <<NewEntry(d)>>[1] = NewEntry(d)
        BY <3>2
      <3>4. /\ list' \in Seq(Entry) /\ Len(list') = 1 + Len(list)
            /\ \A i \in 1..1 + Len(list) :
                 list'[i] = IF i <= 1 THEN NewEntry(d) ELSE list[i - 1]
        BY <1>1, <3>1, <3>3, ConcatProperties
      <3>5. Len(list) \in Nat /\ DOMAIN list = 1..Len(list) /\ DOMAIN list' = 1..1 + Len(list)
        BY <1>1, <3>4
      <3>6. \A i \in DOMAIN list : i + 1 \in DOMAIN list' /\ list'[i + 1] = list[i]
        BY <3>4, <3>5
      <3>7. \A k \in DOMAIN list' : list'[k].job = d \/ k - 1 \in DOMAIN list
        BY <3>2, <3>4, <3>5
      <3>8. 1 \in DOMAIN list' /\ list'[1].job = d
        BY <3>2, <3>4, <3>5
      <3>9. QED
        BY <3>4, <3>6, <3>7, <3>8
    <2>3. QED
      BY <2>1, <2>2
  <1>5. ListTypeOK'
    BY <1>1, <1>4, AfterTaking DEF ListInv, ListTypeOK, BridgeEvent
  <1>6. ASSUME NEW j \in Transfers
        PROVE  TransferInv(j)'
    <2>1. InOrder(j)'
      BY <1>1, OrderAfterTaking DEF ListInv, TransferInv
    <2>2. NothingAfter(j)'
      BY <1>1, AfterTaking DEF ListInv, TransferInv, NothingAfter
    <2>3. Shown(j)'
      <3>1. CASE j = d
        BY <1>3, <3>1 DEF Shown
      <3>2. CASE j # d
        BY <1>1, <1>4, <3>2, ShownKept DEF ListInv
      <3>3. QED
        BY <3>1, <3>2
    <2>4. WillBeListed(j)'
      <3>1. CASE j = d
        BY <1>4, <3>1 DEF WillBeListed, Listed
      <3>2. CASE j # d
        <4> SUFFICES ASSUME task[j].pc # "none", j \notin skipped, ~ Listed(j)'
                     PROVE  \E i \in DOMAIN bridge' :
                              bridge'[i].job = j /\ bridge'[i].type = "requested"
          BY <1>1 DEF WillBeListed
        <4>1. ~ Listed(j)
          BY <1>4 DEF Listed
        <4>2. PICK i \in DOMAIN bridge : bridge[i].job = j /\ bridge[i].type = "requested"
          BY <4>1 DEF ListInv, TransferInv, WillBeListed
        <4>3. i # 1
          BY <1>2, <3>2, <4>2
        <4>4. QED
          BY <1>1, <4>2, <4>3, AfterTaking
      <3>3. QED
        BY <3>1, <3>2
    <2>5. QED
      BY <2>1, <2>2, <2>3, <2>4 DEF TransferInv
  <1>7. QED
    BY <1>5, <1>6 DEF ListInv

(* Progress is delivered before the outcome of its job, whose entry may    *)
(* show anything.                                                          *)
LEMMA ProgressKeeps ==
  ASSUME ListInv, Deliver, Head(bridge).type = "progress", OnProgress(Head(bridge).job),
         UNCHANGED told
  PROVE  ListInv'
  <1> DEFINE d == Head(bridge).job
  <1>1. bridge \in Seq(BridgeEvent) /\ bridge # <<>> /\ bridge' = Tail(bridge)
        /\ UNCHANGED <<task, answers, calls, skipped>> /\ list \in Seq(Entry)
    BY DEF ListInv, ListTypeOK, BridgeEvent, Deliver
  <1>2. d \in Transfers /\ bridge[1].job = d /\ bridge[1].type = "progress" /\ 1 \in DOMAIN bridge
    BY <1>1, AfterTaking DEF BridgeEvent
  <1>3. told[d] = "none"
    BY <1>2 DEF ListInv, TransferInv, NothingAfter
  <1> HIDE DEF d
  <1>4. /\ list' \in Seq(Entry) /\ DOMAIN list' = DOMAIN list
        /\ \A i \in DOMAIN list : list'[i].job = list[i].job
        /\ \A i \in DOMAIN list : list[i].job # d => list'[i] = list[i]
    <2>1. CASE list' = list
      BY <1>1, <2>1
    <2>2. CASE list' # list
      <3>1. Listed(d) /\ list' = [list EXCEPT ![First(d)].state = "active"]
        BY <2>2 DEF OnProgress, d
      <3>2. SetState(d, "active")
        BY <3>1 DEF SetState
      <3>3. [job |-> d, state |-> "active"] \in Entry
        BY <1>2 DEF Entry
      <3>4. QED
        BY <1>2, <3>2, <3>3, EntryChanges
    <2>3. QED
      BY <2>1, <2>2
  <1>5. ListTypeOK'
    BY <1>1, <1>4, AfterTaking DEF ListInv, ListTypeOK, BridgeEvent
  <1>6. ASSUME NEW j \in Transfers
        PROVE  TransferInv(j)'
    <2>1. InOrder(j)'
      BY <1>1, OrderAfterTaking DEF ListInv, TransferInv
    <2>2. NothingAfter(j)'
      BY <1>1, AfterTaking DEF ListInv, TransferInv, NothingAfter
    <2>3. Shown(j)'
      <3>1. CASE j = d
        BY <1>3, <3>1 DEF Shown
      <3>2. CASE j # d
        BY <1>1, <1>2, <1>4, <3>2, OthersShown
      <3>3. QED
        BY <3>1, <3>2
    <2>4. WillBeListed(j)'
      BY <1>1, <1>2, <1>4, ListedAfterTaking DEF ListInv
    <2>5. QED
      BY <2>1, <2>2, <2>3, <2>4 DEF TransferInv
  <1>7. QED
    BY <1>5, <1>6 DEF ListInv

(* The outcome of a job comes last, and finds the job listed unless its    *)
(* request was skipped.                                                    *)
LEMMA OutcomeKeeps ==
  ASSUME ListInv, Deliver, Head(bridge).type \in Outcomes,
         OnOutcome(Head(bridge).job, Head(bridge).type),
         told' = [told EXCEPT ![Head(bridge).job] = Head(bridge).type]
  PROVE  ListInv'
  <1> DEFINE d == Head(bridge).job
             s == Head(bridge).type
  <1>1. bridge \in Seq(BridgeEvent) /\ bridge # <<>> /\ bridge' = Tail(bridge)
        /\ UNCHANGED <<task, answers, calls, skipped>> /\ list \in Seq(Entry)
    BY DEF ListInv, ListTypeOK, BridgeEvent, Deliver
  <1>2. d \in Transfers /\ s \in Outcomes /\ bridge[1].job = d /\ bridge[1].type = s
        /\ 1 \in DOMAIN bridge
    BY <1>1, AfterTaking DEF BridgeEvent
  <1>3. SetState(d, s) /\ told' = [told EXCEPT ![d] = s]
    BY DEF OnOutcome
  <1> HIDE DEF d, s
  <1>4. [job |-> d, state |-> s] \in Entry /\ s # "requested" /\ s # "none"
    BY <1>2 DEF Entry, Outcomes
  <1>5. /\ list' \in Seq(Entry) /\ DOMAIN list' = DOMAIN list
        /\ \A i \in DOMAIN list : list'[i].job = list[i].job
        /\ \A i \in DOMAIN list : list[i].job # d => list'[i] = list[i]
        /\ Listed(d) => /\ First(d) \in DOMAIN list
                        /\ list'[First(d)].state = s /\ list'[First(d)].job = d
                        /\ \A k \in DOMAIN list' : list'[k].job = d => First(d) <= k
    BY <1>2, <1>3, <1>4, EntryChanges
  <1>6. /\ told' \in [Transfers -> Outcomes \cup {"none"}] /\ told'[d] = s
        /\ \A j \in Transfers \ {d} : told'[j] = told[j]
    BY <1>2, <1>3 DEF ListInv, ListTypeOK
  <1>7. ListTypeOK'
    BY <1>1, <1>5, <1>6, AfterTaking DEF ListInv, ListTypeOK, BridgeEvent
  <1>8. task[d].pc = "ended" /\ \A k \in DOMAIN bridge : bridge[k].job = d => k = 1
    BY <1>1, <1>2, AfterTaking DEF ListInv, TransferInv, InOrder
  <1>9. ASSUME NEW j \in Transfers
        PROVE  TransferInv(j)'
    <2>1. InOrder(j)'
      BY <1>1, OrderAfterTaking DEF ListInv, TransferInv
    <2>2. NothingAfter(j)'
      <3>1. CASE j = d
        <4>1. \A i \in DOMAIN bridge' : bridge'[i].job # d
          <5> SUFFICES ASSUME NEW i \in DOMAIN bridge', bridge'[i].job = d
                       PROVE  FALSE
            OBVIOUS
          <5>1. i + 1 \in DOMAIN bridge /\ bridge[i + 1].job = d /\ i \in Nat /\ i > 0
            BY <1>1, AfterTaking
          <5>2. QED
            BY <1>8, <5>1
        <4>2. QED
          BY <1>1, <1>8, <3>1, <4>1 DEF NothingAfter
      <3>2. CASE j # d
        BY <1>1, <1>6, <3>2, AfterTaking DEF ListInv, TransferInv, NothingAfter
      <3>3. QED
        BY <3>1, <3>2
    <2>3. Shown(j)'
      <3>1. CASE j = d
        <4>1. d \in skipped \/ Listed(d)
          BY <1>2, <1>4, <1>8 DEF ListInv, TransferInv, WillBeListed
        <4>2. QED
          BY <1>1, <1>5, <1>6, <3>1, <4>1 DEF Shown
      <3>2. CASE j # d
        BY <1>1, <1>2, <1>5, <1>6, <3>2, OthersShown
      <3>3. QED
        BY <3>1, <3>2
    <2>4. WillBeListed(j)'
      BY <1>1, <1>2, <1>4, <1>5, ListedAfterTaking DEF ListInv
    <2>5. QED
      BY <2>1, <2>2, <2>3, <2>4 DEF TransferInv
  <1>10. QED
    BY <1>7, <1>9 DEF ListInv

-----------------------------------------------------------------------------
(* The invariant is inductive.                                             *)
LEMMA ListInductive == ListSpec => []ListInv
  <1>1. ListInit => ListInv
    <2> SUFFICES ASSUME ListInit
                 PROVE  ListInv
      OBVIOUS
    <2>1. ListTypeOK
      <3>1. [pc |-> "none", progress |-> 0] \in Task
        BY ListAssumption DEF Task
      <3>2. list \in Seq(Entry) /\ bridge \in Seq(BridgeEvent)
        BY DEF ListInit
      <3>3. QED
        <4>1. calls \in [Command -> 0..MaxCalls]
          BY ListAssumption DEF ListInit
        <4>2. QED
          BY <3>1, <3>2, <4>1 DEF ListInit, ListTypeOK, BridgeEvent
    <2>2. ASSUME NEW j \in Transfers
          PROVE  TransferInv(j)
      <3>1. DOMAIN bridge = {} /\ task[j].pc = "none" /\ told[j] = "none"
        BY DEF ListInit
      <3>2. QED
        BY <3>1 DEF TransferInv, InOrder, NothingAfter, WillBeListed, Shown
    <2>3. QED
      BY <2>1, <2>2 DEF ListInv
  <1>2. ListInv /\ [ListNext]_listVars => ListInv'
    <2> SUFFICES ASSUME ListInv, [ListNext]_listVars
                 PROVE  ListInv'
      OBVIOUS
    <2>1. CASE UNCHANGED listVars
      BY <2>1 DEF listVars, ListInv, ListTypeOK, TransferInv, InOrder, NothingAfter, WillBeListed, Listed, Shown
    <2>2. ASSUME NEW j \in Transfers, SendFiles(j)
          PROVE  ListInv'
      BY <2>2, SendFilesKeeps
    <2>3. ASSUME NEW j \in Transfers,
                 TaskProgress(j) \/ \E outcome \in Outcomes : TaskEnds(j, outcome)
          PROVE  ListInv'
      BY <2>3, TaskStepKeeps
    <2>4. ASSUME NEW j \in Transfers, SendAnswered(j)
          PROVE  ListInv'
      BY <2>4, SendAnsweredKeeps
    <2>5. CASE BridgeSkips
      BY <2>5, BridgeSkipsKeeps
    <2>6. CASE Deliver
      BY <2>6, RequestedKeeps, ProgressKeeps, OutcomeKeeps DEF Deliver
    <2>7. ASSUME NEW i \in DOMAIN list, NEW op \in Ops, Press(op, i)
          PROVE  ListInv'
      <3> DEFINE command == [op |-> op, job |-> list[i].job]
      <3>1. calls' \in [Command -> 0..MaxCalls]
        <4>1. list[i] \in Entry
          BY DEF ListInv, ListTypeOK
        <4>2. command \in Command
          BY <4>1 DEF Entry, Command
        <4>3. calls[command] < MaxCalls /\ calls' = [calls EXCEPT ![command] = @ + 1]
          BY <2>7 DEF Press
        <4> HIDE DEF command
        <4>4. QED
          BY <4>2, <4>3, ListAssumption DEF ListInv, ListTypeOK
      <3>2. UNCHANGED <<list, task, bridge, answers, told, skipped>>
        BY <2>7 DEF Press
      <3>3. QED
        BY <3>1, <3>2 DEF ListInv, ListTypeOK, TransferInv, InOrder, NothingAfter, WillBeListed,
                          Listed, Shown
    <2>8. ASSUME NEW call \in Command, Answered(call)
          PROVE  ListInv'
      BY <2>8, AnsweredKeeps
    <2>9. ASSUME NEW j \in Transfers, TaskErrors(j)
          PROVE  ListInv'
      BY <2>9, TaskErrorsKeeps
    <2>10. QED
      BY <2>1, <2>2, <2>3, <2>4, <2>5, <2>6, <2>7, <2>8, <2>9 DEF ListNext
  <1>3. QED
    BY <1>1, <1>2, PTL DEF ListSpec

(* The list holds entries of jobs in states that the interface can show.   *)
THEOREM ListTypeCorrect == ListSpec => []ListTypeOK
  BY ListInductive, PTL DEF ListInv

(* The outcome delivered last is what the list shows, however answers and  *)
(* events overtake each other.                                             *)
THEOREM OutcomeTheorem == ListSpec => []OutcomeIsShown
  <1>1. ListInv => OutcomeIsShown
    <2> SUFFICES ASSUME ListInv, NEW j \in Transfers \ skipped, told[j] # "none"
                 PROVE  Listed(j) /\ list[First(j)].state = told[j]
      BY DEF OutcomeIsShown
    <2>1. PICK i \in DOMAIN list :
            /\ list[i].job = j /\ list[i].state = told[j]
            /\ \A k \in DOMAIN list : list[k].job = j => i <= k
      BY DEF ListInv, TransferInv, Shown
    <2>2. Listed(j) /\ list \in Seq(Entry)
      BY <2>1 DEF Listed, ListInv, ListTypeOK
    <2>3. First(j) = i
      BY <2>1, <2>2, FirstIsLeast
    <2>4. QED
      BY <2>1, <2>2, <2>3
  <1>2. QED
    BY <1>1, ListInductive, PTL

=============================================================================
