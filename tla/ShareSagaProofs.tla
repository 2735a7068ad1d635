--------------------------- MODULE ShareSagaProofs ---------------------------
(***************************************************************************)
(* Proofs about ShareSaga, for any number of devices, tasks, permissions   *)
(* and commands.  A row may be overwritten with any copy that a command or *)
(* a handler still holds, so each property of a row is shown of all the    *)
(* copies of it at once.                                                   *)
(***************************************************************************)
EXTENDS ShareSaga, TLAPS

Holds(t) == task[t].pc \in {"asking", "removing"}
Handling(t) == request[t].at = "loaded"
Requesting(t) == task[t].pc \in {"asking", "cancelling", "gone"}

(* What may be the row of d after the next save on d.                      *)
Copies(d) ==
  {row[d]} \cup {task[t].copy : t \in {u \in Tasks : Holds(u) /\ From(u) = d}}
           \cup {request[t].copy : t \in {u \in Tasks : Handling(u) /\ To(u) = d}}

Has(q) == row[q] # NoShare \/ q \in declined

Sound(r) == r.creator \in Devices /\ r.perm[r.creator] = "read_write"

Offered(offers, d, r) ==
  \A q \in Devices :
    (HasMember(r, q) /\ q # r.creator) =>
      IF q = d THEN \E by \in Devices : <<by, d, r.perm[q]>> \in offers
      ELSE <<d, q, r.perm[q]>> \in offers

(* The row of d lists q, or is about to, or something excuses it.          *)
Vouched(d, q) == HasMember(row[d], q) \/ Answering(d, q) \/ <<d, q>> \in excused

(* What is known of a command and its request.                             *)
RequestOK(t) ==
  /\ Holds(t) => task[t].copy # NoShare
  /\ task[t].pc = "removing" => request[t] = NoRequest /\ CanRemove(task[t].copy, To(t))
  /\ Requesting(t) => /\ From(t) # To(t)
                      /\ row[From(t)] # NoShare
                      /\ task[t].perm \in Permissions
                      /\ <<From(t), To(t), task[t].perm>> \in offered
  /\ task[t].pc = "asking" => request[t].kind = "invite" /\ request[t].at # "none"
  /\ task[t].pc = "gone" =>
       ~ Answered(t) /\ (request[t].kind = "invite" => <<From(t), To(t)>> \in excused)
  /\ task[t].pc = "cancelling" => request[t].kind = "leave"
  /\ (Handling(t) /\ request[t].kind = "invite") => ~ HasMember(request[t].copy, To(t))
  /\ (Handling(t) /\ request[t].kind = "leave") => CanRemove(request[t].copy, From(t))

RequestInv == \A t \in Tasks : RequestOK(t)

SoundInv == \A d \in Devices : \A r \in Copies(d) : r = NoShare \/ Sound(r)

OfferedInv == \A d \in Devices : \A r \in Copies(d) : Offered(offered, d, r)

ListedInv ==
  /\ \A d, q \in Devices : \A r \in Copies(d) : HasMember(r, q) => Has(q)
  /\ \A t \in Tasks : (task[t].pc = "asking" /\ request[t].at = "ok") => Has(To(t))

VouchInv ==
  /\ \A q \in Devices : \A r \in Copies(q) : r # NoShare => Vouched(r.creator, q)
  /\ \A t \in Tasks : task[t].pc = "asking" =>
       \A q \in Devices : HasMember(task[t].copy, q) =>
         HasMember(row[From(t)], q) \/ <<From(t), q>> \in excused

IInv == TypeOK /\ RequestInv /\ SoundInv /\ OfferedInv /\ ListedInv /\ VouchInv

-----------------------------------------------------------------------------
(* The aggregate.                                                          *)

(* The empty row is a row without members.                                 *)
LEMMA NoShareFacts ==
  /\ NoShare \in Row
  /\ NoShare.creator = NoDevice
  /\ \A q \in Devices : NoShare.perm[q] = "none"
BY ShareAssumption DEF NoShare, Row

(* A new share has its creator as the only member.                         *)
LEMMA CreateFacts ==
  ASSUME NEW d \in Devices
  PROVE  /\ Create(d) \in Row /\ Create(d).creator = d /\ Create(d) # NoShare
         /\ \A q \in Devices : Create(d).perm[q] = IF q = d THEN "read_write" ELSE "none"
BY ShareAssumption DEF Create, Row, NoShare

(* authorize_member and remove_member change one permission and nothing    *)
(* else of the row.                                                        *)
LEMMA AuthorizeFacts ==
  ASSUME NEW r \in Row, NEW d \in Devices, NEW p \in Permissions
  PROVE  /\ Authorize(r, d, p) \in Row /\ Authorize(r, d, p).creator = r.creator
         /\ Authorize(r, d, p) # NoShare
         /\ \A q \in Devices : Authorize(r, d, p).perm[q] = IF q = d THEN p ELSE r.perm[q]
<1>1. /\ Authorize(r, d, p) \in Row /\ Authorize(r, d, p).creator = r.creator
      /\ \A q \in Devices : Authorize(r, d, p).perm[q] = IF q = d THEN p ELSE r.perm[q]
  BY DEF Authorize, Row
<1> QED
  BY <1>1, ShareAssumption, NoShareFacts

(* remove_member takes the permission of one device and nothing else.      *)
LEMMA RemoveFacts ==
  ASSUME NEW r \in Row, NEW d \in Devices
  PROVE  /\ Remove(r, d) \in Row /\ Remove(r, d).creator = r.creator
         /\ \A q \in Devices : Remove(r, d).perm[q] = IF q = d THEN "none" ELSE r.perm[q]
BY DEF Remove, Row

-----------------------------------------------------------------------------
(* Types.                                                                  *)

(* What is known of one task, as far as its types go.                      *)
LEMMA TaskTypes ==
  ASSUME TypeOK, NEW t \in Tasks
  PROVE  /\ task[t].copy \in Row /\ request[t].copy \in Row
         /\ task[t].perm \in Permissions \cup {"none"}
         /\ task[t].pc # "idle" => From(t) \in Devices /\ To(t) \in Devices
         /\ request[t].at # "none" => task[t].pc # "idle"
BY DEF TypeOK, Task, Request, From, To, NoRequest

(* A command that ends leaves typed values, and a free task is empty.      *)
LEMMA EndTaskTypes ==
  ASSUME TypeOK, NEW t \in Tasks, task[t].pc # "idle", EndTask(t)
  PROVE  /\ task' \in [Tasks -> Task] /\ request' \in [Tasks -> Request]
         /\ \A u \in Tasks :
              /\ task'[u].pc = "idle" => task'[u] = Idle /\ request'[u] = NoRequest
              /\ task'[u].pc # "idle" => task'[u].dev \in Devices /\ task'[u].peer \in Devices
BY NoShareFacts, ShareAssumption
   DEF TypeOK, EndTask, Left, Answered, Task, Request, Idle, NoRequest

(* A handler that goes on leaves typed values, and a free task is empty.   *)
LEMMA HandleTypes ==
  ASSUME TypeOK, NEW t \in Tasks, task[t].pc # "idle", NEW c \in Row,
         NEW at \in {"checked", "loaded", "ok", "refused"}, Handle(t, at, c)
  PROVE  /\ task' \in [Tasks -> Task] /\ request' \in [Tasks -> Request]
         /\ \A u \in Tasks :
              /\ task'[u].pc = "idle" => task'[u] = Idle /\ request'[u] = NoRequest
              /\ task'[u].pc # "idle" => task'[u].dev \in Devices /\ task'[u].peer \in Devices
<1> DEFINE over == task[t].pc = "gone" /\ at \in {"ok", "refused"}
           next == [request[t] EXCEPT !.at = at, !.copy = c]
<1>1. next \in Request
  BY DEF TypeOK, Request
<1>2. NoRequest \in Request /\ Idle \in Task
  BY NoShareFacts DEF Request, NoRequest, Task, Idle
<1>3. /\ request' = [request EXCEPT ![t] = IF over THEN NoRequest ELSE next]
      /\ task' = [task EXCEPT ![t] = IF over THEN Idle ELSE @]
  BY DEF Handle
<1> HIDE DEF next
<1>4. CASE over
  BY <1>2, <1>3, <1>4, ShareAssumption DEF TypeOK, Idle
<1>5. CASE ~ over
  BY <1>1, <1>2, <1>3, <1>5, ShareAssumption DEF TypeOK
<1> QED
  BY <1>4, <1>5

(* The rows that are saved are rows.                                       *)
LEMMA SavedTypes ==
  ASSUME TypeOK, NEW t \in Tasks, task[t].pc # "idle"
  PROVE  /\ task[t].perm \in Permissions => Authorize(task[t].copy, To(t), task[t].perm) \in Row
         /\ task[t].perm \in Permissions => Joined(t) \in Row
         /\ Remove(task[t].copy, To(t)) \in Row
         /\ Remove(request[t].copy, From(t)) \in Row
<1>1. /\ task[t].copy \in Row /\ request[t].copy \in Row
      /\ From(t) \in Devices /\ To(t) \in Devices
  BY TaskTypes
<1>2. Remove(task[t].copy, To(t)) \in Row /\ Remove(request[t].copy, From(t)) \in Row
  BY <1>1, RemoveFacts
<1>3. ASSUME task[t].perm \in Permissions
      PROVE  Authorize(task[t].copy, To(t), task[t].perm) \in Row
  BY <1>1, <1>3, AuthorizeFacts
<1>4. ASSUME task[t].perm \in Permissions
      PROVE  Joined(t) \in Row
  <2>1. (IF request[t].copy = NoShare THEN Create(From(t)) ELSE request[t].copy) \in Row
    BY <1>1, CreateFacts
  <2> QED
    BY <1>1, <1>4, <2>1, AuthorizeFacts DEF Joined
<1> QED
  BY <1>2, <1>3, <1>4

(* A save leaves rows and a history of pairs of devices.                   *)
LEMMA SaveTypes ==
  ASSUME TypeOK, NEW d \in Devices, NEW copy \in Row, NEW new \in Row
  PROVE  /\ [row EXCEPT ![d] = new] \in [Devices -> Row]
         /\ Overwritten(d, copy, new) \subseteq Devices \X Devices
BY DEF TypeOK, Overwritten, Members

(* The task t begins with the value u; nothing else of its kind changes.   *)
LEMMA BeginTypes ==
  ASSUME TypeOK, NEW t \in Tasks, NEW u \in Task, u.pc # "idle",
         u.dev \in Devices, u.peer \in Devices,
         task' = [task EXCEPT ![t] = u],
         \/ request' = request
         \/ \E kind \in {"invite", "leave"} : request' = [request EXCEPT ![t] = Sent(kind)]
  PROVE  /\ task' \in [Tasks -> Task] /\ request' \in [Tasks -> Request]
         /\ \A x \in Tasks :
              /\ task'[x].pc = "idle" => task'[x] = Idle /\ request'[x] = NoRequest
              /\ task'[x].pc # "idle" => task'[x].dev \in Devices /\ task'[x].peer \in Devices
<1>1. \A kind \in {"invite", "leave"} : Sent(kind) \in Request
  BY NoShareFacts DEF Sent, Request
<1> QED
  BY <1>1 DEF TypeOK

(* A request belongs to a command that is waiting for it or is gone.       *)
LEMMA Active ==
  ASSUME TypeOK, RequestInv, NEW t \in Tasks, request[t].at # "none"
  PROVE  Requesting(t) /\ From(t) \in Devices /\ To(t) \in Devices
<1>1. task[t].pc \in {"idle", "asking", "cancelling", "removing", "gone"}
  BY DEF TypeOK, Task
<1>2. task[t].pc \notin {"idle", "removing"}
  <2>1. NoRequest.at = "none"
    BY DEF NoRequest
  <2>2. task[t].pc \in {"idle", "removing"} => request[t] = NoRequest
    BY DEF TypeOK, RequestInv, RequestOK
  <2> QED
    BY <2>1, <2>2
<1> QED
  BY <1>1, <1>2, TaskTypes DEF Requesting

(* Every step keeps the types.                                             *)
LEMMA TypeStep ==
  ASSUME TypeOK, RequestInv, [Next]_vars
  PROVE  TypeOK'
<1> USE DEF Requesting
<1>1. ASSUME NEW d \in Devices, CreateShare(d) PROVE TypeOK'
  BY <1>1, CreateFacts DEF CreateShare, TypeOK
<1>2. ASSUME NEW t \in Tasks, NEW d \in Devices, NEW p \in Devices, NEW x \in Permissions,
             Invite(t, d, p, x)
      PROVE  TypeOK'
  <2> DEFINE u == [pc |-> "asking", dev |-> d, peer |-> p, perm |-> x, copy |-> row[d]]
  <2>1. u \in Task /\ u.pc # "idle" /\ u.dev \in Devices /\ u.peer \in Devices
    BY DEF TypeOK, Task
  <2>2. /\ task' = [task EXCEPT ![t] = u]
        /\ request' = [request EXCEPT ![t] = Sent("invite")]
    BY <1>2 DEF Invite
  <2> HIDE DEF u
  <2>3. /\ task' \in [Tasks -> Task] /\ request' \in [Tasks -> Request]
        /\ \A y \in Tasks :
             /\ task'[y].pc = "idle" => task'[y] = Idle /\ request'[y] = NoRequest
             /\ task'[y].pc # "idle" => task'[y].dev \in Devices /\ task'[y].peer \in Devices
    BY <2>1, <2>2, BeginTypes
  <2> QED
    BY <1>2, <2>3, ShareAssumption DEF Invite, TypeOK
<1>3. ASSUME NEW t \in Tasks, NEW d \in Devices, NEW p \in Devices, RemoveLoad(t, d, p)
      PROVE  TypeOK'
  <2> DEFINE u == [pc |-> "removing", dev |-> d, peer |-> p, perm |-> "none", copy |-> row[d]]
  <2>1. u \in Task /\ u.pc # "idle" /\ u.dev \in Devices /\ u.peer \in Devices
    BY DEF TypeOK, Task
  <2>2. task' = [task EXCEPT ![t] = u] /\ request' = request
    BY <1>3 DEF RemoveLoad
  <2> HIDE DEF u
  <2>3. /\ task' \in [Tasks -> Task] /\ request' \in [Tasks -> Request]
        /\ \A y \in Tasks :
             /\ task'[y].pc = "idle" => task'[y] = Idle /\ request'[y] = NoRequest
             /\ task'[y].pc # "idle" => task'[y].dev \in Devices /\ task'[y].peer \in Devices
    BY <2>1, <2>2, BeginTypes
  <2> QED
    BY <1>3, <2>3, ShareAssumption DEF RemoveLoad, TypeOK
<1>4. ASSUME NEW t \in Tasks, InviteAnswered(t) PROVE TypeOK'
  <2>1. /\ task[t].pc = "asking" /\ From(t) \in Devices /\ To(t) \in Devices
        /\ task[t].copy \in Row /\ Authorize(task[t].copy, To(t), task[t].perm) \in Row
        /\ UNCHANGED <<commands, offered, declined>>
    BY <1>4, TaskTypes, SavedTypes DEF InviteAnswered, RequestInv, RequestOK
  <2>2. CASE EndTask(t) /\ UNCHANGED <<row, excused>>
    BY <2>1, <2>2, EndTaskTypes DEF TypeOK
  <2>3. CASE EndTask(t) /\ Save(From(t), task[t].copy, Authorize(task[t].copy, To(t), task[t].perm))
    <3> DEFINE new == Authorize(task[t].copy, To(t), task[t].perm)
    <3>1. new \in Row
      BY <2>1
    <3>2. /\ row' = [row EXCEPT ![From(t)] = new]
          /\ excused' = excused \cup Overwritten(From(t), task[t].copy, new)
      BY <2>3 DEF Save
    <3> HIDE DEF new
    <3> QED
      BY <2>1, <2>3, <3>1, <3>2, EndTaskTypes, SaveTypes DEF TypeOK
  <2>4. CASE /\ task' = [task EXCEPT ![t].pc = "cancelling"]
             /\ request' = [request EXCEPT ![t] = Sent("leave")]
             /\ excused' = excused \cup {<<From(t), To(t)>>} /\ row' = row
    <3> DEFINE u == [task[t] EXCEPT !.pc = "cancelling"]
    <3>1. u \in Task /\ u.pc # "idle" /\ u.dev \in Devices /\ u.peer \in Devices
      BY <2>1 DEF TypeOK, Task, From, To
    <3>2. task' = [task EXCEPT ![t] = u]
      BY <2>4
    <3> HIDE DEF u
    <3>3. \E kind \in {"invite", "leave"} : request' = [request EXCEPT ![t] = Sent(kind)]
      BY <2>4
    <3>4. /\ task' \in [Tasks -> Task] /\ request' \in [Tasks -> Request]
          /\ \A y \in Tasks :
               /\ task'[y].pc = "idle" => task'[y] = Idle /\ request'[y] = NoRequest
               /\ task'[y].pc # "idle" => task'[y].dev \in Devices /\ task'[y].peer \in Devices
      BY <3>1, <3>2, <3>3, BeginTypes
    <3> QED
      BY <2>1, <2>4, <3>4 DEF TypeOK
  <2> QED
    BY <1>4, <2>2, <2>3, <2>4 DEF InviteAnswered
<1>5. ASSUME NEW t \in Tasks, InviteFails(t) PROVE TypeOK'
  BY <1>5, EndTaskTypes, TaskTypes DEF InviteFails, TypeOK
<1>6. ASSUME NEW t \in Tasks, CancelEnds(t) PROVE TypeOK'
  BY <1>6, EndTaskTypes DEF CancelEnds, TypeOK
<1>7. ASSUME NEW t \in Tasks, RemoveSave(t) PROVE TypeOK'
  <2> DEFINE new == Remove(task[t].copy, To(t))
  <2>1. /\ From(t) \in Devices /\ To(t) \in Devices /\ task[t].copy \in Row /\ new \in Row
    BY <1>7, TaskTypes, SavedTypes DEF RemoveSave
  <2>2. /\ row' = [row EXCEPT ![From(t)] = new] /\ EndTask(t) /\ task[t].pc # "idle"
        /\ excused' = excused \cup {<<From(t), To(t)>>} \cup Overwritten(From(t), task[t].copy, new)
        /\ UNCHANGED <<commands, offered, declined>>
    BY <1>7 DEF RemoveSave
  <2> HIDE DEF new
  <2> QED
    BY <2>1, <2>2, EndTaskTypes, SaveTypes DEF TypeOK
<1>8. ASSUME NEW t \in Tasks, RemoveFails(t) PROVE TypeOK'
  BY <1>8, EndTaskTypes DEF RemoveFails, TypeOK
<1>9. ASSUME NEW t \in Tasks, CheckCaller(t) PROVE TypeOK'
  BY <1>9, HandleTypes, TaskTypes, NoShareFacts DEF CheckCaller, TypeOK
<1>10. ASSUME NEW t \in Tasks, LoadForInvite(t) PROVE TypeOK'
  <2>1. /\ task[t].pc # "idle" /\ To(t) \in Devices /\ row[To(t)] \in Row
    BY <1>10, TaskTypes DEF LoadForInvite, TypeOK
  <2> QED
    BY <1>10, <2>1, HandleTypes, NoShareFacts DEF LoadForInvite, TypeOK
<1>11. ASSUME NEW t \in Tasks, SaveInvited(t) PROVE TypeOK'
  <2> DEFINE new == Joined(t)
  <2>1. /\ task[t].pc # "idle" /\ To(t) \in Devices /\ request[t].copy \in Row
    BY <1>11, TaskTypes DEF SaveInvited
  <2>2. new \in Row
    BY <2>1, <1>11, SavedTypes, Active DEF RequestInv, RequestOK, SaveInvited
  <2>3. /\ Handle(t, "ok", NoShare) /\ UNCHANGED <<commands, offered>>
        /\ \/ /\ row' = [row EXCEPT ![To(t)] = new]
              /\ excused' = excused \cup Overwritten(To(t), request[t].copy, new)
              /\ declined' = declined
           \/ declined' = declined \cup {To(t)} /\ UNCHANGED <<row, excused>>
    BY <1>11 DEF SaveInvited, Save
  <2> HIDE DEF new
  <2> QED
    BY <2>1, <2>2, <2>3, HandleTypes, SaveTypes, NoShareFacts DEF TypeOK
<1>12. ASSUME NEW t \in Tasks, LoadForLeave(t) PROVE TypeOK'
  <2>1. /\ task[t].pc # "idle" /\ To(t) \in Devices /\ row[To(t)] \in Row
    BY <1>12, TaskTypes DEF LoadForLeave, TypeOK
  <2> QED
    BY <1>12, <2>1, HandleTypes, NoShareFacts DEF LoadForLeave, TypeOK
<1>13. ASSUME NEW t \in Tasks, SaveLeft(t) PROVE TypeOK'
  <2> DEFINE new == Remove(request[t].copy, From(t))
  <2>1. /\ task[t].pc # "idle" /\ To(t) \in Devices /\ From(t) \in Devices
        /\ request[t].copy \in Row
    BY <1>13, TaskTypes DEF SaveLeft
  <2>2. new \in Row
    BY <2>1, RemoveFacts
  <2>3. /\ Handle(t, "ok", NoShare) /\ UNCHANGED <<commands, offered, declined>>
        /\ \/ /\ row' = [row EXCEPT ![To(t)] = new]
              /\ excused' = excused \cup {<<To(t), From(t)>>}
                               \cup Overwritten(To(t), request[t].copy, new)
           \/ UNCHANGED <<row, excused>>
    BY <1>13 DEF SaveLeft
  <2> HIDE DEF new
  <2>4. /\ task' \in [Tasks -> Task] /\ request' \in [Tasks -> Request]
        /\ \A y \in Tasks :
             /\ task'[y].pc = "idle" => task'[y] = Idle /\ request'[y] = NoRequest
             /\ task'[y].pc # "idle" => task'[y].dev \in Devices /\ task'[y].peer \in Devices
    BY <2>1, <2>3, HandleTypes, NoShareFacts
  <2>5. row' \in [Devices -> Row] /\ excused' \subseteq Devices \X Devices
    <3>1. CASE UNCHANGED <<row, excused>>
      BY <3>1 DEF TypeOK
    <3>2. CASE row' = [row EXCEPT ![To(t)] = new]
      BY <2>1, <2>2, <2>3, <3>2, SaveTypes DEF TypeOK
    <3> QED
      BY <2>3, <3>1, <3>2
  <2> QED
    BY <2>3, <2>4, <2>5 DEF TypeOK
<1>14. ASSUME NEW t \in Tasks, RequestLost(t) PROVE TypeOK'
  BY <1>14, NoShareFacts, ShareAssumption
     DEF RequestLost, TypeOK, Idle, NoRequest, Task, Request
<1>15. ASSUME NEW d \in Devices, Crash(d) PROVE TypeOK'
  <2> DEFINE dies(t) == task[t].pc \in {"asking", "cancelling", "removing"} /\ From(t) = d
             cut(t) == ~ Answered(t) /\ To(t) = d
             refused(t) == [request[t] EXCEPT !.at = "refused", !.copy = NoShare]
             gone(t) == [task[t] EXCEPT !.pc = "gone"]
  <2>1. \A t \in Tasks :
          task'[t] = IF dies(t) THEN Left(t)
                     ELSE IF cut(t) /\ task[t].pc = "gone" THEN Idle ELSE task[t]
    BY <1>15 DEF Crash
  <2>2. \A t \in Tasks :
          request'[t] = IF (dies(t) /\ Answered(t)) \/ (cut(t) /\ task[t].pc = "gone") THEN NoRequest
                        ELSE IF cut(t) THEN refused(t) ELSE request[t]
    BY <1>15 DEF Crash
  <2>3. DOMAIN task' = Tasks /\ DOMAIN request' = Tasks
    BY <1>15 DEF Crash
  <2>4. ASSUME NEW t \in Tasks
        PROVE  /\ task'[t] \in Task /\ request'[t] \in Request
               /\ task'[t].pc = "idle" => task'[t] = Idle /\ request'[t] = NoRequest
               /\ task'[t].pc # "idle" => task'[t].dev \in Devices /\ task'[t].peer \in Devices
    <3>1. /\ NoRequest \in Request /\ Idle \in Task /\ Idle.pc = "idle"
          /\ task[t] \in Task /\ request[t] \in Request
          /\ gone(t) \in Task /\ gone(t).pc = "gone" /\ gone(t).dev = task[t].dev
          /\ gone(t).peer = task[t].peer
          /\ refused(t) \in Request
      <4>1. NoRequest \in Request /\ Idle \in Task /\ Idle.pc = "idle"
        BY NoShareFacts DEF NoRequest, Request, Idle, Task
      <4>2. task[t] \in Task /\ request[t] \in Request
        BY DEF TypeOK
      <4>3. /\ gone(t) \in Task /\ gone(t).pc = "gone" /\ gone(t).dev = task[t].dev
            /\ gone(t).peer = task[t].peer
        BY <4>2 DEF Task
      <4>4. refused(t) \in Request
        BY <4>2, NoShareFacts DEF Request
      <4> QED
        BY <4>1, <4>2, <4>3, <4>4
    <3>2. Left(t) = IF Answered(t) THEN Idle ELSE gone(t)
      BY DEF Left
    <3>3. /\ task[t].pc = "idle" => task[t] = Idle /\ request[t] = NoRequest
          /\ task[t].pc # "idle" => task[t].dev \in Devices /\ task[t].peer \in Devices
      BY DEF TypeOK
    <3>4. task[t].pc = "idle" => Answered(t)
      BY <3>3 DEF Answered, NoRequest
    <3>5. (dies(t) /\ cut(t)) => FALSE
      BY Active DEF RequestInv, RequestOK, Answered
    <3> HIDE DEF gone, refused
    <3>6. CASE dies(t)
      BY <2>1, <2>2, <3>1, <3>2, <3>3, <3>5, <3>6
    <3>7. CASE ~ dies(t) /\ cut(t)
      BY <2>1, <2>2, <3>1, <3>3, <3>4, <3>7
    <3>8. CASE ~ dies(t) /\ ~ cut(t)
      BY <2>1, <2>2, <3>1, <3>3, <3>8
    <3> QED
      BY <3>6, <3>7, <3>8
  <2>5. task' \in [Tasks -> Task] /\ request' \in [Tasks -> Request]
    <3>1. task' = [t \in Tasks |-> task'[t]] /\ request' = [t \in Tasks |-> request'[t]]
      BY <1>15 DEF Crash
    <3> QED
      BY <2>4, <3>1
  <2>6. excused' \subseteq Devices \X Devices
    <3>1. \A t \in Tasks : task[t].pc = "asking" => To(t) \in Devices
      BY TaskTypes
    <3>2. {<<d, To(t)>> : t \in {u \in Tasks : task[u].pc = "asking" /\ From(u) = d}}
            \subseteq Devices \X Devices
      BY <3>1
    <3>3. excused' = excused \cup
            {<<d, To(t)>> : t \in {u \in Tasks : task[u].pc = "asking" /\ From(u) = d}}
      BY <1>15 DEF Crash
    <3> QED
      BY <3>2, <3>3 DEF TypeOK
  <2> QED
    BY <1>15, <2>4, <2>5, <2>6 DEF Crash, TypeOK
<1>16. CASE UNCHANGED vars
  BY <1>16 DEF vars, TypeOK
<1> QED
  BY <1>1, <1>2, <1>3, <1>4, <1>5, <1>6, <1>7, <1>8, <1>9, <1>10, <1>11, <1>12, <1>13, <1>14,
     <1>15, <1>16 DEF Next

-----------------------------------------------------------------------------
(* What a step does to the rows, to the copies and to the histories.       *)

Created(d) == row'[d] = Create(d) /\ \A e \in Devices : row[e] = NoShare

(* The row of d is replaced by one computed from a copy.                   *)
Replaced(d, copy, new) ==
  /\ row'[d] = new
  /\ \A e \in Devices : e # d => row'[e] = row[e]
  /\ Overwritten(d, copy, new) \subseteq excused'

Granted(t, d) ==
  /\ task[t].pc = "asking" /\ request[t].at = "ok" /\ From(t) = d
  /\ CanAuthorize(task[t].copy, To(t))
  /\ Replaced(d, task[t].copy, Authorize(task[t].copy, To(t), task[t].perm))

Removed(t, d) ==
  /\ task[t].pc = "removing" /\ From(t) = d /\ <<d, To(t)>> \in excused'
  /\ Replaced(d, task[t].copy, Remove(task[t].copy, To(t)))

Accepted(t, d) ==
  /\ request[t].kind = "invite" /\ Handling(t) /\ To(t) = d
  /\ (request'[t].at = "ok" /\ task'[t] = task[t]) \/ task[t].pc = "gone"
  /\ Replaced(d, request[t].copy, Joined(t))

Dropped(t, d) ==
  /\ request[t].kind = "leave" /\ Handling(t) /\ To(t) = d /\ <<d, From(t)>> \in excused'
  /\ Replaced(d, request[t].copy, Remove(request[t].copy, From(t)))

(* The five ways in which the row of d may change.                         *)
LEMMA RowStep ==
  ASSUME TypeOK, RequestInv, [Next]_vars, NEW d \in Devices
  PROVE  \/ row'[d] = row[d]
         \/ Created(d)
         \/ \E t \in Tasks : Granted(t, d) \/ Removed(t, d) \/ Accepted(t, d) \/ Dropped(t, d)
<1>1. ASSUME NEW e \in Devices, CreateShare(e) PROVE row'[d] = row[d] \/ Created(d)
  BY <1>1 DEF CreateShare, Created, TypeOK
<1>2. ASSUME NEW t \in Tasks, InviteAnswered(t)
      PROVE  row'[d] = row[d] \/ Granted(t, d)
  <2>1. From(t) \in Devices /\ task[t].pc = "asking" /\ request[t].at = "ok"
    BY <1>2, TaskTypes DEF InviteAnswered
  <2>2. CASE row' = row
    BY <2>2
  <2>3. CASE /\ CanAuthorize(task[t].copy, To(t))
             /\ Save(From(t), task[t].copy, Authorize(task[t].copy, To(t), task[t].perm))
    BY <2>1, <2>3 DEF Save, Granted, Replaced, TypeOK
  <2> QED
    BY <1>2, <2>2, <2>3 DEF InviteAnswered
<1>3. ASSUME NEW t \in Tasks, RemoveSave(t)
      PROVE  row'[d] = row[d] \/ Removed(t, d)
  <2>1. From(t) \in Devices /\ task[t].pc = "removing"
    BY <1>3, TaskTypes DEF RemoveSave
  <2> QED
    BY <1>3, <2>1 DEF RemoveSave, Removed, Replaced, TypeOK
<1>4. ASSUME NEW t \in Tasks, SaveInvited(t)
      PROVE  row'[d] = row[d] \/ Accepted(t, d)
  <2>1. To(t) \in Devices /\ request[t].at = "loaded"
    BY <1>4, TaskTypes DEF SaveInvited
  <2>2. (request'[t].at = "ok" /\ task'[t] = task[t]) \/ task[t].pc = "gone"
    BY <1>4 DEF SaveInvited, Handle, TypeOK, Request
  <2> QED
    BY <1>4, <2>1, <2>2 DEF SaveInvited, Save, Accepted, Replaced, Handling, TypeOK
<1>5. ASSUME NEW t \in Tasks, SaveLeft(t)
      PROVE  row'[d] = row[d] \/ Dropped(t, d)
  <2>1. To(t) \in Devices /\ request[t].at = "loaded"
    BY <1>5, TaskTypes DEF SaveLeft
  <2> QED
    BY <1>5, <2>1 DEF SaveLeft, Dropped, Replaced, Handling, TypeOK
<1>6. ASSUME NEW t \in Tasks,
             \/ InviteFails(t) \/ CancelEnds(t) \/ RemoveFails(t) \/ CheckCaller(t)
             \/ LoadForInvite(t) \/ LoadForLeave(t) \/ RequestLost(t)
      PROVE  row' = row
  BY <1>6 DEF InviteFails, CancelEnds, RemoveFails, CheckCaller, LoadForInvite, LoadForLeave,
              RequestLost
<1>7. ASSUME NEW t \in Tasks, NEW e \in Devices, NEW p \in Devices, NEW x \in Permissions,
             RemoveLoad(t, e, p) \/ Invite(t, e, p, x)
      PROVE  row' = row
  BY <1>7 DEF RemoveLoad, Invite
<1>8. ASSUME NEW e \in Devices, Crash(e) PROVE row' = row
  BY <1>8 DEF Crash
<1>9. CASE UNCHANGED vars
  BY <1>9 DEF vars
<1>10. ShareAssumption
  BY ShareAssumption
<1> QED
  BY <1>1, <1>2, <1>3, <1>4, <1>5, <1>6, <1>7, <1>8, <1>9, <1>10 DEF Next, ShareAssumption

(* The histories only grow.                                                *)
LEMMA HistoryStep ==
  ASSUME TypeOK, [Next]_vars
  PROVE  offered \subseteq offered' /\ declined \subseteq declined' /\ excused \subseteq excused'
BY DEF Next, vars, CreateShare, Invite, InviteAnswered, InviteFails, CancelEnds, RemoveLoad,
       RemoveSave, RemoveFails, CheckCaller, LoadForInvite, SaveInvited, LoadForLeave, SaveLeft,
       RequestLost, Crash, Save

(* A copy is held as long as it stays the same, and a new one is the row.  *)
LEMMA CopyStep ==
  ASSUME TypeOK, RequestInv, [Next]_vars, NEW t \in Tasks
  PROVE  /\ Holds(t)' => \/ /\ Holds(t) /\ task'[t] = task[t]
                         \/ task'[t].copy = row[task'[t].dev] /\ task'[t].dev \in Devices
         /\ Handling(t)' => /\ task'[t].dev = task[t].dev /\ task'[t].peer = task[t].peer
                            /\ request'[t].kind = request[t].kind
                            /\ \/ Handling(t) /\ request'[t].copy = request[t].copy
                               \/ /\ request[t].at = "checked" /\ task'[t] = task[t]
                                  /\ request'[t].copy = row[To(t)]
<1> DEFINE TaskKept == Holds(t)' =>
             \/ Holds(t) /\ task'[t] = task[t]
             \/ task'[t].copy = row[task'[t].dev] /\ task'[t].dev \in Devices
           RequestKept == Handling(t)' =>
             /\ task'[t].dev = task[t].dev /\ task'[t].peer = task[t].peer
             /\ request'[t].kind = request[t].kind
             /\ \/ Handling(t) /\ request'[t].copy = request[t].copy
                \/ /\ request[t].at = "checked" /\ task'[t] = task[t]
                   /\ request'[t].copy = row[To(t)]
<1>1. Idle.pc = "idle" /\ NoRequest.at = "none"
  BY DEF Idle, NoRequest
<1>2. /\ Sent("invite").at = "sent" /\ Sent("leave").at = "sent"
  BY DEF Sent
<1>3. task[t] \in Task /\ request[t] \in Request
  BY DEF TypeOK
<1>4. ASSUME task'[t] = task[t], request'[t] = request[t]
      PROVE  TaskKept /\ RequestKept
  BY <1>4 DEF Holds, Handling
<1>5. ASSUME NEW u \in Tasks, EndTask(u) PROVE TaskKept /\ RequestKept
  <2>1. CASE u = t
    <3>1. (task'[t].pc \in {"idle", "gone"} /\ task'[t].dev = task[t].dev) \/ task'[t] = Idle
      BY <1>3, <1>5, <2>1 DEF EndTask, Left, TypeOK, Task, Idle
    <3>2. Handling(t)' => /\ task'[t].dev = task[t].dev /\ task'[t].peer = task[t].peer
                          /\ request'[t] = request[t]
      BY <1>3, <1>1, <1>5, <2>1 DEF EndTask, Left, TypeOK, Task, Handling, Answered
    <3> QED
      BY <1>1, <3>1, <3>2 DEF Holds, Handling
  <2>2. CASE u # t
    BY <1>4, <1>5, <2>2 DEF EndTask, TypeOK
  <2> QED
    BY <2>1, <2>2
<1>6. ASSUME NEW u \in Tasks, NEW at \in {"checked", "ok", "refused"}, NEW c, Handle(u, at, c)
      PROVE  TaskKept /\ RequestKept
  <2>1. CASE u = t
    <3>1. task'[t] = task[t] \/ task'[t] = Idle
      BY <1>6, <2>1 DEF Handle, TypeOK
    <3>2. request'[t].at # "loaded"
      BY <1>1, <1>3, <1>6, <2>1 DEF Handle, TypeOK, Request
    <3> QED
      BY <1>1, <3>1, <3>2 DEF Holds, Handling
  <2>2. CASE u # t
    BY <1>4, <1>6, <2>2 DEF Handle, TypeOK
  <2> QED
    BY <2>1, <2>2
<1>7. ASSUME NEW u \in Tasks, request[u].at = "checked", Handle(u, "loaded", row[To(u)])
      PROVE  TaskKept /\ RequestKept
  <2>1. CASE u = t
    <3>1. task'[t] = task[t]
      BY <1>7, <2>1 DEF Handle, TypeOK
    <3>2. request'[t].kind = request[t].kind /\ request'[t].copy = row[To(t)]
      BY <1>3, <1>7, <2>1 DEF Handle, TypeOK, Request
    <3> QED
      BY <1>7, <2>1, <3>1, <3>2 DEF Holds, Handling
  <2>2. CASE u # t
    BY <1>4, <1>7, <2>2 DEF Handle, TypeOK
  <2> QED
    BY <2>1, <2>2
<1>8. ASSUME NEW u \in Tasks, InviteAnswered(u) PROVE TaskKept /\ RequestKept
  <2>1. CASE EndTask(u)
    BY <1>5, <2>1
  <2>2. CASE /\ task' = [task EXCEPT ![u].pc = "cancelling"]
             /\ request' = [request EXCEPT ![u] = Sent("leave")]
    <3>1. CASE u = t
      <4>1. task'[t].pc = "cancelling" /\ request'[t].at = "sent"
        BY <1>2, <1>3, <2>2, <3>1 DEF TypeOK, Task
      <4> QED
        BY <4>1 DEF Holds, Handling
    <3>2. CASE u # t
      BY <1>4, <2>2, <3>2 DEF TypeOK
    <3> QED
      BY <3>1, <3>2
  <2> QED
    BY <1>8, <2>1, <2>2 DEF InviteAnswered
<1>9. ASSUME NEW u \in Tasks, NEW d \in Devices, NEW p \in Devices, NEW x \in Permissions,
             RemoveLoad(u, d, p) \/ Invite(u, d, p, x)
      PROVE  TaskKept /\ RequestKept
  <2>1. CASE u = t
    <3>1. task'[t].copy = row[d] /\ task'[t].dev = d
      BY <1>9, <2>1 DEF RemoveLoad, Invite, TypeOK
    <3>2. task[t].pc = "idle" /\ request[t].at = "none"
      BY <1>1, <1>9, <2>1 DEF RemoveLoad, Invite, TypeOK
    <3>3. request'[t].at # "loaded"
      BY <1>2, <1>9, <2>1, <3>2 DEF RemoveLoad, Invite, TypeOK
    <3> QED
      BY <3>1, <3>3 DEF Holds, Handling
  <2>2. CASE u # t
    BY <1>4, <1>9, <2>2 DEF RemoveLoad, Invite, TypeOK
  <2> QED
    BY <2>1, <2>2
<1>10. ASSUME NEW u \in Tasks, RequestLost(u) PROVE TaskKept /\ RequestKept
  <2>1. CASE u = t
    BY <1>1, <1>10, <2>1 DEF RequestLost, TypeOK, Holds, Handling
  <2>2. CASE u # t
    BY <1>4, <1>10, <2>2 DEF RequestLost, TypeOK
  <2> QED
    BY <2>1, <2>2
<1>11. ASSUME NEW d \in Devices, Crash(d) PROVE TaskKept /\ RequestKept
  <2> DEFINE gone == [task[t] EXCEPT !.pc = "gone"]
             refused == [request[t] EXCEPT !.at = "refused", !.copy = NoShare]
  <2>1. gone.pc = "gone" /\ gone.dev = task[t].dev /\ gone.peer = task[t].peer
    BY <1>3 DEF Task
  <2>2. refused.at = "refused"
    BY <1>3 DEF Request
  <2>3. task'[t] \in {task[t], Idle, gone}
    BY <1>11 DEF Crash, Left
  <2>4. request'[t] \in {request[t], NoRequest, refused}
    BY <1>11 DEF Crash
  <2>5. task'[t] = Idle => (request'[t].at # "loaded" \/ task[t] = Idle)
    <3> DEFINE dies == task[t].pc \in {"asking", "cancelling", "removing"} /\ From(t) = d
               cut == ~ Answered(t) /\ To(t) = d
               over == (dies /\ Answered(t)) \/ (cut /\ task[t].pc = "gone")
    <3>1. task'[t] = IF dies THEN IF Answered(t) THEN Idle ELSE gone
                     ELSE IF cut /\ task[t].pc = "gone" THEN Idle ELSE task[t]
      BY <1>11 DEF Crash, Left
    <3>2. request'[t] = IF over THEN NoRequest ELSE IF cut THEN refused ELSE request[t]
      BY <1>11 DEF Crash
    <3> HIDE DEF gone, refused
    <3> QED
      BY <1>1, <2>1, <2>2, <3>1, <3>2
  <2> HIDE DEF gone, refused
  <2> QED
    BY <1>1, <2>1, <2>2, <2>3, <2>4, <2>5 DEF Holds, Handling
<1>12. ASSUME NEW u \in Tasks,
              \/ InviteFails(u) \/ CancelEnds(u) \/ RemoveFails(u) \/ RemoveSave(u)
       PROVE  TaskKept /\ RequestKept
  BY <1>5, <1>12 DEF InviteFails, CancelEnds, RemoveFails, RemoveSave
<1>13. ASSUME NEW u \in Tasks,
              \/ CheckCaller(u) \/ LoadForInvite(u) \/ SaveInvited(u)
              \/ LoadForLeave(u) \/ SaveLeft(u)
       PROVE  TaskKept /\ RequestKept
  BY <1>6, <1>7, <1>13
     DEF CheckCaller, LoadForInvite, SaveInvited, LoadForLeave, SaveLeft
<1>14. ASSUME NEW d \in Devices, CreateShare(d) PROVE TaskKept /\ RequestKept
  BY <1>4, <1>14 DEF CreateShare
<1>15. ASSUME UNCHANGED vars PROVE TaskKept /\ RequestKept
  BY <1>4, <1>15 DEF vars
<1> HIDE DEF TaskKept, RequestKept
<1>16. TaskKept /\ RequestKept
  <2>1. "read_write" \in Permissions
    BY ShareAssumption
  <2>2. ASSUME NEW u \in Tasks, NEW d \in Devices, NEW p \in Devices, RemoveLoad(u, d, p)
        PROVE  TaskKept /\ RequestKept
    BY <1>9, <2>1, <2>2
  <2>3. CASE Next
    BY <1>8, <1>9, <1>10, <1>11, <1>12, <1>13, <1>14, <2>2, <2>3 DEF Next
  <2> QED
    BY <1>15, <2>3
<1> QED
  BY <1>16 DEF TaskKept, RequestKept

(* A step adds at most the new row to what may become the row later.       *)
LEMMA CopiesStep ==
  ASSUME TypeOK, RequestInv, [Next]_vars, NEW d \in Devices, NEW r \in Copies(d)'
  PROVE  r \in Copies(d) \/ r = row'[d]
<1>1. CASE r = row'[d]
  BY <1>1
<1>2. ASSUME NEW t \in Tasks, Holds(t)', task'[t].dev = d, r = task'[t].copy
      PROVE  r \in Copies(d)
  BY <1>2, CopyStep DEF Copies, From
<1>3. ASSUME NEW t \in Tasks, Handling(t)', task'[t].peer = d, r = request'[t].copy
      PROVE  r \in Copies(d)
  BY <1>3, CopyStep DEF Copies, To
<1> QED
  BY <1>1, <1>2, <1>3 DEF Copies, From, To

(* A copy that is held is one of the copies of the device that will save. *)
LEMMA CopyMembers ==
  ASSUME TypeOK, NEW t \in Tasks
  PROVE  /\ Holds(t) => task[t].copy \in Copies(From(t)) /\ From(t) \in Devices /\ To(t) \in Devices
         /\ Handling(t) => request[t].copy \in Copies(To(t)) /\ From(t) \in Devices
                           /\ To(t) \in Devices
BY TaskTypes DEF Copies, Holds, Handling

(* Copies are rows.                                                        *)
LEMMA CopyTypes ==
  ASSUME TypeOK, NEW d \in Devices, NEW r \in Copies(d)
  PROVE  r \in Row
BY TaskTypes DEF Copies, TypeOK

(* The operations of the aggregate keep its creator and his rights.        *)
LEMMA SoundRows ==
  ASSUME NEW r \in Row, Sound(r), NEW q \in Devices
  PROVE  /\ CanRemove(r, q) => Sound(Remove(r, q))
         /\ \A p \in Permissions : ~ HasMember(r, q) => Sound(Authorize(r, q, p))
<1>1. ASSUME CanRemove(r, q) PROVE Sound(Remove(r, q))
  BY <1>1, RemoveFacts DEF Sound, CanRemove
<1>2. ASSUME NEW p \in Permissions, ~ HasMember(r, q) PROVE Sound(Authorize(r, q, p))
  <2>1. q # r.creator
    BY <1>2 DEF Sound, HasMember
  <2> QED
    BY <2>1, AuthorizeFacts DEF Sound
<1> QED
  BY <1>1, <1>2

(* A row computed from a copy is one whose creator has all rights.         *)
LEMMA NewRow ==
  ASSUME TypeOK, RequestInv, SoundInv, [Next]_vars, NEW d \in Devices
  PROVE  row'[d] = row[d] \/ Sound(row'[d])
<1>1. CASE Created(d)
  BY <1>1, CreateFacts DEF Created, Sound
<1>2. ASSUME NEW t \in Tasks, Granted(t, d) PROVE Sound(row'[d])
  <2>1. /\ Holds(t) /\ From(t) = d /\ task[t].copy \in Row /\ task[t].copy # NoShare
        /\ To(t) \in Devices /\ task[t].perm \in Permissions
    BY <1>2, TaskTypes DEF Granted, Holds, RequestInv, RequestOK, Requesting
  <2>2. Sound(task[t].copy)
    BY <2>1, CopyMembers DEF SoundInv
  <2> QED
    BY <1>2, <2>1, <2>2, SoundRows DEF Granted, Replaced, CanAuthorize
<1>3. ASSUME NEW t \in Tasks, Removed(t, d) PROVE Sound(row'[d])
  <2>1. /\ Holds(t) /\ From(t) = d /\ task[t].copy \in Row /\ task[t].copy # NoShare
        /\ To(t) \in Devices /\ CanRemove(task[t].copy, To(t))
    BY <1>3, TaskTypes DEF Removed, Holds, RequestInv, RequestOK
  <2>2. Sound(task[t].copy)
    BY <2>1, CopyMembers DEF SoundInv
  <2> QED
    BY <1>3, <2>1, <2>2, SoundRows DEF Removed, Replaced
<1>4. ASSUME NEW t \in Tasks, Accepted(t, d) PROVE Sound(row'[d])
  <2>1. /\ Handling(t) /\ To(t) = d /\ request[t].copy \in Row /\ From(t) \in Devices
        /\ From(t) # To(t) /\ task[t].perm \in Permissions
        /\ ~ HasMember(request[t].copy, To(t))
    BY <1>4, TaskTypes, Active DEF Accepted, Handling, RequestInv, RequestOK
  <2>2. request[t].copy = NoShare \/ Sound(request[t].copy)
    BY <2>1, CopyMembers DEF SoundInv
  <2>3. CASE request[t].copy = NoShare
    <3>1. /\ Create(From(t)) \in Row /\ Sound(Create(From(t)))
          /\ ~ HasMember(Create(From(t)), To(t))
      BY <2>1, CreateFacts DEF Sound, HasMember
    <3> QED
      BY <1>4, <2>1, <2>3, <3>1, SoundRows DEF Accepted, Replaced, Joined
  <2>4. CASE request[t].copy # NoShare
    BY <1>4, <2>1, <2>2, <2>4, SoundRows DEF Accepted, Replaced, Joined
  <2> QED
    BY <2>3, <2>4
<1>5. ASSUME NEW t \in Tasks, Dropped(t, d) PROVE Sound(row'[d])
  <2>1. /\ Handling(t) /\ To(t) = d /\ request[t].copy \in Row /\ From(t) \in Devices
        /\ CanRemove(request[t].copy, From(t))
    BY <1>5, TaskTypes, Active DEF Dropped, Handling, RequestInv, RequestOK
  <2>2. Sound(request[t].copy)
    BY <2>1, CopyMembers, NoShareFacts DEF SoundInv, CanRemove, HasMember
  <2> QED
    BY <1>5, <2>1, <2>2, SoundRows DEF Dropped, Replaced
<1> QED
  BY <1>1, <1>2, <1>3, <1>4, <1>5, RowStep

(* Every copy stays sound, and a row is never lost again.                  *)
LEMMA SoundStep ==
  ASSUME TypeOK, RequestInv, SoundInv, [Next]_vars
  PROVE  /\ SoundInv'
         /\ \A d \in Devices : row[d] # NoShare => row'[d] # NoShare
<1>1. \A d \in Devices : row[d] \in Copies(d)
  BY DEF Copies
<1>2. \A d \in Devices : row'[d] = NoShare \/ Sound(row'[d])
  BY <1>1, NewRow DEF SoundInv
<1>3. ASSUME NEW d \in Devices, NEW r \in Copies(d)'
      PROVE  r = NoShare \/ Sound(r)
  BY <1>2, <1>3, CopiesStep DEF SoundInv
<1>4. \A d \in Devices : row[d] # NoShare => row'[d] # NoShare
  <2>1. ~ Sound(NoShare)
    BY NoShareFacts, ShareAssumption DEF Sound
  <2> QED
    BY <2>1, NewRow
<1> QED
  BY <1>3, <1>4 DEF SoundInv, Sound

-----------------------------------------------------------------------------
(* Commands and requests.                                                  *)

(* What is known of a command stays known while neither it nor its         *)
(* request changes.                                                        *)
LEMMA RequestKept ==
  ASSUME TypeOK, RequestInv, SoundInv, [Next]_vars, NEW t \in Tasks,
         task'[t] = task[t], request'[t] = request[t]
  PROVE  RequestOK(t)'
<1>1. RequestOK(t)
  BY DEF RequestInv
<1>2. Requesting(t) => From(t) \in Devices
  BY TaskTypes DEF Requesting
<1>3. /\ Requesting(t) => row'[From(t)] # NoShare
      /\ offered \subseteq offered' /\ excused \subseteq excused'
  BY <1>1, <1>2, SoundStep, HistoryStep DEF RequestOK
<1> QED
  BY <1>1, <1>3
     DEF RequestOK, Requesting, Holds, Handling, Answered, From, To, CanRemove, HasMember

(* Nothing is claimed of a free task.                                      *)
LEMMA RequestEnds ==
  ASSUME NEW t \in Tasks, task'[t] = Idle, request'[t] = NoRequest
  PROVE  RequestOK(t)'
BY DEF RequestOK, Requesting, Holds, Handling, Answered, Idle, NoRequest

(* What is known of a command that ended before its request.               *)
LEMMA RequestGone ==
  ASSUME TypeOK, RequestInv, SoundInv, [Next]_vars, NEW t \in Tasks, EndTask(t),
         task[t].pc # "idle",
         task[t].pc = "asking" => <<From(t), To(t)>> \in excused' \/ Answered(t)
  PROVE  RequestOK(t)'
<1> DEFINE gone == [task[t] EXCEPT !.pc = "gone"]
<1>1. CASE Answered(t)
  BY <1>1, RequestEnds DEF EndTask, Left, TypeOK
<1>2. CASE ~ Answered(t)
  <2>1. task'[t] = gone /\ request'[t] = request[t]
    BY <1>2 DEF EndTask, Left, TypeOK
  <2>2. /\ gone.pc = "gone" /\ gone.dev = task[t].dev /\ gone.peer = task[t].peer
        /\ gone.perm = task[t].perm
    BY DEF TypeOK, Task
  <2>3. Requesting(t) /\ RequestOK(t) /\ From(t) \in Devices
    BY <1>2, Active DEF Answered, RequestInv
  <2>4. row'[From(t)] # NoShare /\ offered \subseteq offered' /\ excused \subseteq excused'
    BY <2>3, SoundStep, HistoryStep DEF RequestOK
  <2> HIDE DEF gone
  <2>5. request[t].kind = "invite" => <<From(t), To(t)>> \in excused'
    BY <1>2, <2>3, <2>4 DEF RequestOK, Requesting
  <2> QED
    BY <1>2, <2>1, <2>2, <2>3, <2>4, <2>5
       DEF RequestOK, Requesting, Holds, Handling, Answered, From, To, CanRemove, HasMember
<1> QED
  BY <1>1, <1>2

(* What is known of a command whose request was handled further.           *)
LEMMA RequestHandled ==
  ASSUME TypeOK, RequestInv, SoundInv, [Next]_vars, NEW t \in Tasks,
         NEW at \in {"checked", "loaded", "ok", "refused"}, NEW c \in Row, Handle(t, at, c),
         request[t].at # "none",
         (at = "loaded" /\ request[t].kind = "invite") => ~ HasMember(c, To(t)),
         (at = "loaded" /\ request[t].kind = "leave") => CanRemove(c, From(t))
  PROVE  RequestOK(t)'
<1> DEFINE next == [request[t] EXCEPT !.at = at, !.copy = c]
<1>1. CASE task[t].pc = "gone" /\ at \in {"ok", "refused"}
  BY <1>1, RequestEnds DEF Handle, TypeOK
<1>2. CASE ~ (task[t].pc = "gone" /\ at \in {"ok", "refused"})
  <2>1. task'[t] = task[t] /\ request'[t] = next
    BY <1>2 DEF Handle, TypeOK
  <2>2. next.at = at /\ next.copy = c /\ next.kind = request[t].kind
    BY DEF TypeOK, Request
  <2>3. Requesting(t) /\ RequestOK(t) /\ From(t) \in Devices
    BY Active DEF RequestInv
  <2>4. row'[From(t)] # NoShare /\ offered \subseteq offered' /\ excused \subseteq excused'
    BY <2>3, SoundStep, HistoryStep DEF RequestOK
  <2> HIDE DEF next
  <2> QED
    BY <1>2, <2>1, <2>2, <2>3, <2>4
       DEF RequestOK, Requesting, Holds, Handling, Answered, From, To, CanRemove, HasMember
<1> QED
  BY <1>1, <1>2

(* Every step keeps what is known of commands and requests.                *)
LEMMA RequestStep ==
  ASSUME TypeOK, RequestInv, SoundInv, [Next]_vars
  PROVE  RequestInv'
<1> SUFFICES ASSUME NEW t \in Tasks PROVE RequestOK(t)'
  BY DEF RequestInv
<1>1. CASE task'[t] = task[t] /\ request'[t] = request[t]
  BY <1>1, RequestKept
<1>2. ASSUME NEW u \in Tasks, u # t,
             EndTask(u) \/ \E at \in {"checked", "loaded", "ok", "refused"}, c \in Row : Handle(u, at, c)
      PROVE  task'[t] = task[t] /\ request'[t] = request[t]
  BY <1>2 DEF EndTask, Handle, TypeOK
<1>3. \A d \in Devices : row[d] \in Row /\ NoShare \in Row
  BY NoShareFacts DEF TypeOK
<1>4. ASSUME NEW u \in Tasks, InviteAnswered(u) PROVE RequestOK(t)'
  <2>1. CASE EndTask(u)
    BY <1>1, <1>2, <1>4, <2>1, RequestGone DEF InviteAnswered, Answered
  <2>2. CASE /\ task' = [task EXCEPT ![u].pc = "cancelling"]
             /\ request' = [request EXCEPT ![u] = Sent("leave")]
    <3>1. CASE u # t
      BY <1>1, <2>2, <3>1 DEF TypeOK
    <3>2. CASE u = t
      <4> DEFINE x == [task[t] EXCEPT !.pc = "cancelling"]
      <4>1. /\ x.pc = "cancelling" /\ x.dev = task[t].dev /\ x.peer = task[t].peer
            /\ x.perm = task[t].perm
        BY DEF TypeOK, Task
      <4>2. task'[t] = x /\ request'[t] = Sent("leave")
        BY <2>2, <3>2 DEF TypeOK
      <4>3. Requesting(t) /\ RequestOK(t) /\ From(t) \in Devices
        BY <1>4, <3>2, TaskTypes DEF InviteAnswered, RequestInv, Requesting
      <4>4. row'[From(t)] # NoShare /\ offered \subseteq offered'
        BY <4>3, SoundStep, HistoryStep DEF RequestOK
      <4> HIDE DEF x
      <4> QED
        BY <4>1, <4>2, <4>3, <4>4
           DEF RequestOK, Requesting, Holds, Handling, Sent, From, To
    <3> QED
      BY <3>1, <3>2
  <2> QED
    BY <1>4, <2>1, <2>2 DEF InviteAnswered
<1>5. ASSUME NEW u \in Tasks,
             InviteFails(u) \/ CancelEnds(u) \/ RemoveSave(u) \/ RemoveFails(u)
      PROVE  RequestOK(t)'
  <2>1. /\ EndTask(u) /\ task[u].pc # "idle"
        /\ task[u].pc = "asking" => <<From(u), To(u)>> \in excused' \/ Answered(u)
    BY <1>5 DEF InviteFails, CancelEnds, RemoveSave, RemoveFails, Answered
  <2> QED
    BY <1>1, <1>2, <2>1, RequestGone
<1>6. ASSUME NEW u \in Tasks, CheckCaller(u) \/ SaveInvited(u) \/ SaveLeft(u)
      PROVE  RequestOK(t)'
  <2>1. /\ request[u].at # "none"
        /\ \E at \in {"checked", "ok", "refused"} : Handle(u, at, NoShare)
    BY <1>6 DEF CheckCaller, SaveInvited, SaveLeft
  <2> QED
    BY <1>1, <1>2, <2>1, NoShareFacts, RequestHandled
<1>7. ASSUME NEW u \in Tasks, LoadForInvite(u) PROVE RequestOK(t)'
  <2>1. request[u].at # "none" /\ request[u].kind = "invite" /\ To(u) \in Devices
    BY <1>7, Active DEF LoadForInvite
  <2>2. CASE Handle(u, "ok", NoShare)
    BY <1>1, <1>2, <2>1, <2>2, NoShareFacts, RequestHandled
  <2>3. CASE ~ HasMember(row[To(u)], To(u)) /\ Handle(u, "loaded", row[To(u)])
    BY <1>1, <1>2, <1>3, <2>1, <2>3, RequestHandled
  <2> QED
    BY <1>7, <2>2, <2>3 DEF LoadForInvite
<1>8. ASSUME NEW u \in Tasks, LoadForLeave(u) PROVE RequestOK(t)'
  <2>1. request[u].at # "none" /\ request[u].kind = "leave" /\ To(u) \in Devices
    BY <1>8, Active DEF LoadForLeave
  <2>2. CASE Handle(u, "ok", NoShare)
    BY <1>1, <1>2, <2>1, <2>2, NoShareFacts, RequestHandled
  <2>3. CASE CanRemove(row[To(u)], From(u)) /\ Handle(u, "loaded", row[To(u)])
    BY <1>1, <1>2, <1>3, <2>1, <2>3, RequestHandled
  <2> QED
    BY <1>8, <2>2, <2>3 DEF LoadForLeave
<1>9. ASSUME NEW u \in Tasks, RequestLost(u) PROVE RequestOK(t)'
  BY <1>1, <1>9, RequestEnds DEF RequestLost, TypeOK
<1>10. ASSUME NEW u \in Tasks, NEW d \in Devices, NEW p \in Devices, NEW x \in Permissions,
              Invite(u, d, p, x)
       PROVE  RequestOK(t)'
  <2>1. CASE u # t
    BY <1>1, <1>10, <2>1 DEF Invite, TypeOK
  <2>2. CASE u = t
    <3>1. /\ task'[t] = [pc |-> "asking", dev |-> d, peer |-> p, perm |-> x, copy |-> row[d]]
          /\ request'[t] = Sent("invite") /\ p # d /\ row[d] # NoShare
          /\ row' = row /\ <<d, p, x>> \in offered'
      BY <1>10, <2>2 DEF Invite, TypeOK
    <3> QED
      BY <3>1 DEF RequestOK, Requesting, Holds, Handling, Sent, From, To
  <2> QED
    BY <2>1, <2>2
<1>11. ASSUME NEW u \in Tasks, NEW d \in Devices, NEW p \in Devices, RemoveLoad(u, d, p)
       PROVE  RequestOK(t)'
  <2>1. CASE u # t
    BY <1>1, <1>11, <2>1 DEF RemoveLoad, TypeOK
  <2>2. CASE u = t
    <3>1. /\ task'[t] = [pc |-> "removing", dev |-> d, peer |-> p, perm |-> "none", copy |-> row[d]]
          /\ request'[t] = NoRequest /\ CanRemove(row[d], p)
      BY <1>11, <2>2 DEF RemoveLoad, TypeOK
    <3>2. row[d] # NoShare
      BY <3>1, NoShareFacts DEF CanRemove, HasMember
    <3> QED
      BY <3>1, <3>2 DEF RequestOK, Requesting, Holds, Handling, NoRequest, From, To, CanRemove, HasMember
  <2> QED
    BY <2>1, <2>2
<1>12. ASSUME NEW d \in Devices, Crash(d) PROVE RequestOK(t)'
  <2> DEFINE dies == task[t].pc \in {"asking", "cancelling", "removing"} /\ From(t) = d
             cut == ~ Answered(t) /\ To(t) = d
             gone == [task[t] EXCEPT !.pc = "gone"]
             refused == [request[t] EXCEPT !.at = "refused", !.copy = NoShare]
  <2>1. task'[t] = IF dies THEN IF Answered(t) THEN Idle ELSE gone
                   ELSE IF cut /\ task[t].pc = "gone" THEN Idle ELSE task[t]
    BY <1>12 DEF Crash, Left
  <2>2. request'[t] = IF (dies /\ Answered(t)) \/ (cut /\ task[t].pc = "gone") THEN NoRequest
                      ELSE IF cut THEN refused ELSE request[t]
    BY <1>12 DEF Crash
  <2>3. /\ gone.pc = "gone" /\ gone.dev = task[t].dev /\ gone.peer = task[t].peer
        /\ gone.perm = task[t].perm
        /\ refused.at = "refused" /\ refused.kind = request[t].kind
    BY DEF TypeOK, Task, Request
  <2>4. RequestOK(t) /\ offered \subseteq offered' /\ excused \subseteq excused' /\ row' = row
    BY <1>12, HistoryStep DEF RequestInv, Crash
  <2> HIDE DEF gone, refused
  <2>5. CASE dies /\ Answered(t)
    BY <2>1, <2>2, <2>5, RequestEnds
  <2>6. CASE dies /\ ~ Answered(t)
    <3>1. Requesting(t) /\ From(t) # To(t)
      BY <2>6, Active DEF Answered, RequestInv, RequestOK
    <3>2. task'[t] = gone /\ request'[t] = request[t]
      BY <2>1, <2>2, <2>6, <3>1
    <3>3. task[t].pc = "asking" => <<From(t), To(t)>> \in excused'
      BY <1>12, <2>6 DEF Crash
    <3> QED
      BY <2>3, <2>4, <2>6, <3>1, <3>2, <3>3
         DEF RequestOK, Requesting, Holds, Handling, Answered, From, To, CanRemove, HasMember
  <2>7. CASE ~ dies /\ cut /\ task[t].pc = "gone"
    BY <2>1, <2>2, <2>7, RequestEnds
  <2>8. CASE ~ dies /\ cut /\ task[t].pc # "gone"
    <3>1. task'[t] = task[t] /\ request'[t] = refused /\ Requesting(t)
      BY <2>1, <2>2, <2>8, Active DEF Answered
    <3> QED
      BY <2>3, <2>4, <2>8, <3>1
         DEF RequestOK, Requesting, Holds, Handling, Answered, From, To, CanRemove, HasMember
  <2>9. CASE ~ dies /\ ~ cut
    BY <1>1, <2>1, <2>2, <2>9
  <2> QED
    BY <2>5, <2>6, <2>7, <2>8, <2>9
<1>13. ASSUME NEW d \in Devices, CreateShare(d) PROVE RequestOK(t)'
  BY <1>1, <1>13 DEF CreateShare
<1>14. CASE UNCHANGED vars
  BY <1>1, <1>14 DEF vars
<1>15. CASE Next
  BY <1>4, <1>5, <1>6, <1>7, <1>8, <1>9, <1>10, <1>11, <1>12, <1>13, <1>15 DEF Next
<1> QED
  BY <1>14, <1>15

-----------------------------------------------------------------------------
(* Members were offered what they have.                                    *)

(* Every step keeps that members of a copy were offered their permission.  *)
LEMMA OfferedStep ==
  ASSUME TypeOK, RequestInv, SoundInv, OfferedInv, [Next]_vars
  PROVE  OfferedInv'
<1>1. offered \subseteq offered'
  BY HistoryStep
<1>2. ASSUME NEW d \in Devices, NEW r \in Copies(d) PROVE Offered(offered', d, r)
  BY <1>1 DEF OfferedInv, Offered, HasMember
<1>3. \A d \in Devices : row[d] \in Copies(d)
  BY DEF Copies
<1>4. ASSUME NEW d \in Devices, Created(d) PROVE Offered(offered', d, row'[d])
  BY <1>4, CreateFacts DEF Created, Offered, HasMember
<1>5. ASSUME NEW d \in Devices, NEW t \in Tasks, Granted(t, d) PROVE Offered(offered', d, row'[d])
  <2> DEFINE new == Authorize(task[t].copy, To(t), task[t].perm)
  <2>1. /\ From(t) = d /\ From(t) # To(t) /\ To(t) \in Devices /\ task[t].perm \in Permissions
        /\ <<From(t), To(t), task[t].perm>> \in offered /\ task[t].copy \in Row
        /\ Offered(offered', d, task[t].copy) /\ row'[d] = new
    BY <1>2, <1>5, TaskTypes, CopyMembers
       DEF Granted, Replaced, Holds, RequestInv, RequestOK, Requesting
  <2>2. /\ new.creator = task[t].copy.creator
        /\ \A q \in Devices : new.perm[q] = IF q = To(t) THEN task[t].perm ELSE task[t].copy.perm[q]
    BY <2>1, AuthorizeFacts
  <2> HIDE DEF new
  <2> QED
    BY <1>1, <2>1, <2>2 DEF Offered, HasMember
<1>6. ASSUME NEW d \in Devices, NEW t \in Tasks, Removed(t, d) PROVE Offered(offered', d, row'[d])
  <2> DEFINE new == Remove(task[t].copy, To(t))
  <2>1. /\ To(t) \in Devices /\ task[t].copy \in Row /\ Offered(offered', d, task[t].copy) /\ row'[d] = new
    BY <1>2, <1>6, TaskTypes, CopyMembers DEF Removed, Replaced, Holds
  <2>2. /\ new.creator = task[t].copy.creator
        /\ \A q \in Devices : new.perm[q] = IF q = To(t) THEN "none" ELSE task[t].copy.perm[q]
    BY <2>1, RemoveFacts
  <2> HIDE DEF new
  <2> QED
    BY <2>1, <2>2 DEF Offered, HasMember
<1>7. ASSUME NEW d \in Devices, NEW t \in Tasks, Accepted(t, d) PROVE Offered(offered', d, row'[d])
  <2> DEFINE base == IF request[t].copy = NoShare THEN Create(From(t)) ELSE request[t].copy
             new == Authorize(base, To(t), task[t].perm)
  <2>1. /\ To(t) = d /\ From(t) \in Devices /\ task[t].perm \in Permissions
        /\ <<From(t), To(t), task[t].perm>> \in offered /\ request[t].copy \in Row
        /\ Offered(offered', d, request[t].copy) /\ row'[d] = new
    BY <1>2, <1>7, TaskTypes, Active, CopyMembers
       DEF Accepted, Replaced, Handling, RequestInv, RequestOK, Joined
  <2>2. Offered(offered', d, Create(From(t)))
    BY <2>1, CreateFacts DEF Offered, HasMember
  <2>3. base \in Row /\ Offered(offered', d, base)
    BY <2>1, <2>2, CreateFacts
  <2> HIDE DEF base
  <2>4. /\ new.creator = base.creator
        /\ \A q \in Devices : new.perm[q] = IF q = d THEN task[t].perm ELSE base.perm[q]
    BY <2>1, <2>3, AuthorizeFacts
  <2> HIDE DEF new
  <2> QED
    BY <1>1, <2>1, <2>3, <2>4 DEF Offered, HasMember
<1>8. ASSUME NEW d \in Devices, NEW t \in Tasks, Dropped(t, d) PROVE Offered(offered', d, row'[d])
  <2> DEFINE new == Remove(request[t].copy, From(t))
  <2>1. /\ From(t) \in Devices /\ request[t].copy \in Row /\ Offered(offered', d, request[t].copy)
        /\ row'[d] = new
    BY <1>2, <1>8, TaskTypes, CopyMembers DEF Dropped, Replaced
  <2>2. /\ new.creator = request[t].copy.creator
        /\ \A q \in Devices : new.perm[q] = IF q = From(t) THEN "none" ELSE request[t].copy.perm[q]
    BY <2>1, RemoveFacts
  <2> HIDE DEF new
  <2> QED
    BY <2>1, <2>2 DEF Offered, HasMember
<1>9. ASSUME NEW d \in Devices PROVE Offered(offered', d, row'[d])
  BY <1>2, <1>3, <1>4, <1>5, <1>6, <1>7, <1>8, RowStep
<1>10. ASSUME NEW d \in Devices, NEW r \in Copies(d)' PROVE Offered(offered', d, r)
  BY <1>2, <1>9, <1>10, CopiesStep
<1> QED
  BY <1>10 DEF OfferedInv

-----------------------------------------------------------------------------
(* Who is listed has the share or declined.                                *)

(* An invitation is answered with success by a device that has the share,  *)
(* or declined.                                                            *)
LEMMA OkStep ==
  ASSUME TypeOK, RequestInv, SoundInv, [Next]_vars, NEW t \in Tasks,
         task'[t].pc = "asking", request'[t].at = "ok"
  PROVE  /\ task'[t] = task[t]
         /\ request[t].at = "ok" \/ Has(To(t))'
<1>0. /\ NoRequest.at = "none" /\ Idle.pc = "idle" /\ \A k \in {"invite", "leave"} : Sent(k).at = "sent"
      /\ task[t] \in Task /\ request[t] \in Request
  BY DEF NoRequest, Idle, Sent, TypeOK
<1>1. ASSUME NEW u \in Tasks, u # t,
             EndTask(u) \/ \E at \in {"checked", "loaded", "ok", "refused"}, c \in Row : Handle(u, at, c)
      PROVE  task'[t] = task[t] /\ request'[t] = request[t]
  BY <1>1 DEF EndTask, Handle, TypeOK
<1>2. ~ EndTask(t)
  BY <1>0 DEF EndTask, Left, TypeOK, Task
<1>3. ASSUME NEW at \in {"checked", "loaded", "refused"}, NEW c \in Row
      PROVE  ~ Handle(t, at, c)
  BY <1>0, <1>3 DEF Handle, TypeOK, Request
<1>4. ASSUME Handle(t, "ok", NoShare)
      PROVE  task'[t] = task[t] /\ task[t].pc = "asking"
  BY <1>0, <1>4 DEF Handle, TypeOK
<1>5. NoShare \in Row /\ \A d \in Devices : row[d] \in Row
  BY NoShareFacts DEF TypeOK
<1>6. ASSUME NEW u \in Tasks, InviteAnswered(u)
      PROVE  task'[t] = task[t] /\ request'[t] = request[t]
  <2>1. CASE EndTask(u)
    BY <1>1, <1>2, <2>1
  <2>2. CASE /\ task' = [task EXCEPT ![u].pc = "cancelling"]
             /\ request' = [request EXCEPT ![u] = Sent("leave")]
    BY <1>0, <2>2 DEF TypeOK
  <2> QED
    BY <1>6, <2>1, <2>2 DEF InviteAnswered
<1>7. ASSUME NEW u \in Tasks, InviteFails(u) \/ CancelEnds(u) \/ RemoveSave(u) \/ RemoveFails(u)
      PROVE  task'[t] = task[t] /\ request'[t] = request[t]
  BY <1>1, <1>2, <1>7 DEF InviteFails, CancelEnds, RemoveSave, RemoveFails
<1>8. ASSUME NEW u \in Tasks, CheckCaller(u)
      PROVE  task'[t] = task[t] /\ request'[t] = request[t]
  BY <1>1, <1>3, <1>5, <1>8 DEF CheckCaller
<1>9. ASSUME NEW u \in Tasks, LoadForLeave(u) \/ SaveLeft(u)
      PROVE  task'[t] = task[t] /\ request'[t] = request[t]
  <2>1. To(u) \in Devices /\ request[u].kind = "leave"
    BY <1>9, TaskTypes DEF LoadForLeave, SaveLeft
  <2>2. u # t
    <3>1. task[t].pc = "asking" => request[t].kind = "invite"
      BY DEF RequestInv, RequestOK
    <3> QED
      BY <1>3, <1>4, <1>5, <1>9, <2>1, <3>1 DEF LoadForLeave, SaveLeft
  <2> QED
    BY <1>1, <1>5, <1>9, <2>1, <2>2 DEF LoadForLeave, SaveLeft
<1>10. ASSUME NEW u \in Tasks, LoadForInvite(u)
       PROVE  task'[t] = task[t] /\ (request'[t] = request[t] \/ Has(To(t))')
  <2>1. To(u) \in Devices
    BY <1>10, TaskTypes DEF LoadForInvite
  <2>2. CASE u # t
    BY <1>1, <1>5, <1>10, <2>1, <2>2 DEF LoadForInvite
  <2>3. CASE u = t
    <3>1. /\ Handle(t, "ok", NoShare) /\ row' = row
          /\ To(t) \in declined' \/ HasMember(row[To(t)], To(t))
      BY <1>3, <1>5, <1>10, <2>1, <2>3 DEF LoadForInvite
    <3>2. HasMember(row[To(t)], To(t)) => row[To(t)] # NoShare
      BY <2>1, <2>3, NoShareFacts DEF HasMember
    <3> QED
      BY <1>4, <3>1, <3>2 DEF Has, To
  <2> QED
    BY <2>2, <2>3
<1>11. ASSUME NEW u \in Tasks, SaveInvited(u)
       PROVE  task'[t] = task[t] /\ (request'[t] = request[t] \/ Has(To(t))')
  <2>1. CASE u # t
    BY <1>1, <1>5, <1>11, <2>1 DEF SaveInvited
  <2>2. CASE u = t
    <3>1. /\ Handle(t, "ok", NoShare)
          /\ To(t) \in declined' \/ row' = [row EXCEPT ![To(t)] = Joined(t)]
      BY <1>11, <2>2 DEF SaveInvited, Save
    <3>2. /\ From(t) \in Devices /\ To(t) \in Devices /\ task[t].perm \in Permissions
          /\ request[t].copy \in Row
      BY <1>11, <2>2, Active, TaskTypes DEF SaveInvited, RequestInv, RequestOK
    <3>3. Joined(t) # NoShare
      <4>1. (IF request[t].copy = NoShare THEN Create(From(t)) ELSE request[t].copy) \in Row
        BY <3>2, CreateFacts
      <4> QED
        BY <3>2, <4>1, AuthorizeFacts DEF Joined
    <3>4. To(t) \in declined' \/ row'[To(t)] # NoShare
      BY <3>1, <3>2, <3>3 DEF TypeOK
    <3> QED
      BY <1>4, <3>1, <3>4 DEF Has, To
  <2> QED
    BY <2>1, <2>2
<1>12. ASSUME NEW u \in Tasks, RequestLost(u)
       PROVE  task'[t] = task[t] /\ request'[t] = request[t]
  BY <1>0, <1>12 DEF RequestLost, TypeOK
<1>13. ASSUME NEW u \in Tasks, NEW d \in Devices, NEW p \in Devices, NEW x \in Permissions,
              RemoveLoad(u, d, p) \/ Invite(u, d, p, x)
       PROVE  task'[t] = task[t] /\ request'[t] = request[t]
  BY <1>0, <1>13 DEF RemoveLoad, Invite, TypeOK
<1>14. ASSUME NEW d \in Devices, Crash(d)
       PROVE  task'[t] = task[t] /\ request'[t] = request[t]
  <2> DEFINE gone == [task[t] EXCEPT !.pc = "gone"]
             refused == [request[t] EXCEPT !.at = "refused", !.copy = NoShare]
  <2>1. gone.pc = "gone" /\ refused.at = "refused"
    BY <1>0 DEF Task, Request
  <2>2. task'[t] \in {task[t], Idle, gone} /\ request'[t] \in {request[t], NoRequest, refused}
    BY <1>14 DEF Crash, Left
  <2> HIDE DEF gone, refused
  <2> QED
    BY <1>0, <2>1, <2>2
<1>15. ASSUME NEW d \in Devices, CreateShare(d)
       PROVE  task'[t] = task[t] /\ request'[t] = request[t]
  BY <1>15 DEF CreateShare
<1>16. CASE UNCHANGED vars
  BY <1>16 DEF vars
<1>17. ASSUME NEW u \in Tasks, NEW d \in Devices, NEW p \in Devices, RemoveLoad(u, d, p)
       PROVE  task'[t] = task[t] /\ request'[t] = request[t]
  BY <1>13, <1>17, ShareAssumption
<1>18. CASE Next
  BY <1>6, <1>7, <1>8, <1>9, <1>10, <1>11, <1>12, <1>13, <1>14, <1>15, <1>17, <1>18 DEF Next
<1> QED
  BY <1>16, <1>18

(* What a device has it keeps, and what it declined stays declined.        *)
LEMMA HasStep ==
  ASSUME TypeOK, RequestInv, SoundInv, [Next]_vars, NEW q \in Devices, Has(q)
  PROVE  Has(q)'
BY SoundStep, HistoryStep DEF Has

(* Every step keeps that members of a copy have the share or declined.     *)
LEMMA ListedStep ==
  ASSUME TypeOK, RequestInv, SoundInv, ListedInv, [Next]_vars
  PROVE  ListedInv'
<1>1. \A q \in Devices : Has(q) => Has(q)'
  BY HasStep
<1>2. \A d \in Devices : row[d] \in Copies(d)
  BY DEF Copies
<1>3. ASSUME NEW d \in Devices, NEW r \in Copies(d), NEW q \in Devices, HasMember(r, q)
      PROVE  Has(q)'
  BY <1>1, <1>3 DEF ListedInv
<1>4. ASSUME NEW d \in Devices, NEW q \in Devices, HasMember(row'[d], q)
      PROVE  Has(q)'
  <2>1. CASE row'[d] = row[d]
    BY <1>2, <1>3, <1>4, <2>1
  <2>2. CASE Created(d)
    <3>1. q = d /\ row'[d] # NoShare
      BY <1>4, <2>2, CreateFacts DEF Created, HasMember
    <3> QED
      BY <3>1 DEF Has
  <2>3. ASSUME NEW t \in Tasks, Granted(t, d) PROVE Has(q)'
    <3>1. /\ From(t) = d /\ To(t) \in Devices /\ task[t].perm \in Permissions
          /\ task[t].copy \in Row /\ task[t].copy \in Copies(d)
          /\ row'[d] = Authorize(task[t].copy, To(t), task[t].perm)
      BY <2>3, TaskTypes, CopyMembers
         DEF Granted, Replaced, Holds, RequestInv, RequestOK, Requesting
    <3>2. q = To(t) \/ HasMember(task[t].copy, q)
      BY <1>4, <3>1, AuthorizeFacts DEF HasMember
    <3>3. Has(To(t))
      BY <2>3 DEF Granted, ListedInv
    <3> QED
      BY <1>1, <1>3, <3>1, <3>2, <3>3
  <2>4. ASSUME NEW t \in Tasks, Removed(t, d) PROVE Has(q)'
    <3>1. /\ To(t) \in Devices /\ task[t].copy \in Row /\ task[t].copy \in Copies(d)
          /\ row'[d] = Remove(task[t].copy, To(t))
      BY <2>4, TaskTypes, CopyMembers DEF Removed, Replaced, Holds
    <3>2. \A x \in Devices :
            Remove(task[t].copy, To(t)).perm[x] = IF x = To(t) THEN "none" ELSE task[t].copy.perm[x]
      BY <3>1, RemoveFacts
    <3>3. HasMember(task[t].copy, q)
      BY <1>4, <3>1, <3>2 DEF HasMember
    <3> QED
      BY <1>3, <3>1, <3>3
  <2>5. ASSUME NEW t \in Tasks, Accepted(t, d) PROVE Has(q)'
    <3> DEFINE base == IF request[t].copy = NoShare THEN Create(From(t)) ELSE request[t].copy
    <3>1. /\ To(t) = d /\ From(t) \in Devices /\ task[t].perm \in Permissions
          /\ request[t].copy \in Row /\ request[t].copy \in Copies(d)
          /\ row'[d] = Authorize(base, d, task[t].perm) /\ row[From(t)] # NoShare
      BY <2>5, TaskTypes, Active, CopyMembers
         DEF Accepted, Replaced, Handling, RequestInv, RequestOK, Joined
    <3>2. base \in Row
      BY <3>1, CreateFacts
    <3> HIDE DEF base
    <3>3. row'[d] # NoShare /\ (q = d \/ HasMember(base, q))
      BY <1>4, <3>1, <3>2, AuthorizeFacts DEF HasMember
    <3>4. HasMember(base, q) => q = From(t) \/ HasMember(request[t].copy, q)
      BY <3>1, CreateFacts DEF base, HasMember
    <3>5. Has(From(t))
      BY <3>1 DEF Has
    <3>6. Has(d)'
      BY <3>3 DEF Has
    <3> QED
      BY <1>1, <1>3, <3>1, <3>3, <3>4, <3>5, <3>6
  <2>6. ASSUME NEW t \in Tasks, Dropped(t, d) PROVE Has(q)'
    <3>1. /\ From(t) \in Devices /\ request[t].copy \in Row /\ request[t].copy \in Copies(d)
          /\ row'[d] = Remove(request[t].copy, From(t))
      BY <2>6, TaskTypes, CopyMembers DEF Dropped, Replaced
    <3>2. \A x \in Devices :
            Remove(request[t].copy, From(t)).perm[x] = IF x = From(t) THEN "none" ELSE request[t].copy.perm[x]
      BY <3>1, RemoveFacts
    <3>3. HasMember(request[t].copy, q)
      BY <1>4, <3>1, <3>2 DEF HasMember
    <3> QED
      BY <1>3, <3>1, <3>3
  <2> QED
    BY <2>1, <2>2, <2>3, <2>4, <2>5, <2>6, RowStep
<1>5. ASSUME NEW d \in Devices, NEW r \in Copies(d)', NEW q \in Devices, HasMember(r, q)
      PROVE  Has(q)'
  BY <1>3, <1>4, <1>5, CopiesStep
<1>6. ASSUME NEW t \in Tasks, task'[t].pc = "asking", request'[t].at = "ok"
      PROVE  Has(To(t))'
  <2>1. task'[t] = task[t] /\ (request[t].at = "ok" \/ Has(To(t))')
    BY <1>6, OkStep
  <2>2. CASE request[t].at = "ok"
    <3>1. Has(To(t)) /\ To(t) \in Devices
      BY <1>6, <2>1, <2>2, TaskTypes DEF ListedInv
    <3>2. To(t)' = To(t)
      BY <2>1 DEF To
    <3> QED
      BY <1>1, <3>1, <3>2
  <2> QED
    BY <2>1, <2>2
<1>7. \A d, q \in Devices : \A r \in Copies(d)' : HasMember(r, q) => Has(q)'
  BY <1>5
<1> QED
  BY <1>6, <1>7 DEF ListedInv, HasMember

-----------------------------------------------------------------------------
(* The creator of a row lists the device whose row it is.                  *)

(* Who is listed stays listed, or the history says why not.                *)
LEMMA MemberStep ==
  ASSUME TypeOK, RequestInv, SoundInv, [Next]_vars, NEW d \in Devices, NEW q \in Devices,
         HasMember(row[d], q)
  PROVE  HasMember(row'[d], q) \/ <<d, q>> \in excused'
<1>1. row[d] # NoShare
  BY NoShareFacts DEF HasMember
<1>2. ASSUME NEW copy, NEW new, Replaced(d, copy, new), row[d] # copy
      PROVE  HasMember(row'[d], q) \/ <<d, q>> \in excused'
  BY <1>2 DEF Replaced, Overwritten, Members
<1>3. ASSUME NEW t \in Tasks, Granted(t, d)
      PROVE  HasMember(row'[d], q) \/ <<d, q>> \in excused'
  <2>1. CASE row[d] # task[t].copy
    BY <1>2, <1>3, <2>1 DEF Granted
  <2>2. CASE row[d] = task[t].copy
    <3>1. /\ To(t) \in Devices /\ task[t].perm \in Permissions /\ row[d] \in Row
          /\ row'[d] = Authorize(row[d], To(t), task[t].perm)
      BY <1>3, <2>2, TaskTypes DEF Granted, Replaced, RequestInv, RequestOK, Requesting
    <3>2. \A x \in Devices : row'[d].perm[x] = IF x = To(t) THEN task[t].perm ELSE row[d].perm[x]
      BY <3>1, AuthorizeFacts
    <3> QED
      BY <3>1, <3>2, ShareAssumption DEF HasMember
  <2> QED
    BY <2>1, <2>2
<1>4. ASSUME NEW t \in Tasks, Removed(t, d)
      PROVE  HasMember(row'[d], q) \/ <<d, q>> \in excused'
  <2>1. CASE row[d] # task[t].copy
    BY <1>2, <1>4, <2>1 DEF Removed
  <2>2. CASE row[d] = task[t].copy
    <3>1. /\ To(t) \in Devices /\ row[d] \in Row /\ row'[d] = Remove(row[d], To(t))
          /\ <<d, To(t)>> \in excused'
      BY <1>4, <2>2, TaskTypes DEF Removed, Replaced
    <3>2. \A x \in Devices :
            Remove(row[d], To(t)).perm[x] = IF x = To(t) THEN "none" ELSE row[d].perm[x]
      BY <3>1, RemoveFacts
    <3> QED
      BY <3>1, <3>2 DEF HasMember
  <2> QED
    BY <2>1, <2>2
<1>5. ASSUME NEW t \in Tasks, Accepted(t, d)
      PROVE  HasMember(row'[d], q) \/ <<d, q>> \in excused'
  <2>1. CASE row[d] # request[t].copy
    BY <1>2, <1>5, <2>1 DEF Accepted
  <2>2. CASE row[d] = request[t].copy
    <3>1. /\ To(t) \in Devices /\ task[t].perm \in Permissions /\ row[d] \in Row
          /\ row'[d] = Authorize(row[d], To(t), task[t].perm)
      BY <1>1, <1>5, <2>2, TaskTypes, Active
         DEF Accepted, Replaced, Joined, Handling, RequestInv, RequestOK
    <3>2. \A x \in Devices : row'[d].perm[x] = IF x = To(t) THEN task[t].perm ELSE row[d].perm[x]
      BY <3>1, AuthorizeFacts
    <3> QED
      BY <3>1, <3>2, ShareAssumption DEF HasMember
  <2> QED
    BY <2>1, <2>2
<1>6. ASSUME NEW t \in Tasks, Dropped(t, d)
      PROVE  HasMember(row'[d], q) \/ <<d, q>> \in excused'
  <2>1. CASE row[d] # request[t].copy
    BY <1>2, <1>6, <2>1 DEF Dropped
  <2>2. CASE row[d] = request[t].copy
    <3>1. /\ From(t) \in Devices /\ row[d] \in Row /\ row'[d] = Remove(row[d], From(t))
          /\ <<d, From(t)>> \in excused'
      BY <1>6, <2>2, TaskTypes, CopyMembers DEF Dropped, Replaced
    <3>2. \A x \in Devices :
            Remove(row[d], From(t)).perm[x] = IF x = From(t) THEN "none" ELSE row[d].perm[x]
      BY <3>1, RemoveFacts
    <3> QED
      BY <3>1, <3>2 DEF HasMember
  <2> QED
    BY <2>1, <2>2
<1> QED
  BY <1>1, <1>3, <1>4, <1>5, <1>6, RowStep DEF Created

(* An answer that is waiting is looked at, or the history says why not.    *)
LEMMA AnsweringStep ==
  ASSUME TypeOK, RequestInv, VouchInv, [Next]_vars, NEW d \in Devices, NEW q \in Devices,
         Answering(d, q)
  PROVE  Answering(d, q)' \/ HasMember(row'[d], q) \/ <<d, q>> \in excused'
<1>1. PICK t \in Tasks :
        task[t].pc = "asking" /\ request[t].at = "ok" /\ From(t) = d /\ To(t) = q
  BY DEF Answering
<1>2. CASE task'[t] = task[t] /\ request'[t] = request[t]
  BY <1>1, <1>2 DEF Answering, From, To
<1>3. ASSUME NEW u \in Tasks, u # t,
             EndTask(u) \/ \E at \in {"checked", "loaded", "ok", "refused"}, c \in Row : Handle(u, at, c)
      PROVE  task'[t] = task[t] /\ request'[t] = request[t]
  BY <1>3 DEF EndTask, Handle, TypeOK
<1>4. NoShare \in Row /\ \A e \in Devices : row[e] \in Row
  BY NoShareFacts DEF TypeOK
<1>5. ASSUME NEW u \in Tasks, InviteAnswered(u)
      PROVE  Answering(d, q)' \/ HasMember(row'[d], q) \/ <<d, q>> \in excused'
  <2>1. CASE u # t
    <3>1. CASE EndTask(u)
      BY <1>2, <1>3, <2>1, <3>1
    <3>2. CASE /\ task' = [task EXCEPT ![u].pc = "cancelling"]
               /\ request' = [request EXCEPT ![u] = Sent("leave")]
      BY <1>2, <2>1, <3>2 DEF TypeOK
    <3> QED
      BY <1>5, <3>1, <3>2 DEF InviteAnswered
  <2>2. CASE u = t
    <3>1. CASE Save(From(t), task[t].copy, Authorize(task[t].copy, To(t), task[t].perm))
      <4>1. /\ task[t].copy \in Row /\ task[t].perm \in Permissions
            /\ row'[d] = Authorize(task[t].copy, q, task[t].perm)
        BY <1>1, <3>1, TaskTypes DEF Save, TypeOK, RequestInv, RequestOK, Requesting
      <4>2. row'[d].perm[q] = task[t].perm
        BY <4>1, AuthorizeFacts
      <4> QED
        BY <4>1, <4>2, ShareAssumption DEF HasMember
    <3>2. CASE ~ CanAuthorize(task[t].copy, To(t)) /\ UNCHANGED <<row, excused>>
      BY <1>1, <3>2 DEF CanAuthorize, VouchInv
    <3>3. CASE excused' = excused \cup {<<From(t), To(t)>>}
      BY <1>1, <3>3
    <3> QED
      BY <1>5, <2>2, <3>1, <3>2, <3>3 DEF InviteAnswered
  <2> QED
    BY <2>1, <2>2
<1>6. ASSUME NEW u \in Tasks, InviteFails(u)
      PROVE  Answering(d, q)' \/ HasMember(row'[d], q) \/ <<d, q>> \in excused'
  BY <1>1, <1>2, <1>3, <1>6 DEF InviteFails
<1>7. ASSUME NEW u \in Tasks, CancelEnds(u) \/ RemoveSave(u) \/ RemoveFails(u)
      PROVE  task'[t] = task[t] /\ request'[t] = request[t]
  BY <1>1, <1>3, <1>7 DEF CancelEnds, RemoveSave, RemoveFails
<1>8. ASSUME NEW u \in Tasks,
             \/ CheckCaller(u) \/ LoadForInvite(u) \/ SaveInvited(u)
             \/ LoadForLeave(u) \/ SaveLeft(u)
      PROVE  task'[t] = task[t] /\ request'[t] = request[t]
  <2>1. u # t /\ To(u) \in Devices
    BY <1>1, <1>8, TaskTypes
       DEF CheckCaller, LoadForInvite, SaveInvited, LoadForLeave, SaveLeft
  <2>2. \E at \in {"checked", "loaded", "ok", "refused"}, c \in Row : Handle(u, at, c)
    BY <1>4, <1>8, <2>1
       DEF CheckCaller, LoadForInvite, SaveInvited, LoadForLeave, SaveLeft
  <2> QED
    BY <1>3, <2>1, <2>2
<1>9. ASSUME NEW u \in Tasks, RequestLost(u)
      PROVE  task'[t] = task[t] /\ request'[t] = request[t]
  BY <1>1, <1>9 DEF RequestLost, TypeOK
<1>10. ASSUME NEW u \in Tasks, NEW e \in Devices, NEW p \in Devices, NEW x \in Permissions,
              RemoveLoad(u, e, p) \/ Invite(u, e, p, x)
       PROVE  task'[t] = task[t] /\ request'[t] = request[t]
  BY <1>1, <1>10 DEF RemoveLoad, Invite, TypeOK
<1>11. ASSUME NEW u \in Tasks, NEW e \in Devices, NEW p \in Devices, RemoveLoad(u, e, p)
       PROVE  task'[t] = task[t] /\ request'[t] = request[t]
  BY <1>10, <1>11, ShareAssumption
<1>12. ASSUME NEW e \in Devices, Crash(e)
       PROVE  (task'[t] = task[t] /\ request'[t] = request[t]) \/ <<d, q>> \in excused'
  <2>1. CASE e = d
    BY <1>1, <1>12, <2>1 DEF Crash
  <2>2. CASE e # d
    BY <1>1, <1>12, <2>2 DEF Crash, Answered
  <2> QED
    BY <2>1, <2>2
<1>13. ASSUME NEW e \in Devices, CreateShare(e)
       PROVE  task'[t] = task[t] /\ request'[t] = request[t]
  BY <1>13 DEF CreateShare
<1>14. CASE UNCHANGED vars
  BY <1>2, <1>14 DEF vars
<1>15. CASE Next
  BY <1>2, <1>5, <1>6, <1>7, <1>8, <1>9, <1>10, <1>11, <1>12, <1>13, <1>15 DEF Next
<1> QED
  BY <1>14, <1>15

(* A step ends the one only by one of the others.                          *)
LEMMA VouchedStep ==
  ASSUME TypeOK, RequestInv, SoundInv, VouchInv, [Next]_vars,
         NEW d \in Devices, NEW q \in Devices, Vouched(d, q)
  PROVE  Vouched(d, q)'
BY MemberStep, AnsweringStep, HistoryStep DEF Vouched, HasMember

(* Every step keeps that the creator named in a copy vouches for it.       *)
LEMMA VouchStep ==
  ASSUME TypeOK, RequestInv, SoundInv, VouchInv, [Next]_vars
  PROVE  VouchInv'
<1>1. \A d \in Devices : row[d] \in Copies(d)
  BY DEF Copies
<1>2. ASSUME NEW q \in Devices, NEW r \in Copies(q), r # NoShare
      PROVE  r.creator \in Devices /\ Vouched(r.creator, q)'
  <2>1. r.creator \in Devices /\ Vouched(r.creator, q)
    BY <1>2 DEF SoundInv, Sound, VouchInv
  <2>2. \A d \in Devices : Vouched(d, q) => Vouched(d, q)'
    BY VouchedStep
  <2> QED
    BY <2>1, <2>2 DEF Vouched, HasMember, Answering
<1>3. ASSUME NEW q \in Devices, NEW c, row'[q] # NoShare, c = row'[q].creator
      PROVE  Vouched(c, q)'
  <2>1. ASSUME NEW r \in Copies(q), r # NoShare, row'[q].creator = r.creator
        PROVE  Vouched(c, q)'
    BY <1>2, <1>3, <2>1
  <2>2. CASE row'[q] = row[q]
    BY <1>1, <1>3, <2>1, <2>2
  <2>3. CASE Created(q)
    <3>1. row'[q].creator = q /\ row'[q].perm[q] = "read_write"
      BY <2>3, CreateFacts DEF Created
    <3> QED
      BY <1>3, <3>1 DEF Vouched, HasMember
  <2>4. ASSUME NEW t \in Tasks, Granted(t, q) PROVE Vouched(c, q)'
    <3>1. /\ task[t].copy \in Copies(q) /\ task[t].copy # NoShare /\ task[t].copy \in Row
          /\ To(t) \in Devices /\ task[t].perm \in Permissions
          /\ row'[q] = Authorize(task[t].copy, To(t), task[t].perm)
      BY <2>4, CopyMembers, TaskTypes
         DEF Granted, Replaced, Holds, RequestInv, RequestOK, Requesting
    <3>2. row'[q].creator = task[t].copy.creator
      BY <3>1, AuthorizeFacts
    <3> QED
      BY <2>1, <3>1, <3>2
  <2>5. ASSUME NEW t \in Tasks, Removed(t, q) PROVE Vouched(c, q)'
    <3>1. /\ task[t].copy \in Copies(q) /\ task[t].copy # NoShare /\ task[t].copy \in Row
          /\ To(t) \in Devices /\ row'[q] = Remove(task[t].copy, To(t))
      BY <2>5, CopyMembers, TaskTypes DEF Removed, Replaced, Holds, RequestInv, RequestOK
    <3>2. row'[q].creator = task[t].copy.creator
      BY <3>1, RemoveFacts
    <3> QED
      BY <2>1, <3>1, <3>2
  <2>6. ASSUME NEW t \in Tasks, Dropped(t, q) PROVE Vouched(c, q)'
    <3>1. /\ request[t].copy \in Copies(q) /\ request[t].copy \in Row
          /\ From(t) \in Devices /\ row'[q] = Remove(request[t].copy, From(t))
          /\ CanRemove(request[t].copy, From(t))
      BY <2>6, CopyMembers, TaskTypes DEF Dropped, Replaced, RequestInv, RequestOK
    <3>2. row'[q].creator = request[t].copy.creator
      BY <3>1, RemoveFacts
    <3>3. request[t].copy # NoShare
      BY <3>1, NoShareFacts DEF CanRemove, HasMember
    <3> QED
      BY <2>1, <3>1, <3>2, <3>3
  <2>7. ASSUME NEW t \in Tasks, Accepted(t, q) PROVE Vouched(c, q)'
    <3>1. /\ request[t].copy \in Copies(q) /\ request[t].copy \in Row
          /\ From(t) \in Devices /\ To(t) = q /\ task[t].perm \in Permissions
          /\ row'[q] = Joined(t) /\ Requesting(t) /\ RequestOK(t) /\ request[t].kind = "invite"
      BY <2>7, CopyMembers, TaskTypes, Active
         DEF Accepted, Replaced, Handling, RequestInv, RequestOK
    <3>2. CASE request[t].copy # NoShare
      <4>1. row'[q].creator = request[t].copy.creator
        BY <3>1, <3>2, AuthorizeFacts DEF Joined
      <4> QED
        BY <2>1, <3>1, <3>2, <4>1
    <3>3. CASE request[t].copy = NoShare
      <4>1. row'[q].creator = From(t)
        BY <3>1, <3>3, CreateFacts, AuthorizeFacts DEF Joined
      <4>2. CASE task[t].pc = "gone"
        <5>1. <<From(t), q>> \in excused'
          BY <3>1, <4>2, HistoryStep DEF RequestOK
        <5> QED
          BY <1>3, <4>1, <5>1 DEF Vouched
      <4>3. CASE task[t].pc # "gone"
        <5>1. task[t].pc = "asking" /\ request'[t].at = "ok" /\ task'[t] = task[t]
          BY <2>7, <3>1, <4>3 DEF Accepted, RequestOK, Requesting
        <5>2. Answering(From(t), q)'
          BY <3>1, <5>1 DEF Answering, From, To
        <5> QED
          BY <1>3, <4>1, <5>1, <5>2 DEF Vouched, Answering, From
      <4> QED
        BY <4>2, <4>3
    <3> QED
      BY <3>2, <3>3
  <2> QED
    BY <2>2, <2>3, <2>4, <2>5, <2>6, <2>7, RowStep
<1>4. ASSUME NEW q \in Devices, NEW r \in Copies(q)', r # NoShare
      PROVE  Vouched(r.creator, q)'
  <2>1. r \in Copies(q) \/ r = row'[q]
    BY <1>4, CopiesStep
  <2> QED
    BY <1>2, <1>3, <1>4, <2>1
<1>5. ASSUME NEW t \in Tasks, task'[t].pc = "asking", NEW q \in Devices,
             HasMember(task'[t].copy, q)
      PROVE  HasMember(row'[task'[t].dev], q) \/ <<task'[t].dev, q>> \in excused'
  <2>1. \/ Holds(t) /\ task'[t] = task[t]
        \/ task'[t].copy = row[task'[t].dev] /\ task'[t].dev \in Devices
    BY <1>5, CopyStep DEF Holds
  <2>2. CASE task'[t] = task[t]
    <3>1. /\ From(t) \in Devices
          /\ HasMember(row[From(t)], q) \/ <<From(t), q>> \in excused
      BY <1>5, <2>2, TaskTypes DEF VouchInv
    <3> QED
      BY <2>2, <3>1, MemberStep, HistoryStep DEF From
  <2>3. CASE task'[t].copy = row[task'[t].dev] /\ task'[t].dev \in Devices
    BY <1>5, <2>3, MemberStep
  <2> QED
    BY <2>1, <2>2, <2>3
<1> QED
  BY <1>4, <1>5 DEF VouchInv, HasMember, From

-----------------------------------------------------------------------------
(* The theorems.                                                           *)

(* At the start nobody has the share and nothing is under way.             *)
LEMMA InitInvariant == Init => IInv
<1> SUFFICES ASSUME Init PROVE IInv
  OBVIOUS
<1>1. \A t \in Tasks : task[t] = Idle /\ request[t] = NoRequest
  BY DEF Init
<1>2. \A d \in Devices : row[d] = NoShare
  BY DEF Init
<1>3. \A d \in Devices : \A r \in Copies(d) : r = NoShare
  BY <1>1, <1>2 DEF Copies, Holds, Handling, Idle, NoRequest
<1>4. TypeOK
  <2>1. Idle \in Task /\ NoRequest \in Request /\ Idle.pc = "idle"
    BY NoShareFacts DEF Idle, Task, NoRequest, Request
  <2> QED
    BY <2>1, NoShareFacts, ShareAssumption DEF Init, TypeOK
<1>5. RequestInv
  BY <1>1 DEF RequestInv, RequestOK, Holds, Handling, Requesting, Idle, NoRequest
<1>6. SoundInv /\ OfferedInv /\ ListedInv
  BY <1>1, <1>3, NoShareFacts
     DEF SoundInv, OfferedInv, Offered, ListedInv, HasMember, Idle
<1>7. VouchInv
  BY <1>1, <1>3 DEF VouchInv, Idle
<1> QED
  BY <1>4, <1>5, <1>6, <1>7 DEF IInv

(* Every step of the program keeps all of it.                              *)
LEMMA StepInvariant == IInv /\ [Next]_vars => IInv'
BY TypeStep, RequestStep, SoundStep, OfferedStep, ListedStep, VouchStep DEF IInv

(* The strengthening holds in every reachable state.                       *)
LEMMA Invariant == Spec => []IInv
BY InitInvariant, StepInvariant, PTL DEF Spec

(* Commands, requests and rows keep their types, whatever the order of     *)
(* answers, removals, leaves and ends of programs.                         *)
THEOREM TypeCorrect == Spec => []TypeOK
<1>1. IInv => TypeOK
  BY DEF IInv
<1> QED
  BY <1>1, Invariant, PTL

(* Nobody is listed with a permission that was not offered to him: stale   *)
(* copies lose members but never invent one, and no answer changes what    *)
(* the command asked for.                                                  *)
THEOREM OfferedTheorem == Spec => []MembersWereOffered
<1>1. IInv => MembersWereOffered
  <2>1. \A d \in Devices : row[d] \in Copies(d)
    BY DEF Copies
  <2> QED
    BY <2>1 DEF IInv, OfferedInv, Offered, MembersWereOffered
<1> QED
  BY <1>1, Invariant, PTL

(* Everybody listed has the share or has declined it with HTTP 200.        *)
THEOREM ListedTheorem == Spec => []ListedHasShare
<1>1. IInv => ListedHasShare
  <2>1. \A d \in Devices : row[d] \in Copies(d)
    BY DEF Copies
  <2> QED
    BY <2>1 DEF IInv, ListedInv, Has, ListedHasShare
<1> QED
  BY <1>1, Invariant, PTL

(* The creator of a row is never removed from it.                          *)
THEOREM CreatorTheorem == Spec => []CreatorKeepsAccess
<1>1. IInv => CreatorKeepsAccess
  <2> SUFFICES ASSUME IInv PROVE CreatorKeepsAccess
    OBVIOUS
  <2>1. \A d \in Devices : row[d] = NoShare \/ Sound(row[d])
    BY DEF IInv, SoundInv, Copies
  <2> QED
    BY <2>1, ShareAssumption DEF Sound, CreatorKeepsAccess
<1> QED
  BY <1>1, Invariant, PTL

(* The rows of the two devices agree on the membership, except for the     *)
(* reasons the history lists.                                              *)
THEOREM MutualTheorem == Spec => []MutualOrExcused
<1>1. IInv => MutualOrExcused
  <2> SUFFICES ASSUME IInv, NEW d \in Devices, NEW q \in Devices, row[q].creator = d
               PROVE  Vouched(d, q)
    BY DEF MutualOrExcused, Vouched
  <2>1. row[q] # NoShare
    BY NoShareFacts, ShareAssumption
  <2>2. row[q] \in Copies(q)
    BY DEF Copies
  <2> QED
    BY <2>1, <2>2 DEF IInv, VouchInv
<1> QED
  BY <1>1, Invariant, PTL
=============================================================================
