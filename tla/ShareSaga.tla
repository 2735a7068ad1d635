------------------------------ MODULE ShareSaga ------------------------------
(***************************************************************************)
(* The row of one share on every device, and what changes it:              *)
(* ShareAppService (create_share, invite_device with its compensation,     *)
(* remove_member) and the handlers /share/invite and /share/leave of the   *)
(* HTTP server.  Each of them loads the row, awaits, and saves the whole   *)
(* row from the copy it loaded; an invitation has the round trip to the    *)
(* peer between the two.                                                   *)
(*                                                                         *)
(* Names, paths, sync mode and status of a share are left out: nothing     *)
(* here reads them.  Whether a device is Paired with another at the moment *)
(* somebody looks belongs to DeviceTrust and is a choice here.  share_id   *)
(* is a fresh UUID, so one device creates the share once.                  *)
(***************************************************************************)
EXTENDS Integers

CONSTANTS
  Devices,      (* devices running the program                             *)
  NoDevice,     (* not a device                                            *)
  Permissions,  (* what a member may be granted                            *)
  Tasks,        (* commands that can be in flight at once, on all devices  *)
  Failing,      (* the devices whose database may fail                     *)
  MaxCommands   (* invitations and removals in a behaviour, a bound for TLC *)

ASSUME ShareAssumption ==
  /\ Devices # {} /\ NoDevice \notin Devices
  /\ Failing \subseteq Devices
  /\ "read_write" \in Permissions /\ "none" \notin Permissions
  /\ MaxCommands \in Nat

VARIABLES
  row,      (* per device, its row of the share                            *)
  task,     (* per task, the command of a user                             *)
  request,  (* per task, the request it sent and the handler that runs it  *)
  commands, (* how many were begun, for the bound                          *)
  offered,  (* <<by, to, permission>> of the invitations made (history)    *)
  declined, (* devices that answered an invitation with 200 without        *)
            (* storing it (history)                                        *)
  excused   (* <<d, q>>: something happened that lets the row of d miss q  *)
            (* although q has the share from d (history)                   *)

vars == <<row, task, request, commands, offered, declined, excused>>

-----------------------------------------------------------------------------
(* The aggregate Share: who created it and the permission of each member.  *)

Row == [creator : Devices \cup {NoDevice}, perm : [Devices -> Permissions \cup {"none"}]]

NoShare == [creator |-> NoDevice, perm |-> [q \in Devices |-> "none"]]

HasMember(r, q) == r.perm[q] # "none"
Members(r) == {q \in Devices : HasMember(r, q)}

Create(by) ==
  [creator |-> by, perm |-> [q \in Devices |-> IF q = by THEN "read_write" ELSE "none"]]

(* authorize_member fails for a member, remove_member for the creator and  *)
(* for everybody else who is not a member.                                 *)
CanAuthorize(r, q) == ~ HasMember(r, q)
Authorize(r, q, permission) == [r EXCEPT !.perm[q] = permission]

(* Mutant of CanRemove: the creator may be removed.                        *)
CanRemoveAnyone(r, q) == HasMember(r, q)

CanRemove(r, q) == q # r.creator /\ HasMember(r, q)
Remove(r, q) == [r EXCEPT !.perm[q] = "none"]

-----------------------------------------------------------------------------
(* A command: where it is, the device it runs on, the peer it is about,    *)
(* the permission it grants and the copy it loaded.  "gone": the command   *)
(* is over and its request is not.                                         *)
Task == [pc : {"idle", "asking", "cancelling", "removing", "gone"},
         dev : Devices \cup {NoDevice}, peer : Devices \cup {NoDevice},
         perm : Permissions \cup {"none"}, copy : Row]

Idle == [pc |-> "idle", dev |-> NoDevice, peer |-> NoDevice, perm |-> "none", copy |-> NoShare]

(* A request: on its way, past the trust check, between load and save of   *)
(* the handler, answered with 2xx, answered with another status.           *)
Request == [kind : {"invite", "leave"},
            at : {"none", "sent", "checked", "loaded", "ok", "refused"}, copy : Row]

NoRequest == [kind |-> "invite", at |-> "none", copy |-> NoShare]
Sent(kind) == [kind |-> kind, at |-> "sent", copy |-> NoShare]

TypeOK ==
  /\ row \in [Devices -> Row]
  /\ task \in [Tasks -> Task]
  /\ request \in [Tasks -> Request]
  /\ \A t \in Tasks :
       /\ task[t].pc = "idle" => task[t] = Idle /\ request[t] = NoRequest
       /\ task[t].pc # "idle" => task[t].dev \in Devices /\ task[t].peer \in Devices
  /\ commands \in 0..MaxCommands
  /\ offered \subseteq Devices \X Devices \X Permissions
  /\ declined \subseteq Devices
  /\ excused \subseteq Devices \X Devices

Init ==
  /\ row = [d \in Devices |-> NoShare]
  /\ task = [t \in Tasks |-> Idle]
  /\ request = [t \in Tasks |-> NoRequest]
  /\ commands = 0
  /\ offered = {}
  /\ declined = {}
  /\ excused = {}

From(t) == task[t].dev
To(t) == task[t].peer

(* The command of t is over; t is free when its request is over, too.      *)
Answered(t) == request[t].at \in {"none", "ok", "refused"}

(* Mutant of Left: the request is forgotten with the command.              *)
LeftAtOnce(t) == Idle

Left(t) == IF Answered(t) THEN Idle ELSE [task[t] EXCEPT !.pc = "gone"]

EndTask(t) ==
  /\ task' = [task EXCEPT ![t] = Left(t)]
  /\ request' = [request EXCEPT ![t] = IF Answered(t) THEN NoRequest ELSE @]

(* SqliteShareRepository::save replaces the row and all members in one     *)
(* transaction.  A row saved from a copy that is no longer current loses   *)
(* the members stored since.                                               *)
Overwritten(d, copy, new) ==
  IF row[d] = copy THEN {} ELSE {d} \X (Members(row[d]) \ Members(new))

Save(d, copy, new) ==
  /\ row' = [row EXCEPT ![d] = new]
  /\ excused' = excused \cup Overwritten(d, copy, new)

-----------------------------------------------------------------------------
(* The side of the user.                                                   *)

CreateShare(d) ==
  /\ \A e \in Devices : row[e] = NoShare
  /\ row' = [row EXCEPT ![d] = Create(d)]
  /\ UNCHANGED <<task, request, commands, offered, declined, excused>>

(* invite_device up to the dial.  The policy check and the three queries   *)
(* are taken as one step.                                                  *)
Invite(t, d, p, permission) ==
  /\ task[t].pc = "idle"
  /\ row[d] # NoShare
  /\ p # d
  /\ commands < MaxCommands
  /\ commands' = commands + 1
  /\ task' = [task EXCEPT ![t] = [pc |-> "asking", dev |-> d, peer |-> p,
                                  perm |-> permission, copy |-> row[d]]]
  /\ request' = [request EXCEPT ![t] = Sent("invite")]
  /\ offered' = offered \cup {<<d, p, permission>>}
  /\ UNCHANGED <<row, declined, excused>>

(* Mutant of InviteAnswered: any answer counts.                            *)
InviteAnsweredAnyhow(t) ==
  /\ task[t].pc = "asking" /\ request[t].at \in {"ok", "refused"}
  /\ CanAuthorize(task[t].copy, To(t))
  /\ Save(From(t), task[t].copy, Authorize(task[t].copy, To(t), task[t].perm))
  /\ EndTask(t)
  /\ UNCHANGED <<commands, offered, declined>>

(* Any 2xx counts as accepted.  The member is added to the copy loaded     *)
(* before the dial; when it is one already nothing is saved.  When the     *)
(* save fails the peer is asked to undo the invitation.                    *)
InviteAnswered(t) ==
  /\ task[t].pc = "asking" /\ request[t].at = "ok"
  /\ \/ /\ CanAuthorize(task[t].copy, To(t))
        /\ Save(From(t), task[t].copy, Authorize(task[t].copy, To(t), task[t].perm))
        /\ EndTask(t)
     \/ /\ ~ CanAuthorize(task[t].copy, To(t))
        /\ EndTask(t)
        /\ UNCHANGED <<row, excused>>
     \/ /\ CanAuthorize(task[t].copy, To(t))
        /\ From(t) \in Failing
        /\ task' = [task EXCEPT ![t].pc = "cancelling"]
        /\ request' = [request EXCEPT ![t] = Sent("leave")]
        /\ excused' = excused \cup {<<From(t), To(t)>>}
        /\ UNCHANGED row
  /\ UNCHANGED <<commands, offered, declined>>

(* The dial fails, times out, or is answered with an error.  The peer may  *)
(* act on the invitation all the same, before or after.                    *)
InviteFails(t) ==
  /\ task[t].pc = "asking"
  /\ EndTask(t)
  /\ excused' = IF request[t].at = "refused" THEN excused
                ELSE excused \cup {<<From(t), To(t)>>}
  /\ UNCHANGED <<row, commands, offered, declined>>

(* The compensation ended, with any answer or none.                        *)
CancelEnds(t) ==
  /\ task[t].pc = "cancelling"
  /\ EndTask(t)
  /\ UNCHANGED <<row, commands, offered, declined, excused>>

(* remove_member: the peer is not told.                                    *)
RemoveLoad(t, d, p) ==
  /\ task[t].pc = "idle"
  /\ commands < MaxCommands
  /\ commands' = commands + 1
  /\ CanRemove(row[d], p)
  /\ task' = [task EXCEPT ![t] = [pc |-> "removing", dev |-> d, peer |-> p,
                                  perm |-> "none", copy |-> row[d]]]
  /\ UNCHANGED <<row, request, offered, declined, excused>>

RemoveSave(t) ==
  /\ task[t].pc = "removing"
  /\ row' = [row EXCEPT ![From(t)] = Remove(task[t].copy, To(t))]
  /\ excused' = excused \cup {<<From(t), To(t)>>}
                  \cup Overwritten(From(t), task[t].copy, Remove(task[t].copy, To(t)))
  /\ EndTask(t)
  /\ UNCHANGED <<commands, offered, declined>>

RemoveFails(t) ==
  /\ task[t].pc = "removing"
  /\ From(t) \in Failing
  /\ EndTask(t)
  /\ UNCHANGED <<row, commands, offered, declined, excused>>

-----------------------------------------------------------------------------
(* The side of the server.                                                 *)

(* The handler of t's request goes on to `at`, with the copy c.            *)
Handle(t, at, c) ==
  /\ request' = [request EXCEPT ![t] = IF task[t].pc = "gone" /\ at \in {"ok", "refused"}
                                       THEN NoRequest ELSE [@ EXCEPT !.at = at, !.copy = c]]
  /\ task' = [task EXCEPT ![t] = IF @.pc = "gone" /\ at \in {"ok", "refused"} THEN Idle ELSE @]

(* trust_check: 403 unless the caller is Paired at that moment.            *)
CheckCaller(t) ==
  /\ request[t].at = "sent"
  /\ Handle(t, "checked", NoShare) \/ Handle(t, "refused", NoShare)
  /\ UNCHANGED <<row, commands, offered, declined, excused>>

(* handle_share_invite: the caller is no longer Paired or a query fails    *)
(* (HTTP 200 nevertheless); this device is a member already; or go on.     *)
LoadForInvite(t) ==
  /\ request[t].kind = "invite" /\ request[t].at = "checked"
  /\ \/ Handle(t, "ok", NoShare) /\ declined' = declined \cup {To(t)}
     \/ /\ HasMember(row[To(t)], To(t))
        /\ Handle(t, "ok", NoShare)
        /\ UNCHANGED declined
     \/ /\ ~ HasMember(row[To(t)], To(t))
        /\ Handle(t, "loaded", row[To(t)])
        /\ UNCHANGED declined
  /\ UNCHANGED <<row, commands, offered, excused>>

(* Mutant of Joined: the device grants itself everything.                  *)
JoinedWithAll(t) ==
  Authorize(IF request[t].copy = NoShare THEN Create(From(t)) ELSE request[t].copy,
            To(t), "read_write")

(* The row of the invited device: an existing one is extended, a new one   *)
(* names the caller as creator.                                            *)
Joined(t) ==
  Authorize(IF request[t].copy = NoShare THEN Create(From(t)) ELSE request[t].copy,
            To(t), task[t].perm)

(* Mutant of SaveInvited: the row is saved and an error status answered.   *)
SaveInvitedRefused(t) ==
  /\ request[t].kind = "invite" /\ request[t].at = "loaded"
  /\ Save(To(t), request[t].copy, Joined(t))
  /\ Handle(t, "refused", NoShare)
  /\ UNCHANGED <<commands, offered, declined>>

(* The row is saved, or the save fails and is answered with HTTP 200.      *)
SaveInvited(t) ==
  /\ request[t].kind = "invite" /\ request[t].at = "loaded"
  /\ \/ Save(To(t), request[t].copy, Joined(t)) /\ UNCHANGED declined
     \/ /\ To(t) \in Failing
        /\ declined' = declined \cup {To(t)}
        /\ UNCHANGED <<row, excused>>
  /\ Handle(t, "ok", NoShare)
  /\ UNCHANGED <<commands, offered>>

(* handle_share_leave removes the caller.  A caller that cannot be removed *)
(* and a query or save that fails are answered with HTTP 200, too.         *)
LoadForLeave(t) ==
  /\ request[t].kind = "leave" /\ request[t].at = "checked"
  /\ \/ /\ ~ CanRemove(row[To(t)], From(t)) \/ To(t) \in Failing
        /\ Handle(t, "ok", NoShare)
     \/ CanRemove(row[To(t)], From(t)) /\ Handle(t, "loaded", row[To(t)])
  /\ UNCHANGED <<row, commands, offered, declined, excused>>

SaveLeft(t) ==
  /\ request[t].kind = "leave" /\ request[t].at = "loaded"
  /\ \/ /\ row' = [row EXCEPT ![To(t)] = Remove(request[t].copy, From(t))]
        /\ excused' = excused \cup {<<To(t), From(t)>>}
              \cup Overwritten(To(t), request[t].copy, Remove(request[t].copy, From(t)))
     \/ To(t) \in Failing /\ UNCHANGED <<row, excused>>
  /\ Handle(t, "ok", NoShare)
  /\ UNCHANGED <<commands, offered, declined>>

(* The request is not delivered, or the client hung up and the server      *)
(* drops the handler where it awaits.                                      *)
RequestLost(t) ==
  /\ task[t].pc = "gone"
  /\ task' = [task EXCEPT ![t] = Idle]
  /\ request' = [request EXCEPT ![t] = NoRequest]
  /\ UNCHANGED <<row, commands, offered, declined, excused>>

(* The program on d ends: its commands and handlers are forgotten, and     *)
(* nothing of the saga is stored.                                          *)
Crash(d) ==
  LET dies(t) == task[t].pc \in {"asking", "cancelling", "removing"} /\ From(t) = d
      cut(t) == ~ Answered(t) /\ To(t) = d
  IN
  /\ task' = [t \in Tasks |-> IF dies(t) THEN Left(t)
                              ELSE IF cut(t) /\ task[t].pc = "gone" THEN Idle ELSE task[t]]
  /\ request' = [t \in Tasks |->
       IF (dies(t) /\ Answered(t)) \/ (cut(t) /\ task[t].pc = "gone") THEN NoRequest
       ELSE IF cut(t) THEN [request[t] EXCEPT !.at = "refused", !.copy = NoShare]
       ELSE request[t]]
  /\ excused' = excused \cup
       {<<d, To(t)>> : t \in {u \in Tasks : task[u].pc = "asking" /\ From(u) = d}}
  /\ UNCHANGED <<row, commands, offered, declined>>

Next ==
  \/ \E d \in Devices : CreateShare(d) \/ Crash(d)
  \/ \E t \in Tasks, d, p \in Devices :
       RemoveLoad(t, d, p) \/ \E permission \in Permissions : Invite(t, d, p, permission)
  \/ \E t \in Tasks :
       \/ InviteAnswered(t) \/ InviteFails(t) \/ CancelEnds(t)
       \/ RemoveSave(t) \/ RemoveFails(t)
       \/ CheckCaller(t) \/ LoadForInvite(t) \/ SaveInvited(t)
       \/ LoadForLeave(t) \/ SaveLeft(t) \/ RequestLost(t)

Spec == Init /\ [][Next]_vars

-----------------------------------------------------------------------------
(* A device holds the share, or lists another one, with a permission that  *)
(* somebody really offered: the member itself on its own row, the device   *)
(* whose row it is on the rows of others.  Lost answers, refusals, stale   *)
(* copies and the fields of the request must not produce any other.        *)
MembersWereOffered ==
  \A d, q \in Devices :
    (HasMember(row[d], q) /\ q # row[d].creator) =>
      IF q = d THEN \E by \in Devices : <<by, d, row[d].perm[q]>> \in offered
      ELSE <<d, q, row[d].perm[q]>> \in offered

(* Who is listed as a member by another device has the share, that is, a   *)
(* row of it, except a device that has ever declined and answered HTTP 200 *)
(* all the same: a row made from such an answer may last for ever.         *)
ListedHasShare ==
  \A d, q \in Devices :
    HasMember(row[d], q) => row[q] # NoShare \/ q \in declined

(* The creator named in a row is a member of it with all rights, whatever  *)
(* removals, leaves and stale copies are saved over one another.           *)
CreatorKeepsAccess ==
  \A d \in Devices :
    row[d] # NoShare => row[d].creator # NoDevice /\ row[d].perm[row[d].creator] = "read_write"

(* A device that has the share from d is a member on the row of d, too,    *)
(* once d has looked at its answer - unless d gave up waiting, could not   *)
(* store the answer, removed it, ended, or saved a copy older than the     *)
(* membership: the two rows never drift apart for another reason.          *)
Answering(d, q) ==
  \E t \in Tasks :
    task[t].pc = "asking" /\ request[t].at = "ok" /\ From(t) = d /\ To(t) = q

MutualOrExcused ==
  \A d, q \in Devices :
    row[q].creator = d => HasMember(row[d], q) \/ Answering(d, q) \/ <<d, q>> \in excused
=============================================================================
