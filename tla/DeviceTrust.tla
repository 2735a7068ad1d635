----------------------------- MODULE DeviceTrust -----------------------------
(***************************************************************************)
(* What one desktop knows about its peers: the rows of the device          *)
(* repository, the sessions of the dual-PIN pairing ceremony and the set   *)
(* of pinned certificates, with everything that changes them - discovery,  *)
(* the user's pairing commands, the pairing handlers of the HTTP server,   *)
(* the heartbeat and a restart.  Each operation is a task that reads the   *)
(* row of a device, awaits, and saves a row computed from what it read.    *)
(*                                                                         *)
(* A row is abstracted to its state: aliases, addresses, certificates and  *)
(* times are left out, and whether an address changed is a choice.  The    *)
(* PIN verdict is that of the external kfilesync-core, which compares and  *)
(* counts attempts; which verdict it is, is a choice.                      *)
(***************************************************************************)
EXTENDS Integers

CONSTANTS
  Devices,     (* peers                                                    *)
  Tasks,       (* operations that can be in flight at once                 *)
  MaxRequests  (* pairing requests per device, a bound for TLC             *)

ASSUME TrustAssumption == Devices # {} /\ MaxRequests \in Nat

VARIABLES
  repo,      (* per device, the state of its row                           *)
  sessions,  (* open pairing sessions: device and request id               *)
  issued,    (* per device, how many request ids were used                 *)
  pinned,    (* trusted_fingerprints of the network client                 *)
  task,      (* per task, what it is doing                                 *)
  proved,    (* the devices that passed a PIN exchange (history)           *)
  granted    (* per session, the inbound confirmations granted since it    *)
             (* was opened (history)                                       *)

vars == <<repo, sessions, issued, pinned, task, proved, granted>>

-----------------------------------------------------------------------------
RowState == {"none", "discovered", "paired", "revoked"}

Requests == 1..MaxRequests
Session == Devices \X Requests

(* pc: "idle", or the operation and how far it is.                         *)
Position == {"idle", "seen", "initiate", "confirm", "verified", "pair", "pin",
             "taken", "revoke", "leaving", "leave", "unpin", "beat"}

Task == [pc : Position, dev : Devices, req : Requests \cup {0}, copy : RowState]
Idle == [pc |-> "idle", dev |-> CHOOSE d \in Devices : TRUE, req |-> 0, copy |-> "none"]

TypeOK ==
  /\ repo \in [Devices -> RowState]
  /\ sessions \subseteq Session
  /\ issued \in [Devices -> 0..MaxRequests]
  /\ pinned \subseteq Devices
  /\ task \in [Tasks -> Task]
  /\ proved \subseteq Devices
  /\ granted \in [Session -> Nat]

Init ==
  /\ repo = [d \in Devices |-> "none"]
  /\ sessions = {}
  /\ issued = [d \in Devices |-> 0]
  /\ pinned = {}
  /\ task = [t \in Tasks |-> Idle]
  /\ proved = {}
  /\ granted = [s \in Session |-> 0]

-----------------------------------------------------------------------------
Dev(t) == task[t].dev
SessionOf(t) == <<task[t].dev, task[t].req>>
OpenFor(d) == {s \in sessions : s[1] = d}

(* A task for d begins with a read of the row; it moves on; it ends.       *)
Begin(t, pc, d, req) ==
  /\ task[t].pc = "idle"
  /\ task' = [task EXCEPT ![t] = [pc |-> pc, dev |-> d, req |-> req, copy |-> repo[d]]]

MoveTo(t, pc) == task' = [task EXCEPT ![t].pc = pc]

End(t) == task' = [task EXCEPT ![t] = Idle]

(* SqliteDeviceRepo::save reports success whether or not the row was       *)
(* written: the result of the statement is dropped.                        *)
Save(d, state) == repo' = [repo EXCEPT ![d] = state] \/ UNCHANGED repo

-----------------------------------------------------------------------------
(* discover_devices, and the first half of handle_pair_request.            *)

SeenLoad(t, d) ==
  /\ Begin(t, "seen", d, 0)
  /\ UNCHANGED <<repo, sessions, issued, pinned, proved, granted>>

(* A new device is saved, a Discovered one is saved if its address or      *)
(* alias changed.  A pairing request then opens a session under the id     *)
(* that the peer chose: a new one, or one used before, which replaces the  *)
(* session of that id (PairingSessionStore::insert).  Ids of different     *)
(* peers are different UUIDs.                                              *)
SeenSave(t) ==
  /\ task[t].pc = "seen"
  /\ IF task[t].copy = "none" THEN Save(Dev(t), "discovered")
     ELSE IF task[t].copy = "discovered" THEN Save(Dev(t), "discovered") \/ UNCHANGED repo
     ELSE UNCHANGED repo
  /\ \/ UNCHANGED <<sessions, issued, granted>>
     \/ \E r \in Requests \cap 1..(issued[Dev(t)] + 1) :
          /\ issued' = [issued EXCEPT ![Dev(t)] = IF r > @ THEN r ELSE @]
          /\ sessions' = sessions \cup {<<Dev(t), r>>}
          /\ granted' = [granted EXCEPT ![<<Dev(t), r>>] = 0]
  /\ End(t)
  /\ UNCHANGED <<pinned, proved>>

-----------------------------------------------------------------------------
(* initiate_pairing: expired sessions are swept, a session is opened, and  *)
(* dropped again when the request cannot be delivered.                     *)

Initiate(t, d) ==
  /\ repo[d] = "discovered"
  /\ issued[d] < MaxRequests
  /\ Begin(t, "initiate", d, issued[d] + 1)
  /\ issued' = [issued EXCEPT ![d] = @ + 1]
  /\ \E expired \in SUBSET sessions :
       sessions' = (sessions \ expired) \cup {<<d, issued[d] + 1>>}
  /\ UNCHANGED <<repo, pinned, proved, granted>>

InitiateReturns(t) ==
  /\ task[t].pc = "initiate"
  /\ sessions' = sessions \/ sessions' = sessions \ {SessionOf(t)}
  /\ End(t)
  /\ UNCHANGED <<repo, issued, pinned, proved, granted>>

-----------------------------------------------------------------------------
(* confirm_pairing: the user's side of the ceremony.                       *)

(* find_request_id_by_device: the first of the map's values that targets   *)
(* the device, in an arbitrary order.                                      *)
ConfirmLoad(t, d) ==
  /\ \E s \in OpenFor(d) : Begin(t, "confirm", d, s[2])
  /\ repo[d] = "discovered"
  /\ UNCHANGED <<repo, sessions, issued, pinned, proved, granted>>

(* Mutant of ConfirmAnswered: `accepted` of the answer is not looked at.   *)
ConfirmAnsweredAnyhow(t) ==
  /\ task[t].pc = "confirm"
  /\ sessions' = sessions \ {SessionOf(t)}
  /\ MoveTo(t, "pair")
  /\ UNCHANGED <<repo, issued, pinned, proved, granted>>

(* One attempt per session, whatever the answer.  The row read before the  *)
(* dial was Discovered, so the confirmation of that copy succeeds.         *)
ConfirmAnswered(t) ==
  /\ task[t].pc = "confirm"
  /\ sessions' = sessions \ {SessionOf(t)}
  /\ \/ End(t) /\ UNCHANGED proved
     \/ MoveTo(t, "pair") /\ proved' = proved \cup {Dev(t)}
  /\ UNCHANGED <<repo, issued, pinned, granted>>

(* Mutant of SavePaired: a state the enum lacks is stored.                 *)
SaveTrusted(t) ==
  /\ task[t].pc = "pair"
  /\ Save(Dev(t), "trusted")
  /\ MoveTo(t, "pin")
  /\ UNCHANGED <<sessions, issued, pinned, proved, granted>>

(* Both sides: save the Paired row, then pin the certificate and publish.  *)
SavePaired(t) ==
  /\ task[t].pc = "pair"
  /\ Save(Dev(t), "paired")
  /\ MoveTo(t, "pin")
  /\ UNCHANGED <<sessions, issued, pinned, proved, granted>>

Pin(t) ==
  /\ task[t].pc = "pin"
  /\ pinned' = pinned \cup {Dev(t)}
  /\ End(t)
  /\ UNCHANGED <<repo, sessions, issued, proved, granted>>

-----------------------------------------------------------------------------
(* handle_pair_confirm: verifying the PIN and taking the session are two   *)
(* acquisitions of the store's lock.                                       *)

VerifyPin(t, d) ==
  /\ \E s \in OpenFor(d) :
       \/ Begin(t, "verified", d, s[2]) /\ UNCHANGED sessions
       \/ sessions' = sessions \ {s} /\ UNCHANGED task  (* expired, or too often *)
  /\ UNCHANGED <<repo, issued, pinned, proved, granted>>

(* Mutant of TakeSession: the session is removed without a look at whether *)
(* it was still there.                                                     *)
TakeSessionAnyhow(t) ==
  /\ task[t].pc = "verified"
  /\ sessions' = sessions \ {SessionOf(t)}
  /\ granted' = [granted EXCEPT ![SessionOf(t)] = @ + 1]
  /\ proved' = proved \cup {Dev(t)}
  /\ MoveTo(t, "taken")
  /\ UNCHANGED <<repo, issued, pinned>>

(* Whoever removes the session goes on.                                    *)
TakeSession(t) ==
  /\ task[t].pc = "verified"
  /\ sessions' = sessions \ {SessionOf(t)}
  /\ \/ /\ SessionOf(t) \in sessions
        /\ granted' = [granted EXCEPT ![SessionOf(t)] = @ + 1]
        /\ proved' = proved \cup {Dev(t)}
        /\ MoveTo(t, "taken")
     \/ /\ SessionOf(t) \notin sessions
        /\ End(t)
        /\ UNCHANGED <<proved, granted>>
  /\ UNCHANGED <<repo, issued, pinned>>

(* The row of the peer is read; it is Discovered and the certificate that  *)
(* came with the request can be parsed, or the confirmation is rejected.   *)
ReadPeer(t) ==
  /\ task[t].pc = "taken"
  /\ \/ repo[Dev(t)] = "discovered" /\ MoveTo(t, "pair")
     \/ End(t)
  /\ UNCHANGED <<repo, sessions, issued, pinned, proved, granted>>

-----------------------------------------------------------------------------
(* reject_pairing: a session for the device is dropped, and a Paired       *)
(* device becomes Revoked.  The certificate stays pinned.                  *)

RejectLoad(t, d) ==
  /\ \/ OpenFor(d) = {} /\ UNCHANGED sessions
     \/ \E s \in OpenFor(d) : sessions' = sessions \ {s}
  /\ IF repo[d] = "paired" THEN Begin(t, "revoke", d, 0)
     ELSE task[t].pc = "idle" /\ UNCHANGED task
  /\ UNCHANGED <<repo, issued, pinned, proved, granted>>

RejectSave(t) ==
  /\ task[t].pc = "revoke"
  /\ Save(Dev(t), "revoked")
  /\ End(t)
  /\ UNCHANGED <<sessions, issued, pinned, proved, granted>>

(* handle_pair_revoke: the peer, Paired when trust_check looked, takes its *)
(* leave.                                                                  *)
LeaveCheck(t, d) ==
  /\ repo[d] = "paired"
  /\ Begin(t, "leaving", d, 0)
  /\ UNCHANGED <<repo, sessions, issued, pinned, proved, granted>>

(* The row is read again: revoke() refuses one that is not Paired any      *)
(* more.  The certificate is unpinned in any case.                         *)
LeaveLoad(t) ==
  /\ task[t].pc = "leaving"
  /\ \/ repo[Dev(t)] = "paired" /\ MoveTo(t, "leave")
     \/ MoveTo(t, "unpin")
  /\ UNCHANGED <<repo, sessions, issued, pinned, proved, granted>>

LeaveSave(t) ==
  /\ task[t].pc = "leave"
  /\ Save(Dev(t), "revoked")
  /\ MoveTo(t, "unpin")
  /\ UNCHANGED <<sessions, issued, pinned, proved, granted>>

Unpin(t) ==
  /\ task[t].pc = "unpin"
  /\ pinned' = pinned \ {Dev(t)}
  /\ End(t)
  /\ UNCHANGED <<repo, sessions, issued, proved, granted>>

-----------------------------------------------------------------------------
(* The heartbeat: a copy of a Paired row is saved back after the peer      *)
(* answered, with a new last_seen_at.                                      *)

BeatLoad(t, d) ==
  /\ repo[d] = "paired"
  /\ \A other \in Tasks : task[other].pc = "beat" => Dev(other) # d
  /\ Begin(t, "beat", d, 0)
  /\ UNCHANGED <<repo, sessions, issued, pinned, proved, granted>>

BeatSave(t) ==
  /\ task[t].pc = "beat"
  /\ Save(Dev(t), "paired") \/ UNCHANGED repo
  /\ End(t)
  /\ UNCHANGED <<sessions, issued, pinned, proved, granted>>

(* The program ends and starts again: only the rows are left, and nothing  *)
(* pins the certificates of the Paired ones again.                         *)
Restart ==
  /\ sessions' = {}
  /\ pinned' = {}
  /\ task' = [t \in Tasks |-> Idle]
  /\ UNCHANGED <<repo, issued, proved, granted>>

-----------------------------------------------------------------------------
Next ==
  \/ \E t \in Tasks, d \in Devices :
       \/ SeenLoad(t, d) \/ Initiate(t, d) \/ ConfirmLoad(t, d) \/ VerifyPin(t, d)
       \/ RejectLoad(t, d) \/ LeaveCheck(t, d) \/ BeatLoad(t, d)
  \/ \E t \in Tasks :
       \/ SeenSave(t) \/ InitiateReturns(t) \/ ConfirmAnswered(t) \/ SavePaired(t)
       \/ Pin(t) \/ TakeSession(t) \/ ReadPeer(t) \/ RejectSave(t) \/ LeaveLoad(t)
       \/ LeaveSave(t) \/ Unpin(t) \/ BeatSave(t)
  \/ Restart

Spec == Init /\ [][Next]_vars

-----------------------------------------------------------------------------
(* The inductive invariant behind the theorems of DeviceTrustProofs.       *)

(* The operations that only ever run for a device that proved itself: they *)
(* come after a PIN verdict, or start from a Paired row.                   *)
ForProved == {"taken", "pair", "pin", "revoke", "leaving", "leave", "unpin", "beat"}

TasksAreProved == \A t \in Tasks : task[t].pc \in ForProved => Dev(t) \in proved

(* A session that is open, or was never issued, has granted nothing.       *)
OpenIsFresh ==
  \A s \in Session : s \in sessions \/ s[2] > issued[s[1]] => granted[s] = 0

IssuedSessions == \A s \in sessions : s[2] <= issued[s[1]]

-----------------------------------------------------------------------------
(* Properties.                                                             *)

(* A device is Paired, was Paired (Revoked) or is pinned only if a PIN     *)
(* exchange with it succeeded, though stale copies of rows are saved back  *)
(* long after they were read.                                              *)
TrustIsProved == \A d \in Devices : repo[d] \in {"paired", "revoked"} \/ d \in pinned => d \in proved

(* A session, from when it is opened until a request with its id replaces  *)
(* it, grants at most one inbound confirmation: of two confirmations       *)
(* verified at the same time only the one that takes the session goes on.  *)
GrantedOnce == \A s \in Session : granted[s] <= 1

ProvedInv == TypeOK /\ TrustIsProved /\ TasksAreProved

GrantInv == TypeOK /\ GrantedOnce /\ OpenIsFresh /\ IssuedSessions

(* KFILESYNC_STATE.md:124: Revoked is terminal.                            *)
RevokedIsTerminal ==
  [][\A d \in Devices : repo[d] = "revoked" => repo'[d] = "revoked"]_vars

=============================================================================
