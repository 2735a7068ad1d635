------------------------- MODULE DeviceTrustProofs -------------------------
(***************************************************************************)
(* Proofs about DeviceTrust, for every set of peers, number of operations  *)
(* in flight and number of pairing requests; and about Bootstrap, for      *)
(* every finite set of pairing calls.                                      *)
(***************************************************************************)
EXTENDS DeviceTrust, Bootstrap, FiniteSetTheorems, TLAPS

-----------------------------------------------------------------------------
(* Type correctness.                                                       *)

(* The idle task is well-typed.                                            *)
LEMMA IdleType == Idle \in Task
  BY TrustAssumption DEF Idle, Task, Position, RowState

(* A task that begins, moves on or ends stays well-typed.                  *)
LEMMA TypeTask ==
  ASSUME TypeOK, NEW t \in Tasks
  PROVE  /\ \A pc \in Position, d \in Devices, req \in Requests \cup {0} :
              Begin(t, pc, d, req) => task' \in [Tasks -> Task]
         /\ \A pc \in Position : MoveTo(t, pc) => task' \in [Tasks -> Task]
         /\ End(t) => task' \in [Tasks -> Task]
  <1>1. ASSUME NEW pc \in Position, NEW d \in Devices, NEW req \in Requests \cup {0},
               Begin(t, pc, d, req)
        PROVE  task' \in [Tasks -> Task]
    BY <1>1 DEF Begin, TypeOK, Task
  <1>2. ASSUME NEW pc \in Position, MoveTo(t, pc)
        PROVE  task' \in [Tasks -> Task]
    BY <1>2 DEF MoveTo, TypeOK, Task
  <1>3. ASSUME End(t)
        PROVE  task' \in [Tasks -> Task]
    BY <1>3, IdleType DEF End, TypeOK
  <1>4. QED
    BY <1>1, <1>2, <1>3

(* A save stores a row state.                                              *)
LEMMA TypeSave ==
  ASSUME TypeOK, NEW d \in Devices, NEW state \in RowState, Save(d, state)
  PROVE  repo' \in [Devices -> RowState]
  BY DEF TypeOK, Save

(* The device of a task is one of the devices.                             *)
LEMMA DevType == ASSUME TypeOK, NEW t \in Tasks PROVE Dev(t) \in Devices
  BY DEF TypeOK, Dev, Task

(* The operations that begin preserve the types.                           *)
LEMMA TypeBegins ==
  ASSUME TypeOK, NEW t \in Tasks, NEW d \in Devices,
         \/ SeenLoad(t, d) \/ Initiate(t, d) \/ ConfirmLoad(t, d) \/ VerifyPin(t, d)
         \/ RejectLoad(t, d) \/ LeaveCheck(t, d) \/ BeatLoad(t, d)
  PROVE  TypeOK'
  <1>1. CASE SeenLoad(t, d)
    BY <1>1, TypeTask DEF SeenLoad, TypeOK, Position
  <1>2. CASE Initiate(t, d)
    <2>1. issued[d] + 1 \in Requests /\ issued[d] + 1 \in 0..MaxRequests
      BY <1>2, TrustAssumption DEF Initiate, TypeOK, Requests
    <2>2. task' \in [Tasks -> Task]
      BY <1>2, <2>1, TypeTask DEF Initiate, Position
    <2>3. issued' \in [Devices -> 0..MaxRequests]
      BY <1>2, <2>1 DEF Initiate, TypeOK
    <2>4. sessions' \subseteq Session
      BY <1>2, <2>1 DEF Initiate, TypeOK, Session
    <2>5. QED
      BY <1>2, <2>2, <2>3, <2>4 DEF Initiate, TypeOK
  <1>3. CASE ConfirmLoad(t, d)
    <2>1. PICK s \in OpenFor(d) : Begin(t, "confirm", d, s[2])
      BY <1>3 DEF ConfirmLoad
    <2>2. s[2] \in Requests
      BY <2>1 DEF OpenFor, TypeOK, Session
    <2>3. QED
      BY <1>3, <2>1, <2>2, TypeTask DEF ConfirmLoad, TypeOK, Position
  <1>4. CASE VerifyPin(t, d)
    <2>1. PICK s \in OpenFor(d) :
            \/ Begin(t, "verified", d, s[2]) /\ UNCHANGED sessions
            \/ sessions' = sessions \ {s} /\ UNCHANGED task
      BY <1>4 DEF VerifyPin
    <2>2. s[2] \in Requests
      BY <2>1 DEF OpenFor, TypeOK, Session
    <2>3. task' \in [Tasks -> Task] /\ sessions' \subseteq Session
      BY <2>1, <2>2, TypeTask DEF TypeOK, Position
    <2>4. QED
      BY <1>4, <2>3 DEF VerifyPin, TypeOK
  <1>5. CASE RejectLoad(t, d)
    <2>1. task' \in [Tasks -> Task]
      BY <1>5, TypeTask DEF RejectLoad, TypeOK, Position
    <2>2. QED
      BY <1>5, <2>1 DEF RejectLoad, TypeOK
  <1>6. CASE LeaveCheck(t, d)
    BY <1>6, TypeTask DEF LeaveCheck, TypeOK, Position
  <1>7. CASE BeatLoad(t, d)
    BY <1>7, TypeTask DEF BeatLoad, TypeOK, Position
  <1>8. QED
    BY <1>1, <1>2, <1>3, <1>4, <1>5, <1>6, <1>7

(* The later steps of operations preserve the types.                       *)
LEMMA TypeContinues ==
  ASSUME TypeOK, NEW t \in Tasks,
         \/ SeenSave(t) \/ InitiateReturns(t) \/ ConfirmAnswered(t) \/ SavePaired(t)
         \/ Pin(t) \/ TakeSession(t) \/ ReadPeer(t) \/ RejectSave(t) \/ LeaveLoad(t)
         \/ LeaveSave(t) \/ Unpin(t) \/ BeatSave(t)
  PROVE  TypeOK'
  <1>0. Dev(t) \in Devices
    BY DevType
  <1>1. CASE SeenSave(t)
    <2>1. repo' \in [Devices -> RowState]
      BY <1>0, <1>1, TypeSave DEF SeenSave, RowState, TypeOK
    <2>2. task' \in [Tasks -> Task]
      BY <1>1, TypeTask DEF SeenSave
    <2>3. /\ issued' \in [Devices -> 0..MaxRequests] /\ sessions' \subseteq Session
          /\ granted' \in [Session -> Nat]
      <3>1. CASE UNCHANGED <<sessions, issued, granted>>
        BY <3>1 DEF TypeOK
      <3>2. ASSUME NEW r \in Requests \cap 1..(issued[Dev(t)] + 1),
                   issued' = [issued EXCEPT ![Dev(t)] = IF r > @ THEN r ELSE @],
                   sessions' = sessions \cup {<<Dev(t), r>>},
                   granted' = [granted EXCEPT ![<<Dev(t), r>>] = 0]
            PROVE  /\ issued' \in [Devices -> 0..MaxRequests] /\ sessions' \subseteq Session
                   /\ granted' \in [Session -> Nat]
        <4>1. r \in 0..MaxRequests /\ issued[Dev(t)] \in 0..MaxRequests
          BY <1>0, TrustAssumption DEF TypeOK, Requests
        <4>2. issued' \in [Devices -> 0..MaxRequests]
          BY <1>0, <3>2, <4>1 DEF TypeOK
        <4>3. sessions' \subseteq Session /\ granted' \in [Session -> Nat]
          BY <1>0, <3>2 DEF TypeOK, Session
        <4>4. QED
          BY <4>2, <4>3
      <3>3. QED
        BY <1>1, <3>1, <3>2 DEF SeenSave
    <2>4. QED
      BY <1>1, <2>1, <2>2, <2>3 DEF SeenSave, TypeOK
  <1>2. CASE InitiateReturns(t)
    BY <1>2, TypeTask DEF InitiateReturns, TypeOK
  <1>3. CASE ConfirmAnswered(t)
    <2>1. task' \in [Tasks -> Task]
      BY <1>3, TypeTask DEF ConfirmAnswered, Position
    <2>2. QED
      BY <1>0, <1>3, <2>1 DEF ConfirmAnswered, TypeOK
  <1>4. CASE SavePaired(t)
    BY <1>0, <1>4, TypeTask, TypeSave DEF SavePaired, TypeOK, Position, RowState
  <1>5. CASE Pin(t)
    BY <1>0, <1>5, TypeTask DEF Pin, TypeOK
  <1>6. CASE TakeSession(t)
    <2>1. task' \in [Tasks -> Task]
      BY <1>6, TypeTask DEF TakeSession, Position
    <2>2. granted' \in [Session -> Nat]
      BY <1>6 DEF TakeSession, TypeOK
    <2>3. QED
      BY <1>0, <1>6, <2>1, <2>2 DEF TakeSession, TypeOK
  <1>7. CASE RejectSave(t)
    BY <1>0, <1>7, TypeTask, TypeSave DEF RejectSave, TypeOK, RowState
  <1>8. CASE LeaveSave(t)
    BY <1>0, <1>8, TypeTask, TypeSave DEF LeaveSave, TypeOK, Position, RowState
  <1>9. CASE Unpin(t)
    BY <1>9, TypeTask DEF Unpin, TypeOK
  <1>10. CASE BeatSave(t)
    BY <1>0, <1>10, TypeTask, TypeSave DEF BeatSave, TypeOK, RowState
  <1>11. CASE ReadPeer(t)
    BY <1>11, TypeTask DEF ReadPeer, TypeOK, Position
  <1>12. CASE LeaveLoad(t)
    BY <1>12, TypeTask DEF LeaveLoad, TypeOK, Position
  <1>13. QED
    BY <1>1, <1>2, <1>3, <1>4, <1>5, <1>6, <1>7, <1>8, <1>9, <1>10, <1>11, <1>12

(* Every step preserves the types.                                         *)
LEMMA TypeNext == TypeOK /\ [Next]_vars => TypeOK'
  <1> SUFFICES ASSUME TypeOK, [Next]_vars
               PROVE  TypeOK'
    OBVIOUS
  <1>1. CASE UNCHANGED vars
    BY <1>1 DEF vars, TypeOK
  <1>2. CASE Restart
    BY <1>2, IdleType DEF Restart, TypeOK
  <1>3. CASE Next
    BY <1>2, <1>3, TypeBegins, TypeContinues DEF Next
  <1>4. QED
    BY <1>1, <1>3

(* The initial state has the types.                                        *)
LEMMA TypeInit ==
  ASSUME Init
  PROVE  TypeOK
  <1>1. 0 \in 0..MaxRequests
    BY TrustAssumption
  <1>2. /\ repo \in [Devices -> RowState]
        /\ sessions \subseteq Session
        /\ pinned \subseteq Devices
        /\ proved \subseteq Devices
    BY DEF Init, RowState
  <1>3. issued \in [Devices -> 0..MaxRequests]
    BY <1>1 DEF Init
  <1>4. task \in [Tasks -> Task]
    BY IdleType DEF Init
  <1>5. granted \in [Session -> Nat]
    BY DEF Init
  <1>6. QED
    BY <1>2, <1>3, <1>4, <1>5 DEF TypeOK

(* The variables always have the types TypeOK declares.                    *)
THEOREM TypeCorrect == Spec => []TypeOK
  <1>1. Init => TypeOK
    BY TypeInit
  <1>2. QED
    BY <1>1, TypeNext, PTL DEF Spec

-----------------------------------------------------------------------------
(* Trust is proved.                                                        *)

(* A step that leaves what is proved, keeps it proved for the tasks, and   *)
(* writes a row or a pin only for a proved device, keeps the invariant.    *)
LEMMA ProvedStep ==
  ASSUME ProvedInv, TypeOK', NEW d \in Devices,
         proved \subseteq proved',
         \A e \in Devices \ {d} : repo'[e] = repo[e],
         repo'[d] = repo[d] \/ repo'[d] = "discovered" \/ d \in proved,
         pinned' \subseteq pinned \/ (pinned' = pinned \cup {d} /\ d \in proved),
         TasksAreProved'
  PROVE  ProvedInv'
  BY DEF ProvedInv, TrustIsProved, TypeOK

(* What the other tasks do is not touched.                                 *)
LEMMA ProvedTask ==
  ASSUME ProvedInv, NEW t \in Tasks, proved \subseteq proved',
         \A u \in Tasks \ {t} : task'[u] = task[u],
         task'[t].pc \in ForProved => task'[t].dev \in proved'
  PROVE  TasksAreProved'
  BY DEF ProvedInv, TasksAreProved, Dev

(* What Begin, MoveTo and End do to a task.                                *)
LEMMA TaskFacts ==
  ASSUME TypeOK, NEW t \in Tasks
  PROVE  /\ \A pc, d, req : Begin(t, pc, d, req) =>
              /\ task'[t].pc = pc /\ task'[t].dev = d
              /\ \A u \in Tasks \ {t} : task'[u] = task[u]
         /\ \A pc : MoveTo(t, pc) =>
              /\ task'[t].pc = pc /\ task'[t].dev = Dev(t)
              /\ \A u \in Tasks \ {t} : task'[u] = task[u]
         /\ End(t) =>
              /\ task'[t].pc = "idle"
              /\ \A u \in Tasks \ {t} : task'[u] = task[u]
  <1>1. ASSUME NEW pc, NEW d, NEW req, Begin(t, pc, d, req)
        PROVE  /\ task'[t].pc = pc /\ task'[t].dev = d
               /\ \A u \in Tasks \ {t} : task'[u] = task[u]
    BY <1>1 DEF Begin, TypeOK
  <1>2. ASSUME NEW pc, MoveTo(t, pc)
        PROVE  /\ task'[t].pc = pc /\ task'[t].dev = Dev(t)
               /\ \A u \in Tasks \ {t} : task'[u] = task[u]
    BY <1>2 DEF MoveTo, TypeOK, Task, Dev
  <1>3. ASSUME End(t)
        PROVE  /\ task'[t].pc = "idle"
               /\ \A u \in Tasks \ {t} : task'[u] = task[u]
    BY <1>3 DEF End, TypeOK, Idle
  <1>4. QED
    BY <1>1, <1>2, <1>3

(* Operations that begin: those reserved to proved devices start from a    *)
(* Paired row.                                                             *)
LEMMA ProvedBegins ==
  ASSUME ProvedInv, NEW t \in Tasks, NEW d \in Devices,
         \/ SeenLoad(t, d) \/ Initiate(t, d) \/ ConfirmLoad(t, d) \/ VerifyPin(t, d)
         \/ RejectLoad(t, d) \/ LeaveCheck(t, d) \/ BeatLoad(t, d)
  PROVE  ProvedInv'
  <1>1. TypeOK'
    BY TypeBegins DEF ProvedInv
  <1>2. UNCHANGED <<repo, pinned, proved>>
    BY DEF SeenLoad, Initiate, ConfirmLoad, VerifyPin, RejectLoad, LeaveCheck, BeatLoad
  <1>3. repo[d] = "paired" => d \in proved
    BY DEF ProvedInv, TrustIsProved
  <1>4. TasksAreProved'
    <2>1. CASE SeenLoad(t, d)
      BY <1>2, <2>1, TaskFacts, ProvedTask DEF SeenLoad, ForProved, ProvedInv
    <2>2. CASE Initiate(t, d)
      BY <1>2, <2>2, TaskFacts, ProvedTask DEF Initiate, ForProved, ProvedInv
    <2>3. CASE ConfirmLoad(t, d)
      BY <1>2, <2>3, TaskFacts, ProvedTask DEF ConfirmLoad, ForProved, ProvedInv
    <2>4. CASE VerifyPin(t, d)
      <3>1. CASE UNCHANGED task
        BY <1>2, <3>1 DEF ProvedInv, TasksAreProved, Dev
      <3>2. CASE \E s \in OpenFor(d) : Begin(t, "verified", d, s[2])
        BY <1>2, <3>2, TaskFacts, ProvedTask DEF ForProved, ProvedInv
      <3>3. QED
        BY <2>4, <3>1, <3>2 DEF VerifyPin
    <2>5. CASE RejectLoad(t, d)
      <3>1. CASE UNCHANGED task
        BY <1>2, <3>1 DEF ProvedInv, TasksAreProved, Dev
      <3>2. CASE repo[d] = "paired" /\ Begin(t, "revoke", d, 0)
        BY <1>2, <1>3, <3>2, TaskFacts, ProvedTask DEF ProvedInv
      <3>3. QED
        BY <2>5, <3>1, <3>2 DEF RejectLoad
    <2>6. CASE LeaveCheck(t, d)
      BY <1>2, <1>3, <2>6, TaskFacts, ProvedTask DEF LeaveCheck, ProvedInv
    <2>7. CASE BeatLoad(t, d)
      BY <1>2, <1>3, <2>7, TaskFacts, ProvedTask DEF BeatLoad, ProvedInv
    <2>8. QED
      BY <2>1, <2>2, <2>3, <2>4, <2>5, <2>6, <2>7
  <1>5. QED
    BY <1>1, <1>2, <1>4 DEF ProvedInv, TrustIsProved

(* A task that saves for a proved device, or saves Discovered.             *)
LEMMA ProvedSave ==
  ASSUME ProvedInv, TypeOK', NEW t \in Tasks, NEW state,
         Save(Dev(t), state) \/ UNCHANGED repo,
         state = "discovered" \/ task[t].pc \in ForProved,
         UNCHANGED <<pinned, proved>>,
         End(t) \/ (\E pc : MoveTo(t, pc) /\ task[t].pc \in ForProved)
  PROVE  ProvedInv'
  <1>1. Dev(t) \in Devices
    BY DevType DEF ProvedInv
  <1>2. task[t].pc \in ForProved => Dev(t) \in proved
    BY DEF ProvedInv, TasksAreProved
  <1>3. TasksAreProved'
    BY <1>2, TaskFacts, ProvedTask DEF ProvedInv, ForProved
  <1>4. /\ \A e \in Devices \ {Dev(t)} : repo'[e] = repo[e]
        /\ repo'[Dev(t)] = repo[Dev(t)] \/ repo'[Dev(t)] = state
    BY <1>1 DEF Save, ProvedInv, TypeOK
  <1>5. QED
    BY <1>1, <1>2, <1>3, <1>4, ProvedStep

(* Operations that continue.                                               *)
LEMMA ProvedContinues ==
  ASSUME ProvedInv, NEW t \in Tasks,
         \/ SeenSave(t) \/ InitiateReturns(t) \/ ConfirmAnswered(t) \/ SavePaired(t)
         \/ Pin(t) \/ TakeSession(t) \/ ReadPeer(t) \/ RejectSave(t) \/ LeaveLoad(t)
         \/ LeaveSave(t) \/ Unpin(t) \/ BeatSave(t)
  PROVE  ProvedInv'
  <1>0. TypeOK' /\ Dev(t) \in Devices
    BY TypeContinues, DevType DEF ProvedInv
  <1>1. CASE SeenSave(t)
    <2>1. Save(Dev(t), "discovered") \/ UNCHANGED repo
      BY <1>1 DEF SeenSave
    <2>2. UNCHANGED <<pinned, proved>> /\ End(t)
      BY <1>1 DEF SeenSave
    <2>3. QED
      BY <1>0, <2>1, <2>2, ProvedSave
  <1>2. CASE SavePaired(t) \/ RejectSave(t) \/ LeaveSave(t) \/ BeatSave(t)
    <2>1. task[t].pc \in ForProved
      BY <1>2 DEF SavePaired, RejectSave, LeaveSave, BeatSave, ForProved
    <2>2. \E state : Save(Dev(t), state) \/ UNCHANGED repo
      BY <1>2 DEF SavePaired, RejectSave, LeaveSave, BeatSave
    <2>3. UNCHANGED <<pinned, proved>> /\ (End(t) \/ \E pc : MoveTo(t, pc))
      BY <1>2 DEF SavePaired, RejectSave, LeaveSave, BeatSave
    <2>4. QED
      BY <1>0, <2>1, <2>2, <2>3, ProvedSave
  <1>3. CASE InitiateReturns(t) \/ ReadPeer(t) \/ LeaveLoad(t)
    <2>1. /\ UNCHANGED <<repo, pinned, proved>>
          /\ End(t) \/ (\E pc : MoveTo(t, pc) /\ task[t].pc \in ForProved)
      BY <1>3 DEF InitiateReturns, ReadPeer, LeaveLoad, ForProved
    <2>2. QED
      BY <1>0, <2>1, ProvedSave
  <1>4. CASE Pin(t) \/ Unpin(t)
    <2>1. Dev(t) \in proved
      BY <1>4 DEF Pin, Unpin, ForProved, ProvedInv, TasksAreProved
    <2>2. /\ pinned' \subseteq pinned \/ pinned' = pinned \cup {Dev(t)}
          /\ UNCHANGED <<repo, proved>> /\ End(t)
      BY <1>4 DEF Pin, Unpin
    <2>3. TasksAreProved'
      BY <2>2, TaskFacts, ProvedTask DEF ProvedInv, ForProved
    <2>4. QED
      BY <1>0, <2>1, <2>2, <2>3, ProvedStep
  <1>5. CASE ConfirmAnswered(t) \/ TakeSession(t)
    <2>1. /\ UNCHANGED <<repo, pinned>>
          /\ \/ End(t) /\ proved \subseteq proved'
             \/ (\E pc : MoveTo(t, pc)) /\ proved' = proved \cup {Dev(t)}
      BY <1>5 DEF ConfirmAnswered, TakeSession
    <2>2. proved \subseteq proved'
      BY <2>1
    <2>3. TasksAreProved'
      BY <2>1, <2>2, TaskFacts, ProvedTask DEF ProvedInv, ForProved
    <2>4. QED
      BY <1>0, <2>1, <2>2, <2>3, ProvedStep
  <1>6. QED
    BY <1>1, <1>2, <1>3, <1>4, <1>5

(* Only devices that passed a PIN exchange are Paired, Revoked or pinned.  *)
THEOREM TrustTheorem == Spec => []TrustIsProved
  <1>1. Init => ProvedInv
    <2> SUFFICES ASSUME Init
                 PROVE  ProvedInv
      OBVIOUS
    <2>1. TasksAreProved
      BY DEF Init, TasksAreProved, ForProved, Idle
    <2>2. TrustIsProved
      BY DEF Init, TrustIsProved
    <2>3. QED
      BY <2>1, <2>2, TypeInit DEF ProvedInv
  <1>2. ProvedInv /\ [Next]_vars => ProvedInv'
    <2> SUFFICES ASSUME ProvedInv, [Next]_vars
                 PROVE  ProvedInv'
      OBVIOUS
    <2>1. TypeOK'
      BY TypeNext DEF ProvedInv
    <2>2. CASE UNCHANGED vars
      BY <2>1, <2>2 DEF vars, ProvedInv, TrustIsProved, TasksAreProved, Dev
    <2>3. CASE Restart
      BY <2>1, <2>3 DEF Restart, ProvedInv, TrustIsProved, TasksAreProved, ForProved, Idle
    <2>4. CASE Next
      BY <2>3, <2>4, ProvedBegins, ProvedContinues DEF Next
    <2>5. QED
      BY <2>2, <2>4
  <1>3. ProvedInv => TrustIsProved
    BY DEF ProvedInv
  <1>4. QED
    BY <1>1, <1>2, <1>3, PTL DEF Spec

-----------------------------------------------------------------------------
(* A session grants once.                                                  *)

(* Sessions that are closed keep what they granted.                        *)
LEMMA GrantCloses ==
  ASSUME GrantInv, TypeOK', sessions' \subseteq sessions, UNCHANGED <<issued, granted>>
  PROVE  GrantInv'
  BY DEF GrantInv, GrantedOnce, OpenIsFresh, IssuedSessions

(* A session that is opened under an id, used before or not, has granted   *)
(* nothing, and ids above those used stay unused.                          *)
LEMMA GrantOpens ==
  ASSUME GrantInv, TypeOK', NEW d \in Devices, NEW r \in Requests,
         issued' = [issued EXCEPT ![d] = IF r > @ THEN r ELSE @],
         sessions' \subseteq sessions \cup {<<d, r>>},
         granted' = [granted EXCEPT ![<<d, r>>] = 0]
  PROVE  GrantInv'
  <1>1. /\ issued'[d] >= r
        /\ \A e \in Devices : issued[e] \in Int /\ issued'[e] \in Int /\ issued'[e] >= issued[e]
    BY TrustAssumption DEF GrantInv, TypeOK, Requests
  <1>2. \A s \in Session : s[1] \in Devices /\ s[2] \in Int
    BY TrustAssumption DEF Session, Requests
  <1>3. /\ <<d, r>> \in Session /\ granted'[<<d, r>>] = 0
        /\ \A s \in Session \ {<<d, r>>} : granted'[s] = granted[s]
    BY DEF GrantInv, TypeOK, Session
  <1>4. OpenIsFresh'
    <2> SUFFICES ASSUME NEW s \in Session, s \in sessions' \/ s[2] > issued'[s[1]]
                 PROVE  granted'[s] = 0
      BY DEF OpenIsFresh
    <2>1. CASE s = <<d, r>>
      BY <1>3, <2>1
    <2>2. CASE s # <<d, r>>
      <3>1. s \in sessions \/ s[2] > issued[s[1]]
        BY <1>1, <1>2, <2>2
      <3>2. QED
        BY <1>3, <2>2, <3>1 DEF GrantInv, OpenIsFresh
    <2>3. QED
      BY <2>1, <2>2
  <1>5. IssuedSessions'
    <2> SUFFICES ASSUME NEW s \in sessions'
                 PROVE  s[2] <= issued'[s[1]]
      BY DEF IssuedSessions
    <2>1. CASE s = <<d, r>>
      BY <1>1, <2>1
    <2>2. CASE s \in sessions
      <3>1. s \in Session /\ s[2] <= issued[s[1]]
        BY <2>2 DEF GrantInv, TypeOK, IssuedSessions
      <3>2. QED
        BY <1>1, <1>2, <3>1
    <2>3. QED
      BY <2>1, <2>2
  <1>6. GrantedOnce'
    BY <1>3 DEF GrantInv, GrantedOnce
  <1>7. QED
    BY <1>4, <1>5, <1>6 DEF GrantInv

(* An open session has an id that was issued and has granted nothing; it   *)
(* is closed by the confirmation it grants.                                *)
LEMMA GrantTakes ==
  ASSUME GrantInv, TypeOK', NEW t \in Tasks, TakeSession(t)
  PROVE  GrantInv'
  <1> DEFINE s == SessionOf(t)
  <1>1. CASE s \notin sessions
    <2>1. sessions' \subseteq sessions /\ UNCHANGED <<issued, granted>>
      BY <1>1 DEF TakeSession
    <2>2. QED
      BY <2>1, GrantCloses
  <1>2. CASE s \in sessions
    <2>1. /\ sessions' = sessions \ {s}
          /\ granted' = [granted EXCEPT ![s] = @ + 1]
          /\ issued' = issued
      BY <1>2 DEF TakeSession
    <2>2. /\ s \in Session /\ granted[s] = 0
          /\ s[2] <= issued[s[1]]
          /\ s[2] \in Int /\ issued[s[1]] \in Int
      BY <1>2, TrustAssumption
      DEF GrantInv, TypeOK, OpenIsFresh, IssuedSessions, Session, Requests
    <2> HIDE DEF s
    <2>3. /\ granted'[s] = 1
          /\ \A r \in Session \ {s} : granted'[r] = granted[r]
      BY <2>1, <2>2 DEF GrantInv, TypeOK
    <2>4. ~(s \in sessions' \/ s[2] > issued'[s[1]])
      BY <2>1, <2>2
    <2>5. GrantedOnce'
      BY <2>3 DEF GrantInv, GrantedOnce
    <2>6. OpenIsFresh'
      BY <2>1, <2>3, <2>4 DEF GrantInv, OpenIsFresh
    <2>7. IssuedSessions'
      BY <2>1 DEF GrantInv, IssuedSessions
    <2>8. QED
      BY <2>5, <2>6, <2>7 DEF GrantInv
  <1>3. QED
    BY <1>1, <1>2

(* Two confirmations of one session are never both granted.                *)
THEOREM GrantTheorem == Spec => []GrantedOnce
  <1>1. Init => GrantInv
    <2> SUFFICES ASSUME Init
                 PROVE  GrantInv
      OBVIOUS
    <2>1. GrantedOnce /\ OpenIsFresh /\ IssuedSessions
      BY DEF Init, GrantedOnce, OpenIsFresh, IssuedSessions
    <2>2. QED
      BY <2>1, TypeInit DEF GrantInv
  <1>2. GrantInv /\ [Next]_vars => GrantInv'
    <2> SUFFICES ASSUME GrantInv, [Next]_vars
                 PROVE  GrantInv'
      OBVIOUS
    <2>1. TypeOK'
      BY TypeNext DEF GrantInv
    <2>2. CASE sessions' \subseteq sessions /\ UNCHANGED <<issued, granted>>
      BY <2>1, <2>2, GrantCloses
    <2>3. CASE \E t \in Tasks : TakeSession(t)
      BY <2>1, <2>3, GrantTakes
    <2>4. CASE \E t \in Tasks, d \in Devices : Initiate(t, d)
      <3>1. PICK t \in Tasks, d \in Devices : Initiate(t, d)
        BY <2>4
      <3> DEFINE r == issued[d] + 1
      <3>2. /\ r \in Requests /\ r > issued[d]
            /\ <<d, r>> \in Session /\ granted[<<d, r>>] = 0
        BY <3>1, TrustAssumption
        DEF Initiate, GrantInv, TypeOK, OpenIsFresh, Session, Requests
      <3>3. /\ issued' = [issued EXCEPT ![d] = r]
            /\ sessions' \subseteq sessions \cup {<<d, r>>}
            /\ granted' = granted
        BY <3>1 DEF Initiate
      <3>4. issued' = [issued EXCEPT ![d] = IF r > @ THEN r ELSE @]
        BY <3>2, <3>3
      <3>5. granted' = [granted EXCEPT ![<<d, r>>] = 0]
        BY <3>2, <3>3 DEF GrantInv, TypeOK
      <3> HIDE DEF r
      <3>6. QED
        BY <2>1, <3>2, <3>3, <3>4, <3>5, GrantOpens
    <2>5. CASE \E t \in Tasks : SeenSave(t)
      <3>1. PICK t \in Tasks : SeenSave(t)
        BY <2>5
      <3>2. Dev(t) \in Devices
        BY DevType DEF GrantInv
      <3>3. \/ UNCHANGED <<sessions, issued, granted>>
            \/ \E r \in Requests :
                 /\ issued' = [issued EXCEPT ![Dev(t)] = IF r > @ THEN r ELSE @]
                 /\ sessions' = sessions \cup {<<Dev(t), r>>}
                 /\ granted' = [granted EXCEPT ![<<Dev(t), r>>] = 0]
        BY <3>1 DEF SeenSave
      <3>4. QED
        BY <2>1, <2>2, <3>2, <3>3, GrantOpens
    <2>6. CASE Next
      <3>1. \/ sessions' \subseteq sessions /\ UNCHANGED <<issued, granted>>
            \/ \E t \in Tasks : TakeSession(t) \/ SeenSave(t)
            \/ \E t \in Tasks, d \in Devices : Initiate(t, d)
        BY <2>6 DEF Next, SeenLoad, ConfirmLoad, VerifyPin, RejectLoad, LeaveCheck,
             LeaveLoad, BeatLoad, InitiateReturns, ConfirmAnswered, SavePaired, Pin,
             ReadPeer, RejectSave, LeaveSave, Unpin, BeatSave, Restart
      <3>2. QED
        BY <2>2, <2>3, <2>4, <2>5, <3>1
    <2>7. QED
      BY <2>2, <2>6 DEF vars
  <1>3. GrantInv => GrantedOnce
    BY DEF GrantInv
  <1>4. QED
    BY <1>1, <1>2, <1>3, PTL DEF Spec

-----------------------------------------------------------------------------
(* The switch (Bootstrap) that lets the client dial a peer it has not      *)
(* pinned, for every finite number of calls that do so at once.            *)

(* OffWhenIdle says the same with the implication turned around; the count *)
(* is what makes a call that is not the last leave the switch to another.  *)
SwitchInv == SwitchTypeOK /\ CountIsGuards /\ OffWhenIdle

(* The calls counted are finitely many.                                    *)
LEMMA FiniteGuards == IsFiniteSet(Guards)
  BY CallsAssumption, FS_Subset DEF Guards

(* A call that starts is one guard more, a call that returns one less.     *)
LEMMA GuardsChange ==
  ASSUME SwitchTypeOK, NEW c \in Calls
  PROVE  /\ at[c] = "idle" /\ at'[c] \in Holding
              /\ (\A d \in Calls \ {c} : at'[d] = at[d])
            => Cardinality(Guards') = Cardinality(Guards) + 1
         /\ at[c] = "dialing" /\ at'[c] \notin Holding
              /\ (\A d \in Calls \ {c} : at'[d] = at[d])
            => Cardinality(Guards') = Cardinality(Guards) - 1
  <1>1. ASSUME at[c] = "idle", at'[c] \in Holding,
               \A d \in Calls \ {c} : at'[d] = at[d]
        PROVE  Cardinality(Guards') = Cardinality(Guards) + 1
    <2>1. Guards' = Guards \cup {c} /\ c \notin Guards
      BY <1>1 DEF Guards, Holding
    <2>2. QED
      BY <2>1, FiniteGuards, FS_AddElement
  <1>2. ASSUME at[c] = "dialing", at'[c] \notin Holding,
               \A d \in Calls \ {c} : at'[d] = at[d]
        PROVE  Cardinality(Guards') = Cardinality(Guards) - 1
    <2>1. Guards' = Guards \ {c} /\ c \in Guards
      BY <1>2 DEF Guards, Holding
    <2>2. QED
      BY <2>1, FiniteGuards, FS_RemoveElement
  <1>3. QED
    BY <1>1, <1>2

(* fetch_add keeps the invariant.                                          *)
LEMMA InvEnable ==
  ASSUME SwitchInv, NEW c \in Calls, Enable(c)
  PROVE  SwitchInv'
  <1>1. /\ at[c] = "idle" /\ at'[c] \in Holding
        /\ \A d \in Calls \ {c} : at'[d] = at[d]
        /\ bootstrap_refcount' = bootstrap_refcount + 1
    BY DEF Enable, Goto, SwitchInv, SwitchTypeOK, Holding
  <1>2. SwitchTypeOK'
    BY DEF Enable, Goto, SwitchInv, SwitchTypeOK, Positions,
      Holding
  <1>3. CountIsGuards'
    BY <1>1, GuardsChange DEF SwitchInv, CountIsGuards
  <1>4. OffWhenIdle'
    BY <1>1 DEF OffWhenIdle, Holding
  <1>5. QED
    BY <1>2, <1>3, <1>4 DEF SwitchInv

(* fetch_sub keeps the invariant: unless the count becomes 0, another call *)
(* still holds a guard.                                                    *)
LEMMA InvDisable ==
  ASSUME SwitchInv, NEW c \in Calls, Disable(c)
  PROVE  SwitchInv'
  <1>1. /\ at[c] = "dialing"
        /\ at'[c] = IF bootstrap_refcount = 1 THEN "switching_off" ELSE "idle"
        /\ \A d \in Calls \ {c} : at'[d] = at[d]
        /\ bootstrap_refcount' = bootstrap_refcount - 1
    BY DEF Disable, Goto, SwitchInv, SwitchTypeOK
  <1>2. CountIsGuards'
    BY <1>1, GuardsChange
    DEF SwitchInv, CountIsGuards, Holding
  <1>3. bootstrap_refcount' \in Nat
    BY <1>2, FiniteGuards, FS_CardinalityType, CallsAssumption, FS_Subset
    DEF CountIsGuards, Guards
  <1>4. SwitchTypeOK'
    BY <1>3 DEF Disable, Goto, SwitchInv, SwitchTypeOK, Positions
  <1>5. OffWhenIdle'
    <2>1. CASE bootstrap_refcount = 1
      BY <1>1, <2>1 DEF OffWhenIdle
    <2>2. CASE bootstrap_refcount # 1
      <3>1. Cardinality(Guards') # 0 /\ IsFiniteSet(Guards')
        BY <1>1, <1>2, <2>2, CallsAssumption, FS_Subset
        DEF SwitchInv, SwitchTypeOK, CountIsGuards, Guards
      <3>2. Guards' # {}
        BY <3>1, FS_EmptySet
      <3>3. QED
        BY <3>2 DEF Guards, Holding, OffWhenIdle
    <2>3. QED
      BY <2>1, <2>2
  <1>6. QED
    BY <1>2, <1>4, <1>5 DEF SwitchInv

(* The two stores keep the invariant.                                      *)
LEMMA InvSwitch ==
  ASSUME SwitchInv, NEW c \in Calls,
         SwitchOn(c) \/ SwitchOff(c)
  PROVE  SwitchInv'
  <1>1. SwitchTypeOK'
    BY DEF SwitchOn, SwitchOff, Goto, SwitchInv, SwitchTypeOK,
      Positions, Holding
  <1>2. Guards' = Guards
    BY DEF SwitchOn, SwitchOff, Goto, SwitchInv, SwitchTypeOK,
      Guards, Holding
  <1>3. OffWhenIdle'
    BY DEF SwitchOn, SwitchOff, Goto, SwitchInv, SwitchTypeOK,
      OffWhenIdle
  <1>4. QED
    BY <1>1, <1>2, <1>3
    DEF SwitchOn, SwitchOff, SwitchInv, CountIsGuards

(* The invariant is inductive.                                             *)
LEMMA SwitchInductive == SwitchSpec => []SwitchInv
  <1>1. SwitchInit => SwitchInv
    <2> SUFFICES ASSUME SwitchInit
                 PROVE  SwitchInv
      OBVIOUS
    <2>1. Guards = {}
      BY DEF SwitchInit, Guards, Holding
    <2>2. QED
      BY <2>1, FS_EmptySet
      DEF SwitchInit, SwitchInv, SwitchTypeOK, Positions, CountIsGuards,
        OffWhenIdle
  <1>2. SwitchInv /\ [SwitchNext]_switchVars => SwitchInv'
    <2> SUFFICES ASSUME SwitchInv, [SwitchNext]_switchVars
                 PROVE  SwitchInv'
      OBVIOUS
    <2>1. CASE UNCHANGED switchVars
      BY <2>1
      DEF switchVars, SwitchInv, SwitchTypeOK, CountIsGuards, Guards,
        OffWhenIdle
    <2>2. CASE SwitchNext
      BY <2>2, InvEnable, InvDisable, InvSwitch DEF SwitchNext
    <2>3. QED
      BY <2>1, <2>2
  <1>3. QED
    BY <1>1, <1>2, PTL DEF SwitchSpec

(* The count stays a natural number and every call where the code has it.  *)
THEOREM SwitchTypeCorrect == SwitchSpec => []SwitchTypeOK
  BY SwitchInductive, PTL DEF SwitchInv

(* The count is the number of guards alive: it never wraps around.         *)
THEOREM CountTheorem == SwitchSpec => []CountIsGuards
  BY SwitchInductive, PTL DEF SwitchInv

(* The switch is off whenever no pairing call is in flight.                *)
THEOREM OffTheorem == SwitchSpec => []OffWhenIdle
  BY SwitchInductive, PTL DEF SwitchInv

=============================================================================
