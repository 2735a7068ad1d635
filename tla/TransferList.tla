---------------------------- MODULE TransferList ----------------------------
(***************************************************************************)
(* The list of transfers that the user interface keeps                     *)
(* (stores/transfers.ts, services/eventListener.ts, TransferList.vue).     *)
(* The answers of commands and the events of the back end reach it on two  *)
(* ways, so that an answer may overtake an event or come long after it;    *)
(* events keep their order, and the bridge in lib.rs skips some when it    *)
(* lags behind the bus.                                                    *)
(*                                                                         *)
(* What a command or a task does to the job itself is in TransferSend;     *)
(* here a command succeeds or fails, and a task publishes progress and at  *)
(* most one outcome, its last act (PromiseTheorem).  A job received from   *)
(* a peer publishes nothing (http_server.rs) and is never listed.          *)
(***************************************************************************)
EXTENDS Sequences, Integers

CONSTANTS
  Transfers,    (* jobs the user sends                                     *)
  MaxProgress,  (* progress events of a task, a bound for TLC              *)
  MaxCalls      (* equal commands not answered at once, a bound for TLC    *)

ASSUME ListAssumption == MaxProgress \in Nat /\ MaxCalls \in Nat

VARIABLES
  list,      (* the entries, in the order shown                            *)
  task,      (* per job sent, the task that sends it and its progress      *)
  bridge,    (* events on their way to the listener                        *)
  answers,   (* jobs whose send_files has not been answered yet            *)
  calls,     (* per other command, how many are not answered yet           *)
  told,      (* per job, the outcome that no answer came after (history)   *)
  skipped    (* jobs whose request the bridge skipped (history)            *)

listVars == <<list, task, bridge, answers, calls, told, skipped>>

-----------------------------------------------------------------------------
Ops == {"accept", "pause", "resume", "cancel"}
Outcomes == {"completed", "failed"}

Command == [op : Ops, job : Transfers]

Entry == [job : Transfers, state : {"pending", "active", "paused", "cancelled"} \cup Outcomes]

Task == [pc : {"none", "running", "ended"}, progress : 0..MaxProgress]

ListTypeOK ==
  /\ list \in Seq(Entry)
  /\ task \in [Transfers -> Task]
  /\ bridge \in Seq([type : {"requested", "progress"} \cup Outcomes, job : Transfers])
  /\ answers \subseteq Transfers
  /\ calls \in [Command -> 0..MaxCalls]
  /\ told \in [Transfers -> Outcomes \cup {"none"}]
  /\ skipped \subseteq Transfers

ListInit ==
  /\ list = <<>> /\ bridge = <<>>
  /\ task = [j \in Transfers |-> [pc |-> "none", progress |-> 0]]
  /\ answers = {} /\ calls = [c \in Command |-> 0]
  /\ told = [j \in Transfers |-> "none"] /\ skipped = {}

-----------------------------------------------------------------------------
Listed(j) == \E i \in DOMAIN list : list[i].job = j

(* `find`: the first entry of the job.                                     *)
First(j) == CHOOSE i \in DOMAIN list :
              list[i].job = j /\ \A k \in DOMAIN list : list[k].job = j => i <= k

SetState(j, state) ==
  list' = IF Listed(j) THEN [list EXCEPT ![First(j)].state = state] ELSE list

Emit(type, j) == bridge' = Append(bridge, [type |-> type, job |-> j])

-----------------------------------------------------------------------------
(* The back end.                                                           *)

(* send_files saves the job, publishes TransferRequested and starts the    *)
(* task before it returns the id.                                          *)
SendFiles(j) ==
  /\ task[j].pc = "none"
  /\ task' = [task EXCEPT ![j].pc = "running"]
  /\ Emit("requested", j)
  /\ answers' = answers \cup {j}
  /\ UNCHANGED <<list, calls, told, skipped>>

TaskProgress(j) ==
  /\ task[j].pc = "running" /\ task[j].progress < MaxProgress
  /\ task' = [task EXCEPT ![j].progress = @ + 1]
  /\ Emit("progress", j)
  /\ UNCHANGED <<list, answers, calls, told, skipped>>

TaskEnds(j, outcome) ==
  /\ task[j].pc = "running"
  /\ task' = [task EXCEPT ![j].pc = "ended"]
  /\ Emit(outcome, j)
  /\ UNCHANGED <<list, answers, calls, told, skipped>>

(* The task ends by an error of which it publishes nothing.                *)
TaskErrors(j) ==
  /\ task[j].pc = "running"
  /\ task' = [task EXCEPT ![j].pc = "ended"]
  /\ UNCHANGED <<list, bridge, answers, calls, told, skipped>>

(* The bridge lags behind the bus and goes on with a later event.          *)
BridgeSkips ==
  /\ bridge # <<>>
  /\ skipped' = IF Head(bridge).type = "requested" THEN skipped \cup {Head(bridge).job} ELSE skipped
  /\ bridge' = Tail(bridge)
  /\ UNCHANGED <<list, task, answers, calls, told>>

-----------------------------------------------------------------------------
(* The listener.                                                           *)

NewEntry(j) == [job |-> j, state |-> "pending"]

(* The user's own request is entered at the top, under the name of a       *)
(* remote peer, unless the job is listed.                                  *)
OnRequested(j) ==
  list' = IF Listed(j) THEN list ELSE <<NewEntry(j)>> \o list

OnProgress(j) ==
  list' = IF Listed(j) /\ list[First(j)].state # "completed"
          THEN [list EXCEPT ![First(j)].state = "active"] ELSE list

OnOutcome(j, outcome) == SetState(j, outcome)

Deliver ==
  /\ bridge # <<>>
  /\ bridge' = Tail(bridge)
  /\ LET e == Head(bridge) IN
       \/ e.type = "requested" /\ OnRequested(e.job) /\ UNCHANGED told
       \/ e.type = "progress" /\ OnProgress(e.job) /\ UNCHANGED told
       \/ /\ e.type \in Outcomes
          /\ OnOutcome(e.job, e.type)
          /\ told' = [told EXCEPT ![e.job] = e.type]
  /\ UNCHANGED <<task, answers, calls, skipped>>

-----------------------------------------------------------------------------
(* The store: what it does when a command is answered.                     *)

(* Mutant of SendAnswered: the entry is put at the top, like a request.    *)
SendAnsweredOnTop(j) ==
  /\ j \in answers
  /\ answers' = answers \ {j}
  /\ list' = <<NewEntry(j)>> \o list
  /\ UNCHANGED <<task, bridge, calls, told, skipped>>

(* The entry is pushed, listed already or not.                             *)
SendAnswered(j) ==
  /\ j \in answers
  /\ answers' = answers \ {j}
  /\ list' = Append(list, NewEntry(j))
  /\ UNCHANGED <<task, bridge, calls, told, skipped>>

(* The buttons that an entry offers in the state it shows.                 *)
Offered(state) ==
  CASE state = "pending" -> {"accept", "cancel"}
    [] state = "active"  -> {"pause", "cancel"}
    [] state = "paused"  -> {"resume", "cancel"}
    [] OTHER -> {}

Press(op, i) ==
  /\ op \in Offered(list[i].state)
  /\ LET command == [op |-> op, job |-> list[i].job] IN
       /\ calls[command] < MaxCalls
       /\ calls' = [calls EXCEPT ![command] = @ + 1]
  /\ UNCHANGED <<list, task, bridge, answers, told, skipped>>

(* Mutant of StateAfter: the name of the command for the name of a state.  *)
StateNamedAfter(op) == IF op = "cancel" THEN "cancel" ELSE "active"

StateAfter(op) ==
  CASE op \in {"accept", "resume"} -> "active"
    [] op = "pause" -> "paused"
    [] op = "cancel" -> "cancelled"

(* Only a command that succeeded changes the entry, whatever it shows now. *)
Answered(call) ==
  /\ calls[call] > 0
  /\ calls' = [calls EXCEPT ![call] = @ - 1]
  /\ \/ UNCHANGED <<list, told>>
     \/ /\ SetState(call.job, StateAfter(call.op))
        /\ told' = [told EXCEPT ![call.job] = "none"]
  /\ UNCHANGED <<task, bridge, answers, skipped>>

-----------------------------------------------------------------------------
ListNext ==
  \/ \E j \in Transfers :
       \/ SendFiles(j) \/ TaskProgress(j) \/ TaskErrors(j) \/ SendAnswered(j)
       \/ \E outcome \in Outcomes : TaskEnds(j, outcome)
  \/ BridgeSkips
  \/ Deliver
  \/ \E i \in DOMAIN list, op \in Ops : Press(op, i)
  \/ \E call \in Command : Answered(call)

ListSpec == ListInit /\ [][ListNext]_listVars

-----------------------------------------------------------------------------
(* The outcome that was delivered last is what the job's first entry       *)
(* shows, unless a command was answered after it or the bridge skipped the *)
(* request - though send_files may enter the job a second time at any      *)
(* later moment.                                                           *)
OutcomeIsShown ==
  \A j \in Transfers \ skipped :
    told[j] # "none" => Listed(j) /\ list[First(j)].state = told[j]
=============================================================================
