------------------------------ MODULE Bootstrap ------------------------------
(***************************************************************************)
(* The bootstrap switch of the network client: while it is on, the client  *)
(* accepts a peer whose certificate is not pinned yet.  Every pairing call *)
(* holds a BootstrapGuard while it dials.  Guards are counted in one       *)
(* atomic, the switch is another, and the two are updated one after the    *)
(* other by whichever worker threads run the calls.                        *)
(***************************************************************************)
EXTENDS Integers, FiniteSets

CONSTANT Calls   (* the pairing calls that can be in flight at once        *)

ASSUME CallsAssumption == IsFiniteSet(Calls)

VARIABLES
  bootstrap,           (* the AtomicBool the certificate verifier reads    *)
  bootstrap_refcount,  (* the AtomicU32                                    *)
  at                   (* per call, where it is                            *)

switchVars == <<bootstrap, bootstrap_refcount, at>>

(* The calls that are counted are those between fetch_add and fetch_sub.   *)
Holding == {"switching_on", "dialing"}

Positions == Holding \cup {"idle", "switching_off"}

SwitchTypeOK ==
  /\ bootstrap \in BOOLEAN
  /\ bootstrap_refcount \in Nat
  /\ at \in [Calls -> Positions]

SwitchInit ==
  /\ bootstrap = FALSE
  /\ bootstrap_refcount = 0
  /\ at = [c \in Calls |-> "idle"]

Goto(c, where) == at' = [at EXCEPT ![c] = where]

(* Mutant of Enable: a switch instead of a count.                          *)
EnableOnce(c) ==
  /\ at[c] = "idle"
  /\ bootstrap_refcount' = 1
  /\ Goto(c, IF bootstrap_refcount = 0 THEN "switching_on" ELSE "dialing")
  /\ UNCHANGED bootstrap

(* enable_bootstrap: fetch_add, then the store if the count was 0.         *)
Enable(c) ==
  /\ at[c] = "idle"
  /\ bootstrap_refcount' = bootstrap_refcount + 1
  /\ Goto(c, IF bootstrap_refcount = 0 THEN "switching_on" ELSE "dialing")
  /\ UNCHANGED bootstrap

SwitchOn(c) ==
  /\ at[c] = "switching_on"
  /\ bootstrap' = TRUE
  /\ Goto(c, "dialing")
  /\ UNCHANGED bootstrap_refcount

(* Mutant of Disable: fetch_sub taken to return the new count.             *)
DisableAtZero(c) ==
  /\ at[c] = "dialing"
  /\ bootstrap_refcount' = bootstrap_refcount - 1
  /\ Goto(c, IF bootstrap_refcount = 0 THEN "switching_off" ELSE "idle")
  /\ UNCHANGED bootstrap

(* The guard is dropped when the call returned, or unwound.                *)
(* disable_bootstrap: fetch_sub, then the store if the count was 1.        *)
Disable(c) ==
  /\ at[c] = "dialing"
  /\ bootstrap_refcount' = bootstrap_refcount - 1
  /\ Goto(c, IF bootstrap_refcount = 1 THEN "switching_off" ELSE "idle")
  /\ UNCHANGED bootstrap

SwitchOff(c) ==
  /\ at[c] = "switching_off"
  /\ bootstrap' = FALSE
  /\ Goto(c, "idle")
  /\ UNCHANGED bootstrap_refcount

SwitchNext == \E c \in Calls : Enable(c) \/ SwitchOn(c) \/ Disable(c) \/ SwitchOff(c)

SwitchSpec == SwitchInit /\ [][SwitchNext]_switchVars

-----------------------------------------------------------------------------
(* Properties.                                                             *)

Guards == {c \in Calls : at[c] \in Holding}

(* The count is the number of guards alive, so that it returns to 0 and    *)
(* its fetch_sub does not wrap around.                                     *)
CountIsGuards == bootstrap_refcount = Cardinality(Guards)

(* When no call is in flight the switch is off: pinning is not left        *)
(* disabled behind, in whichever order the calls' two writes interleaved.  *)
OffWhenIdle == (\A c \in Calls : at[c] = "idle") => ~bootstrap

=============================================================================
