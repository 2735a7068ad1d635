------------------------------ MODULE SyncPlan ------------------------------
(* Index entries of one path, their classification in a sync plan and the  *)
(* policy for conflicts (sync_plan_generator.rs, conflict_policy.rs and     *)
(* file_entry.rs).  Sizes, hashes and blocks of an entry are left out: the *)
(* plan reads versions, deletion, time and author only.                    *)
EXTENDS VersionVector

CONSTANT Times        \* values of modified_at
ASSUME TimesAssumption == Times \subseteq Nat /\ Times # {}

Entry == [kind : {"live", "tombstone"}, version : Vectors,
          at : Times, by : Devices]

NoEntry == [kind |-> "none"]

-----------------------------------------------------------------------------
(* A new entry, and what the indexer and the sync flow do to one.          *)
NewEntry(d, now) ==
  [kind |-> "live", version |-> Increment(Zero, d), at |-> now, by |-> d]

(* Created and Modified do not clear the deletion mark of a tombstone.     *)
UpdateContent(e, d, now) ==
  [e EXCEPT !.version = Increment(@, d), !.at = now, !.by = d]

(* mark_deleted leaves modified_at as it is.                               *)
MarkDeleted(e, d) ==
  [e EXCEPT !.kind = "tombstone", !.version = Increment(@, d), !.by = d]

(* Only the version of the other entry is taken over.                      *)
ApplyRemoteVersion(e, remote) ==
  [e EXCEPT !.version = Merge(@, remote.version)]

-----------------------------------------------------------------------------
(* The plan for one path.                                                  *)
OnlyIn(a, b) == a.kind # "none" /\ b.kind = "none"

Newer(a, b) ==
  /\ a.kind # "none" /\ b.kind # "none"
  /\ IsAncestorOf(b.version, a.version)
  /\ ~IsAncestorOf(a.version, b.version)

Class(local, remote) ==
  CASE OnlyIn(local, remote) \/ Newer(local, remote)  -> "push"
    [] OnlyIn(remote, local) \/ Newer(remote, local)  -> "pull"
    [] local.kind # "none" /\ remote.kind # "none"
       /\ ConflictsWith(local.version, remote.version) -> "conflict"
    [] OTHER                                           -> "unchanged"

(* What the permission of the peer leaves of it.                           *)
Filtered(class, canPull, canPush) ==
  IF (class = "pull" /\ ~canPull) \/ (class = "push" /\ ~canPush)
  THEN "unchanged" ELSE class

(* Mutant: without the comparison of devices.                              *)
LosesByTime(a, b) == a.at <= b.at

(* a loses against b: it is older, or as old and of the smaller device.    *)
Loses(a, b) == a.at < b.at \/ (a.at = b.at /\ a.by < b.by)

(* The resolution of a conflict; a copy is named after the losing entry.   *)
Decide(local, remote) ==
  CASE local.kind = "tombstone" /\ remote.kind = "live" -> "keep_remote"
    [] remote.kind = "tombstone"                        -> "keep_local"
    [] local.kind = "live" /\ remote.kind = "live"
       /\ Loses(local, remote)                          -> "copy_of_local"
    [] local.kind = "live" /\ remote.kind = "live"
       /\ Loses(remote, local)                          -> "copy_of_remote"
    [] OTHER                                            -> "keep_local"

-----------------------------------------------------------------------------
(* What the two sides of a conflict ought to agree on.                     *)
Opposite(r) ==
  CASE r = "keep_local"     -> "keep_remote"
    [] r = "keep_remote"    -> "keep_local"
    [] r = "copy_of_local"  -> "copy_of_remote"
    [] r = "copy_of_remote" -> "copy_of_local"

OpposingClass(c) ==
  CASE c = "push" -> "pull" [] c = "pull" -> "push" [] OTHER -> c

(* One device made both changes in one millisecond: decide keeps the local *)
(* one and calls it impossible unless a clock jumped.                      *)
SameStamp(a, b) ==
  a.kind = "live" /\ b.kind = "live" /\ a.at = b.at /\ a.by = b.by

(* Both sides keep what they have only if that is a deletion on both.      *)
Agree(a, b) ==
  IF a.kind = "tombstone" /\ b.kind = "tombstone" THEN TRUE
  ELSE SameStamp(a, b) \/ Decide(b, a) = Opposite(Decide(a, b))
=============================================================================
