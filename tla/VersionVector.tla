--------------------------- MODULE VersionVector ---------------------------
(* The version vectors of kfilesync_core, which file_entry.rs re-exports.   *)
(* The crate is not part of the repository: the operators follow the calls  *)
(* in src-tauri/src and the laws tests/unit/version_vector_test.rs states.  *)
EXTENDS Naturals

CONSTANT Devices      \* device ids; as numbers, because ids are compared
ASSUME DevicesAssumption == Devices \subseteq Nat

Vectors == [Devices -> Nat]

Zero == [d \in Devices |-> 0]

Increment(v, d) == [v EXCEPT ![d] = @ + 1]

Merge(v, w) == [d \in Devices |-> IF v[d] >= w[d] THEN v[d] ELSE w[d]]

IsAncestorOf(v, w) == \A d \in Devices : v[d] <= w[d]

ConflictsWith(v, w) == ~IsAncestorOf(v, w) /\ ~IsAncestorOf(w, v)
=============================================================================
