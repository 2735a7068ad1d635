---------------------------- MODULE MCShareSaga ----------------------------
(* Where checking ShareSaga begins, so that few invitations suffice: the   *)
(* share does not exist yet, or one device created it and has invited all  *)
(* the others with full rights, one after another and undisturbed.         *)
EXTENDS ShareSaga, TLC

SharedBy(d) == [Create(d) EXCEPT !.perm = [q \in Devices |-> "read_write"]]

Established ==
  \E d \in Devices :
    /\ row = [q \in Devices |-> IF q = d THEN SharedBy(d)
                                ELSE Authorize(Create(d), q, "read_write")]
    /\ offered = {<<d, q, "read_write">> : q \in Devices \ {d}}
    /\ task = [t \in Tasks |-> Idle]
    /\ request = [t \in Tasks |-> NoRequest]
    /\ commands = 0
    /\ declined = {}
    /\ excused = {}

MCSpec == (Init \/ Established) /\ [][Next]_vars

(* Devices and tasks are interchangeable.                                  *)
Symmetry == Permutations(Devices) \cup Permutations(Tasks)
=============================================================================
