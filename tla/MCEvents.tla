------------------------------- MODULE MCEvents -------------------------------
(* Constants for checking Events: a channel that one burst of events       *)
(* overruns, two shares that a tick may have to flush at once, and a peer  *)
(* with the jobs it is given by the configuration.                         *)
EXTENDS Events

CONSTANT d

AllWithD == [j \in Jobs |-> d]
=============================================================================
