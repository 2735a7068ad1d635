------------------------------- MODULE MCWatch -------------------------------
(* Constants for checking Watch: two contents of different length.         *)
EXTENDS Watch

CONSTANTS a, b

TwoSizes == [x \in {a, b} |-> IF x = a THEN 1 ELSE 2]
=============================================================================
