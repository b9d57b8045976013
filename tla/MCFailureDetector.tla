-------------------------- MODULE MCFailureDetector --------------------------
(* Instances of FailureDetector for TLC. *)
EXTENDS FailureDetector, TLC

CONSTANTS p1, p2, p3

\* p1 speaks, and again when its first heartbeat is due; the others listen.
Instants == [p \in Proc |-> IF p = p1 THEN {0, 3} ELSE {}]

Symmetry == Permutations(Proc \ {p1})
=============================================================================
