---------------------------- MODULE MCMembership ----------------------------
(* Instances of Membership for TLC. *)
EXTENDS Membership

CONSTANTS p1, p2, p3, gone

\* A process that is gone, and a port that is given out again.
OldIds == <<gone, p2>>

Casts == [p \in Proc |-> IF p = p1 THEN 2 ELSE 1]
=============================================================================
