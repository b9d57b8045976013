------------------------------ MODULE MCRmcast ------------------------------
(* Instances of Rmcast for TLC: groups of two and three, and fault budgets. *)
EXTENDS Rmcast, TLC

CONSTANTS a, b, c

Two == {a, b}
Three == {a, b, c}

\* Who multicasts, and who sends heartbeats.
OnlyA == [p \in Proc |-> IF p = a THEN 1 ELSE 0]
OnlyB == [p \in Proc |-> IF p = b THEN 1 ELSE 0]
AOnceBOnce == [p \in Proc |-> IF p \in {a, b} THEN 1 ELSE 0]
TwiceA == [p \in Proc |-> IF p = a THEN 2 ELSE 0]
TwiceAOnceB == [p \in Proc |-> IF p = a THEN 2 ELSE IF p = b THEN 1 ELSE 0]
AllOnce == [p \in Proc |-> 1]
Nobody == [p \in Proc |-> 0]

\* Which faults happen, and how often.
NoFault == [f \in Fault |-> 0]
OneLoss == [NoFault EXCEPT !["lose"] = 1]
OneOfEach == [f \in Fault |-> 1]
=============================================================================
