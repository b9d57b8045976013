-------------------------- MODULE LeaderConsensus --------------------------
(***************************************************************************)
(* What the leader election of MP2 is for, without calls, proposals or     *)
(* threads: the group decides once, and a replica knows either nothing or  *)
(* the decision.  A replica may forget it: an election that it started     *)
(* itself, and lost, ends with leader = -1 although the winner has already *)
(* informed it (replica_handler.cpp:127, 189, 200).                        *)
(***************************************************************************)
EXTENDS Integers

CONSTANT Replica      \* the candidates, which are also the learners

VARIABLES
    chosen,           \* the values decided: none or one
    learned           \* learned[r]: the decision as r knows it, -1 for none

TypeOK == chosen \subseteq Replica /\ learned \in [Replica -> Replica \cup {-1}]

Init == chosen = {} /\ learned = [r \in Replica |-> -1]

\* r decides, or decides again the same, and knows it.
Decide(r, v) ==
    /\ chosen \subseteq {v}
    /\ chosen' = {v}
    /\ learned' = [learned EXCEPT ![r] = v]

Learn(r, v) ==
    /\ v \in chosen
    /\ learned' = [learned EXCEPT ![r] = v]
    /\ UNCHANGED chosen

Forget(r) ==
    /\ learned' = [learned EXCEPT ![r] = -1]
    /\ UNCHANGED chosen

Next == \E r, v \in Replica : Decide(r, v) \/ Learn(r, v) \/ Forget(r)

Spec == Init /\ [][Next]_<<chosen, learned>>
=============================================================================
