------------------------- MODULE ReliableMulticast -------------------------
(***************************************************************************)
(* What the reliable multicast of MP1 promises, without datagrams,         *)
(* acknowledgements, stores or threads (Integrity and Validity in          *)
(* designDocument.tex:93-104): a process that is up delivers its own       *)
(* message at once; it delivers the messages of each sender in the order   *)
(* in which they were multicast, each once, and only after the sender has; *)
(* and a process that is down neither sends nor delivers, but what it has  *)
(* sent may still be delivered.                                            *)
(***************************************************************************)
EXTENDS Naturals

CONSTANT Proc         \* the members of the group

VARIABLES
    got,              \* got[p][s]: p has delivered messages 1 .. got[p][s] of s
    alive             \* the processes that are up

service == <<got, alive>>

Init ==
    /\ got = [p \in Proc |-> [s \in Proc |-> 0]]
    /\ alive = Proc

Cast(p) ==
    /\ p \in alive
    /\ got' = [got EXCEPT ![p][p] = @ + 1]
    /\ UNCHANGED alive

\* p delivers, in one go, what it likes of the messages that were multicast.
Deliver(p) ==
    /\ p \in alive
    /\ got' = [got EXCEPT ![p] = got'[p]]
    /\ got'[p][p] = got[p][p]
    /\ \A s \in Proc : got[p][s] <= got'[p][s] /\ got'[p][s] <= got[s][s]
    /\ UNCHANGED alive

Stop(p) ==
    /\ alive' = alive \ {p}
    /\ UNCHANGED got

Next == \E p \in Proc : Cast(p) \/ Deliver(p) \/ Stop(p)

Spec == Init /\ [][Next]_service
=============================================================================
