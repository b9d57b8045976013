--------------------------- MODULE MCReplicaStore ---------------------------
(* Instances of ReplicaStore for TLC: what the front ends call, and write. *)
EXTENDS ReplicaStore

CONSTANTS c1, c2, x, y

\* Both may apply x.
MayBeTheSame == [c \in Client |-> IF c = c1 THEN {x} ELSE {x, y}]

\* Both make, write, read and remove.
MakeUseRemove ==
    [c \in Client |-> <<"create", "apply", "read", "remove">>]

=============================================================================
