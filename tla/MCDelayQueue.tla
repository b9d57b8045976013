---------------------------- MODULE MCDelayQueue ----------------------------
(* Instances of DelayQueue for TLC. *)
EXTENDS DelayQueue

CONSTANTS t1, t2
=============================================================================
