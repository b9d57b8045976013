----------------------------- MODULE SharedLog -----------------------------
(***************************************************************************)
(* What the store of MP2 promises of a state machine, without copies,      *)
(* queues or replicas: the machine is one log of operations.  A write puts *)
(* its operation at the end of the log, the next one only when it has      *)
(* returned; a read returns the log as it was at some moment of the call,  *)
(* since the log grows by one operation at a time.  Together: calls are    *)
(* linearizable.  A call may fail; then the operation of a write is in the *)
(* log or not.  Of a machine that is spoilt nothing is promised any more.  *)
(***************************************************************************)
EXTENDS Naturals, Sequences

CONSTANTS Client, Op

VARIABLES
    log,     \* the operations applied, in order
    done,    \* how many of them have been acknowledged
    call,    \* call[c]: what c has asked for, or has been answered
    void     \* the machine is spoilt

state == <<log, done, call, void>>

Nothing == [kind |-> "none"]
Writes(op) == [kind |-> "write", op |-> op]
Reads(n) == [kind |-> "read", since |-> n]     \* asked when the log had n elements
Answer(s) == [kind |-> "answer", value |-> s]

Init ==
    /\ log = <<>> /\ done = 0 /\ void = FALSE
    /\ call = [c \in Client |-> Nothing]

Ask(c, k) ==
    /\ call[c] = Nothing
    /\ call' = [call EXCEPT ![c] = k]
    /\ UNCHANGED <<log, done, void>>

\* One write at a time: the last operation has been acknowledged.
Perform(c, op) ==
    /\ call[c] = Writes(op) /\ done = Len(log)
    /\ log' = Append(log, op)
    /\ UNCHANGED <<done, call, void>>

\* The write returns, and has been performed by then.
Acknowledge(c, op) ==
    /\ call[c] = Writes(op)
    /\ log' \in {log, Append(log, op)}
    /\ Len(log') = done + 1 /\ log'[done + 1] = op
    /\ done' = done + 1
    /\ call' = [call EXCEPT ![c] = Nothing]
    /\ UNCHANGED void

\* The first n operations are what the log was at some moment since c asked.
ReadLog(c, n) ==
    /\ \E since \in 0 .. n : call[c] = Reads(since)
    /\ call' = [call EXCEPT ![c] = Answer(SubSeq(log, 1, n))]
    /\ UNCHANGED <<log, done, void>>

\* The calls of D are over: what was answered is taken, other calls have failed.
End(D) ==
    /\ call' = [c \in Client |-> IF c \in D THEN Nothing ELSE call[c]]
    /\ UNCHANGED <<log, done, void>>

Spoil ==
    /\ log' = <<>> /\ done' = 0 /\ void' = TRUE
    /\ call' = [c \in Client |-> Nothing]

Next ==
    /\ ~void
    /\ \/ \E c \in Client :
              \/ \E op \in Op : \/ Ask(c, Writes(op))
                                \/ Perform(c, op) \/ Acknowledge(c, op)
              \/ Ask(c, Reads(Len(log)))
              \/ \E n \in 0 .. Len(log) : ReadLog(c, n)
       \/ \E D \in SUBSET Client : End(D)
       \/ Spoil

Spec == Init /\ [][Next]_state
=============================================================================
