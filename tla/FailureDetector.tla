--------------------------- MODULE FailureDetector ---------------------------
(***************************************************************************)
(* The failure detector of MP1: vector timestamps (timestamp/), listen     *)
(* timers and the heartbeat thread (heartbeat/), and what mcast.cc does    *)
(* with them.  Every process sends a heartbeat every Interval; a process   *)
(* whose entry of the vector timestamp has not grown for Timeout is put in *)
(* failedNodes, for ever.                                                  *)
(*                                                                         *)
(* A heartbeat carries the timestamp without a step, so only a datagram    *)
(* received (or a multicast) makes one's entry grow: a process shows that  *)
(* it is alive by passing on that it was told so.                          *)
(*                                                                         *)
(* Time is discrete.  A datagram is a multicast or a heartbeat; the other  *)
(* datagrams carry the same fields and bring the same news earlier.  One   *)
(* step sends to every destination; Rmcast has the loop, and what the      *)
(* datagrams say of the messages delivered.  No membership changes.        *)
(***************************************************************************)
EXTENDS Integers, FiniteSets

CONSTANTS
    Proc,         \* the members of the group
    Interval,     \* HEARTBEAT_MS
    Timeout,      \* HEARTBEAT_MS * 3, the period of the listen timers
    MaxDelay,     \* bound: how long a datagram travels
    Horizon,      \* bound: the last instant
    Calm,         \* bound: the last instant if nobody has crashed
    CastAt,       \* bound: CastAt[p], the instants at which p may multicast
    LastFault,    \* bound: the last instant of a crash or a delay
    MaxCrash,     \* bound: processes that crash
    LossAt,       \* bound: the instants of a loss
    MaxLoss       \* bound: datagrams that are lost

ASSUME ProcAssumption == IsFiniteSet(Proc)
ASSUME PeriodAssumption == {Interval, Timeout} \subseteq Nat \ {0}
ASSUME RatioAssumption == 2 * Interval < Timeout
ASSUME BoundAssumption ==
    /\ {MaxDelay, Horizon, Calm, LastFault, MaxCrash, MaxLoss} \subseteq Nat
    /\ Calm <= Horizon
    /\ CastAt \in [Proc -> SUBSET Nat] /\ LossAt \subseteq Nat

VARIABLES
    now,          \* the time
    armedAt,      \* when initIfNecessary() armed the timers of p, or Never
    crashedAt,    \* when p crashed, or Never
    ts,           \* ts[p][q]: entry of q in the timestamp of p
    timer,        \* timer[p][q]: what is left of listenTimers[q] at p
    beat,         \* beat[p]: what is left of the sleep of the heartbeat thread
    failed,       \* failed[p]: node.failedNodes
    step,         \* step[p]: the entry the chat thread has read, or Unread
    casts,        \* casts[p]: the instants at which p has multicast
    net,          \* datagrams in flight
    lost,         \* how many were lost
    torn,         \* history: p's whose step overwrote a step of the other thread
    slow          \* history: whether a datagram took longer than is Quick

vars == <<now, armedAt, crashedAt, ts, timer, beat, failed, step, casts, net,
          lost, torn, slow>>

Never == Horizon + 1    \* no instant
Unread == -1            \* no value of a timestamp

Up(p) == crashedAt[p] = Never
Armed(p) == armedAt[p] # Never
External(p) == Proc \ {p}

Datagram == [to : Proc, ts : [Proc -> Nat], failed : SUBSET Proc, at : Nat]

\* unicast() to every external node: not to the suspected.  What is sent to a
\* process that is gone reaches no one.
UnicastAll(p, clock) ==
    {[to |-> q, ts |-> clock, failed |-> failed[p], at |-> now]
        : q \in {e \in External(p) \ failed[p] : Up(e)}}

\* Mutant: the two periods are swapped.
ArmSwapped(p) ==
    /\ armedAt' = IF Armed(p) THEN armedAt ELSE [armedAt EXCEPT ![p] = now]
    /\ beat' = IF Armed(p) THEN beat ELSE [beat EXCEPT ![p] = Timeout]

\* initIfNecessary(): create the timers and the heartbeat thread, and arm.
FullTimers(p) == [q \in Proc |-> IF q = p THEN 0 ELSE Timeout]
ArmIfNecessary(p) ==
    /\ armedAt' = IF Armed(p) THEN armedAt ELSE [armedAt EXCEPT ![p] = now]
    /\ beat' = IF Armed(p) THEN beat ELSE [beat EXCEPT ![p] = Interval]

-----------------------------------------------------------------------------
(* Timestamp *)

\* Mutant: also while an entry has not grown.
NewsOrSame(own, seen) == {q \in Proc : seen[q] >= own[q]}

\* update() returns the differences; receive() resets the timers of those that
\* have grown.
News(own, seen) == {q \in Proc : seen[q] > own[q]}

Update(p, own, seen) ==
    [q \in Proc |-> IF q # p /\ own[q] < seen[q] THEN seen[q] ELSE own[q]]

\* Mutant: receive() does not step.
NoStep(p, clock) == clock

\* step() of the receive thread, which does nothing else in between.
Step(p, clock) == [clock EXCEPT ![p] = @ + 1]

-----------------------------------------------------------------------------
(* The threads. *)

\* multicast(), chat thread: step() reads the entry ...
MulticastRead(p) ==
    /\ Up(p) /\ step[p] = Unread /\ now \in CastAt[p] \ casts[p]
    /\ ArmIfNecessary(p)
    /\ timer' = IF Armed(p) THEN timer ELSE [timer EXCEPT ![p] = FullTimers(p)]
    /\ step' = [step EXCEPT ![p] = ts[p][p]]
    /\ casts' = [casts EXCEPT ![p] = @ \cup {now}]
    /\ UNCHANGED <<now, crashedAt, ts, failed, net, lost, torn, slow>>

\* ... and writes it, over what the receive thread has written since.
MulticastWrite(p) ==
    LET clock == [ts[p] EXCEPT ![p] = step[p] + 1]
    IN  /\ Up(p) /\ step[p] # Unread
        /\ ts' = [ts EXCEPT ![p] = clock]
        /\ torn' = IF ts[p][p] = step[p] THEN torn ELSE torn \cup {p}
        /\ step' = [step EXCEPT ![p] = Unread]
        /\ net' = net \cup UnicastAll(p, clock)
        /\ UNCHANGED <<now, armedAt, crashedAt, timer, beat, failed, casts, lost,
                       slow>>

\* Mutant: the heartbeat is stamped with a step of its own, on the copy.
HeartbeatClockStepped(p) == Step(p, ts[p])

\* What a heartbeat carries.
HeartbeatClock(p) == ts[p]

\* heartbeat_send(), each time the sleep of send_thread_main() is over.
HeartbeatSend(p) ==
    /\ Up(p) /\ Armed(p) /\ beat[p] = 0
    /\ net' = net \cup UnicastAll(p, HeartbeatClock(p))
    /\ beat' = [beat EXCEPT ![p] = Interval]
    /\ UNCHANGED <<now, armedAt, crashedAt, ts, timer, failed, step, casts,
                   lost, torn, slow>>

\* receive()
Receive(m) ==
    LET p == m.to
        clock == Step(p, ts[p])
        left == IF Armed(p) THEN timer[p] ELSE FullTimers(p)
    IN  /\ Up(p)
        /\ ArmIfNecessary(p)
        /\ ts' = [ts EXCEPT ![p] = Update(p, clock, m.ts)]
        /\ timer' = [timer EXCEPT ![p] =
               [q \in Proc |-> IF q \in News(clock, m.ts) \ (failed[p] \cup {p})
                               THEN Timeout ELSE left[q]]]
        /\ failed' = [failed EXCEPT ![p] = @ \cup m.failed]
        /\ net' = net \ {m}
        /\ UNCHANGED <<now, crashedAt, step, casts, lost, torn, slow>>

\* heartbeat_failure(), the handler of SIGRTMAX.  The timer starts again, but
\* all it can do is add the same process: it is left at 0.
Expire(p, q) ==
    /\ Up(p) /\ Armed(p) /\ q \in External(p) \ failed[p] /\ timer[p][q] = 0
    /\ failed' = [failed EXCEPT ![p] = @ \cup {q}]
    /\ UNCHANGED <<now, armedAt, crashedAt, ts, timer, beat, step, casts, net,
                   lost, torn, slow>>

-----------------------------------------------------------------------------
\* What a dead process held is gone; its own entry is kept for OwnEntryLeads.
Crash(p) ==
    /\ Up(p) /\ Armed(p) /\ now <= LastFault
    /\ Cardinality({q \in Proc : ~Up(q)}) < MaxCrash
    /\ crashedAt' = [crashedAt EXCEPT ![p] = now]
    /\ armedAt' = [armedAt EXCEPT ![p] = Never]
    /\ ts' = [ts EXCEPT ![p] = [q \in Proc |-> IF q = p THEN @[q] ELSE 0]]
    /\ timer' = [timer EXCEPT ![p] = [q \in Proc |-> 0]]
    /\ beat' = [beat EXCEPT ![p] = 0]
    /\ failed' = [failed EXCEPT ![p] = {}]
    /\ step' = [step EXCEPT ![p] = Unread]
    /\ net' = {m \in net : m.to # p}
    /\ UNCHANGED <<now, casts, lost, torn, slow>>

Lose(m) ==
    /\ lost < MaxLoss /\ now \in LossAt
    /\ net' = net \ {m}
    /\ lost' = lost + 1
    /\ UNCHANGED <<now, armedAt, crashedAt, ts, timer, beat, failed, step,
                   casts, torn, slow>>

\* What may not wait until the next instant.
Urgent ==
    \/ \E m \in net : now = m.at + MaxDelay \/ m.at > LastFault
    \/ \E p \in Proc : /\ Up(p)
                       /\ \/ step[p] # Unread
                          \/ Armed(p) /\ beat[p] = 0
                          \/ Armed(p) /\ \E q \in External(p) \ failed[p] :
                                             timer[p][q] = 0

Less(n) == IF n = 0 THEN 0 ELSE n - 1

\* A delay that leaves the period of a listen timer room for two sleeps of a
\* heartbeat thread and two datagrams.
Quick(delay) == 2 * (Interval + delay) < Timeout

\* The clock starts with the first multicast.
Tick ==
    /\ now < IF \A p \in Proc : Up(p) THEN Calm ELSE Horizon
    /\ ~Urgent /\ \E p \in Proc : Armed(p) \/ ~Up(p)
    /\ now' = now + 1
    /\ timer' = [p \in Proc |-> IF Up(p) /\ Armed(p)
                                THEN [q \in Proc |-> Less(timer[p][q])]
                                ELSE timer[p]]
    /\ beat' = [p \in Proc |-> IF Up(p) /\ Armed(p) THEN Less(beat[p]) ELSE beat[p]]
    /\ slow' = (slow \/ \E m \in net : ~Quick(now' - m.at))
    /\ UNCHANGED <<armedAt, crashedAt, ts, failed, step, casts, net, lost, torn>>

Init ==
    /\ now = 0
    /\ armedAt = [p \in Proc |-> Never]
    /\ crashedAt = [p \in Proc |-> Never]
    /\ ts = [p \in Proc |-> [q \in Proc |-> 0]]
    /\ timer = [p \in Proc |-> [q \in Proc |-> 0]]
    /\ beat = [p \in Proc |-> 0]
    /\ failed = [p \in Proc |-> {}]
    /\ step = [p \in Proc |-> Unread]
    /\ casts = [p \in Proc |-> {}]
    /\ net = {}
    /\ lost = 0
    /\ torn = {}
    /\ slow = FALSE

Next ==
    \/ \E p \in Proc :
           \/ MulticastRead(p) \/ MulticastWrite(p) \/ HeartbeatSend(p) \/ Crash(p)
           \/ \E q \in Proc : Expire(p, q)
    \/ \E m \in net : Receive(m) \/ Lose(m)
    \/ Tick

Spec == Init /\ [][Next]_vars

-----------------------------------------------------------------------------
(* Properties. *)

\* Every variable keeps its shape.
TypeOK ==
    /\ {now, lost} \subseteq Nat
    /\ {armedAt, crashedAt} \subseteq [Proc -> 0 .. Never]
    /\ ts \in [Proc -> [Proc -> Nat]]
    /\ timer \in [Proc -> [Proc -> 0 .. Timeout]]
    /\ beat \in [Proc -> 0 .. Interval]
    /\ failed \in [Proc -> SUBSET Proc]
    /\ step \in [Proc -> Nat \cup {Unread}]
    /\ casts \in [Proc -> SUBSET Nat]
    /\ net \subseteq Datagram
    /\ torn \subseteq Proc
    /\ slow \in BOOLEAN

\* The last sign of life of a process reaches everybody at most this long after
\* it is sent: each hop takes a datagram, all but the first wait for a heartbeat,
\* and so does everything that is lost.
Relay == LET n == Cardinality(Proc)
         IN  (n - 1) * MaxDelay + (n - 2 + lost) * Interval

Later(a, b) == IF a > b THEN a ELSE b

\* "Every failure is eventually detected": a process that crashes is suspected by
\* everyone who has timers Timeout after the last news of it, although the others
\* keep sending each other timestamps that mention it.
DetectedInTime ==
    \A p, q \in Proc :
        /\ Up(p) /\ Armed(p) /\ ~Up(q)
        /\ now > Later(crashedAt[q] + Relay, armedAt[p]) + Timeout
        => q \in failed[p]

\* Nobody who is up is suspected as long as nothing is lost, no step is
\* overwritten and every delay is Quick: heartbeats that carry no
\* step of their own do keep idle processes trusted.  usend() draws delays
\* between 0.5 and 10 seconds; those under 1.5 are quick, and after a longer one
\* a process that is up may be suspected.
Accurate ==
    lost = 0 /\ torn = {} /\ ~slow =>
        \A p, q \in Proc : Up(p) /\ Up(q) => q \notin failed[p]

\* Nobody has a larger entry for q than q itself, in a timestamp or on the way,
\* so that update() never finds that our own entry has grown: receive() would
\* reset a listen timer that does not exist.  The two threads that step one entry
\* can break it.
OwnEntryLeads ==
    \A q \in Proc \ torn :
        /\ \A p \in Proc : ts[p][q] <= ts[q][q]
        /\ \A m \in net : m.ts[q] <= ts[q][q]
=============================================================================
