------------------------ MODULE FailureDetectorProofs ------------------------
(***************************************************************************)
(* Theorems about FailureDetector, for every group, every period and every *)
(* bound.                                                                  *)
(*                                                                         *)
(* The argument: a timestamp on the way is a copy of one that its sender   *)
(* had.  Nobody raises an entry but its owner, except to a value that is   *)
(* already around; and the owner only raises it, unless its two threads    *)
(* collide.                                                                *)
(***************************************************************************)
EXTENDS FailureDetector, TLAPS

\* The clock stops at the horizon, so that Never is no instant.
NowBounded == now <= Horizon

TypeInv == TypeOK /\ NowBounded

IInv == TypeInv /\ OwnEntryLeads

-----------------------------------------------------------------------------
(* Timestamps. *)

\* update() and step() take timestamps to timestamps.
LEMMA UpdateType ==
    ASSUME NEW p \in Proc, NEW own \in [Proc -> Nat], NEW seen \in [Proc -> Nat]
    PROVE  /\ Step(p, own) \in [Proc -> Nat]
           /\ Update(p, own, seen) \in [Proc -> Nat]
BY DEF Step, Update

\* update() raises an entry to one of the two it has, and never the own one.
LEMMA UpdateEntry ==
    ASSUME NEW p \in Proc, NEW q \in Proc,
           NEW own \in [Proc -> Nat], NEW seen \in [Proc -> Nat]
    PROVE  /\ Update(p, own, seen)[p] = own[p]
           /\ Update(p, own, seen)[q] \in {own[q], seen[q]}
           /\ own[q] <= Update(p, own, seen)[q]
BY DEF Update

\* What unicast() sends is a set of datagrams that all carry the given timestamp.
LEMMA UnicastAllType ==
    ASSUME TypeOK, NEW p \in Proc, NEW clock \in [Proc -> Nat]
    PROVE  /\ UnicastAll(p, clock) \subseteq Datagram
           /\ \A m \in UnicastAll(p, clock) : m.ts = clock
BY DEF UnicastAll, Datagram, TypeOK, External

\* Arming the timers keeps their types; the first interval is a heartbeat's.
LEMMA ArmType ==
    ASSUME TypeInv, NEW p \in Proc, ArmIfNecessary(p)
    PROVE  /\ armedAt' \in [Proc -> 0 .. Never]
           /\ beat' \in [Proc -> 0 .. Interval]
BY PeriodAssumption, BoundAssumption
   DEF TypeInv, TypeOK, NowBounded, ArmIfNecessary, Never

\* Freshly armed timers are listen timers.
LEMMA FullTimersType ==
    ASSUME NEW p \in Proc
    PROVE  FullTimers(p) \in [Proc -> 0 .. Timeout]
BY PeriodAssumption DEF FullTimers

-----------------------------------------------------------------------------
(* Types. *)

\* The type invariant holds before anybody speaks.
LEMMA TypeInit == Init => TypeInv
<1> SUFFICES ASSUME Init PROVE TypeInv
  OBVIOUS
<1>1. Horizon \in Nat /\ Timeout \in Nat /\ Interval \in Nat
  BY PeriodAssumption, BoundAssumption
<1>2. /\ {now, lost} \subseteq Nat
      /\ {armedAt, crashedAt} \subseteq [Proc -> 0 .. Never]
      /\ now <= Horizon
  BY <1>1 DEF Init, Never
<1>3. /\ ts \in [Proc -> [Proc -> Nat]]
      /\ timer \in [Proc -> [Proc -> 0 .. Timeout]]
      /\ beat \in [Proc -> 0 .. Interval]
  BY <1>1 DEF Init
<1>4. /\ failed \in [Proc -> SUBSET Proc]
      /\ step \in [Proc -> Nat \cup {Unread}]
      /\ casts \in [Proc -> SUBSET Nat]
      /\ net \subseteq Datagram /\ torn \subseteq Proc /\ slow \in BOOLEAN
  BY DEF Init
<1>5. QED
  BY <1>2, <1>3, <1>4 DEF TypeInv, TypeOK, NowBounded

\* Every step keeps the types and leaves the clock within the horizon.
LEMMA TypeNext == TypeInv /\ [Next]_vars => TypeInv'
<1> SUFFICES ASSUME TypeInv, [Next]_vars PROVE TypeInv'
  OBVIOUS
<1> USE DEF TypeInv, NowBounded
<1>1. ASSUME NEW p \in Proc, MulticastRead(p) PROVE TypeInv'
  <2>1. /\ armedAt' \in [Proc -> 0 .. Never]
        /\ beat' \in [Proc -> 0 .. Interval]
    BY <1>1, ArmType DEF MulticastRead
  <2>2. timer' \in [Proc -> [Proc -> 0 .. Timeout]]
    BY <1>1, FullTimersType DEF MulticastRead, TypeOK
  <2>3. now \in Nat /\ now' = now
    BY <1>1 DEF MulticastRead, TypeOK
  <2>4. casts' \in [Proc -> SUBSET Nat] /\ step' \in [Proc -> Nat \cup {Unread}]
    BY <1>1, <2>3 DEF MulticastRead, TypeOK
  <2>5. UNCHANGED <<now, crashedAt, ts, failed, net, lost, torn, slow>>
    BY <1>1 DEF MulticastRead
  <2>6. QED
    BY <2>1, <2>2, <2>3, <2>4, <2>5 DEF TypeOK
<1>2. ASSUME NEW p \in Proc, MulticastWrite(p) PROVE TypeInv'
  <2> DEFINE clock == [ts[p] EXCEPT ![p] = step[p] + 1]
  <2>1. clock \in [Proc -> Nat]
    BY <1>2 DEF MulticastWrite, TypeOK
  <2>2. net' \subseteq Datagram
    BY <1>2, <2>1, UnicastAllType DEF MulticastWrite, TypeOK
  <2>3. ts' \in [Proc -> [Proc -> Nat]]
    BY <1>2, <2>1 DEF MulticastWrite, TypeOK
  <2>4. QED
    BY <1>2, <2>2, <2>3 DEF MulticastWrite, TypeOK
<1>3. ASSUME NEW p \in Proc, HeartbeatSend(p) PROVE TypeInv'
  <2>1. net' \subseteq Datagram
    BY <1>3, UnicastAllType DEF HeartbeatSend, HeartbeatClock, TypeOK
  <2>2. QED
    BY <1>3, <2>1, PeriodAssumption DEF HeartbeatSend, TypeOK
<1>4. ASSUME NEW m \in net, Receive(m) PROVE TypeInv'
  <2> DEFINE p == m.to
             clock == Step(p, ts[p])
             left == IF Armed(p) THEN timer[p] ELSE FullTimers(p)
  <2>1. p \in Proc /\ m.ts \in [Proc -> Nat] /\ m.failed \subseteq Proc
    BY DEF TypeOK, Datagram
  <2>2. /\ armedAt' \in [Proc -> 0 .. Never]
        /\ beat' \in [Proc -> 0 .. Interval]
    BY <1>4, <2>1, ArmType DEF Receive
  <2>3. Update(p, clock, m.ts) \in [Proc -> Nat]
    BY <2>1, UpdateType DEF TypeOK
  <2>4. left \in [Proc -> 0 .. Timeout]
    BY <2>1, FullTimersType DEF TypeOK
  <2>5. [q \in Proc |-> IF q \in News(clock, m.ts) \ (failed[p] \cup {p})
                        THEN Timeout ELSE left[q]] \in [Proc -> 0 .. Timeout]
    BY <2>4, PeriodAssumption
  <2>6. timer' \in [Proc -> [Proc -> 0 .. Timeout]]
    BY <1>4, <2>1, <2>5 DEF Receive, TypeOK
  <2>7. ts' \in [Proc -> [Proc -> Nat]]
    BY <1>4, <2>1, <2>3 DEF Receive, TypeOK
  <2>8. failed' \in [Proc -> SUBSET Proc]
    BY <1>4, <2>1 DEF Receive, TypeOK
  <2>9. QED
    BY <1>4, <2>2, <2>6, <2>7, <2>8 DEF Receive, TypeOK
<1>5. ASSUME NEW p \in Proc, NEW q \in Proc, Expire(p, q) PROVE TypeInv'
  BY <1>5 DEF Expire, TypeOK
<1>6. ASSUME NEW p \in Proc, Crash(p) PROVE TypeInv'
  <2>1. armedAt' \in [Proc -> 0 .. Never] /\ crashedAt' \in [Proc -> 0 .. Never]
    BY <1>6, BoundAssumption DEF Crash, TypeOK, Never
  <2>2. /\ ts' \in [Proc -> [Proc -> Nat]]
        /\ timer' \in [Proc -> [Proc -> 0 .. Timeout]]
        /\ beat' \in [Proc -> 0 .. Interval]
    BY <1>6, PeriodAssumption DEF Crash, TypeOK
  <2>3. /\ failed' \in [Proc -> SUBSET Proc]
        /\ step' \in [Proc -> Nat \cup {Unread}]
        /\ net' \subseteq Datagram
    BY <1>6 DEF Crash, TypeOK
  <2>4. UNCHANGED <<now, casts, lost, torn, slow>>
    BY <1>6 DEF Crash
  <2>5. QED
    BY <2>1, <2>2, <2>3, <2>4 DEF TypeOK
<1>7. ASSUME NEW m \in net, Lose(m) PROVE TypeInv'
  BY <1>7 DEF Lose, TypeOK
<1>8. ASSUME Tick PROVE TypeInv'
  <2>1. now' \in Nat /\ now' <= Horizon
    BY <1>8, BoundAssumption DEF Tick, TypeOK
  <2>2. \A n \in 0 .. Timeout : Less(n) \in 0 .. Timeout
    BY PeriodAssumption DEF Less
  <2>3. \A n \in 0 .. Interval : Less(n) \in 0 .. Interval
    BY PeriodAssumption DEF Less
  <2>4. timer' \in [Proc -> [Proc -> 0 .. Timeout]]
    BY <1>8, <2>2 DEF Tick, TypeOK
  <2>5. beat' \in [Proc -> 0 .. Interval]
    BY <1>8, <2>3 DEF Tick, TypeOK
  <2>6. QED
    BY <1>8, <2>1, <2>4, <2>5 DEF Tick, TypeOK
<1>9. CASE UNCHANGED vars
  BY <1>9 DEF vars, TypeOK
<1>10. QED
  BY <1>1, <1>2, <1>3, <1>4, <1>5, <1>6, <1>7, <1>8, <1>9 DEF Next

\* Every variable keeps its shape, however long the group runs and whatever is
\* lost: no timer is negative, no entry of a timestamp either.
THEOREM TypeCorrect == Spec => []TypeOK
<1>1. TypeInv => TypeOK
  BY DEF TypeInv
<1>2. QED
  BY TypeInit, TypeNext, <1>1, PTL DEF Spec
-----------------------------------------------------------------------------
(* Timestamps of others. *)

\* Nobody has an entry for anybody yet.
LEMMA LeadsInit == Init => OwnEntryLeads
BY DEF Init, OwnEntryLeads

\* OwnEntryLeads follows for the next step when timestamps, and what is on the
\* way, are no larger than they were, and nobody is cleared of a collision.
LEMMA LeadsKept ==
    ASSUME TypeOK, OwnEntryLeads, ts' = ts, net' \subseteq net, torn' = torn
    PROVE  OwnEntryLeads'
BY DEF OwnEntryLeads

\* The same when p sends the timestamp it has.
LEMMA LeadsSent ==
    ASSUME TypeOK, OwnEntryLeads, NEW p \in Proc, ts' = ts,
           net' = net \cup UnicastAll(p, ts[p]), torn' = torn
    PROVE  OwnEntryLeads'
<1>1. \A m \in UnicastAll(p, ts[p]) : m.ts = ts[p]
  BY UnicastAllType DEF TypeOK
<1>2. QED
  BY <1>1 DEF OwnEntryLeads

\* multicast() raises the own entry, unless the other thread has raised it since
\* it was read: then p has torn its entry.
LEMMA LeadsMulticastWrite ==
    ASSUME TypeInv, OwnEntryLeads, NEW p \in Proc, MulticastWrite(p)
    PROVE  OwnEntryLeads'
<1> DEFINE clock == [ts[p] EXCEPT ![p] = step[p] + 1]
<1>1. /\ ts \in [Proc -> [Proc -> Nat]]
      /\ step[p] \in Nat
      /\ net \subseteq Datagram
      /\ ts' = [ts EXCEPT ![p] = clock]
      /\ net' = net \cup UnicastAll(p, clock)
  BY DEF TypeInv, TypeOK, MulticastWrite
<1>2. clock \in [Proc -> Nat]
  BY <1>1
<1>3. \A m \in UnicastAll(p, clock) : m.ts = clock
  BY <1>2, UnicastAllType DEF TypeInv
<1>4. SUFFICES ASSUME NEW q \in Proc \ torn'
               PROVE  /\ \A r \in Proc : ts'[r][q] <= ts'[q][q]
                      /\ \A m \in net' : m.ts[q] <= ts'[q][q]
  BY DEF OwnEntryLeads
<1>5. /\ q \in Proc \ torn
      /\ q = p => ts[p][p] = step[p]
  BY DEF MulticastWrite
<1>6. /\ ts[q][q] \in Nat
      /\ ts'[q][q] \in Nat
      /\ ts[q][q] <= ts'[q][q]
      /\ clock[q] <= ts'[q][q]
  BY <1>1, <1>5 DEF OwnEntryLeads
<1>7. ASSUME NEW r \in Proc PROVE ts'[r][q] <= ts'[q][q]
  <2>1. ts[r][q] \in Nat /\ ts[r][q] <= ts[q][q]
    BY <1>1, <1>5 DEF OwnEntryLeads
  <2>2. QED
    BY <1>1, <1>6, <2>1
<1>8. ASSUME NEW m \in net' PROVE m.ts[q] <= ts'[q][q]
  <2>1. CASE m \in net
    <3>1. m.ts[q] \in Nat /\ m.ts[q] <= ts[q][q]
      BY <1>1, <1>5, <2>1 DEF OwnEntryLeads, Datagram
    <3>2. QED
      BY <1>6, <3>1
  <2>2. CASE m \in UnicastAll(p, clock)
    BY <1>3, <1>6, <2>2
  <2>3. QED
    BY <1>1, <2>1, <2>2
<1>9. QED
  BY <1>7, <1>8

\* receive() raises the own entry, and takes the others from what is around.
LEMMA LeadsReceive ==
    ASSUME TypeInv, OwnEntryLeads, NEW m \in net, Receive(m)
    PROVE  OwnEntryLeads'
<1> DEFINE p == m.to
           clock == Step(p, ts[p])
           merged == Update(p, clock, m.ts)
<1>1. /\ p \in Proc /\ m.ts \in [Proc -> Nat]
      /\ ts \in [Proc -> [Proc -> Nat]]
      /\ net \subseteq Datagram
      /\ ts' = [ts EXCEPT ![p] = merged]
      /\ net' = net \ {m}
      /\ torn' = torn
  BY DEF TypeInv, TypeOK, Receive, Datagram
<1>2. /\ clock \in [Proc -> Nat] /\ merged \in [Proc -> Nat]
      /\ clock = [ts[p] EXCEPT ![p] = @ + 1]
  BY <1>1, UpdateType DEF Step
<1>3. SUFFICES ASSUME NEW q \in Proc \ torn
               PROVE  /\ \A r \in Proc : ts'[r][q] <= ts'[q][q]
                      /\ \A d \in net' : d.ts[q] <= ts'[q][q]
  BY <1>1 DEF OwnEntryLeads
<1>4. /\ \A r \in Proc : ts[r][q] \in Nat /\ ts[r][q] <= ts[q][q]
      /\ \A d \in net : d.ts[q] \in Nat /\ d.ts[q] <= ts[q][q]
  BY <1>1 DEF OwnEntryLeads, Datagram
<1>5. /\ merged[p] = clock[p]
      /\ merged[q] \in {clock[q], m.ts[q]}
  <2>1. q \in Proc /\ p \in Proc /\ clock \in [Proc -> Nat]
    BY <1>1, <1>2
  <2>2. QED
    BY <1>1, <2>1, UpdateEntry
<1>6. clock[p] = ts[p][p] + 1 /\ (q # p => clock[q] = ts[p][q])
  BY <1>1, <1>2
<1>7. ts'[q][q] \in Nat /\ ts[q][q] <= ts'[q][q]
  BY <1>1, <1>4, <1>5, <1>6
<1>8. merged[q] <= ts'[q][q]
  BY <1>1, <1>4, <1>5, <1>6
<1>9. ASSUME NEW r \in Proc PROVE ts'[r][q] <= ts'[q][q]
  BY <1>1, <1>4, <1>7, <1>8
<1>10. ASSUME NEW d \in net' PROVE d.ts[q] <= ts'[q][q]
  BY <1>1, <1>4, <1>7
<1>11. QED
  BY <1>9, <1>10

\* A crash forgets what the process knew of others, and keeps its own entry.
LEMMA LeadsCrash ==
    ASSUME TypeInv, OwnEntryLeads, NEW p \in Proc, Crash(p)
    PROVE  OwnEntryLeads'
<1>1. /\ ts \in [Proc -> [Proc -> Nat]]
      /\ ts' = [ts EXCEPT ![p] = [q \in Proc |-> IF q = p THEN @[q] ELSE 0]]
      /\ net' \subseteq net /\ torn' = torn
  BY DEF TypeInv, TypeOK, Crash
<1>2. \A q \in Proc : ts'[q][q] = ts[q][q]
  BY <1>1
<1>3. \A q, r \in Proc : ts[q][q] \in Nat /\ ts'[r][q] \in {0, ts[r][q]}
  BY <1>1
<1>4. \A q \in Proc \ torn, r \in Proc : ts'[r][q] <= ts'[q][q]
  BY <1>2, <1>3 DEF OwnEntryLeads
<1>5. QED
  BY <1>1, <1>2, <1>4 DEF OwnEntryLeads

\* Every step keeps the lead of the own entry.
LEMMA LeadsNext == IInv /\ [Next]_vars => OwnEntryLeads'
<1> SUFFICES ASSUME IInv, [Next]_vars PROVE OwnEntryLeads'
  OBVIOUS
<1>1. TypeInv /\ TypeOK /\ OwnEntryLeads
  BY DEF IInv, TypeInv
<1>2. ASSUME NEW p \in Proc, MulticastRead(p) PROVE OwnEntryLeads'
  BY <1>1, <1>2, LeadsKept DEF MulticastRead
<1>3. ASSUME NEW p \in Proc, MulticastWrite(p) PROVE OwnEntryLeads'
  BY <1>1, <1>3, LeadsMulticastWrite
<1>4. ASSUME NEW p \in Proc, HeartbeatSend(p) PROVE OwnEntryLeads'
  BY <1>1, <1>4, LeadsSent DEF HeartbeatSend, HeartbeatClock
<1>5. ASSUME NEW m \in net, Receive(m) PROVE OwnEntryLeads'
  BY <1>1, <1>5, LeadsReceive
<1>6. ASSUME NEW p \in Proc, NEW q \in Proc, Expire(p, q) PROVE OwnEntryLeads'
  BY <1>1, <1>6, LeadsKept DEF Expire
<1>7. ASSUME NEW p \in Proc, Crash(p) PROVE OwnEntryLeads'
  BY <1>1, <1>7, LeadsCrash
<1>8. ASSUME NEW m \in net, Lose(m) PROVE OwnEntryLeads'
  BY <1>1, <1>8, LeadsKept DEF Lose
<1>9. ASSUME Tick PROVE OwnEntryLeads'
  BY <1>1, <1>9, LeadsKept DEF Tick
<1>10. CASE UNCHANGED vars
  BY <1>1, <1>10, LeadsKept DEF vars
<1>11. QED
  BY <1>2, <1>3, <1>4, <1>5, <1>6, <1>7, <1>8, <1>9, <1>10 DEF Next

\* Types and lead are inductive together.
THEOREM Invariant == Spec => []IInv
<1>1. Init => IInv
  BY TypeInit, LeadsInit DEF IInv
<1>2. IInv /\ [Next]_vars => IInv'
  BY TypeNext, LeadsNext DEF IInv
<1>3. QED
  BY <1>1, <1>2, PTL DEF Spec

\* Nobody has a larger entry for a process than the process itself, in a group of
\* any size, whatever is lost, delayed or passed on by others, unless
\* two threads of the process step its entry at once (timestamp.cc:29).
THEOREM OwnEntriesLead == Spec => []OwnEntryLeads
<1>1. IInv => OwnEntryLeads
  BY DEF IInv
<1>2. QED
  BY Invariant, <1>1, PTL

\* receive() never finds that the own entry has grown, so it never resets the
\* listen timer of the process itself, which does not exist (mcast.cc:372-375).
OwnTimerUntouched ==
    \A m \in net : m.to \notin torn =>
        m.to \notin News(Step(m.to, ts[m.to]), m.ts)

THEOREM NoOwnNews == Spec => []OwnTimerUntouched
<1>1. IInv => OwnTimerUntouched
  <2> SUFFICES ASSUME IInv, NEW m \in net, m.to \notin torn,
                      m.to \in News(Step(m.to, ts[m.to]), m.ts)
               PROVE FALSE
    BY DEF OwnTimerUntouched
  <2> DEFINE p == m.to
  <2>1. /\ p \in Proc \ torn /\ ts \in [Proc -> [Proc -> Nat]]
        /\ m.ts \in [Proc -> Nat]
    BY DEF IInv, TypeInv, TypeOK, Datagram
  <2>2. m.ts[p] <= ts[p][p]
    BY <2>1 DEF IInv, OwnEntryLeads
  <2>3. Step(p, ts[p])[p] = ts[p][p] + 1
    BY <2>1 DEF Step
  <2>4. m.ts[p] > Step(p, ts[p])[p]
    BY DEF News
  <2>5. QED
    BY <2>1, <2>2, <2>3, <2>4
<1>2. QED
  BY Invariant, <1>1, PTL
-----------------------------------------------------------------------------
(* Nobody is suspected who is up.                                            *)
(*                                                                           *)
(* A listen timer of p for q is reset by news of q.  News comes in a circle: *)
(* p sends a heartbeat, which makes q step its entry, which the next         *)
(* heartbeat of q carries back to p.  Wherever this circle stands, the timer *)
(* of p has more left than the rest of it takes.                             *)

\* The longest delay that is quick.
Room == (Timeout - 1) \div 2 - Interval

\* No datagram under way has taken longer.
NetQuick == \A m \in net : now <= m.at + Room

\* No datagram is late.
NetFresh == \A m \in net : now <= m.at + MaxDelay

\* Suspicions are of the dead, those on the way too.
SuspectsDead ==
    /\ \A p \in Proc : \A q \in failed[p] : ~Up(q)
    /\ \A m \in net : \A q \in m.failed : ~Up(q)

\* A datagram with news of q for p ...
NewsArriving(p, q) ==
    \E m \in net : /\ m.to = p /\ m.ts[q] > ts[p][q]
                   /\ m.at + Room < now + timer[p][q]

\* ... or q that has such news and will send it ...
NewsWaiting(p, q) ==
    Armed(q) /\ ts[q][q] > ts[p][q] /\ beat[q] + Room < timer[p][q]

\* ... or a datagram that will make q step ...
AnswerDue(p, q) ==
    \E m \in net : /\ m.to = q
                   /\ m.at + Room + Interval + Room < now + timer[p][q]

\* ... or p that will send q one, comes before the timer expires.
QuestionDue(p, q) == beat[p] + Room + Interval + Room < timer[p][q]

InTime(p, q) ==
    NewsArriving(p, q) \/ NewsWaiting(p, q) \/ AnswerDue(p, q) \/ QuestionDue(p, q)

Listens(p, q) == p # q /\ Up(p) /\ Armed(p) /\ Up(q)

Trusted == \A p, q \in Proc : Listens(p, q) => InTime(p, q)

\* Nothing was lost or late so far.
Undisturbed == lost = 0 /\ torn = {} /\ ~slow

TrustInv ==
    /\ IInv
    /\ Undisturbed => NetQuick /\ SuspectsDead /\ Trusted

\* A timer has room for a quick delay, and for no longer one.
LEMMA RoomIsQuick ==
    /\ Room \in Nat /\ 2 * (Interval + Room) < Timeout
    /\ \A delay \in Int : Quick(delay) => delay <= Room
BY PeriodAssumption, RatioAssumption DEF Room, Quick

\* The shapes of what the circle is made of.
LEMMA PairTypes ==
    ASSUME TypeInv, NEW p \in Proc, NEW q \in Proc
    PROVE  /\ now \in Nat /\ now <= Horizon /\ now # Never
           /\ Room \in Nat /\ Interval \in Nat \ {0} /\ Timeout \in Nat \ {0}
           /\ ts[p][q] \in Nat /\ ts[q][q] \in Nat
           /\ timer[p][q] \in 0 .. Timeout
           /\ beat[p] \in 0 .. Interval /\ beat[q] \in 0 .. Interval
           /\ \A m \in net : /\ m.to \in Proc /\ m.at \in Nat
                             /\ m.ts \in [Proc -> Nat] /\ m.ts[q] \in Nat
BY PeriodAssumption, BoundAssumption, RoomIsQuick
   DEF TypeInv, TypeOK, NowBounded, Never, Datagram

\* As long as news will come in time the timer has not expired.
LEMMA TimerRuns ==
    ASSUME TypeInv, NetQuick, NEW p \in Proc, NEW q \in Proc, InTime(p, q)
    PROVE  timer[p][q] > 0
<1>1. CASE NewsArriving(p, q)
  BY <1>1, PairTypes DEF NewsArriving, NetQuick
<1>2. CASE NewsWaiting(p, q)
  BY <1>2, PairTypes DEF NewsWaiting
<1>3. CASE AnswerDue(p, q)
  BY <1>3, PairTypes DEF AnswerDue, NetQuick
<1>4. CASE QuestionDue(p, q)
  BY <1>4, PairTypes DEF QuestionDue
<1>5. QED
  BY <1>1, <1>2, <1>3, <1>4 DEF InTime

\* A step that leaves p, q and the datagrams to them alone leaves the circle
\* where it stands; q may step its entry.
LEMMA InTimeKept ==
    ASSUME TypeInv, TypeInv', NEW p \in Proc, NEW q \in Proc, InTime(p, q),
           now' = now, timer'[p][q] = timer[p][q], ts'[p][q] = ts[p][q],
           ts[q][q] <= ts'[q][q], beat'[p] = beat[p],
           Armed(q) => Armed(q)' /\ beat'[q] = beat[q],
           \A m \in net : m.to \in {p, q} => m \in net'
    PROVE  InTime(p, q)'
<1> USE PairTypes
<1>1. CASE NewsArriving(p, q)
  <2>1. NewsArriving(p, q)'
    BY <1>1 DEF NewsArriving
  <2>2. QED
    BY <2>1 DEF InTime
<1>2. CASE NewsWaiting(p, q)
  <2>1. ts'[q][q] \in Nat
    BY DEF TypeInv, TypeOK
  <2>2. NewsWaiting(p, q)'
    BY <1>2, <2>1 DEF NewsWaiting
  <2>3. QED
    BY <2>2 DEF InTime
<1>3. CASE AnswerDue(p, q)
  <2>1. AnswerDue(p, q)'
    BY <1>3 DEF AnswerDue
  <2>2. QED
    BY <2>1 DEF InTime
<1>4. CASE QuestionDue(p, q)
  BY <1>4 DEF InTime, QuestionDue
<1>5. QED
  BY <1>1, <1>2, <1>3, <1>4 DEF InTime

\* A timer that has just been reset, or armed, has time for the whole circle.
LEMMA InTimeFresh ==
    ASSUME TypeInv', NEW p \in Proc, NEW q \in Proc,
           timer'[p][q] = Timeout
    PROVE  InTime(p, q)'
<1>1. beat'[p] \in 0 .. Interval
  BY DEF TypeInv, TypeOK
<1>2. QuestionDue(p, q)'
  BY <1>1, RoomIsQuick, PeriodAssumption DEF QuestionDue
<1>3. QED
  BY <1>2 DEF InTime

\* Who is up after a step was up before it.
LEMMA UpBefore ==
    ASSUME TypeInv, [Next]_vars, NEW p \in Proc, Up(p)'
    PROVE  Up(p)
<1>1. crashedAt' = crashedAt \/ \E r \in Proc : crashedAt' = [crashedAt EXCEPT ![r] = now]
  BY DEF Next, vars, MulticastRead, MulticastWrite, HeartbeatSend, Crash, Expire,
         Receive, Lose, Tick
<1>2. now # Never
  BY PairTypes
<1>3. QED
  BY <1>1, <1>2 DEF Up, TypeInv, TypeOK

\* Arming: whoever is armed already keeps its timers.
LEMMA InTimeMulticastRead ==
    ASSUME TypeInv, TypeInv', Trusted, NEW r \in Proc, MulticastRead(r),
           NEW p \in Proc, NEW q \in Proc, Listens(p, q)'
    PROVE  InTime(p, q)'
<1>1. CASE p = r /\ ~Armed(p)
  <2>1. timer'[p] = FullTimers(p)
    BY <1>1 DEF MulticastRead, TypeInv, TypeOK
  <2>2. timer'[p][q] = Timeout
    BY <2>1 DEF FullTimers, Listens
  <2>3. QED
    BY <2>2, InTimeFresh
<1>2. CASE ~(p = r /\ ~Armed(p))
  <2>1. /\ timer'[p] = timer[p] /\ beat'[p] = beat[p] /\ Armed(p)
        /\ Armed(q) => Armed(q)' /\ beat'[q] = beat[q]
    BY <1>2 DEF MulticastRead, ArmIfNecessary, Listens, Armed, TypeInv, TypeOK
  <2>2. Listens(p, q)
    BY <2>1 DEF MulticastRead, Listens, Up
  <2>3. now' = now /\ ts' = ts /\ net' = net
    BY DEF MulticastRead
  <2>4. QED
    BY <2>1, <2>2, <2>3, InTimeKept, PairTypes DEF Trusted
<1>3. QED
  BY <1>1, <1>2

\* A multicast only brings more news.
LEMMA InTimeMulticastWrite ==
    ASSUME TypeInv, TypeInv', Trusted, NEW r \in Proc, MulticastWrite(r), torn' = {},
           NEW p \in Proc, NEW q \in Proc, Listens(p, q)'
    PROVE  InTime(p, q)'
<1>1. /\ now' = now /\ armedAt' = armedAt /\ crashedAt' = crashedAt
      /\ timer' = timer /\ beat' = beat /\ net \subseteq net'
      /\ ts' = [ts EXCEPT ![r] = [ts[r] EXCEPT ![r] = step[r] + 1]]
      /\ ts[r][r] = step[r]
  BY DEF MulticastWrite
<1>2. Listens(p, q) /\ p # q
  BY <1>1 DEF Listens, Up, Armed
<1>3. ts'[p][q] = ts[p][q] /\ ts[q][q] <= ts'[q][q]
  BY <1>1, <1>2 DEF TypeInv, TypeOK
<1>4. Armed(q) => Armed(q)'
  BY <1>1 DEF Armed
<1>5. QED
  BY <1>1, <1>2, <1>3, <1>4, InTimeKept DEF Trusted

\* A heartbeat is the question, or the answer, if it comes from p or from q.
LEMMA InTimeHeartbeatSend ==
    ASSUME TypeInv, TypeInv', SuspectsDead, Trusted,
           NEW r \in Proc, HeartbeatSend(r),
           NEW p \in Proc, NEW q \in Proc, Listens(p, q)'
    PROVE  InTime(p, q)'
<1>1. /\ now' = now /\ armedAt' = armedAt /\ crashedAt' = crashedAt
      /\ timer' = timer /\ ts' = ts /\ net \subseteq net'
      /\ beat' = [beat EXCEPT ![r] = Interval] /\ beat[r] = 0
      /\ net' = net \cup UnicastAll(r, ts[r])
  BY DEF HeartbeatSend, HeartbeatClock
<1>2. Listens(p, q) /\ p # q
  BY <1>1 DEF Listens, Up, Armed
<1>3. InTime(p, q)
  BY <1>2 DEF Trusted
<1>4. \A e \in Proc : e # r /\ Up(e) =>
          [to |-> e, ts |-> ts[r], failed |-> failed[r], at |-> now] \in net'
  BY <1>1 DEF UnicastAll, External, SuspectsDead
<1>5. /\ timer'[p][q] = timer[p][q] /\ ts'[p][q] = ts[p][q]
      /\ ts[q][q] <= ts'[q][q] /\ (Armed(q) => Armed(q)')
  BY <1>1, PairTypes DEF Armed
<1>6. CASE r \notin {p, q}
  <2>1. beat'[p] = beat[p] /\ beat'[q] = beat[q]
    BY <1>1, <1>6 DEF TypeInv, TypeOK
  <2>2. QED
    BY <1>1, <1>3, <1>5, <2>1, InTimeKept
<1>7. CASE NewsArriving(p, q) \/ AnswerDue(p, q)
  <2>1. NewsArriving(p, q)' \/ AnswerDue(p, q)'
    BY <1>1, <1>7 DEF NewsArriving, AnswerDue
  <2>2. QED
    BY <2>1 DEF InTime
<1>8. CASE r = p /\ QuestionDue(p, q)
  <2>1. PICK m \in net' : m.to = q /\ m.at = now
    BY <1>2, <1>4, <1>8 DEF Listens
  <2>2. m.at + Room + Interval + Room < now' + timer'[p][q]
    BY <1>1, <1>8, <2>1, PairTypes DEF QuestionDue
  <2>3. AnswerDue(p, q)'
    BY <2>1, <2>2 DEF AnswerDue
  <2>4. QED
    BY <2>3 DEF InTime
<1>9. CASE r = q /\ NewsWaiting(p, q)
  <2>1. PICK m \in net' : m.to = p /\ m.at = now /\ m.ts = ts[q]
    BY <1>2, <1>4, <1>9 DEF Listens
  <2>2. /\ m.at + Room < now' + timer'[p][q]
        /\ m.ts[q] > ts'[p][q]
    BY <1>1, <1>9, <2>1, PairTypes DEF NewsWaiting
  <2>3. NewsArriving(p, q)'
    BY <2>1, <2>2 DEF NewsArriving
  <2>4. QED
    BY <2>3 DEF InTime
<1>10. CASE r = p /\ NewsWaiting(p, q)
  <2>1. beat'[q] = beat[q]
    BY <1>1, <1>2, <1>10 DEF TypeInv, TypeOK
  <2>2. NewsWaiting(p, q)'
    BY <1>1, <1>5, <1>10, <2>1 DEF NewsWaiting
  <2>3. QED
    BY <2>2 DEF InTime
<1>11. CASE r = q /\ QuestionDue(p, q)
  <2>1. beat'[p] = beat[p]
    BY <1>1, <1>2, <1>11 DEF TypeInv, TypeOK
  <2>2. QED
    BY <1>5, <1>11, <2>1 DEF InTime, QuestionDue
<1>12. QED
  BY <1>3, <1>6, <1>7, <1>8, <1>9, <1>10, <1>11 DEF InTime

\* A datagram for p either brings the news of q, which resets the timer, or none.
LEMMA InTimeReceiveSelf ==
    ASSUME TypeInv, TypeInv', SuspectsDead, Trusted,
           NEW m \in net, Receive(m), NEW q \in Proc, Listens(m.to, q)'
    PROVE  InTime(m.to, q)'
<1> DEFINE p == m.to
           clock == Step(p, ts[p])
           left == IF Armed(p) THEN timer[p] ELSE FullTimers(p)
<1>1. /\ p \in Proc /\ m.ts \in [Proc -> Nat] /\ p # q
      /\ ts \in [Proc -> [Proc -> Nat]]
      /\ crashedAt' = crashedAt /\ now' = now /\ net' = net \ {m}
      /\ ts' = [ts EXCEPT ![p] = Update(p, clock, m.ts)]
      /\ Up(p) /\ Up(q)
  BY DEF Receive, TypeInv, TypeOK, Datagram, Listens, Up
<1>2. q \notin failed[p]
  BY <1>1 DEF SuspectsDead
<1>3. timer'[p][q] = IF q \in News(clock, m.ts) THEN Timeout ELSE left[q]
  BY <1>1, <1>2 DEF Receive, TypeInv, TypeOK
<1>4. CASE q \in News(clock, m.ts) \/ ~Armed(p)
  <2>1. FullTimers(p)[q] = Timeout
    BY <1>1 DEF FullTimers
  <2>2. timer'[p][q] = Timeout
    BY <1>3, <1>4, <2>1
  <2>3. QED
    BY <1>1, <2>2, InTimeFresh
<1>5. CASE q \notin News(clock, m.ts) /\ Armed(p)
  <2>1. InTime(p, q)
    BY <1>1, <1>5 DEF Trusted, Listens
  <2>2. timer'[p][q] = timer[p][q]
    BY <1>3, <1>5
  <2>3. clock[q] = ts[p][q] /\ ~(m.ts[q] > ts[p][q])
    BY <1>1, <1>5 DEF Step, News
  <2>4. ts'[p][q] = ts[p][q] /\ ts'[q] = ts[q]
    BY <1>1, <2>3 DEF Update
  <2>5. beat' = beat /\ armedAt' = armedAt
    BY <1>5 DEF Receive, ArmIfNecessary
  <2>6. CASE NewsArriving(p, q)
    <3>1. NewsArriving(p, q)'
      BY <1>1, <2>2, <2>3, <2>4, <2>6 DEF NewsArriving
    <3>2. QED
      BY <3>1 DEF InTime
  <2>7. CASE NewsWaiting(p, q)
    BY <2>2, <2>4, <2>5, <2>7 DEF InTime, NewsWaiting, Armed
  <2>8. CASE AnswerDue(p, q)
    <3>1. AnswerDue(p, q)'
      BY <1>1, <2>2, <2>8 DEF AnswerDue
    <3>2. QED
      BY <3>1 DEF InTime
  <2>9. CASE QuestionDue(p, q)
    BY <2>2, <2>5, <2>9 DEF InTime, QuestionDue
  <2>10. QED
    BY <2>1, <2>6, <2>7, <2>8, <2>9 DEF InTime
<1>6. QED
  BY <1>4, <1>5

\* A datagram for q makes it step: the question has been answered.
LEMMA InTimeReceiveOther ==
    ASSUME TypeInv, TypeInv', NetQuick, OwnEntryLeads, torn = {}, Trusted,
           NEW m \in net, Receive(m), NEW p \in Proc, p # m.to,
           Listens(p, m.to)'
    PROVE  InTime(p, m.to)'
<1> DEFINE q == m.to
           clock == Step(q, ts[q])
<1>1. /\ q \in Proc /\ m.ts \in [Proc -> Nat]
      /\ ts \in [Proc -> [Proc -> Nat]]
      /\ crashedAt' = crashedAt /\ now' = now /\ net' = net \ {m}
      /\ ts' = [ts EXCEPT ![q] = Update(q, clock, m.ts)]
  BY DEF Receive, TypeInv, TypeOK, Datagram
<1>2. /\ timer'[p] = timer[p] /\ ts'[p] = ts[p] /\ beat'[p] = beat[p]
      /\ armedAt'[p] = armedAt[p]
  BY <1>1 DEF Receive, ArmIfNecessary, TypeInv, TypeOK
<1>3. InTime(p, q)
  BY <1>1, <1>2 DEF Trusted, Listens, Up, Armed
<1>4. Armed(q)' /\ beat'[q] \in 0 .. Interval /\ (Armed(q) => beat'[q] = beat[q])
  BY <1>1, PairTypes DEF Receive, ArmIfNecessary, Armed, TypeInv, TypeOK
<1>5. clock \in [Proc -> Nat] /\ clock[q] = ts[q][q] + 1
  BY <1>1 DEF Step
<1>6. Update(q, clock, m.ts)[q] = clock[q]
  BY <1>1, <1>5, UpdateEntry
<1>7. ts'[q][q] = ts[q][q] + 1
  BY <1>1, <1>5, <1>6
<1>8. ts[p][q] <= ts[q][q] /\ ts[p][q] \in Nat /\ ts[q][q] \in Nat
  BY <1>1 DEF OwnEntryLeads
<1>9. ts'[q][q] > ts'[p][q]
  BY <1>2, <1>7, <1>8
<1>10. CASE NewsArriving(p, q)
  <2>1. NewsArriving(p, q)'
    BY <1>1, <1>2, <1>10 DEF NewsArriving
  <2>2. QED
    BY <2>1 DEF InTime
<1>11. CASE NewsWaiting(p, q)
  BY <1>2, <1>4, <1>9, <1>11 DEF InTime, NewsWaiting
<1>12. CASE AnswerDue(p, q)
  <2>1. PICK x \in net : /\ x.to = q
                         /\ x.at + Room + Interval + Room < now + timer[p][q]
    BY <1>12 DEF AnswerDue
  <2>2. CASE x = m
    <3>1. now <= m.at + Room
      BY DEF NetQuick
    <3>2. beat'[q] + Room < timer'[p][q]
      BY <1>1, <1>2, <1>4, <2>1, <2>2, <3>1, PairTypes
    <3>3. QED
      BY <1>4, <1>9, <3>2 DEF InTime, NewsWaiting
  <2>3. CASE x # m
    <3>1. AnswerDue(p, q)'
      BY <1>1, <1>2, <2>1, <2>3 DEF AnswerDue
    <3>2. QED
      BY <3>1 DEF InTime
  <2>4. QED
    BY <2>2, <2>3
<1>13. CASE QuestionDue(p, q)
  BY <1>2, <1>13 DEF InTime, QuestionDue
<1>14. QED
  BY <1>3, <1>10, <1>11, <1>12, <1>13 DEF InTime

\* A datagram for a third process changes nothing between p and q.
LEMMA InTimeReceiveThird ==
    ASSUME TypeInv, TypeInv', Trusted, NEW m \in net, Receive(m),
           NEW p \in Proc, NEW q \in Proc, m.to \notin {p, q}, Listens(p, q)'
    PROVE  InTime(p, q)'
<1>1. /\ now' = now /\ crashedAt' = crashedAt /\ net' = net \ {m}
      /\ timer'[p] = timer[p] /\ ts'[p] = ts[p] /\ ts'[q] = ts[q]
      /\ beat'[p] = beat[p] /\ beat'[q] = beat[q]
      /\ armedAt'[p] = armedAt[p] /\ armedAt'[q] = armedAt[q]
  BY DEF Receive, ArmIfNecessary, TypeInv, TypeOK
<1>2. Listens(p, q) /\ (Armed(q) => Armed(q)')
  BY <1>1 DEF Listens, Up, Armed
<1>3. InTime(p, q)
  BY <1>2 DEF Trusted
<1>4. ts[q][q] <= ts'[q][q]
  BY <1>1, PairTypes
<1>5. QED
  BY <1>1, <1>2, <1>3, <1>4, InTimeKept

\* Nothing is overdue when time passes, so that what is left of the circle gets
\* shorter with the timer.
LEMMA InTimeTick ==
    ASSUME TypeInv, TypeInv', NetQuick, SuspectsDead, Trusted, Tick,
           NEW p \in Proc, NEW q \in Proc, Listens(p, q)'
    PROVE  InTime(p, q)'
<1>1. /\ now' = now + 1 /\ armedAt' = armedAt /\ crashedAt' = crashedAt
      /\ ts' = ts /\ net' = net
  BY DEF Tick
<1>2. Listens(p, q) /\ p # q /\ Up(p) /\ Armed(p) /\ Up(q)
  BY <1>1 DEF Listens, Up, Armed
<1>3. InTime(p, q)
  BY <1>2 DEF Trusted
<1>4. timer[p][q] > 0
  BY <1>3, TimerRuns
<1>5. beat[p] # 0 /\ (Armed(q) => beat[q] # 0)
  BY <1>2 DEF Tick, Urgent
<1>6. timer'[p][q] = timer[p][q] - 1
  BY <1>2, <1>4 DEF Tick, Less
<1>7. /\ beat'[p] = beat[p] - 1
      /\ Armed(q) => beat'[q] = beat[q] - 1
  BY <1>2, <1>5 DEF Tick, Less
<1>8. CASE NewsArriving(p, q)
  <2>1. NewsArriving(p, q)'
    BY <1>1, <1>6, <1>8, PairTypes DEF NewsArriving
  <2>2. QED
    BY <2>1 DEF InTime
<1>9. CASE NewsWaiting(p, q)
  <2>1. NewsWaiting(p, q)'
    BY <1>1, <1>6, <1>7, <1>9, PairTypes DEF NewsWaiting, Armed
  <2>2. QED
    BY <2>1 DEF InTime
<1>10. CASE AnswerDue(p, q)
  <2>1. AnswerDue(p, q)'
    BY <1>1, <1>6, <1>10, PairTypes DEF AnswerDue
  <2>2. QED
    BY <2>1 DEF InTime
<1>11. CASE QuestionDue(p, q)
  <2>1. QuestionDue(p, q)'
    BY <1>6, <1>7, <1>11, PairTypes DEF QuestionDue
  <2>2. QED
    BY <2>1 DEF InTime
<1>12. QED
  BY <1>3, <1>8, <1>9, <1>10, <1>11 DEF InTime

\* Every step leaves every timer its time.
LEMMA TrustedNext ==
    TrustInv /\ TypeInv' /\ [Next]_vars /\ Undisturbed /\ Undisturbed'
    => Trusted'
<1> SUFFICES ASSUME TrustInv, TypeInv', [Next]_vars, Undisturbed, Undisturbed',
                    NEW p \in Proc, NEW q \in Proc, Listens(p, q)'
             PROVE  InTime(p, q)'
  BY DEF Trusted
<1>1. /\ TypeInv /\ OwnEntryLeads /\ NetQuick /\ SuspectsDead /\ Trusted
      /\ torn = {} /\ torn' = {} /\ lost = 0 /\ lost' = 0
  BY DEF TrustInv, IInv, Undisturbed
<1>2. p # q
  BY DEF Listens
<1>3. ASSUME NEW r \in Proc, MulticastRead(r) PROVE InTime(p, q)'
  BY <1>1, <1>3, InTimeMulticastRead
<1>4. ASSUME NEW r \in Proc, MulticastWrite(r) PROVE InTime(p, q)'
  BY <1>1, <1>4, InTimeMulticastWrite
<1>5. ASSUME NEW r \in Proc, HeartbeatSend(r) PROVE InTime(p, q)'
  BY <1>1, <1>5, InTimeHeartbeatSend
<1>6. ASSUME NEW m \in net, Receive(m) PROVE InTime(p, q)'
  <2>1. CASE m.to = p
    BY <1>1, <1>6, <2>1, InTimeReceiveSelf
  <2>2. CASE m.to = q
    BY <1>1, <1>2, <1>6, <2>2, InTimeReceiveOther
  <2>3. CASE m.to \notin {p, q}
    BY <1>1, <1>6, <2>3, InTimeReceiveThird
  <2>4. QED
    BY <2>1, <2>2, <2>3
<1>7. ASSUME UNCHANGED <<now, armedAt, crashedAt, ts, timer, beat, net>>
      PROVE  InTime(p, q)'
  <2>1. Listens(p, q) /\ (Armed(q) => Armed(q)')
    BY <1>7 DEF Listens, Up, Armed
  <2>2. InTime(p, q)
    BY <1>1, <2>1 DEF Trusted
  <2>3. ts[q][q] <= ts'[q][q]
    BY <1>1, <1>7, PairTypes
  <2>4. QED
    BY <1>1, <1>7, <2>1, <2>2, <2>3, InTimeKept
<1>8. ASSUME NEW r \in Proc, NEW x \in Proc, Expire(r, x) PROVE InTime(p, q)'
  BY <1>7, <1>8 DEF Expire
<1>9. ASSUME NEW r \in Proc, Crash(r) PROVE InTime(p, q)'
  <2>1. Up(p) /\ Up(q) /\ Up(p)' /\ Up(q)'
    BY <1>1, UpBefore DEF Listens
  <2>2. r # p /\ r # q
    BY <1>1, <1>9, <2>1, PairTypes DEF Crash, Up, TypeInv, TypeOK
  <2>3. /\ now' = now /\ timer'[p] = timer[p] /\ ts'[p] = ts[p] /\ ts'[q] = ts[q]
        /\ beat'[p] = beat[p] /\ beat'[q] = beat[q]
        /\ armedAt'[p] = armedAt[p] /\ armedAt'[q] = armedAt[q]
        /\ \A m \in net : m.to \in {p, q} => m \in net'
    BY <1>1, <1>9, <2>2 DEF Crash, TypeInv, TypeOK
  <2>4. InTime(p, q) /\ (Armed(q) => Armed(q)')
    BY <1>1, <2>1, <2>3 DEF Trusted, Listens, Armed
  <2>5. ts[q][q] <= ts'[q][q]
    BY <1>1, <2>3, PairTypes
  <2>6. QED
    BY <1>1, <2>3, <2>4, <2>5, InTimeKept
<1>10. ASSUME NEW m \in net, Lose(m) PROVE FALSE
  BY <1>1, <1>10 DEF Lose
<1>11. ASSUME Tick PROVE InTime(p, q)'
  BY <1>1, <1>11, InTimeTick
<1>12. CASE UNCHANGED vars
  BY <1>7, <1>12 DEF vars
<1>13. QED
  BY <1>3, <1>4, <1>5, <1>6, <1>8, <1>9, <1>10, <1>11, <1>12 DEF Next

\* A timer that runs keeps its process from being suspected, and what is said of
\* others was true when it was sent.
LEMMA SuspectsNext ==
    TrustInv /\ [Next]_vars /\ Undisturbed => SuspectsDead'
<1> SUFFICES ASSUME TrustInv, [Next]_vars, Undisturbed PROVE SuspectsDead'
  OBVIOUS
<1>1. TypeInv /\ NetQuick /\ SuspectsDead /\ Trusted
  BY DEF TrustInv, IInv
<1>2. \A q \in Proc : ~Up(q) => ~Up(q)'
  BY <1>1, UpBefore
<1>3. /\ failed \in [Proc -> SUBSET Proc]
      /\ \A m \in net : m.to \in Proc /\ m.failed \subseteq Proc
  BY <1>1 DEF TypeInv, TypeOK, Datagram
<1>4. ASSUME failed' = failed, net' \subseteq net PROVE SuspectsDead'
  BY <1>1, <1>2, <1>3, <1>4 DEF SuspectsDead
<1>5. ASSUME NEW p \in Proc, NEW clock, failed' = failed,
             net' = net \cup UnicastAll(p, clock)
      PROVE  SuspectsDead'
  <2>1. \A m \in UnicastAll(p, clock) : m.failed = failed[p]
    BY DEF UnicastAll
  <2>2. QED
    BY <1>1, <1>2, <1>3, <1>5, <2>1 DEF SuspectsDead
<1>6. ASSUME NEW p \in Proc, MulticastRead(p) PROVE SuspectsDead'
  BY <1>4, <1>6 DEF MulticastRead
<1>7. ASSUME NEW p \in Proc, MulticastWrite(p) PROVE SuspectsDead'
  BY <1>5, <1>7 DEF MulticastWrite
<1>8. ASSUME NEW p \in Proc, HeartbeatSend(p) PROVE SuspectsDead'
  BY <1>5, <1>8 DEF HeartbeatSend
<1>9. ASSUME NEW m \in net, Receive(m) PROVE SuspectsDead'
  <2>1. /\ m.to \in Proc /\ net' \subseteq net
        /\ failed' = [failed EXCEPT ![m.to] = @ \cup m.failed]
    BY <1>3, <1>9 DEF Receive
  <2>2. QED
    BY <1>1, <1>2, <1>3, <2>1 DEF SuspectsDead
<1>10. ASSUME NEW p \in Proc, NEW q \in Proc, Expire(p, q) PROVE SuspectsDead'
  <2>1. /\ Up(p) /\ Armed(p) /\ p # q /\ timer[p][q] = 0 /\ net' = net
        /\ failed' = [failed EXCEPT ![p] = @ \cup {q}]
    BY <1>10 DEF Expire, External
  <2>2. ~Up(q)
    <3>1. SUFFICES ASSUME Up(q) PROVE FALSE
      OBVIOUS
    <3>2. InTime(p, q)
      BY <1>1, <2>1, <3>1 DEF Trusted, Listens
    <3>3. timer[p][q] > 0
      BY <1>1, <3>2, TimerRuns
    <3>4. QED
      BY <2>1, <3>3
  <2>3. QED
    BY <1>1, <1>2, <1>3, <2>1, <2>2 DEF SuspectsDead
<1>11. ASSUME NEW p \in Proc, Crash(p) PROVE SuspectsDead'
  <2>1. net' \subseteq net /\ failed' = [failed EXCEPT ![p] = {}]
    BY <1>11 DEF Crash
  <2>2. QED
    BY <1>1, <1>2, <1>3, <2>1 DEF SuspectsDead
<1>12. ASSUME NEW m \in net, Lose(m) PROVE SuspectsDead'
  BY <1>4, <1>12 DEF Lose
<1>13. ASSUME Tick PROVE SuspectsDead'
  BY <1>4, <1>13 DEF Tick
<1>14. CASE UNCHANGED vars
  BY <1>4, <1>14 DEF vars
<1>15. QED
  BY <1>6, <1>7, <1>8, <1>9, <1>10, <1>11, <1>12, <1>13, <1>14 DEF Next

\* Time does not pass over a datagram that is due.
LEMMA FreshNext == TypeInv /\ NetFresh /\ [Next]_vars => NetFresh'
<1> SUFFICES ASSUME TypeInv, NetFresh, [Next]_vars PROVE NetFresh'
  OBVIOUS
<1>1. /\ now \in Nat /\ MaxDelay \in Nat
      /\ \A m \in net : m.at \in Nat
  BY BoundAssumption DEF TypeInv, TypeOK, Datagram
<1>2. ASSUME now' = now, net' \subseteq net PROVE NetFresh'
  BY <1>2 DEF NetFresh
<1>3. ASSUME NEW p \in Proc, NEW clock, now' = now,
             net' = net \cup UnicastAll(p, clock)
      PROVE  NetFresh'
  <2>1. \A m \in UnicastAll(p, clock) : m.at = now
    BY DEF UnicastAll
  <2>2. QED
    BY <1>1, <1>3, <2>1 DEF NetFresh
<1>4. ASSUME NEW p \in Proc PROVE MulticastRead(p) => NetFresh'
  BY <1>2 DEF MulticastRead
<1>5. ASSUME NEW p \in Proc PROVE MulticastWrite(p) => NetFresh'
  BY <1>3 DEF MulticastWrite
<1>6. ASSUME NEW p \in Proc PROVE HeartbeatSend(p) => NetFresh'
  BY <1>3 DEF HeartbeatSend
<1>7. ASSUME NEW m \in net PROVE Receive(m) \/ Lose(m) => NetFresh'
  BY <1>2 DEF Receive, Lose
<1>8. ASSUME NEW p \in Proc, NEW q \in Proc PROVE Expire(p, q) => NetFresh'
  BY <1>2 DEF Expire
<1>9. ASSUME NEW p \in Proc PROVE Crash(p) => NetFresh'
  BY <1>2 DEF Crash
<1>10. Tick => NetFresh'
  <2>1. ASSUME Tick, NEW m \in net PROVE now + 1 <= m.at + MaxDelay
    <3>1. now # m.at + MaxDelay
      BY <2>1 DEF Tick, Urgent
    <3>2. QED
      BY <1>1, <3>1 DEF NetFresh
  <2>2. QED
    BY <2>1 DEF NetFresh, Tick
<1>11. UNCHANGED vars => NetFresh'
  BY <1>2 DEF vars
<1>12. QED
  BY <1>4, <1>5, <1>6, <1>7, <1>8, <1>9, <1>10, <1>11 DEF Next

\* Nor over one that stops being quick, unless it is noted.
LEMMA QuickNext ==
    TypeInv /\ NetQuick /\ [Next]_vars /\ ~slow' => NetQuick'
<1> SUFFICES ASSUME TypeInv, NetQuick, [Next]_vars, ~slow' PROVE NetQuick'
  OBVIOUS
<1>1. /\ now \in Nat /\ Room \in Nat
      /\ \A m \in net : m.at \in Nat
  BY RoomIsQuick DEF TypeInv, TypeOK, Datagram
<1>2. ASSUME now' = now, net' \subseteq net PROVE NetQuick'
  BY <1>2 DEF NetQuick
<1>3. ASSUME NEW p \in Proc, NEW clock, now' = now,
             net' = net \cup UnicastAll(p, clock)
      PROVE  NetQuick'
  <2>1. \A m \in UnicastAll(p, clock) : m.at = now
    BY DEF UnicastAll
  <2>2. QED
    BY <1>1, <1>3, <2>1 DEF NetQuick
<1>4. ASSUME NEW p \in Proc PROVE MulticastRead(p) => NetQuick'
  BY <1>2 DEF MulticastRead
<1>5. ASSUME NEW p \in Proc PROVE MulticastWrite(p) => NetQuick'
  BY <1>3 DEF MulticastWrite
<1>6. ASSUME NEW p \in Proc PROVE HeartbeatSend(p) => NetQuick'
  BY <1>3 DEF HeartbeatSend
<1>7. ASSUME NEW m \in net PROVE Receive(m) \/ Lose(m) => NetQuick'
  BY <1>2 DEF Receive, Lose
<1>8. ASSUME NEW p \in Proc, NEW q \in Proc PROVE Expire(p, q) => NetQuick'
  BY <1>2 DEF Expire
<1>9. ASSUME NEW p \in Proc PROVE Crash(p) => NetQuick'
  BY <1>2 DEF Crash
<1>10. Tick => NetQuick'
  <2>1. ASSUME Tick, NEW m \in net PROVE now' <= m.at + Room
    <3>1. Quick(now' - m.at)
      BY <2>1 DEF Tick
    <3>2. now' - m.at \in Int /\ now' = now + 1
      BY <1>1, <2>1 DEF Tick
    <3>3. now' - m.at <= Room
      BY <3>1, <3>2, RoomIsQuick
    <3>4. QED
      BY <1>1, <3>2, <3>3
  <2>2. QED
    BY <2>1 DEF NetQuick, Tick
<1>11. UNCHANGED vars => NetQuick'
  BY <1>2 DEF vars
<1>12. QED
  BY <1>4, <1>5, <1>6, <1>7, <1>8, <1>9, <1>10, <1>11 DEF Next

\* What was undisturbed after a step was so before it: nothing that was lost
\* comes back, and what was late stays noted.
LEMMA UndisturbedBefore ==
    TypeInv /\ [Next]_vars /\ Undisturbed' => Undisturbed
<1> SUFFICES ASSUME TypeInv, [Next]_vars, Undisturbed' PROVE Undisturbed
  OBVIOUS
<1>1. lost \in Nat /\ lost' \in {lost, lost + 1} /\ torn \subseteq torn'
  BY DEF TypeInv, TypeOK, Next, vars, MulticastRead, MulticastWrite, HeartbeatSend,
         Crash, Expire, Receive, Lose, Tick
<1>2. slow => slow'
  BY DEF Next, vars, MulticastRead, MulticastWrite, HeartbeatSend, Crash, Expire,
         Receive, Lose, Tick
<1>3. QED
  BY <1>1, <1>2 DEF Undisturbed

\* As long as nothing is lost, late or overwritten, the circle is never too slow,
\* in every run of every group.
THEOREM TrustInvariant == Spec => []TrustInv
<1>1. Init => TrustInv
  <2>1. Init => SuspectsDead /\ Trusted /\ NetQuick
    BY DEF Init, SuspectsDead, Trusted, NetQuick, Listens, Armed
  <2>2. QED
    BY <2>1, TypeInit, LeadsInit DEF TrustInv, IInv
<1>2. TrustInv /\ [Next]_vars => TrustInv'
  <2>1. SUFFICES ASSUME TrustInv, [Next]_vars PROVE TrustInv'
    OBVIOUS
  <2>2. IInv' /\ TypeInv' /\ TypeInv
    BY <2>1, TypeNext, LeadsNext DEF TrustInv, IInv
  <2>3. ASSUME Undisturbed' PROVE NetQuick' /\ SuspectsDead' /\ Trusted'
    <3>1. Undisturbed /\ NetQuick /\ ~slow'
      BY <2>1, <2>2, <2>3, UndisturbedBefore DEF TrustInv, Undisturbed
    <3>2. NetQuick'
      BY <2>1, <2>2, <3>1, QuickNext
    <3>3. SuspectsDead' /\ Trusted'
      BY <2>1, <2>2, <2>3, <3>1, SuspectsNext, TrustedNext
    <3>4. QED
      BY <3>2, <3>3
  <2>4. QED
    BY <2>2, <2>3 DEF TrustInv
<1>3. QED
  BY <1>1, <1>2, PTL DEF Spec

\* Nobody who is up is ever suspected, in a group of any size and whoever else has
\* died, as long as nothing is lost, no step is overwritten and every delay so
\* far was shorter than half a timeout less an interval (1.5 seconds with the
\* code's periods, of the 10 a delay may have): heartbeats that carry no step of
\* their own do keep idle processes trusted.
THEOREM NobodyUpIsSuspected == Spec => []Accurate
<1>1. TrustInv => Accurate
  BY DEF TrustInv, Undisturbed, SuspectsDead, Accurate
<1>2. QED
  BY <1>1, TrustInvariant, PTL
=============================================================================
