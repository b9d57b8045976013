-------------------------- MODULE DelayQueueProofs --------------------------
(***************************************************************************)
(* Theorems about DelayQueue, for any number of threads and of calls of    *)
(* usend(), any clock and any delays of a microsecond and more: the types, *)
(* the queue and what was sent of it, its order, and the alarm.  The list  *)
(* is described by what follows what; that the nodes reached from head are *)
(* those that were stored and not taken off is the heart of the invariant. *)
(***************************************************************************)
EXTENDS DelayQueue, Integers, FiniteSetTheorems, TLAPS

Call == [pc : {"idle", "walk", "load", "compare", "step", "link", "store", "test",
               "arm"},
         msg : Msg \cup {Null}, p : Msg \cup {Head}, n : Msg \cup {Null}, delay : Nat]

Handlers == [pc : {"idle", "loop", "pop", "unlink", "free", "set"}, now : Nat,
             temp : Msg \cup {Null}, n : Msg \cup {Null}, wait : Nat]

\* The usend() of t is in insert_message(), and its datagram not in the list.
Inserting(t) == thr[t].pc \in {"walk", "load", "compare", "step", "link", "store"}
Loose == {thr[t].msg : t \in {u \in Thread : Inserting(u)}}
Stored == used \ Loose

\* The nodes that the handler has taken off the list, and the one it works on.
Gone == IF handler.pc = "free" THEN freed \cup {handler.temp} ELSE freed
InHand ==
    IF handler.pc = "pop" THEN {head}
    ELSE IF handler.pc \in {"unlink", "free"} THEN {handler.temp} ELSE {}

\* The datagrams are numbered in turn, and each is of one thread at most.
Numbered == \E k \in 0 .. Calls : used = 1 .. k

Owned ==
    /\ \A t \in Thread : IF Busy(t) THEN thr[t].msg \in used ELSE thr[t].msg = Null
    /\ \A t, u \in Thread : Busy(t) /\ thr[t].msg = thr[u].msg => t = u

\* No datagram is due while its usend() runs, and the handler has read a clock
\* that counts whole microseconds.
Clocks ==
    /\ \A t \in Thread : Busy(t) => now < at[thr[t].msg]
    /\ handler.now <= now /\ handler.now % Frac = 0

TInv == TypeOK /\ Numbered /\ Owned /\ Clocks

\* The nodes that were stored, and not taken off, make one chain, sorted by time
\* but for those that were led past a later node.
Chain ==
    \A m \in Queue : next[m] # Null =>
        /\ next[m] # head
        /\ at[m] <= at[next[m]] \/ next[m] \in skipped
        /\ \A n \in Queue : next[n] = next[m] => n = m

\* The place where t inserts.  It follows an earlier node, or t was led past a
\* later one; the node that t compares is the one that follows, or has gone; and
\* what follows is later when t has found its place.
Placed(t) ==
    LET f == thr[t]
        n == Cell(f.p)
    IN  /\ f.p # Head => f.p \in Stored /\ (at[f.p] < at[f.msg] \/ f.msg \in skipped)
        /\ f.p \notin freed =>
               /\ f.pc = "compare" => f.n \in Gone \cup {n, Null}
               /\ f.pc \in {"link", "store"} => n = Null \/ at[f.msg] <= at[n]
               /\ f.pc = "store" => next[f.msg] = n

\* What is sent once, and was due: the nodes taken off, and the one in hand.
SentOnce ==
    /\ \A m \in Msg : sent[m] = IF m \in freed \cup InHand THEN 1 ELSE 0
    /\ \A m \in Gone \cup InHand : at[m] <= now
    /\ handler.pc = "unlink" => handler.temp = head /\ handler.n = next[head]

ListInv ==
    Whole =>
        /\ Queue = Stored \ Gone
        /\ Gone \subseteq Stored
        /\ \A m \in Stored : next[m] \in Stored \cup {Null}
        /\ Chain
        /\ SentOnce
        /\ \A t \in Thread : Inserting(t) => Placed(t)

-----------------------------------------------------------------------------
(* The clock. *)

\* A product grows with its second factor.
LEMMA Monotone ==
    ASSUME NEW a \in Int, NEW b \in Int, NEW c \in Nat, a <= b
    PROVE  c * a <= c * b
OBVIOUS

\* Whole microseconds, rounded down.
LEMMA FloorFacts ==
    ASSUME NEW x \in Nat
    PROVE  /\ Floor(x) \in Nat /\ Floor(x) <= x /\ x < Floor(x) + Frac
           /\ Floor(x) % Frac = 0
<1>1. Frac \in Nat /\ Frac > 0
  BY FracAssumption
<1> DEFINE q == x \div Frac
           r == x % Frac
<1>2. q \in Int /\ r \in Int /\ x = Frac * q + r /\ 0 <= r /\ r < Frac
  BY <1>1
<1>3. r <= x
  <2>1. q >= 0
    BY <1>1
  <2>2. Frac * q >= 0
    BY <1>1, <1>2, <2>1, Monotone
  <2> HIDE DEF q, r
  <2>3. QED
    BY <1>1, <1>2, <2>2
<1>4. Floor(x) = x - r
  BY DEF Floor
<1>5. (Frac * q) % Frac = 0
  BY <1>1, <1>2
<1> HIDE DEF q, r
<1>6. Floor(x) = Frac * q
  BY <1>1, <1>2, <1>4
<1>7. QED
  BY <1>1, <1>2, <1>3, <1>4, <1>5, <1>6

\* A whole microsecond that has come has come in whole microseconds.
LEMMA FloorMonotone ==
    ASSUME NEW x \in Nat, NEW y \in Nat, y % Frac = 0, y <= x
    PROVE  y <= Floor(x)
<1>1. Frac \in Nat /\ Frac > 0
  BY FracAssumption
<1> DEFINE q == x \div Frac
           r == x % Frac
           k == y \div Frac
<1>2. q \in Int /\ r \in Int /\ x = Frac * q + r /\ 0 <= r /\ r < Frac
  BY <1>1
<1>3. k \in Int /\ y = Frac * k
  BY <1>1
<1>4. Floor(x) = x - r
  BY DEF Floor
<1> HIDE DEF q, r, k
<1>5. k <= q
  <2>1. SUFFICES ASSUME q + 1 <= k PROVE FALSE
    BY <1>2, <1>3
  <2>2. Frac * (q + 1) <= Frac * k
    BY <1>1, <1>2, <1>3, <2>1, Monotone
  <2>3. Frac * (q + 1) = Frac * q + Frac
    BY <1>1, <1>2
  <2> DEFINE fq == Frac * q
             fk == Frac * k
             fp == Frac * (q + 1)
  <2>4. fq \in Int /\ fk \in Int /\ fp \in Int
    BY <1>1, <1>2, <1>3
  <2>5. fp <= fk /\ fp = fq + Frac /\ x = fq + r /\ y = fk
    BY <1>2, <1>3, <2>2, <2>3
  <2> HIDE DEF fq, fk, fp
  <2>6. QED
    BY <1>1, <1>2, <2>4, <2>5
<1>6. Frac * k <= Frac * q
  BY <1>1, <1>2, <1>3, <1>5, Monotone
<1> DEFINE fq == Frac * q
           fk == Frac * k
<1>7. fq \in Int /\ fk \in Int /\ fk <= fq /\ x = fq + r /\ y = fk
  BY <1>1, <1>2, <1>3, <1>6
<1> HIDE DEF fq, fk
<1>8. QED
  BY <1>2, <1>4, <1>7

\* An alarm that is set rings; one of zero is none.
LEMMA AlarmFacts ==
    ASSUME NEW wait \in Nat, now \in Nat, stalled \in BOOLEAN, SetAlarm(wait)
    PROVE  /\ alarm' \in Nat /\ stalled' \in BOOLEAN
           /\ stalled => stalled'
           /\ alarm' # Off \/ stalled'
<1> DEFINE w == Floor(wait)
<1>1. w \in Nat
  BY FloorFacts
<1>2. /\ alarm' = IF w = 0 THEN Off ELSE now + w
      /\ stalled' = (stalled \/ w = 0)
  BY DEF SetAlarm
<1> HIDE DEF w
<1>3. alarm' \in Nat /\ (w # 0 => alarm' # Off)
  BY <1>1, <1>2 DEF Off
<1>4. stalled' \in BOOLEAN /\ (stalled => stalled') /\ (w = 0 => stalled')
  BY <1>2
<1>5. QED
  BY <1>3, <1>4

-----------------------------------------------------------------------------
(* The threads and their datagrams. *)

\* TInv, in parts.
LEMMA TypeParts ==
    TypeOK <=> /\ now \in Nat
               /\ used \subseteq Msg
               /\ head \in Msg \cup {Null}
               /\ next \in [Msg -> Msg \cup {Null}]
               /\ at \in [Msg -> Nat]
               /\ freed \subseteq Msg
               /\ thr \in [Thread -> Call]
               /\ handler \in Handlers
               /\ alarm \in Nat
               /\ sent \in [Msg -> Nat]
               /\ corrupt \in BOOLEAN /\ stalled \in BOOLEAN
               /\ raced \in BOOLEAN
               /\ skipped \subseteq Msg
               /\ handler.pc = "pop" => head # Null
               /\ handler.pc \in {"unlink", "free"} => handler.temp # Null
BY DEF TypeOK, Call, Handlers

\* The usend() of a thread, and its datagram.
LEMMA CallFacts ==
    ASSUME TInv, NEW t \in Thread
    PROVE  /\ thr[t] \in Call
           /\ thr[t].p \in Msg \cup {Head} /\ thr[t].delay \in Nat
           /\ Busy(t) => thr[t].msg \in used /\ thr[t].msg \in Msg
           /\ ~Busy(t) => thr[t].msg = Null
BY TypeParts DEF TInv, Call, Owned

\* The usend() of t goes on, or is over.
LEMMA ThreadGoes ==
    ASSUME TInv, NEW t \in Thread, NEW f \in Call, thr' = [thr EXCEPT ![t] = f],
           \/ Busy(t) /\ f.pc # "idle" /\ f.msg = thr[t].msg
           \/ f.pc = "idle" /\ f.msg = Null,
           UNCHANGED <<now, used, at, handler>>
    PROVE  thr' \in [Thread -> Call] /\ Numbered' /\ Owned' /\ Clocks'
<1>1. thr \in [Thread -> Call] /\ Numbered /\ Owned /\ Clocks
  BY TypeParts DEF TInv
<1>2. /\ thr' \in [Thread -> Call]
      /\ \A u \in Thread : thr'[u] = IF u = t THEN f ELSE thr[u]
  BY <1>1
<1>3. \A u \in Thread : thr'[u].pc # "idle" =>
          Busy(u) /\ thr'[u].msg = thr[u].msg
  BY <1>2 DEF Busy, At
<1>4. \A u \in Thread : thr'[u].pc = "idle" => thr'[u].msg = Null
  BY <1>1, <1>2 DEF Owned, Busy, At
<1>5. Null \notin used
  BY TypeParts DEF TInv, Null, Msg
<1>6. \A u \in Thread : thr'[u].msg \in {Null, thr[u].msg}
  BY <1>3, <1>4
<1>7. ASSUME NEW u \in Thread, NEW v \in Thread, thr'[u].pc # "idle",
             thr'[u].msg = thr'[v].msg
      PROVE  u = v
  <2>1. Busy(u) /\ thr'[u].msg = thr[u].msg /\ thr[u].msg # Null
    BY <1>1, <1>3, <1>5, <1>7 DEF Owned
  <2>2. thr'[v].msg = thr[v].msg
    BY <1>6, <1>7, <2>1
  <2>3. QED
    BY <1>1, <1>7, <2>1, <2>2 DEF Owned
<1>8. Owned'
  <2>1. ASSUME NEW u \in Thread
        PROVE  IF thr'[u].pc # "idle" THEN thr'[u].msg \in used ELSE thr'[u].msg = Null
    BY <1>1, <1>3, <1>4 DEF Owned
  <2>2. QED
    BY <1>7, <2>1 DEF Owned, Busy, At
<1>9. Clocks'
  <2>1. ASSUME NEW u \in Thread, thr'[u].pc # "idle" PROVE now < at[thr'[u].msg]
    BY <1>1, <1>3, <2>1 DEF Clocks
  <2>2. handler.now <= now /\ handler.now % Frac = 0
    BY <1>1 DEF Clocks
  <2>3. QED
    BY <2>1, <2>2 DEF Clocks, Busy, At
<1>10. Numbered'
  BY <1>1 DEF Numbered
<1>11. QED
  BY <1>2, <1>8, <1>9, <1>10

\* A datagram is handed to usend(): it has the next number, and is not due.
LEMMA UsendFacts ==
    ASSUME TInv, NEW t \in Thread, Usend(t)
    PROVE  \E m \in Msg \ used, d \in Delay :
               /\ used' = used \cup {m} /\ d \in Nat /\ Numbered'
               /\ at' = [at EXCEPT ![m] = Floor(now) + d]
               /\ thr' = [thr EXCEPT ![t] =
                      [Idle EXCEPT !.pc = "walk", !.msg = m, !.delay = d]]
               /\ Floor(now) + d \in Nat /\ now < Floor(now) + d
<1>1. PICK k \in 0 .. Calls : used = 1 .. k
  BY DEF TInv, Numbered
<1> DEFINE m == Cardinality(used) + 1
<1>2. m = k + 1
  <2>1. k \in Nat
    BY <1>1, CallsAssumption
  <2>2. Cardinality(1 .. k) = k
    BY <2>1, FS_Interval
  <2>3. QED
    BY <1>1, <2>2
<1>3. m \in Msg /\ used' = used \cup {m}
  BY DEF Usend
<1>4. PICK d \in Delay : /\ at' = [at EXCEPT ![m] = Floor(now) + d]
                         /\ thr' = [thr EXCEPT ![t] =
                                [Idle EXCEPT !.pc = "walk", !.msg = m, !.delay = d]]
  BY DEF Usend
<1> HIDE DEF m
<1>5. k \in Nat /\ k + 1 <= Calls /\ Calls \in Nat
  BY <1>1, <1>2, <1>3, CallsAssumption DEF Msg
<1>6. m \notin used /\ used' = 1 .. k + 1 /\ k + 1 \in 0 .. Calls
  BY <1>1, <1>2, <1>3, <1>5
<1>7. d \in Nat /\ d >= Frac /\ Frac \in Nat
  BY DelayAssumption, FracAssumption
<1>8. Floor(now) \in Nat /\ now < Floor(now) + Frac /\ now \in Nat
  BY TypeParts, FloorFacts DEF TInv
<1>9. Floor(now) + d \in Nat /\ now < Floor(now) + d
  BY <1>7, <1>8
<1>10. Numbered'
  BY <1>6 DEF Numbered
<1>11. QED
  BY <1>3, <1>4, <1>6, <1>7, <1>9, <1>10

\* usend() begins.
LEMMA UsendKeeps == ASSUME TInv, NEW t \in Thread, Usend(t) PROVE TInv'
<1>1. PICK m \in Msg \ used, d \in Delay :
          /\ used' = used \cup {m} /\ d \in Nat /\ Numbered'
          /\ at' = [at EXCEPT ![m] = Floor(now) + d]
          /\ thr' = [thr EXCEPT ![t] =
                 [Idle EXCEPT !.pc = "walk", !.msg = m, !.delay = d]]
          /\ Floor(now) + d \in Nat /\ now < Floor(now) + d
  BY UsendFacts
<1> DEFINE f == [Idle EXCEPT !.pc = "walk", !.msg = m, !.delay = d]
           time == Floor(now) + d
<1>2. UNCHANGED <<now, list, freed, handler, alarm, sent, corrupt, history>>
  BY DEF Usend
<1>3. TypeOK /\ Owned /\ Clocks
  BY DEF TInv
<1>4. f \in Call /\ f.pc = "walk" /\ f.msg = m
  BY <1>1 DEF Call, Idle, Head, Null
<1>5. thr' = [thr EXCEPT ![t] = f] /\ at' = [at EXCEPT ![m] = time]
      /\ time \in Nat /\ now < time
  BY <1>1
<1> HIDE DEF f, time
<1>6. /\ thr' \in [Thread -> Call]
      /\ \A u \in Thread : thr'[u] = IF u = t THEN f ELSE thr[u]
  BY <1>3, <1>4, <1>5, TypeParts
<1>7. /\ at' \in [Msg -> Nat] /\ at'[m] = time
      /\ \A x \in Msg : x # m => at'[x] = at[x]
  BY <1>1, <1>3, <1>5, TypeParts
<1>8. TypeOK'
  <2>1. used' \subseteq Msg
    BY <1>1, <1>3, TypeParts
  <2>2. QED
    BY <1>2, <1>3, <1>6, <1>7, <2>1, TypeParts DEF TypeOK, Call, Handlers, list, history
<1>9. \A u \in Thread : thr[u].msg # m
  BY <1>1, CallFacts DEF Null, Msg
<1>10. Owned'
  <2>1. ASSUME NEW u \in Thread
        PROVE  IF thr'[u].pc # "idle" THEN thr'[u].msg \in used' ELSE thr'[u].msg = Null
    BY <1>1, <1>3, <1>4, <1>6 DEF Owned, Busy, At
  <2>2. ASSUME NEW u \in Thread, NEW v \in Thread, thr'[u].pc # "idle",
               thr'[u].msg = thr'[v].msg
        PROVE  u = v
    BY <1>3, <1>4, <1>6, <1>9, <2>2 DEF Owned, Busy, At
  <2>3. QED
    BY <2>1, <2>2 DEF Owned, Busy, At
<1>11. Clocks'
  <2>1. ASSUME NEW u \in Thread, thr'[u].pc # "idle" PROVE now < at'[thr'[u].msg]
    <3>1. CASE u = t
      BY <1>4, <1>5, <1>6, <1>7, <3>1
    <3>2. CASE u # t
      <4>1. Busy(u) /\ thr'[u] = thr[u]
        BY <1>6, <2>1, <3>2 DEF Busy, At
      <4>2. thr[u].msg \in Msg /\ now < at[thr[u].msg]
        BY <1>3, <4>1, CallFacts DEF Clocks
      <4>3. QED
        BY <1>7, <1>9, <4>1, <4>2
    <3>3. QED
      BY <3>1, <3>2
  <2>2. QED
    BY <1>2, <1>3, <2>1 DEF Clocks, Busy, At
<1>12. QED
  BY <1>1, <1>8, <1>10, <1>11 DEF TInv
\* The nodes that t reads are typed.
LEMMA CellTyped ==
    ASSUME TInv, NEW t \in Thread
    PROVE  Cell(thr[t].p) \in Msg \cup {Null}
BY TypeParts DEF TInv, Call, Cell, Head

\* A step of t that is defined goes on with its usend().
LEMMA SoundFacts ==
    ASSUME NEW t \in Thread, NEW pc, Sound(t, pc), pc # "idle"
    PROVE  /\ Whole /\ thr[t].pc = pc /\ Busy(t) /\ ~Undefined(t)
           /\ UNCHANGED <<now, used, at, freed, handler, alarm, sent, corrupt>>
BY DEF Sound, At, Busy

\* Neither the datagrams nor the clocks are touched, and the rest is typed.
LEMMA ThreadStepKeeps ==
    ASSUME TInv, NEW t \in Thread, ThreadStep(t)
    PROVE  TInv'
<1>1. TypeOK /\ Numbered /\ Owned /\ Clocks
  BY DEF TInv
<1>2. thr[t] \in Call /\ thr \in [Thread -> Call] /\ thr[t].msg \in Msg \cup {Null}
  BY <1>1, TypeParts DEF Call
<1>3. CASE Misuse(t)
  <2>1. TypeOK'
    BY <1>1, <1>3 DEF Misuse, TypeOK, list, history
  <2>2. UNCHANGED <<now, used, at, thr, handler>>
    BY <1>3 DEF Misuse
  <2>3. QED
    BY <1>1, <2>1, <2>2 DEF TInv, Numbered, Owned, Clocks, Busy, At
<1>4. ASSUME NEW f \in Call, thr' = [thr EXCEPT ![t] = f], skipped' \subseteq Msg,
             \/ Busy(t) /\ f.pc # "idle" /\ f.msg = thr[t].msg
             \/ f.pc = "idle" /\ f.msg = Null,
             UNCHANGED <<now, used, head, next, at, freed, handler, alarm, sent,
                         corrupt, stalled, raced>>
      PROVE  TInv'
  <2>1. thr' \in [Thread -> Call] /\ Numbered' /\ Owned' /\ Clocks'
    BY <1>4, ThreadGoes
  <2>2. TypeOK'
    BY <1>1, <1>4, <2>1, TypeParts DEF TypeOK, Call, Handlers
  <2>3. QED
    BY <2>1, <2>2 DEF TInv
<1>5. CASE Walk(t)
  <2> DEFINE pc == IF Cell(thr[t].p) = Null THEN "link" ELSE "load"
             f == [thr[t] EXCEPT !.pc = pc]
  <2>1. /\ Busy(t) /\ skipped' \subseteq Msg
        /\ UNCHANGED <<now, used, head, next, at, freed, handler, alarm, sent,
                       corrupt, stalled, raced>>
    BY <1>1, <1>5, SoundFacts, TypeParts DEF Walk, list, history
  <2>2. thr' = [thr EXCEPT ![t] = f]
    BY <1>2, <1>5 DEF Walk
  <2>3. pc \in {"link", "load"}
    OBVIOUS
  <2> HIDE DEF pc
  <2>4. f \in Call /\ f.pc # "idle" /\ f.msg = thr[t].msg
    BY <1>2, <2>3 DEF Call
  <2> HIDE DEF f
  <2>5. QED
    BY <1>4, <2>1, <2>2, <2>4
<1>6. CASE Load(t)
  <2> DEFINE n == Cell(thr[t].p)
             f == [thr[t] EXCEPT !.pc = "compare", !.n = n]
  <2>1. /\ Busy(t) /\ skipped' \subseteq Msg
        /\ UNCHANGED <<now, used, head, next, at, freed, handler, alarm, sent,
                       corrupt, stalled, raced>>
    BY <1>1, <1>6, SoundFacts, TypeParts DEF Load, list, history
  <2>2. thr' = [thr EXCEPT ![t] = f]
    BY <1>2, <1>6 DEF Load
  <2>3. n \in Msg \cup {Null}
    BY CellTyped
  <2> HIDE DEF n
  <2>4. f \in Call /\ f.pc # "idle" /\ f.msg = thr[t].msg
    BY <1>2, <2>3 DEF Call
  <2> HIDE DEF f
  <2>5. QED
    BY <1>4, <2>1, <2>2, <2>4
<1>7. CASE Compare(t)
  <2> DEFINE pc == IF Before(thr[t].n, thr[t].msg) THEN "step" ELSE "link"
             f == [thr[t] EXCEPT !.n = Null, !.pc = pc]
  <2>1. /\ Busy(t) /\ skipped' \subseteq Msg
        /\ UNCHANGED <<now, used, head, next, at, freed, handler, alarm, sent,
                       corrupt, stalled, raced>>
    BY <1>1, <1>7, SoundFacts, TypeParts DEF Compare, list, history
  <2>2. thr' = [thr EXCEPT ![t] = f]
    BY <1>2, <1>7 DEF Compare
  <2>3. pc \in {"link", "step"}
    OBVIOUS
  <2> HIDE DEF pc
  <2>4. f \in Call /\ f.pc # "idle" /\ f.msg = thr[t].msg
    BY <1>2, <2>3 DEF Call
  <2> HIDE DEF f
  <2>5. QED
    BY <1>4, <2>1, <2>2, <2>4
<1>8. CASE Step(t)
  <2> DEFINE n == Cell(thr[t].p)
             f == [thr[t] EXCEPT !.pc = "walk", !.p = n]
  <2>1. /\ Busy(t)
        /\ UNCHANGED <<now, used, head, next, at, freed, handler, alarm, sent,
                       corrupt, stalled, raced>>
    BY <1>8, SoundFacts DEF Step, list
  <2>2. skipped' \subseteq Msg
    <3>1. thr[t].msg \in Msg
      BY <2>1, CallFacts
    <3>2. skipped' = skipped \/ skipped' = skipped \cup {thr[t].msg}
      BY <1>8 DEF Step
    <3>3. QED
      BY <1>1, <3>1, <3>2, TypeParts
  <2>3. thr' = [thr EXCEPT ![t] = f]
    BY <1>2, <1>8 DEF Step
  <2>4. n \in Msg \cup {Null}
    BY CellTyped
  <2> HIDE DEF n
  <2>5. f \in Call /\ f.pc # "idle" /\ f.msg = thr[t].msg
    BY <1>2, <2>4 DEF Call, Head, Null
  <2> HIDE DEF f
  <2>6. QED
    BY <1>4, <2>1, <2>2, <2>3, <2>5
<1>9. CASE Link(t)
  <2> DEFINE f == [thr[t] EXCEPT !.pc = "store"]
             n == Cell(thr[t].p)
  <2>1. n \in Msg \cup {Null}
    BY CellTyped
  <2>2. /\ Busy(t)
        /\ UNCHANGED <<now, used, head, at, freed, handler, alarm, sent, corrupt,
                       skipped, stalled, raced>>
    BY <1>9, SoundFacts DEF Link, history
  <2>3. thr' = [thr EXCEPT ![t] = f]
    BY <1>2, <1>9 DEF Link
  <2>4. next' = [next EXCEPT ![thr[t].msg] = n]
    BY <1>9 DEF Link
  <2> HIDE DEF n
  <2>5. f \in Call /\ f.pc # "idle" /\ f.msg = thr[t].msg
    BY <1>2 DEF Call
  <2> HIDE DEF f
  <2>6. thr' \in [Thread -> Call] /\ Numbered' /\ Owned' /\ Clocks'
    BY <2>2, <2>3, <2>5, ThreadGoes
  <2>7. next' \in [Msg -> Msg \cup {Null}]
    BY <1>1, <2>1, <2>4, TypeParts
  <2>8. TypeOK'
    BY <1>1, <2>2, <2>6, <2>7, TypeParts DEF TypeOK, Call, Handlers
  <2>9. QED
    BY <2>6, <2>8 DEF TInv
<1>10. CASE Store(t)
  <2> DEFINE f == [thr[t] EXCEPT !.pc = "test"]
  <2>1. /\ Busy(t)
        /\ UNCHANGED <<now, used, at, freed, handler, alarm, sent, corrupt, skipped,
                       stalled>>
    BY <1>10, SoundFacts DEF Store
  <2>2. thr[t].msg \in Msg
    BY <2>1, CallFacts
  <2>3. thr' = [thr EXCEPT ![t] = f]
    BY <1>2, <1>10 DEF Store
  <2>4. f \in Call /\ f.pc # "idle" /\ f.msg = thr[t].msg
    BY <1>2 DEF Call
  <2>5. head' \in Msg \cup {Null} /\ (head' = head \/ head' # Null)
    BY <1>1, <1>10, <2>2, TypeParts DEF Store, Null, Msg
  <2>6. next' \in [Msg -> Msg \cup {Null}]
    <3>1. next' = next \/ next' = [next EXCEPT ![thr[t].p] = thr[t].msg]
      BY <1>10 DEF Store
    <3>2. QED
      BY <1>1, <2>2, <3>1, TypeParts
  <2>7. raced' \in BOOLEAN
    BY <1>1, <1>10, TypeParts DEF Store
  <2> HIDE DEF f
  <2>8. thr' \in [Thread -> Call] /\ Numbered' /\ Owned' /\ Clocks'
    BY <2>1, <2>3, <2>4, ThreadGoes
  <2>9. handler.pc = "pop" => head' # Null
    BY <1>1, <2>5, TypeParts
  <2>10. TypeOK'
    BY <1>1, <2>1, <2>5, <2>6, <2>7, <2>8, <2>9, TypeParts DEF TypeOK, Call, Handlers
  <2>11. QED
    BY <2>8, <2>10 DEF TInv
<1>11. CASE Test(t)
  <2> DEFINE f == IF IsFirst(thr[t].msg) THEN [thr[t] EXCEPT !.pc = "arm"] ELSE Idle
  <2>1. /\ Busy(t) /\ skipped' \subseteq Msg
        /\ UNCHANGED <<now, used, head, next, at, freed, handler, alarm, sent,
                       corrupt, stalled, raced>>
    BY <1>1, <1>11, TypeParts DEF Test, Busy, At, list, history
  <2>2. thr' = [thr EXCEPT ![t] = f]
    BY <1>2, <1>11 DEF Test
  <2>3. \/ f \in Call /\ f.pc # "idle" /\ f.msg = thr[t].msg
        \/ f \in Call /\ f.pc = "idle" /\ f.msg = Null
    <3>1. CASE IsFirst(thr[t].msg)
      <4>1. f = [thr[t] EXCEPT !.pc = "arm"]
        BY <3>1
      <4>2. QED
        BY <1>2, <4>1 DEF Call
    <3>2. CASE ~IsFirst(thr[t].msg)
      <4>1. f = Idle
        BY <3>2
      <4>2. QED
        BY <4>1 DEF Call, Idle, Head, Null
    <3>3. QED
      BY <3>1, <3>2
  <2> HIDE DEF f
  <2>4. QED
    BY <1>4, <2>1, <2>2, <2>3
<1>12. CASE Arm(t)
  <2>1. /\ thr' = [thr EXCEPT ![t] = Idle]
        /\ UNCHANGED <<now, used, head, next, at, freed, handler, sent, corrupt,
                       skipped, raced>>
    BY <1>12 DEF Arm, list
  <2>2. Idle \in Call /\ Idle.pc = "idle" /\ Idle.msg = Null
    BY DEF Call, Idle, Head, Null
  <2>3. alarm' \in Nat /\ stalled' \in BOOLEAN
    <3>1. thr[t].delay \in Nat /\ SetAlarm(thr[t].delay)
      BY <1>12, CallFacts DEF Arm
    <3>2. QED
      BY <1>1, <3>1, AlarmFacts, TypeParts
  <2>4. thr' \in [Thread -> Call] /\ Numbered' /\ Owned' /\ Clocks'
    BY <2>1, <2>2, ThreadGoes
  <2>5. TypeOK'
    BY <1>1, <2>1, <2>3, <2>4, TypeParts DEF TypeOK, Call, Handlers
  <2>6. QED
    BY <2>4, <2>5 DEF TInv
<1>13. QED
  BY <1>3, <1>5, <1>6, <1>7, <1>8, <1>9, <1>10, <1>11, <1>12 DEF ThreadStep

-----------------------------------------------------------------------------
(* The handler and the clock. *)

\* catch_alarm() keeps the types: the wait it computes is not negative, since the
\* first node is due after the time it has read.
LEMMA HandlerStepKeeps == ASSUME TInv, HandlerStep PROVE TInv'
<1>1. TypeOK /\ Numbered /\ Owned /\ Clocks
  BY DEF TInv
<1>2. handler \in Handlers /\ now \in Nat /\ handler.now <= now /\ handler.now % Frac = 0
  BY <1>1, TypeParts DEF Clocks
<1>3. UNCHANGED <<now, used, next, at, thr, corrupt, skipped, raced>>
  BY DEF HandlerStep, Fire, HandlerSend, HandlerPop, HandlerUnlink, HandlerFree,
         HandlerEnd, HandlerArm, list, history
<1>4. Asleep \in Handlers /\ Asleep.now = 0 /\ Asleep.pc = "idle"
  BY DEF Asleep, Handlers, Null
<1>5. 0 <= now /\ 0 % Frac = 0
  BY <1>2, FracAssumption
<1>6. ASSUME handler'.now <= now /\ handler'.now % Frac = 0, TypeOK'
      PROVE  TInv'
  <2>1. Numbered' /\ Owned'
    BY <1>1, <1>3 DEF Numbered, Owned, Busy, At
  <2>2. Clocks'
    BY <1>1, <1>3, <1>6 DEF Clocks, Busy, At
  <2>3. QED
    BY <1>6, <2>1, <2>2 DEF TInv
<1>7. CASE Fire
  <2>1. handler' = [Asleep EXCEPT !.pc = "loop", !.now = Floor(now)]
    BY <1>7 DEF Fire
  <2> DEFINE time == Floor(now)
  <2>2. time \in Nat /\ time <= now /\ time % Frac = 0
    BY <1>2, FloorFacts
  <2>3. handler' = [Asleep EXCEPT !.pc = "loop", !.now = time]
    BY <2>1
  <2> HIDE DEF time
  <2>4. handler' \in Handlers /\ handler'.now = time /\ handler'.pc = "loop"
    BY <1>4, <2>2, <2>3 DEF Handlers
  <2>5. alarm' \in Nat /\ UNCHANGED <<head, freed, sent, stalled>>
    BY <1>7 DEF Fire, Off, list, history
  <2>6. TypeOK'
    BY <1>1, <1>3, <2>4, <2>5, TypeParts DEF TypeOK, Call, Handlers
  <2>7. QED
    BY <1>6, <2>2, <2>4, <2>6
<1>8. CASE HandlerSend
  <2>1. /\ handler' = [handler EXCEPT !.pc = "pop"]
        /\ sent' = [sent EXCEPT ![head] = @ + 1]
        /\ UNCHANGED <<head, freed, alarm, stalled>> /\ head # Null
    BY <1>8 DEF HandlerSend, Due, list, history
  <2>2. /\ handler' \in Handlers /\ handler'.now = handler.now
        /\ handler'.pc = "pop"
    BY <1>2, <2>1 DEF Handlers
  <2>3. sent' \in [Msg -> Nat]
    BY <1>1, <2>1, TypeParts
  <2>4. TypeOK'
    BY <1>1, <1>3, <2>1, <2>2, <2>3, TypeParts DEF TypeOK, Call, Handlers
  <2>5. QED
    BY <1>2, <1>6, <2>2, <2>4
<1>9. CASE HandlerPop
  <2> DEFINE n == next[head]
  <2>1. /\ handler' = [handler EXCEPT !.pc = "unlink", !.temp = head, !.n = n]
        /\ head \in Msg /\ head # Null /\ n \in Msg \cup {Null}
        /\ UNCHANGED <<head, freed, sent, alarm, stalled>>
    BY <1>1, <1>9, TypeParts DEF HandlerPop, list, history
  <2> HIDE DEF n
  <2>2. /\ handler' \in Handlers /\ handler'.now = handler.now
        /\ handler'.pc = "unlink" /\ handler'.temp = head
    BY <1>2, <2>1 DEF Handlers
  <2>3. TypeOK'
    BY <1>1, <1>3, <2>1, <2>2, TypeParts DEF TypeOK, Call, Handlers
  <2>4. QED
    BY <1>2, <1>6, <2>2, <2>3
<1>10. CASE HandlerUnlink
  <2>1. /\ handler' = [handler EXCEPT !.pc = "free", !.n = Null]
        /\ head' = handler.n /\ handler.temp # Null
        /\ UNCHANGED <<freed, sent, alarm, stalled>>
    BY <1>1, <1>10, TypeParts DEF HandlerUnlink, history
  <2>2. /\ handler' \in Handlers /\ handler'.now = handler.now
        /\ handler'.pc = "free" /\ handler'.temp = handler.temp
    BY <1>2, <2>1 DEF Handlers
  <2>3. head' \in Msg \cup {Null}
    BY <1>2, <2>1 DEF Handlers
  <2>4. TypeOK'
    BY <1>1, <1>3, <2>1, <2>2, <2>3, TypeParts DEF TypeOK, Call, Handlers
  <2>5. QED
    BY <1>2, <1>6, <2>2, <2>4
<1>11. CASE HandlerFree
  <2>1. /\ handler' = [handler EXCEPT !.pc = "loop", !.temp = Null]
        /\ freed' = freed \cup {handler.temp} /\ handler.temp # Null
        /\ UNCHANGED <<head, sent, alarm, stalled>>
    BY <1>1, <1>11, TypeParts DEF HandlerFree, list, history
  <2>2. handler' \in Handlers /\ handler'.now = handler.now /\ handler'.pc = "loop"
    BY <1>2, <2>1 DEF Handlers
  <2>3. freed' \subseteq Msg
    BY <1>1, <1>2, <2>1, TypeParts DEF Handlers
  <2>4. TypeOK'
    BY <1>1, <1>3, <2>1, <2>2, <2>3, TypeParts DEF TypeOK, Call, Handlers
  <2>5. QED
    BY <1>2, <1>6, <2>2, <2>4
<1>12. CASE HandlerEnd
  <2>1. /\ handler' = IF head = Null THEN Asleep
                      ELSE [handler EXCEPT !.pc = "set", !.wait = Wait]
        /\ UNCHANGED <<head, freed, alarm, sent, stalled>> /\ ~Due
    BY <1>12 DEF HandlerEnd, list, history
  <2>2. /\ handler' \in Handlers /\ handler'.now \in {0, handler.now}
        /\ handler'.pc \in {"idle", "set"}
    <3>1. CASE head = Null
      BY <1>4, <2>1, <3>1
    <3>2. CASE head # Null
      <4> DEFINE time == at[head]
      <4>1. time \in Nat /\ ~(time <= handler.now) /\ handler.now \in Nat
        BY <1>1, <1>2, <2>1, <3>2, TypeParts DEF Due, Handlers
      <4> HIDE DEF time
      <4>2. handler.now <= time
        BY <4>1
      <4> DEFINE read == handler.now
      <4>3. read \in Nat /\ read % Frac = 0 /\ read <= time
        BY <1>2, <4>1, <4>2 DEF Handlers
      <4> HIDE DEF read
      <4>4. Floor(time) \in Nat /\ read <= Floor(time)
        BY <4>1, <4>3, FloorFacts, FloorMonotone
      <4> DEFINE wait == Floor(time) - read
      <4>5. wait \in Nat
        BY <4>3, <4>4
      <4>6. wait = Wait
        BY DEF Wait, time, read
      <4> HIDE DEF wait
      <4>7. handler' = [handler EXCEPT !.pc = "set", !.wait = wait]
        BY <2>1, <3>2, <4>6
      <4>8. QED
        BY <1>2, <4>5, <4>7 DEF Handlers
    <3>3. QED
      BY <3>1, <3>2
  <2>3. TypeOK'
    BY <1>1, <1>3, <2>1, <2>2, TypeParts DEF TypeOK, Call, Handlers
  <2>4. handler'.now <= now /\ handler'.now % Frac = 0
    BY <1>2, <1>5, <2>2
  <2>5. QED
    BY <1>6, <2>3, <2>4
<1>13. CASE HandlerArm
  <2>1. /\ SetAlarm(handler.wait) /\ handler' = Asleep
        /\ UNCHANGED <<head, freed, sent>>
    BY <1>13 DEF HandlerArm, list
  <2>2. alarm' \in Nat /\ stalled' \in BOOLEAN
    <3>1. handler.wait \in Nat
      BY <1>2 DEF Handlers
    <3>2. QED
      BY <1>1, <2>1, <3>1, AlarmFacts, TypeParts
  <2>3. TypeOK'
    BY <1>1, <1>3, <1>4, <2>1, <2>2, TypeParts DEF TypeOK, Call, Handlers
  <2>4. QED
    BY <1>4, <1>5, <1>6, <2>1, <2>3
<1>14. QED
  BY <1>7, <1>8, <1>9, <1>10, <1>11, <1>12, <1>13 DEF HandlerStep

\* Every step keeps the types, the owners and the clocks.
LEMMA TInvStep == ASSUME TInv, [Next]_vars PROVE TInv'
<1>1. CASE Tick
  <2>1. TypeOK /\ Numbered /\ Owned /\ Clocks
    BY DEF TInv
  <2>2. /\ now' = now + 1
        /\ \A t \in Thread : Busy(t) => now + 1 < at[thr[t].msg]
        /\ UNCHANGED <<used, list, at, freed, thr, handler, alarm, sent, corrupt,
                       history>>
    BY <1>1 DEF Tick
  <2>3. now \in Nat /\ handler.now \in Nat /\ handler.now <= now
    BY <2>1, TypeParts DEF Clocks, Handlers
  <2>4. now' \in Nat /\ handler.now <= now'
    BY <2>2, <2>3
  <2>5. TypeOK'
    BY <2>1, <2>2, <2>4 DEF TypeOK, list, history
  <2>6. Clocks'
    BY <2>1, <2>2, <2>4 DEF Clocks, Busy, At
  <2>7. Numbered' /\ Owned'
    BY <2>1, <2>2 DEF Numbered, Owned, Busy, At
  <2>8. QED
    BY <2>5, <2>6, <2>7 DEF TInv
<1>2. CASE UNCHANGED vars
  <2>1. TypeOK'
    BY <1>2 DEF TInv, TypeOK, vars, list, history
  <2>2. Numbered' /\ Owned' /\ Clocks'
    BY <1>2 DEF TInv, Numbered, Owned, Clocks, Busy, At, vars
  <2>3. QED
    BY <2>1, <2>2 DEF TInv
<1>3. CASE \E t \in Thread : ThreadStep(t) \/ Usend(t)
  BY <1>3, ThreadStepKeeps, UsendKeeps
<1>4. CASE HandlerStep
  BY <1>4, HandlerStepKeeps
<1>5. QED
  BY <1>1, <1>2, <1>3, <1>4 DEF Next

\* Nothing is queued at first, and no alarm is set.
LEMMA TInvInit == Init => TInv
<1> SUFFICES ASSUME Init PROVE TInv
  OBVIOUS
<1>1. Idle \in Call /\ Idle.msg = Null /\ Idle.pc = "idle"
  BY DEF Idle, Call, Head, Null
<1>2. TypeOK
  BY <1>1 DEF Init, TypeOK, Call, Asleep, Off, Null
<1>3. 0 \in 0 .. Calls /\ 1 .. 0 = {}
  BY CallsAssumption
<1>4. Numbered
  BY <1>3 DEF Numbered, Init
<1>5. \A t \in Thread : thr[t] = Idle
  BY DEF Init
<1>6. Owned
  BY <1>1, <1>5 DEF Owned, Busy, At
<1>7. 0 % Frac = 0
  BY FracAssumption
<1>8. Clocks
  BY <1>1, <1>5, <1>7 DEF Clocks, Busy, At, Init, Asleep
<1>9. QED
  BY <1>2, <1>4, <1>6, <1>8 DEF TInv

\* The types, the owners of the datagrams and the clocks hold in every state.
THEOREM Types == Spec => []TInv
<1>1. QED
  BY TInvInit, TInvStep, PTL DEF Spec

\* Every variable keeps its shape, the handler never computes a negative wait, and
\* it takes a node off the list only if there is one (unicast.cc:238-257).  Of the
\* pointers of the threads it says only that they are null or nodes; a thread may
\* well come to follow a null one, which ends the model (Misuse).
THEOREM TypeCorrect == Spec => []TypeOK
<1>1. TInv => TypeOK
  BY DEF TInv
<1>2. QED
  BY <1>1, Types, PTL
-----------------------------------------------------------------------------
(* The alarm. *)

\* t is on its way to set the alarm.
WillArm(t) == At(t, "arm") \/ (At(t, "test") /\ IsFirst(thr[t].msg))

\* Every step keeps somebody awake: a thread that stores at head is the one that
\* will find its datagram first, and only the handler clears the alarm.
LEMMA WakeupStep == ASSUME TInv, WakeupKept, [Next]_vars PROVE WakeupKept'
<1>1. thr \in [Thread -> Call] /\ now \in Nat /\ stalled \in BOOLEAN
  BY TypeParts DEF TInv
<1>2. SUFFICES ASSUME Whole', ~stalled', head' # Null
               PROVE  alarm' # Off \/ handler'.pc # "idle" \/ \E t \in Thread : WillArm(t)'
  BY DEF WakeupKept, WillArm
<1>3. Whole /\ ~stalled /\ head # Null =>
          alarm # Off \/ handler.pc # "idle" \/ \E t \in Thread : WillArm(t)
  BY DEF WakeupKept, WillArm
<1>4. CASE UNCHANGED vars
  <2>1. Whole /\ ~stalled /\ head # Null
    BY <1>2, <1>4 DEF vars, list, history, Whole
  <2>2. alarm' = alarm /\ handler' = handler /\ \A t \in Thread : WillArm(t) => WillArm(t)'
    BY <1>4 DEF vars, list, WillArm, At, IsFirst
  <2>3. QED
    BY <1>3, <2>1, <2>2
<1>5. CASE Tick
  <2>1. Whole /\ ~stalled /\ head # Null
    BY <1>2, <1>5 DEF Tick, list, history, Whole
  <2>2. alarm' = alarm /\ handler' = handler /\ \A t \in Thread : WillArm(t) => WillArm(t)'
    BY <1>5 DEF Tick, list, WillArm, At, IsFirst
  <2>3. QED
    BY <1>3, <2>1, <2>2
<1>6. CASE HandlerStep
  <2>1. CASE Fire
    BY <2>1 DEF Fire, Asleep
  <2>2. CASE HandlerSend
    <3>1. handler' = [handler EXCEPT !.pc = "pop"]
      BY <2>2 DEF HandlerSend
    <3>2. QED
      BY <3>1, TypeParts DEF TInv, Handlers
  <2>3. CASE HandlerPop
    <3>1. handler' = [handler EXCEPT !.pc = "unlink", !.temp = head, !.n = next[head]]
      BY <2>3 DEF HandlerPop
    <3>2. QED
      BY <3>1, TypeParts DEF TInv, Handlers
  <2>4. CASE HandlerUnlink
    <3>1. handler' = [handler EXCEPT !.pc = "free", !.n = Null]
      BY <2>4 DEF HandlerUnlink
    <3>2. QED
      BY <3>1, TypeParts DEF TInv, Handlers
  <2>5. CASE HandlerFree
    <3>1. handler' = [handler EXCEPT !.pc = "loop", !.temp = Null]
      BY <2>5 DEF HandlerFree
    <3>2. QED
      BY <3>1, TypeParts DEF TInv, Handlers
  <2>6. CASE HandlerEnd
    <3>1. handler' = [handler EXCEPT !.pc = "set", !.wait = Wait]
      BY <1>2, <2>6 DEF HandlerEnd, list
    <3>2. QED
      BY <3>1, TypeParts DEF TInv, Handlers
  <2>7. CASE HandlerArm
    <3>1. SetAlarm(handler.wait) /\ handler.wait \in Nat
      BY <2>7, TypeParts DEF HandlerArm, TInv, Handlers
    <3>2. alarm' # Off
      BY <1>1, <1>2, <3>1, AlarmFacts
    <3>3. QED
      BY <3>2
  <2>8. QED
    BY <1>6, <2>1, <2>2, <2>3, <2>4, <2>5, <2>6, <2>7 DEF HandlerStep
<1>7. ASSUME NEW t \in Thread, ThreadStep(t) \/ Usend(t)
      PROVE  alarm' # Off \/ handler'.pc # "idle" \/ \E u \in Thread : WillArm(u)'
  <2>1. ASSUME ~WillArm(t), Whole, ~stalled, UNCHANGED <<head, alarm, handler>>,
               \A u \in Thread \ {t} : thr'[u] = thr[u]
        PROVE  alarm' # Off \/ handler'.pc # "idle" \/ \E u \in Thread : WillArm(u)'
    <3>1. CASE alarm # Off \/ handler.pc # "idle"
      BY <2>1, <3>1
    <3>2. CASE \E u \in Thread : WillArm(u)
      <4>1. PICK u \in Thread : WillArm(u)
        BY <3>2
      <4>2. u # t
        BY <2>1, <4>1
      <4>3. WillArm(u)'
        BY <2>1, <4>1, <4>2 DEF WillArm, At, IsFirst
      <4>4. QED
        BY <4>3
    <3>3. QED
      BY <1>2, <1>3, <2>1, <3>1, <3>2
  <2>2. ASSUME NEW f, thr' = [thr EXCEPT ![t] = f]
        PROVE  thr'[t] = f /\ \A u \in Thread \ {t} : thr'[u] = thr[u]
    BY <1>1, <2>2
  <2>3. CASE Usend(t)
    <3>1. PICK f : thr' = [thr EXCEPT ![t] = f]
      BY <2>3 DEF Usend
    <3>2. ~WillArm(t) /\ Whole /\ ~stalled /\ UNCHANGED <<head, alarm, handler>>
      BY <1>2, <2>3 DEF Usend, WillArm, Busy, At, list, history
    <3>3. QED
      BY <2>1, <2>2, <3>1, <3>2
  <2>4. CASE Misuse(t)
    BY <1>2, <2>4 DEF Misuse, Whole
  <2>5. CASE Walk(t) \/ Load(t) \/ Compare(t) \/ Step(t) \/ Link(t)
    <3>1. PICK f : thr' = [thr EXCEPT ![t] = f]
      <4>1. CASE Walk(t)
        BY <4>1 DEF Walk
      <4>2. CASE Load(t)
        BY <4>2 DEF Load
      <4>3. CASE Compare(t)
        BY <4>3 DEF Compare
      <4>4. CASE Step(t)
        BY <4>4 DEF Step
      <4>5. CASE Link(t)
        BY <4>5 DEF Link
      <4>6. QED
        BY <2>5, <4>1, <4>2, <4>3, <4>4, <4>5
    <3>2. PICK pc \in {"walk", "load", "compare", "step", "link"} : Sound(t, pc)
      BY <2>5 DEF Walk, Load, Compare, Step, Link
    <3>3. thr[t].pc = pc /\ Whole /\ UNCHANGED <<alarm, handler>>
      BY <3>2, SoundFacts
    <3>4. UNCHANGED <<head, stalled>>
      BY <2>5 DEF Walk, Load, Compare, Step, Link, list, history
    <3>5. ~WillArm(t)
      BY <3>2, <3>3 DEF WillArm, At
    <3>6. QED
      BY <1>2, <2>1, <2>2, <3>1, <3>3, <3>4, <3>5
  <2>6. CASE Store(t)
    <3> DEFINE f == [thr[t] EXCEPT !.pc = "test"]
    <3>1. thr' = [thr EXCEPT ![t] = f]
      BY <2>6 DEF Store
    <3>2. f.pc = "test" /\ f.msg = thr[t].msg
      BY <1>1 DEF Call
    <3> HIDE DEF f
    <3>3. CASE thr[t].p = Head
      <4>1. head' = thr[t].msg
        BY <2>6, <3>3 DEF Store
      <4>2. WillArm(t)'
        BY <2>2, <3>1, <3>2, <4>1 DEF WillArm, At, IsFirst
      <4>3. QED
        BY <4>2
    <3>4. CASE thr[t].p # Head
      <4>1. ~WillArm(t) /\ Whole /\ ~stalled /\ UNCHANGED <<head, alarm, handler>>
        BY <1>2, <2>6, <3>4 DEF Store, Sound, WillArm, At
      <4>2. QED
        BY <2>1, <2>2, <3>1, <4>1
    <3>5. QED
      BY <3>3, <3>4
  <2>7. CASE Test(t)
    <3> DEFINE f == IF IsFirst(thr[t].msg) THEN [thr[t] EXCEPT !.pc = "arm"] ELSE Idle
    <3>1. thr' = [thr EXCEPT ![t] = f] /\ At(t, "test") /\ Whole
          /\ UNCHANGED <<head, alarm, handler, stalled>>
      BY <2>7 DEF Test, list, history
    <3>2. IsFirst(thr[t].msg) => f.pc = "arm"
      BY <1>1 DEF Call
    <3> HIDE DEF f
    <3>3. CASE IsFirst(thr[t].msg)
      <4>1. thr'[t].pc = "arm"
        BY <2>2, <3>1, <3>2, <3>3
      <4>2. WillArm(t)'
        BY <4>1 DEF WillArm, At
      <4>3. QED
        BY <4>2
    <3>4. CASE ~IsFirst(thr[t].msg)
      <4>1. ~WillArm(t)
        BY <3>1, <3>4 DEF WillArm, At
      <4>2. QED
        BY <1>2, <2>1, <2>2, <3>1, <4>1
    <3>5. QED
      BY <3>3, <3>4
  <2>8. CASE Arm(t)
    <3>1. SetAlarm(thr[t].delay) /\ thr[t].delay \in Nat
      BY <1>1, <2>8 DEF Arm, Call
    <3>2. alarm' # Off
      BY <1>1, <1>2, <3>1, AlarmFacts
    <3>3. QED
      BY <3>2
  <2>9. QED
    BY <1>7, <2>3, <2>4, <2>5, <2>6, <2>7, <2>8 DEF ThreadStep
<1>8. QED
  BY <1>4, <1>5, <1>6, <1>7 DEF Next

\* No lost wakeup, however the handler and the threads interleave: while something
\* is queued the alarm is set or somebody is about to set it, unless setitimer()
\* was given a zero, which disarms it (unicast.cc:191-199, 257, 285).
THEOREM AlarmIsKept == Spec => []WakeupKept
<1>1. Init => WakeupKept
  BY DEF Init, WakeupKept
<1>2. QED
  BY <1>1, Types, WakeupStep, PTL DEF Spec
-----------------------------------------------------------------------------
(* The nodes that are reached from a first node h along nx. *)

ClosedFrom(h, nx, S) == h \in S \cup {Null} /\ \A m \in S : nx[m] \in S \cup {Null}
Reached(h, nx) == {m \in Msg : \A S \in SUBSET Msg : ClosedFrom(h, nx, S) => m \in S}

\* The queue, before and after a step.
LEMMA QueueIsReached == Queue = Reached(head, next) /\ Queue' = Reached(head', next')
BY DEF Queue, Closed, Reached, ClosedFrom

\* What is reached is closed, and the least set that is.
LEMMA ReachedFacts ==
    ASSUME NEW h \in Msg \cup {Null}, NEW nx \in [Msg -> Msg \cup {Null}]
    PROVE  /\ Reached(h, nx) \in SUBSET Msg
           /\ ClosedFrom(h, nx, Reached(h, nx))
           /\ \A S \in SUBSET Msg : ClosedFrom(h, nx, S) => Reached(h, nx) \subseteq S
<1> DEFINE R == Reached(h, nx)
<1>1. R \in SUBSET Msg /\ \A S \in SUBSET Msg : ClosedFrom(h, nx, S) => R \subseteq S
  BY DEF Reached
<1>2. ASSUME NEW m \in Msg, \A S \in SUBSET Msg : ClosedFrom(h, nx, S) => m \in S
      PROVE  m \in R
  BY <1>2 DEF Reached
<1>3. h \in R \cup {Null}
  BY <1>2 DEF ClosedFrom
<1>4. ASSUME NEW m \in R, nx[m] # Null PROVE nx[m] \in R
  <2>1. m \in Msg /\ nx[m] \in Msg
    BY <1>1, <1>4
  <2>2. ASSUME NEW S \in SUBSET Msg, ClosedFrom(h, nx, S) PROVE nx[m] \in S
    BY <1>1, <1>4, <2>2 DEF ClosedFrom
  <2>3. QED
    BY <1>2, <2>1, <2>2
<1>5. ClosedFrom(h, nx, R)
  BY <1>3, <1>4 DEF ClosedFrom
<1>6. QED
  BY <1>1, <1>5

\* A node is put in front.
LEMMA ReachedFirst ==
    ASSUME NEW h \in Msg \cup {Null}, NEW nx \in [Msg -> Msg \cup {Null}],
           NEW m \in Msg, nx[m] = h
    PROVE  Reached(m, nx) = Reached(h, nx) \cup {m}
<1> DEFINE R == Reached(h, nx)
           Q == Reached(m, nx)
<1>1. /\ R \in SUBSET Msg /\ ClosedFrom(h, nx, R)
      /\ \A S \in SUBSET Msg : ClosedFrom(h, nx, S) => R \subseteq S
  BY ReachedFacts
<1>2. /\ Q \in SUBSET Msg /\ ClosedFrom(m, nx, Q)
      /\ \A S \in SUBSET Msg : ClosedFrom(m, nx, S) => Q \subseteq S
  BY ReachedFacts
<1> HIDE DEF R, Q
<1>3. Q \subseteq R \cup {m}
  <2>1. ClosedFrom(m, nx, R \cup {m})
    BY <1>1 DEF ClosedFrom
  <2>2. QED
    BY <1>1, <1>2, <2>1
<1>4. m \in Q
  BY <1>2 DEF ClosedFrom, Null, Msg
<1>5. R \subseteq Q
  <2>1. ClosedFrom(h, nx, Q)
    BY <1>2, <1>4 DEF ClosedFrom
  <2>2. QED
    BY <1>1, <1>2, <2>1
<1>6. QED
  BY <1>3, <1>4, <1>5 DEF R, Q

\* A node is put behind another one.
LEMMA ReachedBehind ==
    ASSUME NEW h \in Msg \cup {Null}, NEW nx \in [Msg -> Msg \cup {Null}],
           NEW p \in Reached(h, nx), NEW m \in Msg \ Reached(h, nx), nx[m] = nx[p],
           NEW ny \in [Msg -> Msg \cup {Null}], ny[p] = m,
           \A x \in Msg : x # p => ny[x] = nx[x]
    PROVE  Reached(h, ny) = Reached(h, nx) \cup {m}
<1> DEFINE R == Reached(h, nx)
           Q == Reached(h, ny)
<1>1. /\ R \in SUBSET Msg /\ ClosedFrom(h, nx, R)
      /\ \A S \in SUBSET Msg : ClosedFrom(h, nx, S) => R \subseteq S
  BY ReachedFacts
<1>2. /\ ny \in [Msg -> Msg \cup {Null}] /\ ny[p] = m
      /\ \A x \in Msg : x # p => ny[x] = nx[x]
  BY <1>1
<1>3. p \in R /\ m \notin R /\ p # m /\ m # Null
  BY DEF Null, Msg
<1>4. /\ Q \in SUBSET Msg /\ ClosedFrom(h, ny, Q)
      /\ \A S \in SUBSET Msg : ClosedFrom(h, ny, S) => Q \subseteq S
  BY <1>2, ReachedFacts
<1> HIDE DEF R, Q
<1>5. Q \subseteq R \cup {m}
  <2>1. ASSUME NEW x \in R \cup {m} PROVE ny[x] \in R \cup {m} \cup {Null}
    BY <1>1, <1>2, <1>3 DEF ClosedFrom
  <2>2. ClosedFrom(h, ny, R \cup {m})
    BY <1>1, <2>1 DEF ClosedFrom
  <2>3. QED
    BY <1>1, <1>4, <2>2
<1>6. R \subseteq Q
  <2>1. ASSUME NEW x \in Q PROVE nx[x] \in Q \cup {Null}
    <3>1. CASE x = p
      <4>1. m \in Q
        BY <1>2, <1>3, <1>4, <3>1 DEF ClosedFrom
      <4>2. nx[p] = ny[m]
        BY <1>2, <1>3
      <4>3. QED
        BY <1>4, <3>1, <4>1, <4>2 DEF ClosedFrom
    <3>2. CASE x # p
      BY <1>2, <1>4, <3>2 DEF ClosedFrom
    <3>3. QED
      BY <3>1, <3>2
  <2>2. ClosedFrom(h, nx, Q)
    BY <1>4, <2>1 DEF ClosedFrom
  <2>3. QED
    BY <1>1, <1>4, <2>2
<1>7. m \in Q
  BY <1>2, <1>3, <1>4, <1>6 DEF ClosedFrom
<1>8. QED
  BY <1>5, <1>6, <1>7 DEF R, Q

\* What a node that is not reached points to does not matter.
LEMMA ReachedSame ==
    ASSUME NEW h \in Msg \cup {Null}, NEW nx \in [Msg -> Msg \cup {Null}],
           NEW m \in Msg \ Reached(h, nx), NEW n \in Msg \cup {Null}
    PROVE  Reached(h, [nx EXCEPT ![m] = n]) = Reached(h, nx)
<1> DEFINE R == Reached(h, nx)
           ny == [nx EXCEPT ![m] = n]
           Q == Reached(h, ny)
<1>1. /\ R \in SUBSET Msg /\ ClosedFrom(h, nx, R)
      /\ \A S \in SUBSET Msg : ClosedFrom(h, nx, S) => R \subseteq S
  BY ReachedFacts
<1>2. ny \in [Msg -> Msg \cup {Null}] /\ \A x \in R : ny[x] = nx[x]
  BY <1>1
<1> HIDE DEF ny
<1>3. /\ Q \in SUBSET Msg /\ ClosedFrom(h, ny, Q)
      /\ \A S \in SUBSET Msg : ClosedFrom(h, ny, S) => Q \subseteq S
  BY <1>2, ReachedFacts
<1> HIDE DEF R, Q
<1>4. Q \subseteq R
  <2>1. ClosedFrom(h, ny, R)
    BY <1>1, <1>2 DEF ClosedFrom
  <2>2. QED
    BY <1>1, <1>3, <2>1
<1>5. R \subseteq Q
  <2>1. ClosedFrom(h, nx, Q \cap R)
    BY <1>1, <1>2, <1>3 DEF ClosedFrom
  <2>2. Q \cap R \in SUBSET Msg
    BY <1>1
  <2>3. R \subseteq Q \cap R
    BY <1>1, <2>1, <2>2
  <2>4. QED
    BY <2>3
<1>6. QED
  BY <1>4, <1>5 DEF R, Q, ny

\* The first node is taken out.
LEMMA ReachedRest ==
    ASSUME NEW h \in Msg, NEW nx \in [Msg -> Msg \cup {Null}],
           \A x \in Reached(h, nx) : nx[x] # h
    PROVE  Reached(nx[h], nx) = Reached(h, nx) \ {h}
<1> DEFINE R == Reached(h, nx)
           Q == Reached(nx[h], nx)
<1>1. /\ R \in SUBSET Msg /\ ClosedFrom(h, nx, R)
      /\ \A S \in SUBSET Msg : ClosedFrom(h, nx, S) => R \subseteq S
  BY ReachedFacts
<1>2. /\ Q \in SUBSET Msg /\ ClosedFrom(nx[h], nx, Q)
      /\ \A S \in SUBSET Msg : ClosedFrom(nx[h], nx, S) => Q \subseteq S
  BY ReachedFacts
<1>3. \A x \in R : nx[x] # h
  OBVIOUS
<1> HIDE DEF R, Q
<1>4. h \in R
  BY <1>1 DEF ClosedFrom, Null, Msg
<1>5. Q \subseteq R \ {h}
  <2>1. ClosedFrom(nx[h], nx, R \ {h})
    BY <1>1, <1>3, <1>4 DEF ClosedFrom
  <2>2. R \ {h} \in SUBSET Msg
    BY <1>1
  <2>3. QED
    BY <1>2, <2>1, <2>2
<1>6. R \subseteq Q \cup {h}
  <2>1. ClosedFrom(h, nx, Q \cup {h})
    BY <1>2 DEF ClosedFrom
  <2>2. QED
    BY <1>1, <1>2, <2>1
<1>7. QED
  BY <1>4, <1>5, <1>6 DEF R, Q
-----------------------------------------------------------------------------
(* The list. *)

\* The queue is closed, and it is what was stored and not taken off.
LEMMA ListFacts ==
    ASSUME TInv, ListInv, Whole
    PROVE  /\ Queue \in SUBSET Msg /\ Stored \in SUBSET Msg
           /\ Queue \subseteq Stored /\ Stored \subseteq used
           /\ head \in Queue \cup {Null}
           /\ \A m \in Queue : next[m] \in Queue \cup {Null}
           /\ \A m \in Stored : next[m] \in Stored \cup {Null}
           /\ Queue = Stored \ Gone /\ Gone \subseteq Stored /\ freed \subseteq Gone
           /\ InHand \subseteq Stored
           /\ Null \notin Stored
<1>1. /\ TypeOK /\ head \in Msg \cup {Null} /\ next \in [Msg -> Msg \cup {Null}]
      /\ used \subseteq Msg /\ (handler.pc = "pop" => head # Null)
  BY TypeParts DEF TInv
<1>2. Queue \in SUBSET Msg /\ ClosedFrom(head, next, Queue)
  BY <1>1, QueueIsReached, ReachedFacts
<1>3. /\ Queue = Stored \ Gone /\ Gone \subseteq Stored
      /\ \A m \in Stored : next[m] \in Stored \cup {Null}
      /\ handler.pc = "unlink" => handler.temp = head
  BY DEF ListInv, SentOnce
<1>4. Stored \subseteq used /\ freed \subseteq Gone
  BY DEF Stored, Gone
<1>5. head \in Queue \cup {Null} /\ \A m \in Queue : next[m] \in Queue \cup {Null}
  BY <1>2 DEF ClosedFrom
<1>6. InHand \subseteq Stored
  <2>1. handler.pc \in {"unlink", "free"} => handler.temp # Null
    BY <1>1, TypeParts
  <2>2. handler.pc = "free" => handler.temp \in Gone
    BY DEF Gone
  <2>3. QED
    BY <1>1, <1>3, <1>5, <2>1, <2>2 DEF InHand
<1>7. QED
  BY <1>1, <1>2, <1>3, <1>4, <1>5, <1>6 DEF Null, Msg

\* The datagram that t inserts, and its place.
LEMMA InsertFacts ==
    ASSUME TInv, ListInv, Whole, NEW t \in Thread, Inserting(t)
    PROVE  /\ thr[t].msg \in Loose /\ thr[t].msg \in Msg /\ thr[t].msg \in used
           /\ thr[t].msg \notin Stored /\ thr[t].msg # Null
           /\ thr[t].p = Head \/ thr[t].p \in Stored
           /\ thr[t].p # thr[t].msg
           /\ Head \notin freed
           /\ Cell(thr[t].p) \in Stored \cup {Null}
           /\ Placed(t)
<1>1. Busy(t) /\ thr[t].msg \in Loose
  BY DEF Inserting, Busy, At, Loose
<1>2. thr[t].msg \in used /\ thr[t].msg \in Msg /\ thr[t].msg # Null /\ thr[t].msg # Head
  BY <1>1, CallFacts DEF Null, Head, Msg
<1>3. /\ head \in Stored \cup {Null}
      /\ \A m \in Stored : next[m] \in Stored \cup {Null}
      /\ thr[t].msg \notin Stored
  BY <1>1, ListFacts DEF Stored
<1>4. Placed(t)
  BY DEF ListInv
<1>5. thr[t].p = Head \/ thr[t].p \in Stored
  BY <1>4 DEF Placed
<1>6. Head \notin freed
  BY TypeParts DEF TInv, Head, Msg
<1>7. Cell(thr[t].p) \in Stored \cup {Null}
  BY <1>3, <1>5 DEF Cell
<1>8. QED
  BY <1>1, <1>2, <1>3, <1>4, <1>5, <1>6, <1>7

\* What is off the list, or about to be, is due before a datagram that is being
\* inserted.
LEMMA DueFirst ==
    ASSUME TInv, ListInv, Whole, NEW t \in Thread, Inserting(t),
           NEW g \in Gone \cup InHand
    PROVE  at[g] < at[thr[t].msg]
<1>1. g \in Msg /\ at[g] <= now
  BY ListFacts DEF ListInv, SentOnce
<1>2. thr[t].msg \in Msg /\ now < at[thr[t].msg]
  BY InsertFacts DEF TInv, Clocks, Inserting, Busy, At
<1> DEFINE a == at[g]
           b == at[thr[t].msg]
<1>3. a \in Nat /\ b \in Nat /\ now \in Nat /\ a <= now /\ now < b
  BY <1>1, <1>2, TypeParts DEF TInv
<1> HIDE DEF a, b
<1>4. a < b
  BY <1>3
<1>5. QED
  BY <1>4 DEF a, b

\* Steps that touch neither the list nor the threads.
LEMMA ListStays ==
    ASSUME ListInv, Whole, UNCHANGED <<used, head, next, at, thr, skipped>>,
           freed \subseteq freed', Gone' = Gone, SentOnce'
    PROVE  ListInv'
<1>1. /\ Queue = Stored \ Gone /\ Gone \subseteq Stored /\ Chain
      /\ \A m \in Stored : next[m] \in Stored \cup {Null}
      /\ \A t \in Thread : Inserting(t) => Placed(t)
  BY DEF ListInv
<1>2. Queue' = Queue /\ Loose' = Loose
  BY DEF Queue, Closed, Loose, Inserting
<1>3. Stored' = Stored
  BY <1>2 DEF Stored
<1>4. Chain'
  BY <1>1, <1>2 DEF Chain
<1>5. \A t \in Thread : Inserting(t)' => Placed(t)'
  BY <1>1, <1>3 DEF Inserting, Placed, Cell
<1>6. QED
  BY <1>1, <1>2, <1>3, <1>4, <1>5 DEF ListInv

\* The place of u is the same when neither the cell nor the datagram changes, and
\* nobody comes back to the list.
LEMMA PlaceStays ==
    ASSUME NEW u \in Thread, Placed(u), thr'[u] = thr[u],
           at'[thr[u].msg] = at[thr[u].msg], thr[u].p # Head => at'[thr[u].p] = at[thr[u].p],
           Stored \subseteq Stored', skipped \subseteq skipped', freed \subseteq freed',
           Gone \subseteq Gone',
           thr[u].pc \in {"compare", "link", "store"} /\ thr[u].p \notin freed' =>
               /\ Cell(thr[u].p)' = Cell(thr[u].p)
               /\ Cell(thr[u].p) # Null => at'[Cell(thr[u].p)] = at[Cell(thr[u].p)]
               /\ next'[thr[u].msg] = next[thr[u].msg]
    PROVE  Placed(u)'
<1> DEFINE f == thr[u]
           n == Cell(thr[u].p)
           m == Cell(thr[u].p)'
<1>1. f.p # Head => f.p \in Stored' /\ (at'[f.p] < at'[f.msg] \/ f.msg \in skipped')
  BY DEF Placed
<1>2. ASSUME f.p \notin freed'
      PROVE  /\ f.pc = "compare" => f.n \in Gone' \cup {m, Null}
             /\ f.pc \in {"link", "store"} => m = Null \/ at'[f.msg] <= at'[m]
             /\ f.pc = "store" => next'[f.msg] = m
  <2>1. f.p \notin freed
    BY <1>2
  <2>2. /\ f.pc = "compare" => f.n \in Gone \cup {n, Null}
        /\ f.pc \in {"link", "store"} => n = Null \/ at[f.msg] <= at[n]
        /\ f.pc = "store" => next[f.msg] = n
    BY <2>1 DEF Placed
  <2>3. f.pc \in {"compare", "link", "store"} =>
            m = n /\ (n # Null => at'[n] = at[n]) /\ next'[f.msg] = next[f.msg]
    BY <1>2
  <2> HIDE DEF f, n, m
  <2>4. at'[f.msg] = at[f.msg]
    BY DEF f
  <2>5. QED
    BY <2>2, <2>3, <2>4
<1>3. f' = f
  OBVIOUS
<1>4. QED
  BY <1>1, <1>2, <1>3 DEF Placed

\* Steps of t that touch nothing but its own call.
LEMMA CallStays ==
    ASSUME TInv, ListInv, Whole, NEW t \in Thread, NEW f,
           thr' = [thr EXCEPT ![t] = f], skipped \subseteq skipped',
           UNCHANGED <<now, used, head, next, at, freed, sent, handler>>,
           Inserting(t) <=>
               f.pc \in {"walk", "load", "compare", "step", "link", "store"},
           Inserting(t) => f.msg = thr[t].msg /\ Placed(t)'
    PROVE  ListInv'
<1>1. /\ Queue = Stored \ Gone /\ Gone \subseteq Stored /\ Chain /\ SentOnce
      /\ \A m \in Stored : next[m] \in Stored \cup {Null}
      /\ \A u \in Thread : Inserting(u) => Placed(u)
  BY DEF ListInv
<1>2. thr'[t] = f /\ \A u \in Thread : u # t => thr'[u] = thr[u]
  BY TypeParts DEF TInv
<1>3. \A u \in Thread : /\ Inserting(u)' <=> Inserting(u)
                        /\ Inserting(u) => thr'[u].msg = thr[u].msg
  BY <1>2 DEF Inserting
<1>4. Loose' = Loose
  <2>1. Loose' = {thr'[u].msg : u \in {v \in Thread : Inserting(v)'}}
    BY DEF Loose
  <2>2. {v \in Thread : Inserting(v)'} = {v \in Thread : Inserting(v)}
    BY <1>3
  <2>3. QED
    BY <1>3, <2>1, <2>2 DEF Loose
<1>5. Queue' = Queue /\ Stored' = Stored /\ Gone' = Gone /\ InHand' = InHand
  BY <1>4 DEF Queue, Closed, Stored, Gone, InHand
<1>6. Chain' /\ SentOnce'
  BY <1>1, <1>5 DEF Chain, SentOnce
<1>7. ASSUME NEW u \in Thread, Inserting(u)' PROVE Placed(u)'
  <2>1. CASE u = t
    BY <1>3, <1>7, <2>1
  <2>2. CASE u # t
    <3>1. Placed(u) /\ thr'[u] = thr[u]
      BY <1>1, <1>2, <1>3, <1>7, <2>2
    <3>2. Cell(thr[u].p)' = Cell(thr[u].p)
      BY <3>1 DEF Cell
    <3>3. QED
      BY <1>5, <3>1, <3>2, PlaceStays
  <2>3. QED
    BY <2>1, <2>2
<1>8. QED
  BY <1>1, <1>5, <1>6, <1>7 DEF ListInv
\* A step of the loop of insert_message(): t is still at a place that fits.
LEMMA WalkOn ==
    ASSUME TInv, ListInv, Whole, NEW t \in Thread, Inserting(t), NEW f,
           thr' = [thr EXCEPT ![t] = f], skipped \subseteq skipped',
           UNCHANGED <<now, used, head, next, at, freed, sent, handler>>,
           f.pc \in {"walk", "load", "compare", "step", "link"}, f.msg = thr[t].msg,
           f.p # Head => f.p \in Stored /\ (at[f.p] < at[f.msg] \/ f.msg \in skipped'),
           f.p \notin freed =>
               /\ f.pc = "compare" => f.n \in Gone \cup {Cell(f.p), Null}
               /\ f.pc = "link" => Cell(f.p) = Null \/ at[f.msg] <= at[Cell(f.p)]
    PROVE  ListInv'
<1>1. thr'[t] = f /\ \A u \in Thread : u # t => thr'[u] = thr[u]
  BY TypeParts DEF TInv
<1>2. Stored' = Stored /\ Gone' = Gone
  <2>1. \A u \in Thread : /\ Inserting(u)' <=> Inserting(u)
                          /\ thr'[u].msg = thr[u].msg
    BY <1>1 DEF Inserting
  <2>2. Loose' = Loose
    BY <2>1 DEF Loose
  <2>3. QED
    BY <2>2 DEF Stored, Gone
<1>3. Placed(t)'
  <2> DEFINE n == Cell(f.p)
  <2>1. n = IF f.p = Head THEN head ELSE next[f.p]
    BY DEF Cell
  <2>2. Cell(thr[t].p)' = n
    BY <1>1, <2>1 DEF Cell
  <2> HIDE DEF n
  <2>3. f.p \notin freed => /\ f.pc = "compare" => f.n \in Gone \cup {n, Null}
                            /\ f.pc = "link" => n = Null \/ at[f.msg] <= at[n]
    BY DEF n
  <2>4. QED
    BY <1>1, <1>2, <2>2, <2>3 DEF Placed
<1>4. QED
  BY <1>1, <1>3, CallStays DEF Inserting

\* while (*p && ...: the list may end here.
LEMMA WalkList == ASSUME TInv, ListInv, NEW t \in Thread, Walk(t) PROVE ListInv'
<1> DEFINE n == Cell(thr[t].p)
           pc == IF n = Null THEN "link" ELSE "load"
           f == [thr[t] EXCEPT !.pc = pc]
<1>1. thr[t] \in Call /\ thr \in [Thread -> Call]
  BY TypeParts DEF TInv
<1>2. /\ thr[t].pc = "walk" /\ Whole /\ skipped \subseteq skipped'
      /\ UNCHANGED <<now, used, head, next, at, freed, sent, handler>>
  BY SoundFacts DEF Walk, list, history
<1>3. Inserting(t) /\ Placed(t)
  BY <1>2, InsertFacts DEF Inserting
<1>4. thr' = [thr EXCEPT ![t] = f]
  BY <1>1 DEF Walk
<1>5. pc \in {"link", "load"} /\ (pc = "link" => n = Null)
  OBVIOUS
<1> HIDE DEF pc
<1>6. f.pc = pc /\ f.msg = thr[t].msg /\ f.p = thr[t].p
  BY <1>1 DEF Call
<1> HIDE DEF f
<1>7. f.p # Head => f.p \in Stored /\ (at[f.p] < at[f.msg] \/ f.msg \in skipped')
  BY <1>2, <1>3, <1>6 DEF Placed
<1>8. f.pc = "link" => Cell(f.p) = Null
  BY <1>5, <1>6
<1>9. f.pc \in {"walk", "load", "compare", "step", "link"} /\ f.pc # "compare"
  BY <1>5, <1>6
<1>10. QED
  BY <1>2, <1>3, <1>4, <1>6, <1>7, <1>8, <1>9, WalkOn

\* *p is loaded again.
LEMMA LoadList == ASSUME TInv, ListInv, NEW t \in Thread, Load(t) PROVE ListInv'
<1> DEFINE n == Cell(thr[t].p)
           f == [thr[t] EXCEPT !.pc = "compare", !.n = n]
<1>1. thr[t] \in Call /\ thr \in [Thread -> Call]
  BY TypeParts DEF TInv
<1>2. /\ thr[t].pc = "load" /\ Whole /\ skipped \subseteq skipped'
      /\ UNCHANGED <<now, used, head, next, at, freed, sent, handler>>
  BY SoundFacts DEF Load, list, history
<1>3. Inserting(t) /\ Placed(t)
  BY <1>2, InsertFacts DEF Inserting
<1>4. thr' = [thr EXCEPT ![t] = f]
  BY <1>1 DEF Load
<1>5. f.pc = "compare" /\ f.msg = thr[t].msg /\ f.p = thr[t].p /\ f.n = Cell(thr[t].p)
  BY <1>1 DEF Call
<1> HIDE DEF f
<1>6. f.p # Head => f.p \in Stored /\ (at[f.p] < at[f.msg] \/ f.msg \in skipped')
  BY <1>2, <1>3, <1>5 DEF Placed
<1>7. f.n \in Gone \cup {Cell(f.p), Null}
  BY <1>5
<1>8. QED
  BY <1>2, <1>3, <1>4, <1>5, <1>6, <1>7, WalkOn

\* The node that was loaded is compared.  It is still the next one, or has gone and
\* was due: in the latter case it is earlier.
LEMMA CompareList == ASSUME TInv, ListInv, NEW t \in Thread, Compare(t) PROVE ListInv'
<1> DEFINE n == thr[t].n
           m == thr[t].msg
           pc == IF Before(n, m) THEN "step" ELSE "link"
           f == [thr[t] EXCEPT !.n = Null, !.pc = pc]
<1>1. thr[t] \in Call /\ thr \in [Thread -> Call] /\ at \in [Msg -> Nat]
      /\ n \in Msg \cup {Null}
  BY TypeParts DEF TInv, Call
<1>2. /\ thr[t].pc = "compare" /\ Whole /\ skipped \subseteq skipped'
      /\ UNCHANGED <<now, used, head, next, at, freed, sent, handler>>
      /\ ~Undefined(t)
  BY SoundFacts DEF Compare, list, history
<1>3. Inserting(t) /\ Placed(t) /\ m \in Msg
  BY <1>2, InsertFacts DEF Inserting
<1>4. n \in Msg
  BY <1>1, <1>2 DEF Undefined
<1>5. thr' = [thr EXCEPT ![t] = f]
  BY <1>1 DEF Compare
<1>6. pc \in {"link", "step"} /\ (pc = "link" => ~(at[n] < at[m]))
  BY DEF Before
<1>7. ~(at[n] < at[m]) => at[m] <= at[n]
  <2> DEFINE a == at[n]
             b == at[m]
  <2>1. a \in Nat /\ b \in Nat
    BY <1>1, <1>3, <1>4
  <2> HIDE DEF a, b
  <2>2. ~(a < b) => b <= a
    BY <2>1
  <2>3. QED
    BY <2>2 DEF a, b
<1>8. ~(at[n] < at[m]) => n \notin Gone
  BY <1>2, <1>3, DueFirst
<1> HIDE DEF pc
<1>9. f.pc = pc /\ f.msg = m /\ f.p = thr[t].p
  BY <1>1 DEF Call
<1> HIDE DEF f
<1>10. f.p # Head => f.p \in Stored /\ (at[f.p] < at[f.msg] \/ f.msg \in skipped')
  BY <1>2, <1>3, <1>9 DEF Placed
<1>11. ASSUME f.p \notin freed, f.pc = "link" PROVE at[f.msg] <= at[Cell(f.p)]
  <2>1. n \in Gone \cup {Cell(thr[t].p), Null}
    BY <1>2, <1>3, <1>9, <1>11 DEF Placed
  <2>2. n = Cell(f.p)
    BY <1>4, <1>6, <1>8, <1>9, <1>11, <2>1 DEF Null, Msg
  <2>3. QED
    BY <1>6, <1>7, <1>9, <1>11, <2>2
<1>12. f.pc \in {"walk", "load", "compare", "step", "link"} /\ f.pc # "compare"
  BY <1>6, <1>9
<1>13. QED
  BY <1>2, <1>3, <1>5, <1>9, <1>10, <1>11, <1>12, WalkOn

\* p = &(*p)->next: the node t steps over was compared, or t is noted as skipped.
LEMMA StepList == ASSUME TInv, ListInv, NEW t \in Thread, Step(t) PROVE ListInv'
<1> DEFINE n == Cell(thr[t].p)
           m == thr[t].msg
           f == [thr[t] EXCEPT !.pc = "walk", !.p = n]
<1>1. thr[t] \in Call /\ thr \in [Thread -> Call]
  BY TypeParts DEF TInv
<1>2. /\ thr[t].pc = "step" /\ Whole /\ ~Undefined(t)
      /\ UNCHANGED <<now, used, head, next, at, freed, sent, handler>>
      /\ skipped' = IF Before(n, m) THEN skipped ELSE skipped \cup {m}
  BY SoundFacts DEF Step, list
<1>3. Inserting(t) /\ n \in Stored \cup {Null}
  BY <1>2, InsertFacts DEF Inserting
<1>4. n \in Stored
  BY <1>2, <1>3 DEF Undefined
<1>5. at[n] < at[m] \/ m \in skipped'
  BY <1>2 DEF Before
<1>6. thr' = [thr EXCEPT ![t] = f]
  BY <1>1 DEF Step
<1>7. skipped \subseteq skipped'
  BY <1>2
<1> HIDE DEF n
<1>8. f.pc = "walk" /\ f.msg = m /\ f.p = n
  BY <1>1 DEF Call
<1> HIDE DEF f
<1>9. QED
  BY <1>2, <1>3, <1>4, <1>5, <1>6, <1>7, <1>8, WalkOn
\* usend() begins: the new node is nobody's yet.
LEMMA UsendList == ASSUME TInv, ListInv, Whole, NEW t \in Thread, Usend(t) PROVE ListInv'
<1>1. PICK m \in Msg \ used, d \in Delay :
          /\ used' = used \cup {m} /\ d \in Nat /\ Numbered'
          /\ at' = [at EXCEPT ![m] = Floor(now) + d]
          /\ thr' = [thr EXCEPT ![t] =
                 [Idle EXCEPT !.pc = "walk", !.msg = m, !.delay = d]]
          /\ Floor(now) + d \in Nat /\ now < Floor(now) + d
  BY UsendFacts
<1> DEFINE f == [Idle EXCEPT !.pc = "walk", !.msg = m, !.delay = d]
<1>2. UNCHANGED <<now, head, next, freed, handler, sent, skipped>> /\ ~Busy(t)
  BY DEF Usend, list, history
<1>3. f.pc = "walk" /\ f.msg = m /\ f.p = Head
  BY DEF Idle
<1>4. thr' = [thr EXCEPT ![t] = f]
  BY <1>1
<1> HIDE DEF f
<1>5. thr'[t] = f /\ \A u \in Thread : u # t => thr'[u] = thr[u]
  BY <1>4, TypeParts DEF TInv
<1>6. \A x \in Msg : x # m => at'[x] = at[x]
  BY <1>1, TypeParts DEF TInv
<1>7. Queue' = Queue /\ Gone' = Gone /\ InHand' = InHand
  BY <1>2 DEF Queue, Closed, Gone, InHand
<1>8. /\ Queue \in SUBSET Msg /\ Stored \in SUBSET Msg /\ Stored \subseteq used
      /\ Queue \subseteq Stored
      /\ \A x \in Queue : next[x] \in Queue \cup {Null}
      /\ \A x \in Stored : next[x] \in Stored \cup {Null}
      /\ Queue = Stored \ Gone /\ Gone \subseteq Stored /\ InHand \subseteq Stored
  BY ListFacts
<1>9. Chain /\ SentOnce
  BY DEF ListInv
<1>10. ~Inserting(t)
  BY <1>2 DEF Inserting, Busy, At
<1>11. Loose' = Loose \cup {m}
  <2>1. \A u \in Thread : Inserting(u)' <=> (u = t \/ Inserting(u))
    BY <1>3, <1>5 DEF Inserting
  <2>2. \A u \in Thread : Inserting(u) => thr'[u] = thr[u]
    BY <1>5, <1>10
  <2>3. thr'[t].msg = m
    BY <1>3, <1>5
  <2>4. ASSUME NEW x \in Loose' PROVE x \in Loose \cup {m}
    BY <2>1, <2>2, <2>3 DEF Loose
  <2>5. ASSUME NEW x \in Loose PROVE x \in Loose'
    BY <2>1, <2>2 DEF Loose
  <2>6. m \in Loose'
    BY <2>1, <2>3 DEF Loose
  <2>7. QED
    BY <2>4, <2>5, <2>6
<1>12. Stored' = Stored
  BY <1>1, <1>11 DEF Stored
<1>13. \A x \in Stored : at'[x] = at[x]
  BY <1>1, <1>6, <1>8
<1>14. Chain'
  <2>1. \A x \in Queue : at'[x] = at[x] /\ (next[x] # Null => at'[next[x]] = at[next[x]])
    BY <1>8, <1>13
  <2>2. QED
    BY <1>2, <1>7, <1>9, <2>1 DEF Chain
<1>15. SentOnce'
  <2>1. \A x \in Gone \cup InHand : at'[x] = at[x]
    BY <1>8, <1>13
  <2>2. \A x \in Gone \cup InHand : at'[x] <= now
    BY <1>9, <2>1 DEF SentOnce
  <2>3. QED
    BY <1>2, <1>7, <1>9, <2>2 DEF SentOnce
<1>16. ASSUME NEW u \in Thread, Inserting(u)' PROVE Placed(u)'
  <2>1. CASE u = t
    <3>1. thr'[u].pc = "walk" /\ thr'[u].p = Head
      BY <1>3, <1>5, <2>1
    <3>2. QED
      BY <3>1 DEF Placed
  <2>2. CASE u # t
    <3>1. Inserting(u) /\ thr'[u] = thr[u]
      BY <1>5, <1>16, <2>2 DEF Inserting
    <3>2. /\ Placed(u) /\ thr[u].msg \in used /\ thr[u].msg \in Msg
          /\ thr[u].p = Head \/ thr[u].p \in Stored
          /\ Cell(thr[u].p) \in Stored \cup {Null}
      BY <3>1, InsertFacts
    <3>3. at'[thr[u].msg] = at[thr[u].msg]
      BY <1>1, <1>6, <3>2
    <3>4. thr[u].p # Head => at'[thr[u].p] = at[thr[u].p]
      BY <1>13, <3>2
    <3>5. /\ Cell(thr[u].p)' = Cell(thr[u].p)
          /\ Cell(thr[u].p) # Null => at'[Cell(thr[u].p)] = at[Cell(thr[u].p)]
      BY <1>2, <1>13, <3>1, <3>2 DEF Cell
    <3>6. QED
      BY <1>2, <1>7, <1>12, <3>1, <3>2, <3>3, <3>4, <3>5, PlaceStays
  <2>3. QED
    BY <2>1, <2>2
<1>17. QED
  BY <1>2, <1>7, <1>8, <1>12, <1>14, <1>15, <1>16 DEF ListInv

\* newmsg->next = *p: the node is not reached yet.
LEMMA LinkList == ASSUME TInv, ListInv, NEW t \in Thread, Link(t) PROVE ListInv'
<1> DEFINE m == thr[t].msg
           p == thr[t].p
           n == Cell(p)
           f == [thr[t] EXCEPT !.pc = "store"]
<1>1. /\ thr[t] \in Call /\ thr \in [Thread -> Call]
      /\ next \in [Msg -> Msg \cup {Null}] /\ head \in Msg \cup {Null}
      /\ \A u \in Thread : \A v \in Thread : Busy(u) /\ thr[u].msg = thr[v].msg => u = v
  BY TypeParts DEF TInv, Owned
<1>2. /\ thr[t].pc = "link" /\ Whole /\ ~Undefined(t)
      /\ UNCHANGED <<now, used, head, at, freed, sent, handler, skipped>>
      /\ next' = [next EXCEPT ![m] = n]
  BY SoundFacts DEF Link, history
<1>3. p \notin freed
  BY <1>2 DEF Undefined
<1>4. thr' = [thr EXCEPT ![t] = f]
  BY <1>1 DEF Link
<1>5. Inserting(t)
  BY <1>2 DEF Inserting
<1>6. /\ n \in Stored \cup {Null} /\ Placed(t) /\ m \in Msg /\ p # m
      /\ m \notin Stored
      /\ Queue \in SUBSET Msg /\ Queue \subseteq Stored /\ Stored \in SUBSET Msg
      /\ Queue = Stored \ Gone /\ Gone \subseteq Stored /\ InHand \subseteq Stored
      /\ \A x \in Queue : next[x] \in Queue \cup {Null}
      /\ \A x \in Stored : next[x] \in Stored \cup {Null}
  BY <1>2, <1>5, InsertFacts, ListFacts
<1>7. f.msg = m /\ f.pc = "store" /\ f.p = p
  BY <1>1 DEF Call
<1>8. n = Null \/ at[m] <= at[n]
  BY <1>2, <1>3, <1>6 DEF Placed
<1> HIDE DEF f, n
<1>9. thr'[t] = f /\ \A u \in Thread : u # t => thr'[u] = thr[u]
  BY <1>1, <1>4
<1>10. Loose' = Loose
  <2>1. \A u \in Thread : /\ Inserting(u)' <=> Inserting(u)
                          /\ thr'[u].msg = thr[u].msg
    BY <1>5, <1>7, <1>9 DEF Inserting
  <2>2. QED
    BY <2>1 DEF Loose
<1>11. Stored' = Stored /\ Gone' = Gone /\ InHand' = InHand
  BY <1>2, <1>10 DEF Stored, Gone, InHand
<1>12. Queue' = Queue
  <2>1. m \in Msg \ Reached(head, next) /\ n \in Msg \cup {Null}
    BY <1>6, QueueIsReached
  <2>2. Reached(head, [next EXCEPT ![m] = n]) = Reached(head, next)
    BY <1>1, <2>1, ReachedSame
  <2>3. QED
    BY <1>2, <2>2, QueueIsReached
<1>13. next'[m] = n /\ \A x \in Msg : x # m => next'[x] = next[x]
  BY <1>1, <1>2, <1>6
<1>14. Chain /\ SentOnce
  BY <1>2 DEF ListInv
<1>15. \A x \in Stored : next'[x] = next[x]
  BY <1>6, <1>13
<1>16. Chain'
  BY <1>2, <1>6, <1>12, <1>14, <1>15 DEF Chain
<1>17. SentOnce'
  <2>1. handler.pc = "unlink" => next'[head] = next[head]
    BY <1>6, <1>14, <1>15 DEF SentOnce, InHand
  <2>2. QED
    BY <1>2, <1>11, <1>14, <2>1 DEF SentOnce
<1>18. ASSUME NEW u \in Thread, Inserting(u)' PROVE Placed(u)'
  <2>1. CASE u = t
    <3>1. Cell(p)' = n
      <4>1. thr'[t].p = p /\ p \in Msg \cup {Head}
        BY <1>1, <1>7, <1>9 DEF Call
      <4>2. QED
        BY <1>2, <1>6, <1>13, <4>1 DEF Cell, n
    <3>2. QED
      BY <1>2, <1>6, <1>7, <1>8, <1>9, <1>11, <1>13, <2>1, <3>1 DEF Placed
  <2>2. CASE u # t
    <3>1. Inserting(u) /\ thr'[u] = thr[u] /\ Busy(u) /\ Busy(t)
      BY <1>2, <1>9, <1>18, <2>2 DEF Inserting, Busy, At
    <3>2. /\ Placed(u) /\ thr[u].msg \in Msg /\ thr[u].msg # m
          /\ thr[u].p = Head \/ thr[u].p \in Stored
      BY <1>1, <1>2, <2>2, <3>1, InsertFacts
    <3>3. next'[thr[u].msg] = next[thr[u].msg]
      BY <1>13, <3>2
    <3>4. Cell(thr[u].p)' = Cell(thr[u].p)
      BY <1>2, <1>15, <3>1, <3>2 DEF Cell
    <3>5. QED
      BY <1>2, <1>11, <3>1, <3>2, <3>3, <3>4, PlaceStays
  <2>3. QED
    BY <2>1, <2>2
<1>19. QED
  BY <1>2, <1>6, <1>11, <1>12, <1>15, <1>16, <1>17, <1>18 DEF ListInv
\* *p = newmsg: the node takes its place.  Unless another thread, or the handler,
\* is at the same place, the others keep theirs; and the handler is not about to
\* take the first node off when one is put before it, since that one is not due.
LEMMA StoreList ==
    ASSUME TInv, ListInv, Whole', NEW t \in Thread, Store(t)
    PROVE  ListInv'
<1> DEFINE m == thr[t].msg
           p == thr[t].p
           n == Cell(p)
           f == [thr[t] EXCEPT !.pc = "test"]
<1>1. /\ thr[t] \in Call /\ thr \in [Thread -> Call]
      /\ at \in [Msg -> Nat] /\ next \in [Msg -> Msg \cup {Null}] /\ head \in Msg \cup {Null}
      /\ \A u \in Thread : \A v \in Thread : Busy(u) /\ thr[u].msg = thr[v].msg => u = v
  BY TypeParts DEF TInv, Owned
<1>2. /\ thr[t].pc = "store" /\ Whole /\ ~Undefined(t) /\ Busy(t)
      /\ UNCHANGED <<now, used, at, freed, sent, handler, skipped>>
  BY SoundFacts DEF Store
<1>3. p \notin freed
  BY <1>2 DEF Undefined
<1>4. thr' = [thr EXCEPT ![t] = f]
  BY <1>1 DEF Store
<1>5. Inserting(t)
  BY <1>2 DEF Inserting
<1>6. ~Contended(t, p)
  BY DEF Store, Whole
<1>7. /\ \A u \in Thread \ {t} :
             thr[u].pc \in {"compare", "link", "store"} => thr[u].p # p
      /\ handler.pc \in {"unlink", "free"} => p # handler.temp
  BY <1>6 DEF Contended
<1>8. /\ n \in Stored \cup {Null} /\ Placed(t) /\ m \in Msg /\ m \notin Stored /\ p # m
      /\ m \in Loose /\ m \in used /\ m # Null
      /\ p = Head \/ p \in Stored
      /\ head \in Queue \cup {Null} /\ Null \notin Stored
      /\ Queue \in SUBSET Msg /\ Queue \subseteq Stored /\ Stored \in SUBSET Msg
      /\ Queue = Stored \ Gone /\ Gone \subseteq Stored /\ InHand \subseteq Stored
      /\ \A x \in Queue : next[x] \in Queue \cup {Null}
      /\ \A x \in Stored : next[x] \in Stored \cup {Null}
  BY <1>2, <1>5, InsertFacts, ListFacts
<1>9. p # Head => p \in Queue
  BY <1>3, <1>7, <1>8 DEF Gone
<1>10. f.msg = m /\ f.pc = "test"
  BY <1>1 DEF Call
<1>11. /\ next[m] = n /\ (n = Null \/ at[m] <= at[n])
       /\ p # Head => at[p] < at[m] \/ m \in skipped
  BY <1>2, <1>3, <1>8 DEF Placed
<1>12. IF p = Head THEN head' = m /\ next' = next
       ELSE next' = [next EXCEPT ![p] = m] /\ head' = head
  BY DEF Store
<1>13. (p = Head => n = head) /\ (p # Head => n = next[p])
  BY DEF Cell
<1> HIDE DEF f, n
<1>14. thr'[t] = f /\ \A u \in Thread : u # t => thr'[u] = thr[u]
  BY <1>1, <1>4
<1>15. Loose' = Loose \ {m}
  <2>1. \A u \in Thread : Inserting(u)' <=> (u # t /\ Inserting(u))
    BY <1>10, <1>14 DEF Inserting
  <2>2. \A u \in Thread : Inserting(u) /\ u # t => thr[u].msg # m
    BY <1>1, <1>2
  <2>3. ASSUME NEW x \in Loose' PROVE x \in Loose \ {m}
    <3>1. PICK u \in Thread : Inserting(u)' /\ x = thr'[u].msg
      BY DEF Loose
    <3>2. Inserting(u) /\ u # t /\ x = thr[u].msg
      BY <1>14, <2>1, <3>1
    <3>3. QED
      BY <2>2, <3>2 DEF Loose
  <2>4. ASSUME NEW x \in Loose, x # m PROVE x \in Loose'
    <3>1. PICK u \in Thread : Inserting(u) /\ x = thr[u].msg
      BY DEF Loose
    <3>2. u # t
      BY <2>4, <3>1
    <3>3. Inserting(u)' /\ x = thr'[u].msg
      BY <1>14, <2>1, <3>1, <3>2
    <3>4. QED
      BY <3>3 DEF Loose
  <2>5. QED
    BY <2>3, <2>4
<1>16. Stored' = Stored \cup {m} /\ Gone' = Gone
  BY <1>2, <1>8, <1>15 DEF Stored, Gone
<1>17. Queue' = Queue \cup {m}
  <2>1. Queue = Reached(head, next) /\ Queue' = Reached(head', next')
    BY QueueIsReached
  <2>2. CASE p = Head
    <3>1. next[m] = head
      BY <1>11, <1>13, <2>2
    <3>2. Reached(m, next) = Reached(head, next) \cup {m}
      BY <1>1, <1>8, <3>1, ReachedFirst
    <3>3. QED
      BY <1>12, <2>1, <2>2, <3>2
  <2>3. CASE p # Head
    <3>1. next[m] = next[p] /\ p \in Reached(head, next) /\ m \in Msg \ Reached(head, next)
      BY <1>8, <1>9, <1>11, <1>13, <2>1, <2>3
    <3>2. /\ head \in Msg \cup {Null} /\ next \in [Msg -> Msg \cup {Null}]
          /\ next' \in [Msg -> Msg \cup {Null}] /\ next'[p] = m
          /\ \A x \in Msg : x # p => next'[x] = next[x]
      BY <1>1, <1>8, <1>9, <1>12, <2>3
    <3>3. Reached(head, next') = Reached(head, next) \cup {m}
      BY <3>1, <3>2, ReachedBehind
    <3>4. QED
      BY <1>12, <2>1, <2>3, <3>3
  <2>4. QED
    BY <2>2, <2>3
<1>18. Chain /\ SentOnce
  BY <1>2 DEF ListInv
<1>19. \A x \in Queue : next[x] # Null =>
           /\ next[x] # head /\ (at[x] <= at[next[x]] \/ next[x] \in skipped)
           /\ \A y \in Queue : next[y] = next[x] => y = x
  BY <1>18 DEF Chain
<1>20. Chain'
  <2>1. SUFFICES ASSUME NEW x \in Queue \cup {m}, next'[x] # Null
                 PROVE  /\ next'[x] # head'
                        /\ at[x] <= at[next'[x]] \/ next'[x] \in skipped
                        /\ \A y \in Queue \cup {m} : next'[y] = next'[x] => y = x
    BY <1>2, <1>17 DEF Chain
  <2>2. CASE p = Head
    <3>1. head' = m /\ next' = next /\ next[m] = head
      BY <1>11, <1>12, <1>13, <2>2
    <3>2. CASE x = m
      <4>1. \A y \in Queue : next[y] # head \/ head = Null
        BY <1>19
      <4>2. QED
        BY <1>8, <1>11, <1>13, <2>1, <2>2, <3>1, <3>2, <4>1
    <3>3. CASE x \in Queue
      BY <1>8, <1>19, <2>1, <3>1, <3>3
    <3>4. QED
      BY <3>2, <3>3
  <2>3. CASE p # Head
    <3>1. /\ head' = head /\ p \in Queue /\ next'[p] = m /\ next[p] = n /\ next[m] = n
          /\ \A y \in Msg : y # p => next'[y] = next[y]
      BY <1>1, <1>8, <1>9, <1>11, <1>12, <1>13, <2>3
    <3>2. next'[m] = n
      BY <1>8, <3>1
    <3>3. CASE x = m
      <4>1. n # head /\ at[m] <= at[n]
        BY <1>11, <1>19, <2>1, <3>1, <3>2, <3>3
      <4>2. ASSUME NEW y \in Queue, next'[y] = n PROVE FALSE
        <5>1. y # p
          BY <1>8, <3>1, <4>2
        <5>2. next[y] = n
          BY <1>8, <3>1, <4>2, <5>1
        <5>3. QED
          BY <1>19, <2>1, <3>1, <3>2, <3>3, <5>1, <5>2
      <4>3. QED
        BY <3>1, <3>2, <3>3, <4>1, <4>2
    <3>4. CASE x = p
      <4>1. m # head /\ (at[p] <= at[m] \/ m \in skipped)
        <5>1. p \in Msg
          BY <1>8, <3>1
        <5>2. at[p] < at[m] => at[p] <= at[m]
          BY <1>1, <1>8, <5>1
        <5>3. QED
          BY <1>8, <1>11, <2>3, <5>2
      <4>2. ASSUME NEW y \in Queue \cup {m}, next'[y] = m, y # p PROVE FALSE
        <5>1. next'[y] \in Stored \cup {Null}
          BY <1>8, <3>1, <3>2, <4>2
        <5>2. QED
          BY <1>8, <4>2, <5>1
      <4>3. QED
        BY <3>1, <3>4, <4>1, <4>2
    <3>5. CASE x \in Queue /\ x # p
      <4>1. next'[x] = next[x] /\ next[x] \in Queue
        BY <1>8, <2>1, <3>1, <3>5
      <4>2. ASSUME NEW y \in Queue \cup {m}, next'[y] = next[x] PROVE y = x
        <5>1. CASE y = m
          <6>1. next[p] = next[x]
            BY <3>1, <3>2, <4>2, <5>1
          <6>2. QED
            BY <1>19, <2>1, <3>1, <3>5, <4>1, <6>1
        <5>2. CASE y = p
          BY <1>8, <3>1, <4>1, <4>2, <5>2
        <5>3. CASE y \in Queue /\ y # p
          <6>1. next[y] = next[x]
            BY <1>8, <3>1, <4>2, <5>3
          <6>2. QED
            BY <1>19, <2>1, <3>5, <4>1, <5>3, <6>1
        <5>4. QED
          BY <5>1, <5>2, <5>3
      <4>3. QED
        BY <1>19, <2>1, <3>1, <3>5, <4>1, <4>2
    <3>6. QED
      BY <3>3, <3>4, <3>5
  <2>4. QED
    BY <2>2, <2>3
<1>21. handler.pc \in {"pop", "unlink"} => head' = head
  <2>1. SUFFICES ASSUME handler.pc \in {"pop", "unlink"}, p = Head PROVE FALSE
    BY <1>12
  <2>2. head \in InHand
    BY <1>18, <2>1 DEF SentOnce, InHand
  <2>3. at[head] < at[m]
    BY <1>2, <1>5, <2>2, DueFirst
  <2>4. head # Null /\ at[m] <= at[head]
    BY <1>8, <1>11, <1>13, <2>1, <2>2
  <2> DEFINE a == at[m]
             b == at[head]
  <2>5. a \in Nat /\ b \in Nat /\ b < a /\ a <= b
    BY <1>1, <1>8, <2>3, <2>4
  <2> HIDE DEF a, b
  <2>6. QED
    BY <2>5
<1>22. SentOnce'
  <2>1. InHand' = InHand
    BY <1>2, <1>21 DEF InHand
  <2>2. ASSUME handler.pc = "unlink"
        PROVE  handler.temp = head' /\ handler.n = next'[head']
    <3>1. handler.temp = head /\ handler.n = next[head] /\ head' = head
      BY <1>18, <1>21, <2>2 DEF SentOnce
    <3>2. p # head /\ head \in Msg
      BY <1>7, <1>8, <2>2, <3>1 DEF InHand
    <3>3. next'[head] = next[head]
      BY <1>1, <1>12, <3>2
    <3>4. QED
      BY <3>1, <3>3
  <2>3. QED
    BY <1>2, <1>16, <1>18, <2>1, <2>2 DEF SentOnce
<1>23. ASSUME NEW u \in Thread, Inserting(u)' PROVE Placed(u)'
  <2>1. u # t
    BY <1>10, <1>14, <1>23 DEF Inserting
  <2>2. Inserting(u) /\ thr'[u] = thr[u]
    BY <1>14, <1>23, <2>1 DEF Inserting
  <2>3. Placed(u) /\ thr[u].msg \in Msg /\ thr[u].msg \notin Stored
        /\ (thr[u].p = Head \/ thr[u].p \in Stored)
    BY <1>2, <2>2, InsertFacts
  <2>4. ASSUME thr[u].pc \in {"compare", "link", "store"}
        PROVE  /\ Cell(thr[u].p)' = Cell(thr[u].p)
               /\ next'[thr[u].msg] = next[thr[u].msg]
    <3>1. thr[u].p # p
      BY <1>7, <2>1, <2>4
    <3>2. Cell(thr[u].p)' = Cell(thr[u].p)
      <4>1. CASE p = Head
        BY <1>12, <2>2, <3>1, <4>1 DEF Cell
      <4>2. CASE p # Head
        BY <1>1, <1>8, <1>12, <2>2, <2>3, <3>1, <4>2 DEF Cell
      <4>3. QED
        BY <4>1, <4>2
    <3>3. next'[thr[u].msg] = next[thr[u].msg]
      <4>1. p # Head => thr[u].msg # p
        BY <1>8, <2>3
      <4>2. QED
        BY <1>1, <1>12, <2>3, <4>1
    <3>4. QED
      BY <3>2, <3>3
  <2>5. Stored \subseteq Stored'
    BY <1>16
  <2>6. QED
    BY <1>2, <1>16, <2>2, <2>3, <2>4, <2>5, PlaceStays
<1>24. \A x \in Stored' : next'[x] \in Stored' \cup {Null}
  BY <1>1, <1>8, <1>11, <1>12, <1>16
<1>25. Queue' = Stored' \ Gone' /\ Gone' \subseteq Stored'
  BY <1>8, <1>16, <1>17
<1>26. QED
  BY <1>20, <1>22, <1>23, <1>24, <1>25 DEF ListInv
\* head = head->next: the first node goes off the list; it was sent.  No thread
\* that has found its place can be at head: what it inserts there would be due
\* before the node that goes, and it is not due.
LEMMA UnlinkList == ASSUME TInv, ListInv, HandlerUnlink PROVE ListInv'
<1>1. /\ Whole /\ handler.pc = "unlink"
      /\ handler' = [handler EXCEPT !.pc = "free", !.n = Null]
      /\ head' = handler.n
      /\ UNCHANGED <<now, used, next, at, freed, thr, sent, skipped>>
  BY DEF HandlerUnlink, history
<1>2. handler'.pc = "free" /\ handler'.temp = handler.temp
  BY <1>1, TypeParts DEF TInv, Handlers
<1>3. /\ Queue \in SUBSET Msg /\ Queue \subseteq Stored /\ Stored \in SUBSET Msg
      /\ Queue = Stored \ Gone /\ Gone \subseteq Stored /\ InHand \subseteq Stored
      /\ head \in Queue \cup {Null} /\ Null \notin Stored
      /\ \A x \in Queue : next[x] \in Queue \cup {Null}
      /\ \A x \in Stored : next[x] \in Stored \cup {Null}
  BY <1>1, ListFacts
<1>4. Chain /\ SentOnce
  BY <1>1 DEF ListInv
<1>5. handler.temp = head /\ head' = next[head] /\ InHand = {head}
  BY <1>1, <1>4 DEF SentOnce, InHand
<1>6. head \in Queue /\ head \in Msg /\ head # Null
  BY <1>3, <1>5
<1>7. next \in [Msg -> Msg \cup {Null}] /\ at \in [Msg -> Nat]
  BY TypeParts DEF TInv
<1>8. \A x \in Queue : next[x] # Null =>
          /\ next[x] # head /\ (at[x] <= at[next[x]] \/ next[x] \in skipped)
          /\ \A y \in Queue : next[y] = next[x] => y = x
  BY <1>4 DEF Chain
<1>9. \A x \in Queue : next[x] # head
  BY <1>6, <1>8
<1>10. Queue' = Queue \ {head}
  <2>1. \A x \in Reached(head, next) : next[x] # head
    BY <1>9, QueueIsReached
  <2>2. Reached(next[head], next) = Reached(head, next) \ {head}
    BY <1>6, <1>7, <2>1, ReachedRest
  <2>3. QED
    BY <1>1, <1>5, <2>2, QueueIsReached
<1>11. Loose' = Loose /\ Stored' = Stored
  BY <1>1 DEF Loose, Inserting, Stored
<1>12. Gone = freed /\ Gone' = freed \cup {head} /\ InHand' = {head}
  BY <1>1, <1>2, <1>5 DEF Gone, InHand
<1>13. Chain'
  <2>1. ASSUME NEW x \in Queue \ {head}, next[x] # Null PROVE next[x] # next[head]
    BY <1>6, <1>8, <2>1
  <2>2. QED
    BY <1>1, <1>5, <1>8, <1>10, <2>1 DEF Chain
<1>14. SentOnce'
  BY <1>1, <1>2, <1>4, <1>5, <1>12 DEF SentOnce
<1>15. ASSUME NEW u \in Thread, Inserting(u) PROVE Placed(u)'
  <2> DEFINE m == thr[u].msg
             p == thr[u].p
  <2>1. /\ Placed(u) /\ m \in Msg
        /\ p # Head => p \in Stored /\ (at[p] < at[m] \/ m \in skipped)
    BY <1>1, <1>15, InsertFacts DEF Placed
  <2>2. UNCHANGED <<at, next, thr, freed, skipped>> /\ Stored' = Stored
        /\ Gone \subseteq Gone'
    BY <1>1, <1>11, <1>12
  <2>3. CASE p # Head
    <3>1. Cell(p)' = Cell(p)
      BY <2>2, <2>3 DEF Cell
    <3>2. QED
      BY <2>1, <2>2, <3>1, PlaceStays
  <2>4. CASE p = Head
    <3>1. Head \notin freed /\ Cell(p) = head
      BY <2>4, TypeParts DEF TInv, Head, Msg, Cell
    <3>2. thr[u].pc \in {"link", "store"} => at[m] <= at[head]
      BY <1>6, <2>1, <2>4, <3>1 DEF Placed
    <3>3. at[head] < at[m]
      BY <1>1, <1>12, <1>15, DueFirst DEF InHand
    <3> DEFINE a == at[m]
               b == at[head]
    <3>4. a \in Nat /\ b \in Nat /\ b < a /\ (thr[u].pc \in {"link", "store"} => a <= b)
      BY <1>6, <1>7, <2>1, <3>2, <3>3
    <3> HIDE DEF a, b
    <3>5. thr[u].pc \notin {"link", "store"}
      BY <3>4
    <3>6. thr[u].pc = "compare" => thr[u].n \in Gone' \cup {Null}
      BY <1>12, <2>1, <2>4, <3>1 DEF Placed
    <3>7. QED
      BY <2>2, <2>4, <3>5, <3>6 DEF Placed
  <2>5. QED
    BY <2>3, <2>4
<1>16. \A u \in Thread : Inserting(u)' => Placed(u)'
  BY <1>1, <1>15 DEF Inserting
<1>17. Queue' = Stored' \ Gone' /\ Gone' \subseteq Stored'
  BY <1>3, <1>6, <1>10, <1>11, <1>12
<1>18. QED
  BY <1>1, <1>3, <1>11, <1>13, <1>14, <1>16, <1>17 DEF ListInv

\* The other steps of catch_alarm() leave the list alone.
LEMMA HandlerList == ASSUME TInv, ListInv, HandlerStep PROVE ListInv'
<1>1. handler \in Handlers /\ freed \subseteq Msg
      /\ (handler.pc \in {"unlink", "free"} => handler.temp # Null)
      /\ (handler.pc = "pop" => head # Null)
  BY TypeParts DEF TInv
<1>2. CASE HandlerUnlink
  BY <1>2, UnlinkList
<1>3. CASE Fire \/ HandlerEnd \/ HandlerArm
  <2>1. /\ UNCHANGED <<now, used, head, next, at, freed, thr, sent, skipped>> /\ Whole
        /\ handler.pc \in {"idle", "loop", "set"}
    BY <1>3 DEF Fire, HandlerEnd, HandlerArm, list, history
  <2>2. handler'.pc \in {"idle", "loop", "set"}
    <3>1. CASE Fire
      BY <3>1 DEF Fire, Asleep
    <3>2. CASE HandlerEnd
      <4>1. handler' = Asleep \/ handler' = [handler EXCEPT !.pc = "set", !.wait = Wait]
        BY <3>2 DEF HandlerEnd
      <4> DEFINE w == Wait
      <4>2. handler' = Asleep \/ handler' = [handler EXCEPT !.pc = "set", !.wait = w]
        BY <4>1
      <4> HIDE DEF w
      <4>3. Asleep.pc = "idle" /\ [handler EXCEPT !.pc = "set", !.wait = w].pc = "set"
        BY <1>1 DEF Asleep, Handlers
      <4>4. QED
        BY <4>2, <4>3
    <3>3. CASE HandlerArm
      BY <3>3 DEF HandlerArm, Asleep
    <3>4. QED
      BY <1>3, <3>1, <3>2, <3>3
  <2>3. Gone = freed /\ Gone' = freed /\ InHand = {} /\ InHand' = {}
    BY <2>1, <2>2 DEF Gone, InHand
  <2>4. SentOnce'
    BY <2>1, <2>2, <2>3 DEF ListInv, SentOnce
  <2>5. QED
    BY <2>1, <2>3, <2>4, ListStays
<1>4. CASE HandlerSend
  <2>1. /\ handler.pc = "loop" /\ head # Null /\ at[head] <= handler.now /\ Whole
        /\ sent' = [sent EXCEPT ![head] = @ + 1]
        /\ handler' = [handler EXCEPT !.pc = "pop"]
        /\ UNCHANGED <<now, used, head, next, at, freed, thr, skipped>>
    BY <1>4 DEF HandlerSend, Due, list, history
  <2>2. handler'.pc = "pop"
    BY <1>1, <2>1 DEF Handlers
  <2>3. /\ head \in Msg /\ head \notin freed /\ sent \in [Msg -> Nat] /\ at \in [Msg -> Nat]
        /\ SentOnce
    BY <2>1, ListFacts, TypeParts DEF TInv, ListInv
  <2>4. Gone = freed /\ Gone' = freed /\ InHand = {} /\ InHand' = {head}
    BY <2>1, <2>2 DEF Gone, InHand
  <2>5. \A m \in Msg : sent[m] = IF m \in freed THEN 1 ELSE 0
    BY <2>3, <2>4 DEF SentOnce
  <2>6. \A m \in Msg : sent'[m] = IF m = head THEN sent[m] + 1 ELSE sent[m]
    BY <2>1, <2>3
  <2>7. \A m \in Msg : sent'[m] = IF m \in freed \cup {head} THEN 1 ELSE 0
    BY <2>3, <2>5, <2>6
  <2>8. at[head] <= now
    <3> DEFINE a == at[head]
               c == handler.now
    <3>1. a \in Nat /\ c \in Nat /\ now \in Nat /\ a <= c /\ c <= now
      BY <1>1, <2>1, <2>3, TypeParts DEF TInv, Clocks, Handlers
    <3> HIDE DEF a, c
    <3>2. a <= now
      BY <3>1
    <3>3. QED
      BY <3>2 DEF a
  <2>9. \A m \in freed : at[m] <= now
    BY <2>3, <2>4 DEF SentOnce
  <2>10. SentOnce'
    BY <2>1, <2>2, <2>4, <2>7, <2>8, <2>9 DEF SentOnce
  <2>11. QED
    BY <2>1, <2>4, <2>10, ListStays
<1>5. CASE HandlerPop
  <2> DEFINE n == next[head]
  <2>1. /\ handler.pc = "pop" /\ Whole
        /\ handler' = [handler EXCEPT !.pc = "unlink", !.temp = head, !.n = n]
        /\ UNCHANGED <<now, used, head, next, at, freed, thr, sent, skipped>>
    BY <1>5 DEF HandlerPop, list, history
  <2> HIDE DEF n
  <2>2. handler'.pc = "unlink" /\ handler'.temp = head /\ handler'.n = n
    BY <1>1, <2>1 DEF Handlers
  <2>3. Gone = freed /\ Gone' = freed /\ InHand = {head} /\ InHand' = {head}
    BY <2>1, <2>2 DEF Gone, InHand
  <2>4. SentOnce'
    BY <2>1, <2>2, <2>3 DEF ListInv, SentOnce, n
  <2>5. QED
    BY <2>1, <2>3, <2>4, ListStays
<1>6. CASE HandlerFree
  <2>1. /\ handler.pc = "free" /\ Whole /\ freed' = freed \cup {handler.temp}
        /\ handler' = [handler EXCEPT !.pc = "loop", !.temp = Null]
        /\ UNCHANGED <<now, used, head, next, at, thr, sent, skipped>>
    BY <1>6 DEF HandlerFree, list, history
  <2>2. handler'.pc = "loop"
    BY <1>1, <2>1 DEF Handlers
  <2>3. Gone = freed' /\ Gone' = freed' /\ InHand = {handler.temp} /\ InHand' = {}
    BY <2>1, <2>2 DEF Gone, InHand
  <2>4. SentOnce'
    BY <2>1, <2>2, <2>3 DEF ListInv, SentOnce
  <2>5. QED
    BY <2>1, <2>3, <2>4, ListStays
<1>7. QED
  BY <1>2, <1>3, <1>4, <1>5, <1>6 DEF HandlerStep

\* Every step keeps the list, as long as it is whole.
LEMMA ListStep == ASSUME TInv, ListInv, [Next]_vars PROVE ListInv'
<1> SUFFICES ASSUME Whole' PROVE ListInv'
  BY DEF ListInv
<1>1. CASE UNCHANGED vars
  <2>1. UNCHANGED <<now, used, head, next, at, freed, thr, sent, handler, skipped>> /\ Whole
    BY <1>1 DEF vars, list, history, Whole
  <2>2. Gone' = Gone /\ InHand' = InHand
    BY <2>1 DEF Gone, InHand
  <2>3. SentOnce'
    BY <2>1, <2>2 DEF ListInv, SentOnce
  <2>4. QED
    BY <2>1, <2>2, <2>3, ListStays
<1>2. CASE Tick
  <2>1. /\ UNCHANGED <<used, head, next, at, freed, thr, sent, handler, skipped>> /\ Whole
        /\ now' = now + 1
    BY <1>2 DEF Tick, list, history
  <2>2. Gone' = Gone /\ InHand' = InHand
    BY <2>1 DEF Gone, InHand
  <2>3. \A m \in Gone \cup InHand : at[m] <= now + 1
    <3>1. SUFFICES ASSUME NEW m \in Gone \cup InHand PROVE at[m] <= now + 1
      OBVIOUS
    <3>2. at[m] <= now /\ m \in Msg
      BY <2>1, ListFacts DEF ListInv, SentOnce
    <3>3. at[m] \in Nat /\ now \in Nat
      BY <3>2, TypeParts DEF TInv
    <3>4. QED
      BY <3>2, <3>3
  <2>4. SentOnce'
    BY <2>1, <2>2, <2>3 DEF ListInv, SentOnce
  <2>5. QED
    BY <2>1, <2>2, <2>4, ListStays
<1>3. CASE HandlerStep
  BY <1>3, HandlerList
<1>4. ASSUME NEW t \in Thread, ThreadStep(t) \/ Usend(t) PROVE ListInv'
  <2>1. CASE Usend(t)
    BY <2>1, UsendList DEF Usend
  <2>2. CASE Misuse(t)
    BY <2>2 DEF Misuse, Whole
  <2>3. CASE Walk(t) \/ Load(t) \/ Compare(t) \/ Step(t)
    BY <2>3, WalkList, LoadList, CompareList, StepList
  <2>4. CASE Link(t)
    BY <2>4, LinkList
  <2>5. CASE Store(t)
    BY <2>5, StoreList
  <2>6. CASE Test(t)
    <3> DEFINE f == IF IsFirst(thr[t].msg) THEN [thr[t] EXCEPT !.pc = "arm"] ELSE Idle
    <3>1. /\ Whole /\ ~Inserting(t) /\ skipped \subseteq skipped'
          /\ UNCHANGED <<now, used, head, next, at, freed, sent, handler>>
      BY <2>6 DEF Test, Inserting, At, list, history
    <3>2. thr' = [thr EXCEPT ![t] = f] /\ thr[t] \in Call
      BY <2>6, TypeParts DEF Test, TInv
    <3>3. f.pc \in {"arm", "idle"}
      BY <3>2 DEF Call, Idle
    <3> HIDE DEF f
    <3>4. QED
      BY <3>1, <3>2, <3>3, CallStays
  <2>7. CASE Arm(t)
    <3>1. /\ Whole /\ ~Inserting(t) /\ thr' = [thr EXCEPT ![t] = Idle]
          /\ skipped \subseteq skipped'
          /\ UNCHANGED <<now, used, head, next, at, freed, sent, handler>>
      BY <2>7 DEF Arm, Inserting, At, list
    <3>2. Idle.pc = "idle"
      BY DEF Idle
    <3>3. QED
      BY <3>1, <3>2, CallStays
  <2>8. QED
    BY <1>4, <2>1, <2>2, <2>3, <2>4, <2>5, <2>6, <2>7 DEF ThreadStep
<1>5. QED
  BY <1>1, <1>2, <1>3, <1>4 DEF Next

\* The list is empty at first.
LEMMA ListInit == ASSUME Init PROVE ListInv
<1>1. head = Null /\ next = [m \in Msg |-> Null] /\ used = {} /\ freed = {}
      /\ sent = [m \in Msg |-> 0] /\ handler.pc = "idle"
      /\ \A t \in Thread : thr[t].pc = "idle"
  BY DEF Init, Asleep, Idle
<1>2. Queue = {}
  <2>1. ClosedFrom(head, next, {})
    BY <1>1 DEF ClosedFrom
  <2>2. Reached(head, next) \subseteq {}
    BY <1>1, <2>1, ReachedFacts
  <2>3. QED
    BY <2>2, QueueIsReached
<1>3. Gone = {} /\ InHand = {}
  BY <1>1 DEF Gone, InHand
<1>4. QED
  BY <1>1, <1>2, <1>3 DEF ListInv, Stored, Chain, SentOnce, Inserting

\* While no freed node and no null pointer was used and nobody met another one, or
\* the handler, at its cell: what is reached from head is what was stored and not
\* taken off; what was sent, once, is what was taken off and the node the handler
\* is at, and it was due; each node stands before later ones, but for those that
\* the handler led past a later node, between two loads of one turn of the loop
\* (unicast.cc:201-202); and each thread inserts at a place that fits in this sense.
THEOREM ListInvariant == Spec => []ListInv
<1>1. Init => ListInv
  BY ListInit
<1>2. QED
  BY <1>1, Types, ListStep, PTL DEF Spec

\* In the same circumstances the queue is in the order of the delivery times, except
\* where a thread was led past a later node: between two loads of one turn of the
\* loop (unicast.cc:201-202) the handler took the node off that it had compared.
THEOREM QueueIsSorted == Spec => []Sorted
<1>1. ListInv => Sorted
  BY DEF ListInv, Chain, Sorted
<1>2. QED
  BY <1>1, ListInvariant, PTL

\* No datagram whose usend() has returned is lost, none is sent twice, and no node
\* is freed before it is sent or while it can be reached, as long as no freed node
\* and no null pointer was used and nobody has met another one, or the handler, at
\* its cell (unicast.cc:199-259).
THEOREM NothingIsLost == Spec => []SettledKept
<1>1. ASSUME TInv, ListInv PROVE SettledKept
  <2> SUFFICES ASSUME Whole
               PROVE  /\ \A m \in Msg :
                             /\ sent[m] <= 1
                             /\ m \in freed => sent[m] = 1
                             /\ Settled(m) => m \in Queue \/ sent[m] = 1
                      /\ Queue \cap freed = {}
    BY DEF SettledKept
  <2>1. Queue = Stored \ Gone /\ SentOnce
    BY <1>1 DEF ListInv
  <2>2. \A m \in Msg : sent[m] \in {0, 1} /\ (m \in freed => sent[m] = 1)
    BY <2>1 DEF SentOnce
  <2>3. ASSUME NEW m \in Msg, Settled(m) PROVE m \in Stored
    BY <2>3 DEF Settled, Stored, Loose
  <2>4. \A m \in Gone : m \in Msg => sent[m] = 1
    BY <2>1 DEF SentOnce, Gone, InHand
  <2>5. freed \subseteq Gone
    BY DEF Gone
  <2>6. QED
    BY <2>1, <2>2, <2>3, <2>4, <2>5
<1>2. QED
  BY <1>1, Types, ListInvariant, PTL
=============================================================================
