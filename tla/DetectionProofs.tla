--------------------------- MODULE DetectionProofs ---------------------------
(***************************************************************************)
(* The failure detector finds every failure, and how long that may take,   *)
(* for every group, every period and every bound.                          *)
(*                                                                         *)
(* What can delay it is news of the dead process q that is still passed    *)
(* on: every process that hears of it lets its listen timer run anew, and  *)
(* tells the others.  Each value of q's entry has its own chain.  The      *)
(* argument counts, for a value, those who need not be told any more: the  *)
(* dead and those who have it.  Every hop adds one to them, and takes at   *)
(* most a sleep of a heartbeat thread and a datagram; everything that is   *)
(* lost costs one more sleep.                                              *)
(***************************************************************************)
EXTENDS FailureDetectorProofs, FiniteSetTheorems

\* Nothing is sent in the future.
SentBefore == \A m \in net : m.at <= now

\* Who has not armed its timers has heard nothing, and is sending nothing.
StampsEmpty ==
    \A r \in Proc : Up(r) /\ ~Armed(r) =>
        step[r] = Unread /\ \A q \in Proc : ts[r][q] = 0

\* Those who need not be told that q has reached v.
Knows(q, v) == {r \in Proc : ~Up(r) \/ ts[r][q] >= v}

\* How long after the death of q news is still sent that k processes have, when
\* l datagrams have been lost.
Allowance(k, l) == (k - 1) * (MaxDelay + Interval) + l * Interval

\* The datagrams that tell p that q has reached v.
Bringing(p, q, v) == {m \in net : m.to = p /\ m.ts[q] >= v}

\* One of them was sent in time.
Prompt(m, q, l) ==
    m.at <= crashedAt[q] + Allowance(Cardinality(Knows(q, m.ts[q])), l)

\* p will be told in time even if what is in X is lost.
Tells(p, q, v, X) ==
    \E m \in Bringing(p, q, v) \ X : Prompt(m, q, lost + Cardinality(X))

\* r sends its next heartbeat in time, even if l datagrams are lost before.
Sends(r, q, l) ==
    now + beat[r] <= crashedAt[q] + Allowance(Cardinality(Knows(q, ts[r][q])), l)

\* r has news of q for p, and talks to it.
Spreads(r, p, q) ==
    Up(r) /\ Up(p) /\ r # p /\ p \notin failed[r] /\ ts[r][q] > ts[p][q]

\* News on the way is in time, whichever of it is lost ...
NewsComes(p, q) ==
    \A v \in Nat : Up(p) /\ v > ts[p][q] =>
        \A X \in SUBSET Bringing(p, q, v) :
            IsFiniteSet(X) /\ Bringing(p, q, v) # X => Tells(p, q, v, X)

\* ... and news that somebody has is on the way, or will be in time.
NewsLeaves(r, p, q) ==
    Spreads(r, p, q) =>
        \A X \in SUBSET Bringing(p, q, ts[r][q]) :
            IsFiniteSet(X) => \/ Sends(r, q, lost + Cardinality(X))
                              \/ Tells(p, q, ts[r][q], X)

AllNews(q) ==
    \A p \in Proc : NewsComes(p, q) /\ \A r \in Proc : NewsLeaves(r, p, q)

NewsInTime == \A q \in Proc : ~Up(q) => AllNews(q)

NewsInv == TypeInv /\ NetFresh /\ SentBefore /\ StampsEmpty /\ NewsInTime

-----------------------------------------------------------------------------
(* Counting. *)

\* One more process, or one more loss, gives that much more time.
LEMMA AllowanceRules ==
    ASSUME NEW k \in Nat, NEW l \in Nat
    PROVE  /\ Allowance(k, l) \in Int
           /\ Allowance(k + 1, l) = Allowance(k, l) + MaxDelay + Interval
           /\ Allowance(k, l + 1) = Allowance(k, l) + Interval
<1>1. MaxDelay \in Nat /\ Interval \in Nat
  BY PeriodAssumption, BoundAssumption
<1>2. Allowance(k, l) \in Int
  BY <1>1 DEF Allowance
<1>3. (k + 1 - 1) * (MaxDelay + Interval)
      = (k - 1) * (MaxDelay + Interval) + MaxDelay + Interval
  BY <1>1
<1>4. (l + 1) * Interval = l * Interval + Interval
  BY <1>1
<1>5. Allowance(k + 1, l) = Allowance(k, l) + MaxDelay + Interval
  BY <1>1, <1>3 DEF Allowance
<1>6. Allowance(k, l + 1) = Allowance(k, l) + Interval
  BY <1>1, <1>4 DEF Allowance
<1>7. QED
  BY <1>2, <1>5, <1>6

\* More processes and more losses never give less.
LEMMA AllowanceGrows ==
    ASSUME NEW j \in Nat, NEW k \in Nat, NEW i \in Nat, NEW l \in Nat,
           j <= k, i <= l
    PROVE  Allowance(j, i) <= Allowance(k, l)
<1> DEFINE hop == MaxDelay + Interval
<1>1. hop \in Nat /\ Interval \in Nat
  BY PeriodAssumption, BoundAssumption
<1>2. PICK d \in Nat : k = j + d
  <2>1. k - j \in Nat /\ k = j + (k - j)
    OBVIOUS
  <2>2. QED
    BY <2>1
<1>3. PICK e \in Nat : l = i + e
  <2>1. l - i \in Nat /\ l = i + (l - i)
    OBVIOUS
  <2>2. QED
    BY <2>1
<1>4. (k - 1) * hop = (j - 1) * hop + d * hop
  BY <1>1, <1>2
<1>5. l * Interval = i * Interval + e * Interval
  BY <1>1, <1>3
<1>6. d * hop >= 0 /\ e * Interval >= 0
  BY <1>1
<1>7. /\ (j - 1) * hop \in Int /\ d * hop \in Int
      /\ i * Interval \in Int /\ e * Interval \in Int
  BY <1>1
<1>8. QED
  BY <1>4, <1>5, <1>6, <1>7 DEF Allowance

\* The first of the allowances: q alone has its last news; the whole group but
\* one, and then a datagram, is Relay.
LEMMA AllowanceEnds ==
    ASSUME TypeInv, Cardinality(Proc) \in Nat \ {0, 1}
    PROVE  /\ Allowance(1, 0) = 0
           /\ Allowance(2, 0) = MaxDelay + Interval
           /\ Relay = Allowance(Cardinality(Proc) - 1, lost) + MaxDelay
           /\ Relay \in Nat
<1>1. MaxDelay \in Nat /\ Interval \in Nat /\ lost \in Nat
  BY PeriodAssumption, BoundAssumption DEF TypeInv, TypeOK
<1>2. Allowance(1, 0) = 0 /\ Allowance(2, 0) = MaxDelay + Interval
  BY <1>1 DEF Allowance
<1> DEFINE n == Cardinality(Proc)
<1>3. PICK d \in Nat : n = d + 2
  <2>1. n - 2 \in Nat /\ n = (n - 2) + 2
    OBVIOUS
  <2>2. QED
    BY <2>1
<1>4. Relay = (d + 1) * MaxDelay + (d + lost) * Interval
  <2>1. n - 1 = d + 1 /\ n - 2 + lost = d + lost
    BY <1>1, <1>3
  <2>2. QED
    BY <2>1 DEF Relay
<1>5. (d + 1) * MaxDelay = d * MaxDelay + MaxDelay
  BY <1>1
<1>6. (d + lost) * Interval = d * Interval + lost * Interval
  BY <1>1
<1>7. d * (MaxDelay + Interval) = d * MaxDelay + d * Interval
  BY <1>1
<1>8. /\ d * MaxDelay \in Nat /\ d * Interval \in Nat /\ lost * Interval \in Nat
  BY <1>1
<1>9. Relay = d * (MaxDelay + Interval) + lost * Interval + MaxDelay
  BY <1>1, <1>4, <1>5, <1>6, <1>7, <1>8
<1>10. Relay \in Nat
  BY <1>1, <1>7, <1>8, <1>9
<1>11. n - 1 - 1 = d
  BY <1>3
<1>12. Allowance(n - 1, lost) = d * (MaxDelay + Interval) + lost * Interval
  BY <1>11 DEF Allowance
<1>13. QED
  BY <1>2, <1>9, <1>10, <1>12

\* Those who need not be told are finitely many.
LEMMA KnowsFinite ==
    ASSUME NEW q \in Proc, NEW v
    PROVE  IsFiniteSet(Knows(q, v)) /\ Cardinality(Knows(q, v)) \in Nat
BY ProcAssumption, FS_Subset, FS_CardinalityType DEF Knows

\* Not all of the group are told as long as one is not.
LEMMA KnowsFew ==
    ASSUME NEW q \in Proc, NEW v, NEW p \in Proc, p \notin Knows(q, v)
    PROVE  Cardinality(Knows(q, v)) <= Cardinality(Proc) - 1
<1>1. Knows(q, v) \in SUBSET (Proc \ {p})
  BY DEF Knows
<1>2. /\ IsFiniteSet(Proc \ {p})
      /\ Cardinality(Proc \ {p}) = Cardinality(Proc) - 1
  BY ProcAssumption, FS_RemoveElement
<1>3. QED
  BY <1>1, <1>2, FS_Subset

\* A group with two members has at least two.
LEMMA TwoMembers ==
    ASSUME NEW p \in Proc, NEW q \in Proc, p # q
    PROVE  Cardinality(Proc) \in Nat \ {0, 1}
<1>1. Cardinality(Proc) \in Nat
  BY ProcAssumption, FS_CardinalityType
<1>2. Cardinality({p, q}) = 2 /\ IsFiniteSet({p, q})
  <2>1. IsFiniteSet({p}) /\ Cardinality({p}) = 1 /\ q \notin {p}
    BY FS_Singleton
  <2>2. /\ IsFiniteSet({p} \cup {q})
        /\ Cardinality({p} \cup {q})
           = IF q \in {p} THEN Cardinality({p}) ELSE Cardinality({p}) + 1
    BY <2>1, FS_AddElement
  <2>3. {p, q} = {p} \cup {q}
    OBVIOUS
  <2>4. QED
    BY <2>1, <2>2, <2>3
<1>3. Cardinality({p, q}) <= Cardinality(Proc)
  BY ProcAssumption, FS_Subset
<1>4. QED
  BY <1>1, <1>2, <1>3
-----------------------------------------------------------------------------
(* What a step leaves of the news of a dead process q. *)

\* Whoever is up after a step was so before it and knows no less of q, which
\* stays dead.
LEMMA EntryGrows ==
    ASSUME TypeInv, [Next]_vars, NEW q \in Proc, ~Up(q), NEW r \in Proc
    PROVE  /\ ~Up(q)' /\ crashedAt'[q] = crashedAt[q]
           /\ Up(r)' => Up(r) /\ ts[r][q] <= ts'[r][q]
<1>1. ~Up(q)' /\ (Up(r)' => Up(r))
  BY UpBefore
<1>2. /\ ts \in [Proc -> [Proc -> Nat]] /\ crashedAt \in [Proc -> 0 .. Never]
      /\ \A m \in net : m.to \in Proc /\ m.ts \in [Proc -> Nat]
      /\ now # Never
  BY PairTypes DEF TypeInv, TypeOK, Datagram
<1> DEFINE Goal == /\ crashedAt'[q] = crashedAt[q]
                   /\ Up(r)' => ts[r][q] <= ts'[r][q]
<1>3. ASSUME ts' = ts, crashedAt' = crashedAt PROVE Goal
  BY <1>2, <1>3
<1>4. ASSUME NEW p \in Proc, MulticastWrite(p) PROVE Goal
  <2>1. p # q /\ crashedAt' = crashedAt
    BY <1>4 DEF MulticastWrite
  <2>2. ts'[r][q] = ts[r][q]
    BY <1>2, <1>4, <2>1 DEF MulticastWrite
  <2>3. QED
    BY <1>2, <2>1, <2>2
<1>5. ASSUME NEW m \in net, Receive(m) PROVE Goal
  <2> DEFINE p == m.to
             clock == Step(p, ts[p])
  <2>1. /\ p \in Proc /\ p # q /\ crashedAt' = crashedAt
        /\ ts' = [ts EXCEPT ![p] = Update(p, clock, m.ts)]
    BY <1>2, <1>5 DEF Receive
  <2>2. clock \in [Proc -> Nat] /\ clock[q] = ts[p][q]
    BY <1>2, <2>1 DEF Step
  <2>3. clock[q] <= Update(p, clock, m.ts)[q]
    BY <1>2, <2>1, <2>2, UpdateEntry
  <2>4. ts[r][q] <= ts'[r][q]
    BY <1>2, <2>1, <2>2, <2>3
  <2>5. QED
    BY <2>1, <2>4
<1>6. ASSUME NEW p \in Proc, Crash(p) PROVE Goal
  <2>1. /\ p # q
        /\ crashedAt' = [crashedAt EXCEPT ![p] = now]
        /\ ts' = [ts EXCEPT ![p] = [x \in Proc |-> IF x = p THEN @[x] ELSE 0]]
    BY <1>6 DEF Crash
  <2>2. crashedAt'[q] = crashedAt[q] /\ ~Up(p)'
    BY <1>2, <2>1 DEF Up
  <2>3. r # p => ts'[r][q] = ts[r][q]
    BY <1>2, <2>1
  <2>4. QED
    BY <1>2, <2>2, <2>3
<1>7. Goal
  BY <1>3, <1>4, <1>5, <1>6
     DEF Next, vars, MulticastRead, HeartbeatSend, Expire, Lose, Tick
<1>8. QED
  BY <1>1, <1>7

\* Nobody has to be told again.
LEMMA KnowsGrows ==
    ASSUME TypeInv, TypeInv', [Next]_vars, NEW q \in Proc, ~Up(q), NEW v \in Nat
    PROVE  /\ Knows(q, v) \subseteq Knows(q, v)'
           /\ Cardinality(Knows(q, v)) <= Cardinality(Knows(q, v)')
<1>1. ASSUME NEW r \in Knows(q, v) PROVE r \in Knows(q, v)'
  <2>1. r \in Proc /\ (~Up(r) \/ ts[r][q] >= v)
    BY DEF Knows
  <2>2. SUFFICES ASSUME Up(r)' PROVE ts'[r][q] >= v
    BY <2>1 DEF Knows
  <2>3. Up(r) /\ ts[r][q] <= ts'[r][q]
    BY <2>1, <2>2, EntryGrows
  <2>4. ts[r][q] \in Nat /\ ts'[r][q] \in Nat
    BY <2>1 DEF TypeInv, TypeOK
  <2>5. QED
    BY <2>1, <2>3, <2>4
<1>2. IsFiniteSet(Knows(q, v)')
  BY ProcAssumption, FS_Subset DEF Knows
<1>3. QED
  BY <1>1, <1>2, FS_Subset

\* So no time is taken back that was given after the death of q.
LEMMA AllowanceKept ==
    ASSUME TypeInv, TypeInv', [Next]_vars, NEW q \in Proc, ~Up(q), NEW v \in Nat,
           NEW l \in Nat, NEW k \in Nat, l <= k
    PROVE  /\ crashedAt'[q] = crashedAt[q] /\ crashedAt[q] \in Nat
           /\ Allowance(Cardinality(Knows(q, v)), l) \in Int
           /\ Allowance(Cardinality(Knows(q, v)'), k) \in Int
           /\ Allowance(Cardinality(Knows(q, v)), l)
              <= Allowance(Cardinality(Knows(q, v)'), k)
<1>1. /\ Cardinality(Knows(q, v)) \in Nat /\ Cardinality(Knows(q, v)') \in Nat
      /\ Cardinality(Knows(q, v)) <= Cardinality(Knows(q, v)')
  <2>1. IsFiniteSet(Knows(q, v)')
    BY ProcAssumption, FS_Subset DEF Knows
  <2>2. QED
    BY <2>1, KnowsGrows, KnowsFinite, FS_CardinalityType
<1>2. crashedAt'[q] = crashedAt[q] /\ crashedAt[q] \in Nat
  BY EntryGrows, BoundAssumption DEF TypeInv, TypeOK, Never
<1>3. QED
  BY <1>1, <1>2, AllowanceRules, AllowanceGrows

\* What was sent in time stays so.
LEMMA PromptKept ==
    ASSUME TypeInv, TypeInv', [Next]_vars, NEW q \in Proc, ~Up(q),
           NEW m \in Datagram, NEW l \in Nat, NEW k \in Nat, l <= k,
           Prompt(m, q, l)
    PROVE  Prompt(m, q, k)'
<1> DEFINE v == m.ts[q]
           a == Allowance(Cardinality(Knows(q, v)), l)
           b == Allowance(Cardinality(Knows(q, v)'), k)
<1>1. v \in Nat /\ m.at \in Nat
  BY DEF Datagram
<1>2. /\ a \in Int /\ b \in Int /\ a <= b
      /\ crashedAt'[q] = crashedAt[q] /\ crashedAt[q] \in Nat
  BY <1>1, AllowanceKept
<1>3. m.at <= crashedAt[q] + a
  BY DEF Prompt
<1> HIDE DEF a, b
<1>4. m.at <= crashedAt'[q] + b
  BY <1>1, <1>2, <1>3
<1>5. QED
  BY <1>4 DEF Prompt, b

\* What will be sent in time, too.
LEMMA SendsKept ==
    ASSUME TypeInv, TypeInv', [Next]_vars, NEW q \in Proc, ~Up(q), NEW r \in Proc,
           now' + beat'[r] <= now + beat[r], ts'[r][q] = ts[r][q],
           NEW l \in Nat, NEW k \in Nat, l <= k, Sends(r, q, l)
    PROVE  Sends(r, q, k)'
<1>1. PICK v \in Nat : v = ts[r][q]
  BY DEF TypeInv, TypeOK
<1> DEFINE a == Allowance(Cardinality(Knows(q, v)), l)
           b == Allowance(Cardinality(Knows(q, v)'), k)
<1>2. /\ a \in Int /\ b \in Int /\ a <= b
      /\ crashedAt'[q] = crashedAt[q] /\ crashedAt[q] \in Nat
  BY AllowanceKept
<1>3. now + beat[r] <= crashedAt[q] + a
  BY <1>1 DEF Sends
<1>4. /\ now \in Nat /\ now' \in Nat
      /\ beat[r] \in 0 .. Interval /\ beat'[r] \in 0 .. Interval
  BY DEF TypeInv, TypeOK
<1> HIDE DEF a, b
<1>5. now' + beat'[r] <= crashedAt'[q] + b
  BY <1>2, <1>3, <1>4, PeriodAssumption
<1>6. v = ts'[r][q]
  BY <1>1
<1>7. QED
  BY <1>5, <1>6 DEF Sends, b

\* So does who is told, as long as nothing of it is lost that was not counted.
LEMMA TellsKept ==
    ASSUME TypeInv, TypeInv', [Next]_vars, NEW q \in Proc, ~Up(q), NEW p \in Proc,
           NEW v, NEW u, NEW X, NEW Y, IsFiniteSet(X), IsFiniteSet(Y),
           Bringing(p, q, v) \ X \subseteq Bringing(p, q, u)' \ Y,
           lost + Cardinality(X) <= lost' + Cardinality(Y),
           Tells(p, q, v, X)
    PROVE  Tells(p, q, u, Y)'
<1>1. PICK m \in Bringing(p, q, v) \ X : Prompt(m, q, lost + Cardinality(X))
  BY DEF Tells
<1>2. m \in Bringing(p, q, u)' \ Y /\ m \in Datagram
  BY <1>1 DEF Bringing, TypeInv, TypeOK
<1>3. lost + Cardinality(X) \in Nat /\ lost' + Cardinality(Y) \in Nat
  <2>1. Cardinality(X) \in Nat /\ Cardinality(Y) \in Nat
    BY FS_CardinalityType
  <2>2. lost \in Nat /\ lost' \in Nat
    BY DEF TypeInv, TypeOK
  <2>3. QED
    BY <2>1, <2>2
<1>4. Prompt(m, q, lost + Cardinality(Y))'
  <2> DEFINE l == lost + Cardinality(X)
  <2>1. l \in Nat /\ Prompt(m, q, l)
    BY <1>1, <1>3
  <2> HIDE DEF l
  <2>2. \A k \in Nat : l <= k => Prompt(m, q, k)'
    BY <1>2, <2>1, PromptKept
  <2>3. l <= lost' + Cardinality(Y)
    BY DEF l
  <2>4. QED
    BY <1>3, <2>2, <2>3 DEF Prompt
<1>5. QED
  BY <1>2, <1>4 DEF Tells

\* The count of what is lost.
LEMMA LossCount ==
    ASSUME TypeInv, NEW X, IsFiniteSet(X)
    PROVE  lost \in Nat /\ Cardinality(X) \in Nat /\ lost + Cardinality(X) \in Nat
<1>1. Cardinality(X) \in Nat
  BY FS_CardinalityType
<1>2. lost \in Nat
  BY DEF TypeInv, TypeOK
<1>3. QED
  BY <1>1, <1>2

\* Where nothing with such news is sent, received or lost, it is as it was.
LEMMA ComesAlike ==
    ASSUME TypeInv, TypeInv', [Next]_vars, NEW q \in Proc, ~Up(q), NEW p \in Proc,
           NewsComes(p, q), Up(p), lost' = lost, NEW v \in Nat, v > ts[p][q],
           Bringing(p, q, v)' = Bringing(p, q, v),
           NEW X \in SUBSET Bringing(p, q, v), IsFiniteSet(X),
           Bringing(p, q, v) # X
    PROVE  Tells(p, q, v, X)'
<1>1. Tells(p, q, v, X)
  BY DEF NewsComes
<1>2. lost + Cardinality(X) <= lost' + Cardinality(X)
  BY LossCount
<1>3. Bringing(p, q, v) \ X \subseteq Bringing(p, q, v)' \ X
  OBVIOUS
<1>4. QED
  BY <1>1, <1>2, <1>3, TellsKept

\* The same for what has still to be sent.
LEMMA LeavesAlike ==
    ASSUME TypeInv, TypeInv', [Next]_vars, NEW q \in Proc, ~Up(q), NEW p \in Proc,
           NEW r \in Proc, NewsLeaves(r, p, q), Spreads(r, p, q), lost' = lost,
           now' + beat'[r] <= now + beat[r], ts'[r][q] = ts[r][q],
           Bringing(p, q, ts[r][q])' = Bringing(p, q, ts[r][q]),
           NEW X \in SUBSET Bringing(p, q, ts[r][q]), IsFiniteSet(X)
    PROVE  Sends(r, q, lost + Cardinality(X))' \/ Tells(p, q, ts[r][q], X)'
<1>1. PICK v \in Nat : v = ts[r][q]
  BY DEF TypeInv, TypeOK
<1>2. PICK l \in Nat : l = lost + Cardinality(X)
  BY LossCount
<1>3. CASE Sends(r, q, lost + Cardinality(X))
  <2>1. Sends(r, q, l)'
    BY <1>2, <1>3, SendsKept
  <2>2. QED
    BY <1>2, <2>1 DEF Sends
<1>4. CASE Tells(p, q, ts[r][q], X)
  <2>1. Bringing(p, q, v)' = Bringing(p, q, v)
    BY <1>1 DEF Bringing
  <2>2. Tells(p, q, v, X)
    BY <1>1, <1>4 DEF Tells, Bringing
  <2>3. lost + Cardinality(X) <= lost' + Cardinality(X)
    BY LossCount
  <2>4. Tells(p, q, v, X)'
    BY <2>1, <2>2, <2>3, TellsKept
  <2>5. QED
    BY <1>1, <2>4 DEF Tells, Bringing
<1>5. QED
  BY <1>3, <1>4 DEF NewsLeaves

\* So it is for a process that gets or loses no such news ...
LEMMA ComesKept ==
    ASSUME TypeInv, TypeInv', [Next]_vars, NEW q \in Proc, ~Up(q), NEW p \in Proc,
           NewsComes(p, q), lost' = lost,
           \A v \in Nat : Up(p)' /\ v > ts'[p][q] =>
               Bringing(p, q, v)' = Bringing(p, q, v)
    PROVE  NewsComes(p, q)'
<1>1. SUFFICES ASSUME NEW v \in Nat, Up(p)', v > ts'[p][q],
                      NEW X \in SUBSET Bringing(p, q, v)', IsFiniteSet(X),
                      Bringing(p, q, v)' # X
               PROVE  Tells(p, q, v, X)'
  BY DEF NewsComes
<1>2. Bringing(p, q, v)' = Bringing(p, q, v)
  BY <1>1
<1>3. Up(p) /\ v > ts[p][q]
  <2>1. Up(p) /\ ts[p][q] <= ts'[p][q]
    BY <1>1, EntryGrows
  <2>2. ts[p][q] \in Nat /\ ts'[p][q] \in Nat
    BY DEF TypeInv, TypeOK
  <2>3. QED
    BY <1>1, <2>1, <2>2
<1>4. QED
  BY <1>1, <1>2, <1>3, ComesAlike

\* ... and for one that tells it to p later.
LEMMA LeavesKept ==
    ASSUME TypeInv, TypeInv', [Next]_vars, NEW q \in Proc, ~Up(q), NEW p \in Proc,
           NEW r \in Proc, NewsLeaves(r, p, q), lost' = lost,
           Spreads(r, p, q)' =>
               /\ Spreads(r, p, q) /\ ts'[r][q] = ts[r][q]
               /\ now' + beat'[r] <= now + beat[r]
               /\ \A v \in Nat : v = ts[r][q] =>
                      Bringing(p, q, v)' = Bringing(p, q, v)
    PROVE  NewsLeaves(r, p, q)'
<1>1. PICK v \in Nat : v = ts'[r][q]
  BY DEF TypeInv, TypeOK
<1>2. SUFFICES ASSUME Spreads(r, p, q)',
                      NEW X \in SUBSET Bringing(p, q, v)', IsFiniteSet(X)
               PROVE  Sends(r, q, lost + Cardinality(X))' \/ Tells(p, q, v, X)'
  BY <1>1 DEF NewsLeaves, Tells, Bringing
<1>3. /\ Spreads(r, p, q) /\ v = ts[r][q] /\ ts'[r][q] = ts[r][q]
      /\ now' + beat'[r] <= now + beat[r]
      /\ Bringing(p, q, v)' = Bringing(p, q, v)
  BY <1>1, <1>2
<1>4. /\ Bringing(p, q, ts[r][q])' = Bringing(p, q, ts[r][q])
      /\ X \in SUBSET Bringing(p, q, ts[r][q])
  BY <1>2, <1>3 DEF Bringing
<1>5. Sends(r, q, lost + Cardinality(X))' \/ Tells(p, q, ts[r][q], X)'
  BY <1>2, <1>3, <1>4, LeavesAlike
<1>6. QED
  BY <1>1, <1>5 DEF Tells, Bringing

\* A step that neither sends nor loses anything, and teaches nobody anything of
\* q, leaves all news in time.
LEMMA QuietNews ==
    ASSUME TypeInv, TypeInv', [Next]_vars, NEW q \in Proc, ~Up(q), AllNews(q),
           lost' = lost,
           \A p \in Proc : Up(p)' =>
               /\ ts'[p][q] = ts[p][q] /\ failed[p] \subseteq failed'[p]
               /\ \A v \in Nat : Bringing(p, q, v)' = Bringing(p, q, v)
               /\ ts[p][q] > 0 => now' + beat'[p] <= now + beat[p]
    PROVE  AllNews(q)'
<1>1. ASSUME NEW p \in Proc PROVE NewsComes(p, q)'
  BY ComesKept DEF AllNews
<1>2. ASSUME NEW p \in Proc, NEW r \in Proc PROVE NewsLeaves(r, p, q)'
  <2>1. ASSUME Spreads(r, p, q)'
        PROVE  /\ Spreads(r, p, q) /\ ts'[r][q] = ts[r][q]
               /\ now' + beat'[r] <= now + beat[r]
               /\ \A v \in Nat : Bringing(p, q, v)' = Bringing(p, q, v)
    <3>1. /\ Up(r)' /\ Up(p)' /\ r # p /\ p \notin failed'[r]
          /\ ts'[r][q] > ts'[p][q]
      BY <2>1 DEF Spreads
    <3>2. /\ ts'[p][q] = ts[p][q] /\ ts'[r][q] = ts[r][q]
          /\ failed[r] \subseteq failed'[r]
          /\ \A v \in Nat : Bringing(p, q, v)' = Bringing(p, q, v)
          /\ ts[r][q] > 0 => now' + beat'[r] <= now + beat[r]
      BY <3>1
    <3>3. Up(r) /\ Up(p)
      BY <3>1, EntryGrows
    <3>4. ts[p][q] \in Nat /\ ts[r][q] \in Nat
      BY DEF TypeInv, TypeOK
    <3>5. QED
      BY <3>1, <3>2, <3>3, <3>4 DEF Spreads
  <2>2. NewsLeaves(r, p, q)
    BY DEF AllNews
  <2>3. QED
    BY <2>1, <2>2, LeavesKept
<1>3. QED
  BY <1>1, <1>2 DEF AllNews

\* News that is received was sent in time: by those that had it then, of whom
\* the receiver is none.
LEMMA FirstNews ==
    ASSUME TypeInv, NetFresh, NEW q \in Proc, NEW p \in Proc, Up(p),
           NewsComes(p, q), NEW v \in Nat, v > ts[p][q], Bringing(p, q, v) # {}
    PROVE  \E w \in Nat : /\ v <= w /\ p \notin Knows(q, w)
                          /\ now <= crashedAt[q] + MaxDelay
                                    + Allowance(Cardinality(Knows(q, w)), lost)
<1>1. Tells(p, q, v, {})
  BY FS_EmptySet DEF NewsComes
<1>2. PICK m \in Bringing(p, q, v) : Prompt(m, q, lost + Cardinality({}))
  BY <1>1 DEF Tells
<1>3. lost + Cardinality({}) = lost /\ lost \in Nat
  BY FS_EmptySet DEF TypeInv, TypeOK
<1>4. m.at <= crashedAt[q] + Allowance(Cardinality(Knows(q, m.ts[q])), lost)
  BY <1>2, <1>3 DEF Prompt
<1>5. /\ m.ts[q] \in Nat /\ m.at \in Nat /\ v <= m.ts[q]
      /\ now <= m.at + MaxDelay
  BY <1>2 DEF Bringing, TypeInv, TypeOK, Datagram, NetFresh
<1>6. p \notin Knows(q, m.ts[q])
  <2>1. ts[p][q] \in Nat
    BY DEF TypeInv, TypeOK
  <2>2. QED
    BY <1>5, <2>1 DEF Knows
<1>7. /\ now \in Nat /\ MaxDelay \in Nat /\ crashedAt[q] \in Nat
      /\ Allowance(Cardinality(Knows(q, m.ts[q])), lost) \in Int
  BY <1>3, <1>5, KnowsFinite, AllowanceRules, BoundAssumption
     DEF TypeInv, TypeOK, Never
<1>8. now <= crashedAt[q] + MaxDelay
             + Allowance(Cardinality(Knows(q, m.ts[q])), lost)
  BY <1>4, <1>5, <1>7
<1>9. QED
  BY <1>5, <1>6, <1>8

\* Whoever hears of it has it for one more, and one more sleep and datagram.
LEMMA NewsReceive ==
    ASSUME TypeInv, TypeInv', NetFresh, StampsEmpty, NEW m \in net, Receive(m),
           [Next]_vars, NEW q \in Proc, ~Up(q), AllNews(q)
    PROVE  AllNews(q)'
<1> DEFINE c == m.to
           clock == Step(c, ts[c])
<1>1. /\ c \in Proc /\ Up(c) /\ c # q /\ lost' = lost /\ now' = now
      /\ m.ts \in [Proc -> Nat] /\ m.ts[q] \in Nat
      /\ ts \in [Proc -> [Proc -> Nat]] /\ beat \in [Proc -> 0 .. Interval]
      /\ net' = net \ {m}
      /\ ts' = [ts EXCEPT ![c] = Update(c, clock, m.ts)]
      /\ \A r \in Proc : failed[r] \subseteq failed'[r]
  BY DEF Receive, TypeInv, TypeOK, Datagram
<1>2. /\ \A r \in Proc : r # c => ts'[r][q] = ts[r][q]
      /\ ts'[c][q] = IF ts[c][q] < m.ts[q] THEN m.ts[q] ELSE ts[c][q]
  BY <1>1 DEF Step, Update
<1>3. /\ \A r \in Proc : r # c \/ Armed(r) => beat'[r] = beat[r]
      /\ beat' \in [Proc -> 0 .. Interval]
  BY <1>1 DEF Receive, ArmIfNecessary, TypeInv, TypeOK
<1>4. ASSUME NEW p \in Proc, NEW v \in Nat, v > ts'[p][q]
      PROVE  Bringing(p, q, v)' = Bringing(p, q, v)
  <2>1. p = c => ~(m.ts[q] >= v)
    BY <1>1, <1>2, <1>4
  <2>2. QED
    BY <1>1, <2>1 DEF Bringing
<1>5. ASSUME NEW p \in Proc PROVE NewsComes(p, q)'
  BY <1>1, <1>4, ComesKept DEF AllNews
<1>6. ASSUME NEW p \in Proc, NEW r \in Proc, ts'[r][q] = ts[r][q]
      PROVE  NewsLeaves(r, p, q)'
  <2>1. ASSUME Spreads(r, p, q)'
        PROVE  /\ Spreads(r, p, q) /\ ts'[r][q] = ts[r][q]
               /\ now' + beat'[r] <= now + beat[r]
               /\ \A v \in Nat : v = ts[r][q] =>
                      Bringing(p, q, v)' = Bringing(p, q, v)
    <3>1. /\ Up(r)' /\ Up(p)' /\ r # p /\ p \notin failed'[r]
          /\ ts'[r][q] > ts'[p][q]
      BY <2>1 DEF Spreads
    <3>2. Up(r) /\ Up(p) /\ ts[p][q] <= ts'[p][q]
      BY <3>1, EntryGrows
    <3>3. ts[p][q] \in Nat /\ ts'[p][q] \in Nat /\ ts[r][q] \in Nat
      BY DEF TypeInv, TypeOK
    <3>4. ts[r][q] > ts[p][q] /\ ts[r][q] > ts'[p][q] /\ ts[r][q] # 0
      BY <1>6, <3>1, <3>2, <3>3
    <3>5. p \notin failed[r]
      BY <1>1, <3>1
    <3>6. Spreads(r, p, q)
      BY <3>1, <3>2, <3>4, <3>5 DEF Spreads
    <3>7. Armed(r)
      BY <3>2, <3>4 DEF StampsEmpty
    <3>8. now' + beat'[r] <= now + beat[r]
      <4>1. beat'[r] = beat[r] /\ now' = now /\ now \in Nat
            /\ beat[r] \in 0 .. Interval
        BY <1>1, <1>3, <3>7 DEF TypeInv, TypeOK
      <4>2. QED
        BY <4>1, PeriodAssumption
    <3>9. QED
      BY <1>4, <1>6, <3>4, <3>6, <3>8
  <2>2. NewsLeaves(r, p, q)
    BY DEF AllNews
  <2>3. QED
    BY <1>1, <2>1, <2>2, LeavesKept
<1>7. ASSUME NEW r \in Proc, ts'[r][q] # ts[r][q], NEW l \in Nat, lost <= l
      PROVE  Sends(r, q, l)'
  <2>1. r = c /\ m.ts[q] > ts[c][q] /\ ts'[r][q] = m.ts[q]
    BY <1>1, <1>2, <1>7
  <2>2. Bringing(c, q, m.ts[q]) # {}
    BY <1>1 DEF Bringing
  <2>3. PICK w \in Nat : /\ m.ts[q] <= w /\ c \notin Knows(q, w)
                         /\ now <= crashedAt[q] + MaxDelay
                                   + Allowance(Cardinality(Knows(q, w)), lost)
    BY <1>1, <2>1, <2>2, FirstNews DEF AllNews
  <2> DEFINE k == Cardinality(Knows(q, w))
             n == Cardinality(Knows(q, m.ts[q])')
  <2>4. k \in Nat /\ n \in Nat /\ k + 1 <= n
    <3>1. Knows(q, w) \subseteq Knows(q, w)'
      BY KnowsGrows
    <3>2. Knows(q, w)' \subseteq Knows(q, m.ts[q])'
      <4>1. \A x \in Proc : ts'[x][q] \in Nat
        BY DEF TypeInv, TypeOK
      <4>2. QED
        BY <1>1, <2>3, <4>1 DEF Knows
    <3>3. c \in Knows(q, m.ts[q])'
      BY <1>1, <2>1 DEF Knows
    <3>4. Knows(q, w) \cup {c} \subseteq Knows(q, m.ts[q])'
      BY <3>1, <3>2, <3>3
    <3>5. IsFiniteSet(Knows(q, w)) /\ IsFiniteSet(Knows(q, m.ts[q])')
      BY ProcAssumption, FS_Subset DEF Knows
    <3>6. Cardinality(Knows(q, w) \cup {c}) = k + 1
      BY <2>3, <3>5, FS_AddElement
    <3>7. QED
      BY <3>4, <3>5, <3>6, FS_Subset, FS_CardinalityType
  <2>5. lost \in Nat /\ now \in Nat /\ crashedAt[q] \in Nat
        /\ crashedAt'[q] = crashedAt[q] /\ MaxDelay \in Nat /\ Interval \in Nat
    BY EntryGrows, BoundAssumption, PeriodAssumption DEF TypeInv, TypeOK, Never
  <2> DEFINE a == Allowance(k, lost)
             b == Allowance(k + 1, lost)
             d == Allowance(n, l)
  <2>6. now <= crashedAt[q] + MaxDelay + a
    BY <2>3
  <2> HIDE DEF k, n
  <2>7. a \in Int /\ b = a + MaxDelay + Interval
    BY <2>4, <2>5, AllowanceRules
  <2>8. k + 1 \in Nat
    BY <2>4
  <2>9. d \in Int /\ b <= d
    BY <1>7, <2>4, <2>5, <2>8, AllowanceRules, AllowanceGrows
  <2> HIDE DEF a, b, d
  <2>10. now' + beat'[r] <= crashedAt'[q] + d
    <3>1. beat'[r] \in 0 .. Interval /\ now' = now
      BY <1>1, <1>3
    <3>2. QED
      BY <2>5, <2>6, <2>7, <2>9, <3>1
  <2>11. QED
    BY <2>1, <2>10 DEF Sends, d, n
<1>8. ASSUME NEW p \in Proc, NEW r \in Proc, ts'[r][q] # ts[r][q]
      PROVE  NewsLeaves(r, p, q)'
  <2>1. SUFFICES ASSUME NEW X, IsFiniteSet(X)
                 PROVE  Sends(r, q, lost + Cardinality(X))'
    BY DEF NewsLeaves
  <2>2. PICK l \in Nat : l = lost + Cardinality(X) /\ lost <= l
    BY <2>1, LossCount
  <2>3. Sends(r, q, l)'
    BY <1>7, <1>8, <2>2
  <2>4. QED
    BY <1>1, <2>2, <2>3 DEF Sends
<1>9. QED
  BY <1>5, <1>6, <1>8 DEF AllNews

\* A sleeping heartbeat thread wakes the sooner the later it gets.
LEMMA NewsTick ==
    ASSUME TypeInv, TypeInv', StampsEmpty, Tick, [Next]_vars,
           NEW q \in Proc, ~Up(q), AllNews(q)
    PROVE  AllNews(q)'
<1>1. /\ lost' = lost /\ ts' = ts /\ failed' = failed /\ net' = net
      /\ now' = now + 1 /\ now \in Nat /\ crashedAt' = crashedAt
      /\ beat \in [Proc -> 0 .. Interval] /\ ts \in [Proc -> [Proc -> Nat]]
  BY DEF Tick, TypeInv, TypeOK
<1>2. ASSUME NEW p \in Proc, Up(p)', ts[p][q] > 0
      PROVE  now' + beat'[p] <= now + beat[p]
  <2>1. Up(p) /\ Armed(p)
    BY <1>1, <1>2 DEF Up, StampsEmpty
  <2>2. beat[p] # 0
    BY <2>1 DEF Tick, Urgent
  <2>3. beat'[p] = beat[p] - 1
    BY <2>1, <2>2 DEF Tick, Less
  <2>4. QED
    BY <1>1, <2>3, PeriodAssumption
<1>3. \A p \in Proc, v \in Nat : Bringing(p, q, v)' = Bringing(p, q, v)
  BY <1>1 DEF Bringing
<1>4. QED
  BY <1>1, <1>2, <1>3, QuietNews

\* The other quiet steps.
LEMMA NewsAsItWas ==
    ASSUME TypeInv, TypeInv', StampsEmpty, [Next]_vars,
           NEW q \in Proc, ~Up(q), AllNews(q),
           UNCHANGED <<now, ts, net, lost>>,
           \A p \in Proc : /\ failed[p] \subseteq failed'[p]
                           /\ Armed(p) => beat'[p] = beat[p]
    PROVE  AllNews(q)'
<1>1. ASSUME NEW p \in Proc, Up(p)', ts[p][q] > 0
      PROVE  now' + beat'[p] <= now + beat[p]
  <2>1. Armed(p)
    BY <1>1, EntryGrows DEF StampsEmpty
  <2>2. beat'[p] = beat[p] /\ now' = now /\ now \in Nat /\ beat[p] \in 0 .. Interval
    BY <2>1 DEF TypeInv, TypeOK
  <2>3. QED
    BY <2>2, PeriodAssumption
<1>2. \A p \in Proc, v \in Nat : Bringing(p, q, v)' = Bringing(p, q, v)
  BY DEF Bringing
<1>3. QED
  BY <1>1, <1>2, QuietNews

\* Who dies tells nobody, and need not be told.
LEMMA NewsOtherCrash ==
    ASSUME TypeInv, TypeInv', StampsEmpty, NEW c \in Proc, Crash(c), [Next]_vars,
           NEW q \in Proc, ~Up(q), AllNews(q)
    PROVE  AllNews(q)'
<1>1. /\ c # q /\ lost' = lost /\ now' = now /\ now \in Nat
      /\ net' = {m \in net : m.to # c}
      /\ \A p \in Proc : p # c => /\ ts'[p] = ts[p] /\ failed'[p] = failed[p]
                                  /\ beat'[p] = beat[p] /\ beat[p] \in 0 .. Interval
      /\ crashedAt' = [crashedAt EXCEPT ![c] = now]
  BY DEF Crash, TypeInv, TypeOK
<1>2. ~Up(c)'
  <2>1. now # Never
    BY PairTypes
  <2>2. QED
    BY <1>1, <2>1 DEF Up, TypeInv, TypeOK
<1>3. ASSUME NEW p \in Proc, Up(p)'
      PROVE  /\ ts'[p][q] = ts[p][q] /\ failed[p] \subseteq failed'[p]
             /\ \A v \in Nat : Bringing(p, q, v)' = Bringing(p, q, v)
             /\ ts[p][q] > 0 => now' + beat'[p] <= now + beat[p]
  <2>1. p # c
    BY <1>2, <1>3
  <2>2. \A v \in Nat : Bringing(p, q, v)' = Bringing(p, q, v)
    BY <1>1, <2>1 DEF Bringing
  <2>3. now' + beat'[p] <= now + beat[p]
    BY <1>1, <2>1, PeriodAssumption
  <2>4. QED
    BY <1>1, <2>1, <2>2, <2>3
<1>4. QED
  BY <1>1, <1>3, QuietNews

\* A loss was allowed for.
LEMMA NewsLose ==
    ASSUME TypeInv, TypeInv', NEW m \in net, Lose(m), [Next]_vars,
           NEW q \in Proc, ~Up(q), AllNews(q)
    PROVE  AllNews(q)'
<1>1. /\ lost' = lost + 1 /\ lost \in Nat /\ net' = net \ {m}
      /\ UNCHANGED <<now, ts, failed, crashedAt, beat>>
  BY DEF Lose, TypeInv, TypeOK
<1>2. ASSUME NEW p \in Proc, NEW v \in Nat,
             NEW X \in SUBSET Bringing(p, q, v)', IsFiniteSet(X)
      PROVE  \E Z \in SUBSET Bringing(p, q, v) :
                 /\ IsFiniteSet(Z) /\ Bringing(p, q, v) \ Z = Bringing(p, q, v)' \ X
                 /\ lost + Cardinality(Z) <= lost' + Cardinality(X)
                 /\ X \subseteq Z
  <2> DEFINE Z == X \cup (Bringing(p, q, v) \cap {m})
  <2>1. Bringing(p, q, v)' = Bringing(p, q, v) \ {m}
    BY <1>1 DEF Bringing
  <2>2. Z \in SUBSET Bringing(p, q, v)
        /\ Bringing(p, q, v) \ Z = Bringing(p, q, v)' \ X
    BY <1>2, <2>1
  <2>3. /\ IsFiniteSet(X \cup {m})
        /\ Cardinality(X \cup {m}) <= Cardinality(X) + 1
        /\ Cardinality(X) \in Nat
    <3>1. Cardinality(X) \in Nat
      BY <1>2, FS_CardinalityType
    <3>2. /\ IsFiniteSet(X \cup {m})
          /\ Cardinality(X \cup {m})
             = IF m \in X THEN Cardinality(X) ELSE Cardinality(X) + 1
      BY <1>2, FS_AddElement
    <3>3. QED
      BY <3>1, <3>2
  <2>4. Z \in SUBSET (X \cup {m})
    OBVIOUS
  <2>5. /\ IsFiniteSet(Z) /\ Cardinality(Z) <= Cardinality(X \cup {m})
        /\ Cardinality(X \cup {m}) \in Nat /\ Cardinality(Z) \in Nat
    BY <2>3, <2>4, FS_Subset, FS_CardinalityType
  <2>6. lost + Cardinality(Z) <= lost' + Cardinality(X)
    BY <1>1, <2>3, <2>5
  <2>7. QED
    BY <2>2, <2>5, <2>6
<1>3. ASSUME NEW p \in Proc PROVE NewsComes(p, q)'
  <2>1. SUFFICES ASSUME NEW v \in Nat, Up(p)', v > ts'[p][q],
                        NEW X \in SUBSET Bringing(p, q, v)', IsFiniteSet(X),
                        Bringing(p, q, v)' # X
                 PROVE  Tells(p, q, v, X)'
    BY DEF NewsComes
  <2>2. PICK Z \in SUBSET Bringing(p, q, v) :
                 /\ IsFiniteSet(Z) /\ Bringing(p, q, v) \ Z = Bringing(p, q, v)' \ X
                 /\ lost + Cardinality(Z) <= lost' + Cardinality(X)
    BY <1>2, <2>1
  <2>3. Up(p) /\ v > ts[p][q] /\ Bringing(p, q, v) # Z
    BY <1>1, <2>1, <2>2 DEF Up
  <2>4. Tells(p, q, v, Z)
    BY <2>2, <2>3 DEF AllNews, NewsComes
  <2>5. QED
    BY <2>1, <2>2, <2>4, TellsKept
<1>4. ASSUME NEW p \in Proc, NEW r \in Proc PROVE NewsLeaves(r, p, q)'
  <2>1. PICK v \in Nat : v = ts[r][q]
    BY DEF TypeInv, TypeOK
  <2>2. SUFFICES ASSUME Spreads(r, p, q)',
                        NEW X \in SUBSET Bringing(p, q, v)', IsFiniteSet(X)
                 PROVE  Sends(r, q, lost + Cardinality(X))' \/ Tells(p, q, v, X)'
    BY <1>1, <2>1 DEF NewsLeaves, Tells, Bringing
  <2>3. PICK Z \in SUBSET Bringing(p, q, v) :
                 /\ IsFiniteSet(Z) /\ Bringing(p, q, v) \ Z = Bringing(p, q, v)' \ X
                 /\ lost + Cardinality(Z) <= lost' + Cardinality(X)
    BY <1>2, <2>2
  <2>4. Spreads(r, p, q)
    BY <1>1, <2>2 DEF Spreads, Up
  <2>5. Sends(r, q, lost + Cardinality(Z)) \/ Tells(p, q, v, Z)
    BY <2>1, <2>3, <2>4 DEF AllNews, NewsLeaves
  <2>6. CASE Tells(p, q, v, Z)
    BY <2>2, <2>3, <2>6, TellsKept
  <2>7. CASE Sends(r, q, lost + Cardinality(Z))
    <3>1. PICK l \in Nat : l = lost + Cardinality(Z)
      BY <2>3, LossCount
    <3>2. PICK k \in Nat : k = lost' + Cardinality(X) /\ l <= k
      <4>1. Cardinality(X) \in Nat
        BY <2>2, FS_CardinalityType
      <4>2. QED
        BY <1>1, <2>3, <3>1, <4>1
    <3>3. now' + beat'[r] <= now + beat[r]
      BY <1>1, PeriodAssumption DEF TypeInv, TypeOK
    <3>4. Sends(r, q, k)'
      BY <1>1, <2>7, <3>1, <3>2, <3>3, SendsKept
    <3>5. QED
      BY <3>2, <3>4 DEF Sends
  <2>8. QED
    BY <2>5, <2>6, <2>7
<1>5. QED
  BY <1>3, <1>4 DEF AllNews
-----------------------------------------------------------------------------
(* Sending. *)

\* The step sends p one datagram d, in which r says what it has of q.
OneMore(r, p, q, d) ==
    /\ {m \in net' : m.to = p} = {m \in net : m.to = p} \cup {d}
    /\ d.to = p /\ d.ts[q] = ts[r][q] /\ d.at = now

\* Whoever sends its news does so in time, so that d is as good as what is on
\* the way already.
LEMMA SentNew ==
    ASSUME TypeInv, TypeInv', [Next]_vars, NEW q \in Proc, ~Up(q), NEW p \in Proc,
           NEW r \in Proc, NewsLeaves(r, p, q), Spreads(r, p, q), lost' = lost,
           NEW d, OneMore(r, p, q, d), NEW v \in Nat, v <= ts[r][q],
           NEW X \in SUBSET Bringing(p, q, v)', IsFiniteSet(X), d \notin X
    PROVE  Tells(p, q, v, X)'
<1>1. PICK u \in Nat : u = ts[r][q] /\ v <= u
  BY DEF TypeInv, TypeOK
<1> DEFINE Y == X \cap Bringing(p, q, u)
<1>2. /\ Y \in SUBSET Bringing(p, q, u) /\ IsFiniteSet(Y)
      /\ Cardinality(Y) <= Cardinality(X)
      /\ Cardinality(X) \in Nat /\ Cardinality(Y) \in Nat
  BY FS_Subset, FS_CardinalityType
<1>3. d \in net' /\ d \in Datagram /\ d.ts[q] = u /\ d.at = now /\ d.to = p
  BY <1>1 DEF OneMore, TypeInv, TypeOK
<1>4. \A m \in net : m.to = p => m \in net'
  BY DEF OneMore
<1>5. Bringing(p, q, u) \ Y \subseteq Bringing(p, q, v)' \ X
  <2>1. \A m \in net : m.ts[q] \in Nat
    BY PairTypes
  <2>2. ASSUME NEW m \in Bringing(p, q, u) PROVE m \in Bringing(p, q, v)'
    BY <1>1, <1>4, <2>1 DEF Bringing
  <2>3. QED
    BY <2>2
<1>6. Sends(r, q, lost + Cardinality(Y)) \/ Tells(p, q, u, Y)
  BY <1>1, <1>2 DEF NewsLeaves, Tells, Bringing
<1>7. CASE Tells(p, q, u, Y)
  <2>1. lost + Cardinality(Y) <= lost' + Cardinality(X)
    BY <1>2, LossCount
  <2>2. QED
    BY <1>2, <1>5, <1>7, <2>1, TellsKept
<1>8. CASE Sends(r, q, lost + Cardinality(Y))
  <2>1. PICK l \in Nat : l = lost + Cardinality(Y)
    BY <1>2, LossCount
  <2>2. PICK k \in Nat : k = lost' + Cardinality(X) /\ l <= k
    BY <1>2, <2>1, LossCount
  <2> DEFINE a == Allowance(Cardinality(Knows(q, u)), l)
  <2>3. now + beat[r] <= crashedAt[q] + a
    BY <1>1, <1>8, <2>1 DEF Sends
  <2>4. a \in Int
    BY AllowanceKept
  <2>5. now \in Nat /\ beat[r] \in 0 .. Interval /\ crashedAt[q] \in Nat
    BY AllowanceKept DEF TypeInv, TypeOK
  <2> HIDE DEF a
  <2>6. now <= crashedAt[q] + a
    BY <2>3, <2>4, <2>5, PeriodAssumption
  <2>7. Prompt(d, q, l)
    BY <1>3, <2>6 DEF Prompt, a
  <2>8. Prompt(d, q, k)'
    BY <1>3, <2>2, <2>7, PromptKept
  <2>9. d \in Bringing(p, q, v)' \ X
    BY <1>1, <1>3 DEF Bringing
  <2>10. QED
    BY <2>2, <2>8, <2>9 DEF Tells, Prompt
<1>9. QED
  BY <1>6, <1>7, <1>8

\* If d is lost, the rest is what it was.
LEMMA SentOld ==
    ASSUME NEW p, NEW q, NEW r, NEW d, OneMore(r, p, q, d), NEW v,
           NEW X \in SUBSET Bringing(p, q, v)', IsFiniteSet(X), d \in X
    PROVE  \E Z \in SUBSET Bringing(p, q, v) :
               /\ IsFiniteSet(Z) /\ Cardinality(Z) <= Cardinality(X)
               /\ Bringing(p, q, v) \ Z = Bringing(p, q, v)' \ X
<1> DEFINE Z == X \cap Bringing(p, q, v)
<1>1. Bringing(p, q, v)' = Bringing(p, q, v) \cup {d}
  <2>1. \A m : m.to = p => (m \in net' <=> m \in net \/ m = d)
    BY DEF OneMore
  <2>2. d \in Bringing(p, q, v)'
    OBVIOUS
  <2>3. QED
    BY <2>1, <2>2 DEF Bringing
<1>2. Z \in SUBSET Bringing(p, q, v) /\ Z \in SUBSET X
  OBVIOUS
<1>3. IsFiniteSet(Z) /\ Cardinality(Z) <= Cardinality(X)
  BY <1>2, FS_Subset
<1>4. Bringing(p, q, v) \ Z = Bringing(p, q, v)' \ X
  BY <1>1
<1>5. QED
  BY <1>2, <1>3, <1>4

\* If the heartbeat is lost, the next one comes a sleep later.
LEMMA SentLost ==
    ASSUME TypeInv, TypeInv', [Next]_vars, NEW q \in Proc, ~Up(q), NEW p \in Proc,
           NEW r \in Proc, NewsLeaves(r, p, q), Spreads(r, p, q),
           lost' = lost, now' = now, beat[r] = 0, beat'[r] = Interval,
           ts'[r][q] = ts[r][q],
           NEW d, OneMore(r, p, q, d), NEW v \in Nat, v = ts[r][q],
           NEW X \in SUBSET Bringing(p, q, v)', IsFiniteSet(X), d \in X
    PROVE  Sends(r, q, lost + Cardinality(X))' \/ Tells(p, q, v, X)'
<1> DEFINE Z == X \ {d}
<1>1. IsFiniteSet(Z) /\ Cardinality(X) = Cardinality(Z) + 1
      /\ Cardinality(Z) \in Nat
  <2>1. Cardinality(X) \in Nat
    BY FS_CardinalityType
  <2>2. IsFiniteSet(Z) /\ Cardinality(Z) = Cardinality(X) - 1
    BY FS_RemoveElement
  <2>3. Cardinality(Z) \in Nat
    BY <2>2, FS_CardinalityType
  <2>4. QED
    BY <2>1, <2>2, <2>3
<1>2. \A m : m.to = p => (m \in net' <=> m \in net \/ m = d)
  BY DEF OneMore
<1>3. Z \in SUBSET Bringing(p, q, v)
  BY <1>2 DEF Bringing
<1>4. PICK l \in Nat : l = lost + Cardinality(Z) /\ lost + Cardinality(X) = l + 1
  BY <1>1, LossCount
<1>5. Sends(r, q, l) \/ Tells(p, q, v, Z)
  BY <1>1, <1>3, <1>4 DEF NewsLeaves, Tells, Bringing
<1> DEFINE a == Allowance(Cardinality(Knows(q, v)), l)
           b == Allowance(Cardinality(Knows(q, v)), l + 1)
           e == Allowance(Cardinality(Knows(q, v)'), l + 1)
<1>6. ASSUME now <= crashedAt[q] + a
      PROVE  Sends(r, q, lost + Cardinality(X))'
  <2>1. l + 1 \in Nat /\ Cardinality(Knows(q, v)) \in Nat
    BY KnowsFinite
  <2>2. a \in Int /\ b = a + Interval
    BY <2>1, AllowanceRules
  <2>3. /\ crashedAt'[q] = crashedAt[q] /\ crashedAt[q] \in Nat
        /\ e \in Int /\ b <= e
    BY <2>1, AllowanceKept
  <2>4. now \in Nat /\ Interval \in Nat
    BY PeriodAssumption DEF TypeInv, TypeOK
  <2> HIDE DEF a, b, e
  <2>5. now' + beat'[r] <= crashedAt'[q] + e
    BY <1>6, <2>2, <2>3, <2>4
  <2>6. v = ts'[r][q]
    OBVIOUS
  <2>7. lost' + Cardinality(X) = l + 1
    BY <1>4
  <2>8. QED
    BY <2>5, <2>6, <2>7 DEF Sends, e
<1>7. CASE Sends(r, q, l)
  <2>1. now + beat[r] <= crashedAt[q] + a
    BY <1>7 DEF Sends
  <2>2. now + beat[r] = now
    BY DEF TypeInv, TypeOK
  <2>3. QED
    BY <1>6, <2>1, <2>2
<1>8. CASE Tells(p, q, v, Z)
  <2>1. PICK m \in Bringing(p, q, v) \ Z : Prompt(m, q, l)
    BY <1>4, <1>8 DEF Tells
  <2>2. CASE m = d
    <3>1. now <= crashedAt[q] + a
      BY <2>1, <2>2 DEF Prompt, OneMore
    <3>2. QED
      BY <1>6, <3>1
  <2>3. CASE m # d
    <3>1. m \in Bringing(p, q, v)' \ X /\ m \in Datagram
      BY <1>2, <2>1, <2>3 DEF Bringing, TypeInv, TypeOK
    <3>2. l + 1 \in Nat /\ l <= l + 1
      OBVIOUS
    <3>3. Prompt(m, q, l + 1)'
      BY <2>1, <3>1, <3>2, PromptKept
    <3>4. lost' + Cardinality(X) = l + 1
      BY <1>4
    <3>5. QED
      BY <3>1, <3>3, <3>4 DEF Tells, Prompt
  <2>4. QED
    BY <2>2, <2>3
<1>9. QED
  BY <1>5, <1>7, <1>8

\* Where d is no such news it makes no difference.
LEMMA NoSuchNews ==
    ASSUME NEW p, NEW q, NEW r, NEW d, OneMore(r, p, q, d), ts[r][q] \in Nat,
           NEW v \in Nat, ~(v <= ts[r][q])
    PROVE  Bringing(p, q, v)' = Bringing(p, q, v)
<1>1. \A m : m.to = p => (m \in net' <=> m \in net \/ m = d)
  BY DEF OneMore
<1>2. ~(d.ts[q] >= v)
  BY DEF OneMore
<1>3. QED
  BY <1>1, <1>2 DEF Bringing

\* What p is told when it is sent one more datagram, by r, which has news ...
LEMMA ComesSent ==
    ASSUME TypeInv, TypeInv', [Next]_vars, NEW q \in Proc, ~Up(q), NEW p \in Proc,
           NEW r \in Proc, AllNews(q), lost' = lost, ts'[p][q] = ts[p][q],
           Up(r), r # p, p \notin failed[r], NEW d, OneMore(r, p, q, d)
    PROVE  NewsComes(p, q)'
<1>1. SUFFICES ASSUME NEW v \in Nat, Up(p)', v > ts'[p][q],
                      NEW X \in SUBSET Bringing(p, q, v)', IsFiniteSet(X),
                      Bringing(p, q, v)' # X
               PROVE  Tells(p, q, v, X)'
  BY DEF NewsComes
<1>2. Up(p) /\ v > ts[p][q] /\ ts[p][q] \in Nat /\ ts[r][q] \in Nat
  BY <1>1, EntryGrows DEF TypeInv, TypeOK
<1>3. NewsComes(p, q) /\ NewsLeaves(r, p, q)
  BY DEF AllNews
<1>4. CASE ~(v <= ts[r][q])
  <2>1. Bringing(p, q, v)' = Bringing(p, q, v)
    BY <1>2, <1>4, NoSuchNews
  <2>2. QED
    BY <1>1, <1>2, <1>3, <2>1, ComesAlike
<1>5. CASE v <= ts[r][q] /\ d \notin X
  <2>1. ts[r][q] > ts[p][q]
    BY <1>2, <1>5
  <2>2. Spreads(r, p, q)
    BY <1>2, <2>1 DEF Spreads
  <2>3. QED
    BY <1>1, <1>3, <1>5, <2>2, SentNew
<1>6. CASE d \in X
  <2>1. PICK Z \in SUBSET Bringing(p, q, v) :
               /\ IsFiniteSet(Z) /\ Cardinality(Z) <= Cardinality(X)
               /\ Bringing(p, q, v) \ Z = Bringing(p, q, v)' \ X
    BY <1>1, <1>6, SentOld
  <2>2. Tells(p, q, v, Z)
    BY <1>1, <1>2, <1>3, <2>1 DEF NewsComes
  <2>3. lost + Cardinality(Z) <= lost' + Cardinality(X)
    BY <1>1, <2>1, LossCount
  <2>4. QED
    BY <1>1, <2>1, <2>2, <2>3, TellsKept
<1>7. QED
  BY <1>4, <1>5, <1>6

\* ... and by those that have not sent theirs yet.
LEMMA LeavesSent ==
    ASSUME TypeInv, TypeInv', [Next]_vars, NEW q \in Proc, ~Up(q), NEW p \in Proc,
           NEW r \in Proc, NEW x \in Proc, AllNews(q), lost' = lost, now' = now,
           failed' = failed, ts'[p][q] = ts[p][q], ts'[x][q] = ts[x][q],
           Up(r), r # p, p \notin failed[r],
           beat'[x] = beat[x] \/ (x = r /\ beat[r] = 0 /\ beat'[r] = Interval),
           NEW d, OneMore(r, p, q, d)
    PROVE  NewsLeaves(x, p, q)'
<1>1. PICK v \in Nat : v = ts'[x][q]
  BY DEF TypeInv, TypeOK
<1>2. SUFFICES ASSUME Spreads(x, p, q)',
                      NEW X \in SUBSET Bringing(p, q, v)', IsFiniteSet(X)
               PROVE  Sends(x, q, lost + Cardinality(X))' \/ Tells(p, q, v, X)'
  BY <1>1 DEF NewsLeaves, Tells, Bringing
<1>3. /\ v = ts[x][q] /\ v > ts[p][q] /\ ts[p][q] \in Nat /\ ts[r][q] \in Nat
      /\ Up(x) /\ Up(p) /\ x # p /\ p \notin failed[x]
  BY <1>1, <1>2, EntryGrows DEF Spreads, TypeInv, TypeOK
<1>4. Spreads(x, p, q) /\ NewsLeaves(x, p, q) /\ NewsLeaves(r, p, q)
  BY <1>3 DEF Spreads, AllNews
<1>5. ASSUME beat'[x] = beat[x] PROVE now' + beat'[x] <= now + beat[x]
  BY <1>5, PeriodAssumption DEF TypeInv, TypeOK
<1>6. CASE ~(v <= ts[r][q])
  <2>1. Bringing(p, q, ts[x][q])' = Bringing(p, q, ts[x][q])
    <3>1. Bringing(p, q, v)' = Bringing(p, q, v)
      BY <1>3, <1>6, NoSuchNews
    <3>2. QED
      BY <1>1, <1>3, <3>1 DEF Bringing
  <2>2. x # r
    BY <1>3, <1>6
  <2>3. X \in SUBSET Bringing(p, q, ts[x][q])
    BY <1>1, <1>2, <1>3, <2>1 DEF Bringing
  <2>4. Sends(x, q, lost + Cardinality(X))' \/ Tells(p, q, ts[x][q], X)'
    BY <1>2, <1>4, <1>5, <2>1, <2>2, <2>3, LeavesAlike
  <2>5. QED
    BY <1>1, <2>4 DEF Tells, Bringing
<1>7. CASE v <= ts[r][q] /\ d \notin X
  <2>1. ts[r][q] > ts[p][q]
    BY <1>3, <1>7
  <2>2. Spreads(r, p, q)
    BY <1>3, <2>1 DEF Spreads
  <2>3. QED
    BY <1>2, <1>4, <1>7, <2>2, SentNew
<1>8. CASE d \in X /\ beat'[x] = beat[x]
  <2>1. PICK Z \in SUBSET Bringing(p, q, v) :
               /\ IsFiniteSet(Z) /\ Cardinality(Z) <= Cardinality(X)
               /\ Bringing(p, q, v) \ Z = Bringing(p, q, v)' \ X
    BY <1>2, <1>8, SentOld
  <2>2. lost + Cardinality(Z) <= lost' + Cardinality(X)
    BY <1>2, <2>1, LossCount
  <2>3. Sends(x, q, lost + Cardinality(Z)) \/ Tells(p, q, v, Z)
    BY <1>3, <1>4, <2>1 DEF NewsLeaves
  <2>4. CASE Tells(p, q, v, Z)
    BY <1>2, <2>1, <2>2, <2>4, TellsKept
  <2>5. CASE Sends(x, q, lost + Cardinality(Z))
    <3>1. PICK l \in Nat : l = lost + Cardinality(Z)
      BY <2>1, LossCount
    <3>2. PICK k \in Nat : k = lost' + Cardinality(X) /\ l <= k
      BY <1>2, <2>2, <3>1, LossCount
    <3>3. Sends(x, q, k)'
      BY <1>5, <1>8, <2>5, <3>1, <3>2, SendsKept
    <3>4. QED
      BY <3>2, <3>3 DEF Sends
  <2>6. QED
    BY <2>3, <2>4, <2>5
<1>9. CASE d \in X /\ x = r /\ beat[r] = 0 /\ beat'[r] = Interval
  BY <1>2, <1>3, <1>4, <1>9, SentLost
<1>10. QED
  BY <1>6, <1>7, <1>8, <1>9

\* unicast() to all: those it leaves out are not to be told by r.
LEMMA NewsSent ==
    ASSUME TypeInv, TypeInv', [Next]_vars, NEW q \in Proc, ~Up(q), AllNews(q),
           NEW r \in Proc, Up(r), UNCHANGED <<now, lost, failed, crashedAt>>,
           \A x \in Proc : ts'[x][q] = ts[x][q],
           \A x \in Proc : \/ beat'[x] = beat[x]
                           \/ x = r /\ beat[r] = 0 /\ beat'[r] = Interval,
           NEW clock, clock[q] = ts[r][q],
           net' = net \cup UnicastAll(r, clock)
    PROVE  AllNews(q)'
<1>1. SUFFICES ASSUME NEW p \in Proc
               PROVE  NewsComes(p, q)' /\ \A x \in Proc : NewsLeaves(x, p, q)'
  BY DEF AllNews
<1> DEFINE d == [to |-> p, ts |-> clock, failed |-> failed[r], at |-> now]
<1>2. CASE p \in External(r) \ failed[r] /\ Up(p)
  <2>1. {m \in UnicastAll(r, clock) : m.to = p} = {d}
    BY <1>2 DEF UnicastAll
  <2>2. d.to = p /\ d.ts = clock /\ d.at = now
    OBVIOUS
  <2> HIDE DEF d
  <2>3. {m \in net' : m.to = p} = {m \in net : m.to = p} \cup {d}
    BY <2>1
  <2>4. OneMore(r, p, q, d)
    BY <2>2, <2>3 DEF OneMore
  <2>5. r # p /\ p \notin failed[r]
    BY <1>2 DEF External
  <2>6. NewsComes(p, q)'
    BY <2>4, <2>5, ComesSent
  <2>7. ASSUME NEW x \in Proc PROVE NewsLeaves(x, p, q)'
    <3>1. /\ ts'[p][q] = ts[p][q] /\ ts'[x][q] = ts[x][q]
          /\ lost' = lost /\ now' = now /\ failed' = failed
      OBVIOUS
    <3>2. beat'[x] = beat[x] \/ (x = r /\ beat[r] = 0 /\ beat'[r] = Interval)
      OBVIOUS
    <3>3. QED
      BY <2>4, <2>5, <3>1, <3>2, LeavesSent
  <2>8. QED
    BY <2>6, <2>7
<1>3. CASE ~(p \in External(r) \ failed[r] /\ Up(p))
  <2>1. \A m \in UnicastAll(r, clock) : m.to # p
    BY <1>3 DEF UnicastAll
  <2>2. \A v \in Nat : Bringing(p, q, v)' = Bringing(p, q, v)
    BY <2>1 DEF Bringing
  <2>3. NewsComes(p, q)'
    BY <2>2, ComesKept DEF AllNews
  <2>4. ASSUME NEW x \in Proc PROVE NewsLeaves(x, p, q)'
    <3>1. ASSUME Spreads(x, p, q)'
          PROVE  /\ Spreads(x, p, q) /\ ts'[x][q] = ts[x][q]
                 /\ now' + beat'[x] <= now + beat[x]
      <4>1. Spreads(x, p, q)
        BY <3>1 DEF Spreads, Up
      <4>2. x # r
        BY <1>3, <4>1 DEF Spreads, External
      <4>3. QED
        BY <4>1, <4>2, PeriodAssumption DEF TypeInv, TypeOK
    <3>2. NewsLeaves(x, p, q)
      BY DEF AllNews
    <3>3. QED
      BY <2>2, <3>1, <3>2, LeavesKept
  <2>5. QED
    BY <2>3, <2>4
<1>4. QED
  BY <1>2, <1>3
-----------------------------------------------------------------------------
(* Every step. *)

\* A process that dies has sent its news by then, and who has it sends it within
\* a sleep.
LEMMA NewsOwnCrash ==
    ASSUME TypeInv, TypeInv', SentBefore, NEW q \in Proc, Crash(q)
    PROVE  AllNews(q)'
<1>1. /\ now \in Nat /\ now' = now /\ crashedAt'[q] = now
      /\ net' \subseteq net /\ beat' \in [Proc -> 0 .. Interval]
      /\ ~Up(q)'
  <2>1. now # Never
    BY PairTypes
  <2>2. QED
    BY <2>1 DEF Crash, Up, TypeInv, TypeOK
<1>2. \A v : IsFiniteSet(Knows(q, v)') /\ q \in Knows(q, v)'
  BY <1>1, ProcAssumption, FS_Subset DEF Knows
<1>3. \A X : IsFiniteSet(X) => lost' + Cardinality(X) \in Nat
  BY FS_CardinalityType DEF TypeInv, TypeOK
<1>4. ASSUME NEW n \in Nat, NEW k \in Nat, NEW l \in Nat, n \in {1, 2}, n <= k
      PROVE  /\ Allowance(k, l) \in Int /\ 0 <= Allowance(k, l)
             /\ n = 2 => Interval <= Allowance(k, l)
  <2>1. /\ Allowance(k, l) \in Int /\ Allowance(n, 0) \in Int
        /\ Allowance(n, 0) <= Allowance(k, l)
    <3>1. 0 \in Nat /\ 0 <= l
      OBVIOUS
    <3>2. Allowance(k, l) \in Int /\ Allowance(n, 0) \in Int
      BY <3>1, AllowanceRules
    <3>3. QED
      BY <1>4, <3>1, <3>2, AllowanceGrows
  <2>2. MaxDelay \in Nat /\ Interval \in Nat
    BY PeriodAssumption, BoundAssumption
  <2>3. Allowance(1, 0) = 0 /\ Allowance(2, 0) = MaxDelay + Interval
    BY <2>2 DEF Allowance
  <2>4. QED
    BY <1>4, <2>1, <2>2, <2>3
<1>5. ASSUME NEW p \in Proc PROVE NewsComes(p, q)'
  <2>1. SUFFICES ASSUME NEW v \in Nat,
                        NEW X \in SUBSET Bringing(p, q, v)', IsFiniteSet(X),
                        Bringing(p, q, v)' # X
                 PROVE  Tells(p, q, v, X)'
    BY DEF NewsComes
  <2>2. PICK m \in Bringing(p, q, v)' : m \notin X
    BY <2>1
  <2>3. m \in net' /\ m.at \in Nat /\ m.at <= now
    BY <1>1, <2>2 DEF Bringing, SentBefore, TypeInv, TypeOK, Datagram
  <2> DEFINE K == Knows(q, m.ts[q])'
             a == Allowance(Cardinality(K), lost' + Cardinality(X))
  <2>4. Cardinality(K) \in Nat /\ 1 <= Cardinality(K)
    <3>1. Cardinality(K) \in Nat /\ Cardinality(K) # 0
      BY <1>2, FS_CardinalityType, FS_EmptySet
    <3>2. QED
      BY <3>1
  <2>5. a \in Int /\ 0 <= a
    BY <1>3, <1>4, <2>1, <2>4
  <2> HIDE DEF a
  <2>6. m.at <= crashedAt'[q] + a
    BY <1>1, <2>3, <2>5
  <2>7. QED
    BY <2>2, <2>6 DEF Tells, Prompt, a
<1>6. ASSUME NEW p \in Proc, NEW r \in Proc PROVE NewsLeaves(r, p, q)'
  <2>1. SUFFICES ASSUME Up(r)', NEW X, IsFiniteSet(X)
                 PROVE  Sends(r, q, lost + Cardinality(X))'
    BY DEF NewsLeaves, Spreads
  <2> DEFINE K == Knows(q, ts[r][q])'
             a == Allowance(Cardinality(K), lost' + Cardinality(X))
  <2>2. Cardinality(K) \in Nat /\ 2 <= Cardinality(K)
    <3>1. r # q
      BY <1>1, <2>1
    <3>2. r \in K
      BY DEF Knows, TypeInv, TypeOK
    <3>3. IsFiniteSet(K) /\ q \in K
      BY <1>2
    <3>4. Cardinality({r} \cup {q}) = 2
      <4>1. IsFiniteSet({r}) /\ Cardinality({r}) = 1 /\ q \notin {r}
        BY <3>1, FS_Singleton
      <4>2. Cardinality({r} \cup {q})
            = IF q \in {r} THEN Cardinality({r}) ELSE Cardinality({r}) + 1
        BY <4>1, FS_AddElement
      <4>3. QED
        BY <4>1, <4>2
    <3>5. {r} \cup {q} \in SUBSET K
      BY <3>2, <3>3
    <3>6. QED
      BY <3>3, <3>4, <3>5, FS_Subset, FS_CardinalityType
  <2>3. a \in Int /\ Interval <= a
    BY <1>3, <1>4, <2>1, <2>2
  <2> HIDE DEF a
  <2>4. now' + beat'[r] <= crashedAt'[q] + a
    BY <1>1, <2>3, PeriodAssumption
  <2>5. QED
    BY <2>4 DEF Sends, a
<1>7. QED
  BY <1>5, <1>6 DEF AllNews

\* Nothing comes before it is sent.
LEMMA SentBeforeNext == TypeInv /\ SentBefore /\ [Next]_vars => SentBefore'
<1> SUFFICES ASSUME TypeInv, SentBefore, [Next]_vars PROVE SentBefore'
  OBVIOUS
<1>1. now \in Nat /\ \A m \in net : m.at \in Nat
  BY DEF TypeInv, TypeOK, Datagram
<1>2. now' \in {now, now + 1}
  BY DEF Next, vars, MulticastRead, MulticastWrite, HeartbeatSend, Crash, Expire,
         Receive, Lose, Tick
<1>3. \/ net' \subseteq net
      \/ \E p \in Proc : \E clock :
             net' = net \cup UnicastAll(p, clock) /\ now' = now
  BY DEF Next, vars, MulticastRead, MulticastWrite, HeartbeatSend, Crash, Expire,
         Receive, Lose, Tick
<1>4. \A p \in Proc : \A clock : \A m \in UnicastAll(p, clock) : m.at = now
  BY DEF UnicastAll
<1>5. \A m \in net' : m \in net \/ (m.at = now /\ now' = now)
  BY <1>3, <1>4
<1>6. QED
  BY <1>1, <1>2, <1>5 DEF SentBefore

\* What makes a process hear of others makes it arm its timers.
LEMMA StampsNext == TypeInv /\ StampsEmpty /\ [Next]_vars => StampsEmpty'
<1> SUFFICES ASSUME TypeInv, StampsEmpty, [Next]_vars,
                    NEW r \in Proc, Up(r)', ~Armed(r)'
             PROVE  step'[r] = Unread /\ \A q \in Proc : ts'[r][q] = 0
  BY DEF StampsEmpty
<1> DEFINE Goal == step'[r] = Unread /\ \A q \in Proc : ts'[r][q] = 0
<1>1. /\ Up(r) /\ now # Never
      /\ armedAt \in [Proc -> 0 .. Never] /\ ts \in [Proc -> [Proc -> Nat]]
      /\ step \in [Proc -> Nat \cup {Unread}] /\ \A m \in net : m.to \in Proc
  BY UpBefore, PairTypes DEF TypeInv, TypeOK
<1>2. ASSUME ts'[r] = ts[r], step'[r] = step[r], armedAt'[r] = armedAt[r] PROVE Goal
  BY <1>1, <1>2 DEF StampsEmpty, Armed
<1>3. ASSUME NEW p \in Proc, ArmIfNecessary(p)
      PROVE  p # r /\ armedAt'[r] = armedAt[r]
  BY <1>1, <1>3 DEF ArmIfNecessary, Armed
<1>4. ASSUME NEW p \in Proc, MulticastRead(p) PROVE Goal
  <2>1. p # r /\ armedAt'[r] = armedAt[r]
    BY <1>3, <1>4 DEF MulticastRead
  <2>2. ts'[r] = ts[r] /\ step'[r] = step[r]
    BY <1>1, <1>4, <2>1 DEF MulticastRead
  <2>3. QED
    BY <1>2, <2>1, <2>2
<1>5. ASSUME NEW p \in Proc, Crash(p) PROVE Goal
  <2>1. p # r
    BY <1>1, <1>5 DEF Crash, Up, TypeInv, TypeOK
  <2>2. ts'[r] = ts[r] /\ step'[r] = step[r] /\ armedAt'[r] = armedAt[r]
    BY <1>1, <1>5, <2>1 DEF Crash
  <2>3. QED
    BY <1>2, <2>2
<1>6. ASSUME NEW m \in net, Receive(m) PROVE Goal
  <2>1. m.to # r /\ armedAt'[r] = armedAt[r]
    BY <1>1, <1>3, <1>6 DEF Receive
  <2>2. ts'[r] = ts[r] /\ step'[r] = step[r]
    BY <1>1, <1>6, <2>1 DEF Receive
  <2>3. QED
    BY <1>2, <2>1, <2>2
<1>7. ASSUME NEW p \in Proc, MulticastWrite(p) PROVE Goal
  <2>1. armedAt' = armedAt
    BY <1>7 DEF MulticastWrite
  <2>2. p # r
    BY <1>1, <1>7, <2>1 DEF MulticastWrite, StampsEmpty, Armed
  <2>3. ts'[r] = ts[r] /\ step'[r] = step[r]
    BY <1>1, <1>7, <2>2 DEF MulticastWrite
  <2>4. QED
    BY <1>2, <2>1, <2>3
<1>8. QED
  BY <1>2, <1>4, <1>5, <1>6, <1>7
     DEF Next, vars, HeartbeatSend, Expire, Lose, Tick

\* Every step leaves all news of the dead in time.
LEMMA NewsNext == NewsInv /\ TypeInv' /\ [Next]_vars => NewsInTime'
<1> SUFFICES ASSUME NewsInv, TypeInv', [Next]_vars, NEW q \in Proc, ~Up(q)'
             PROVE  AllNews(q)'
  BY DEF NewsInTime
<1>1. /\ TypeInv /\ NetFresh /\ SentBefore /\ StampsEmpty
      /\ ~Up(q) => AllNews(q)
  BY DEF NewsInv, NewsInTime
<1>2. ASSUME Up(q) PROVE AllNews(q)'
  <2>1. Crash(q)
    <3>1. crashedAt'[q] # crashedAt[q]
      BY <1>2 DEF Up
    <3>2. \E c \in Proc : Crash(c)
      BY <3>1 DEF Next, vars, MulticastRead, MulticastWrite, HeartbeatSend,
                  Expire, Receive, Lose, Tick
    <3>3. PICK c \in Proc : Crash(c)
      BY <3>2
    <3>4. c = q
      BY <1>1, <3>1, <3>3 DEF Crash, TypeInv, TypeOK
    <3>5. QED
      BY <3>3, <3>4
  <2>2. QED
    BY <1>1, <2>1, NewsOwnCrash
<1>3. CASE ~Up(q)
  <2>1. AllNews(q) /\ ~Up(q)
    BY <1>1, <1>3
  <2>2. /\ ts \in [Proc -> [Proc -> Nat]] /\ beat \in [Proc -> 0 .. Interval]
        /\ failed \in [Proc -> SUBSET Proc]
    BY <1>1 DEF TypeInv, TypeOK
  <2>3. ASSUME NEW p \in Proc, MulticastRead(p) PROVE AllNews(q)'
    <3>1. /\ UNCHANGED <<now, ts, net, lost>>
          /\ \A r \in Proc : /\ failed[r] \subseteq failed'[r]
                             /\ Armed(r) => beat'[r] = beat[r]
      BY <2>2, <2>3 DEF MulticastRead, ArmIfNecessary
    <3>2. QED
      BY <1>1, <2>1, <3>1, NewsAsItWas
  <2>4. ASSUME NEW p \in Proc, NEW x \in Proc, Expire(p, x) PROVE AllNews(q)'
    <3>1. /\ UNCHANGED <<now, ts, net, lost>>
          /\ \A r \in Proc : /\ failed[r] \subseteq failed'[r]
                             /\ Armed(r) => beat'[r] = beat[r]
      BY <2>2, <2>4 DEF Expire
    <3>2. QED
      BY <1>1, <2>1, <3>1, NewsAsItWas
  <2>5. CASE UNCHANGED vars
    <3>1. /\ UNCHANGED <<now, ts, net, lost>>
          /\ \A r \in Proc : /\ failed[r] \subseteq failed'[r]
                             /\ Armed(r) => beat'[r] = beat[r]
      BY <2>5 DEF vars
    <3>2. QED
      BY <1>1, <2>1, <3>1, NewsAsItWas
  <2>6. ASSUME NEW p \in Proc, MulticastWrite(p) PROVE AllNews(q)'
    <3> DEFINE clock == [ts[p] EXCEPT ![p] = step[p] + 1]
    <3>1. /\ Up(p) /\ UNCHANGED <<now, lost, failed, crashedAt, beat>>
          /\ net' = net \cup UnicastAll(p, clock)
          /\ ts' = [ts EXCEPT ![p] = clock]
      BY <2>6 DEF MulticastWrite
    <3>2. p # q
      BY <2>1, <3>1
    <3>3. clock[q] = ts[p][q] /\ \A x \in Proc : ts'[x][q] = ts[x][q]
      BY <2>2, <3>1, <3>2
    <3> HIDE DEF clock
    <3>4. QED
      BY <1>1, <2>1, <3>1, <3>3, NewsSent
  <2>7. ASSUME NEW p \in Proc, HeartbeatSend(p) PROVE AllNews(q)'
    <3>1. /\ Up(p) /\ UNCHANGED <<now, lost, failed, crashedAt, ts>>
          /\ net' = net \cup UnicastAll(p, ts[p])
          /\ \A x \in Proc : \/ beat'[x] = beat[x]
                             \/ x = p /\ beat[p] = 0 /\ beat'[p] = Interval
      BY <2>2, <2>7 DEF HeartbeatSend, HeartbeatClock
    <3>2. QED
      BY <1>1, <2>1, <3>1, NewsSent
  <2>8. ASSUME NEW m \in net, Receive(m) PROVE AllNews(q)'
    BY <1>1, <2>1, <2>8, NewsReceive
  <2>9. ASSUME NEW p \in Proc, Crash(p) PROVE AllNews(q)'
    BY <1>1, <2>1, <2>9, NewsOtherCrash
  <2>10. ASSUME NEW m \in net, Lose(m) PROVE AllNews(q)'
    BY <1>1, <2>1, <2>10, NewsLose
  <2>11. ASSUME Tick PROVE AllNews(q)'
    BY <1>1, <2>1, <2>11, NewsTick
  <2>12. QED
    BY <2>3, <2>4, <2>5, <2>6, <2>7, <2>8, <2>9, <2>10, <2>11 DEF Next
<1>4. QED
  BY <1>2, <1>3

-----------------------------------------------------------------------------
(* The listen timers. *)

\* When p will have noticed the death of q.
Deadline(p, q) == Later(crashedAt[q] + Relay, armedAt[p]) + Timeout

TimersRunOut ==
    \A p, q \in Proc :
        Up(p) /\ Armed(p) /\ ~Up(q) /\ q \notin failed[p]
        => now + timer[p][q] <= Deadline(p, q)

DetectInv == NewsInv /\ TimersRunOut

\* What is lost only puts it off.
LEMMA RelayGrows ==
    ASSUME TypeInv, TypeInv', lost <= lost', Cardinality(Proc) \in Nat \ {0, 1}
    PROVE  Relay \in Nat /\ Relay' \in Nat /\ Relay <= Relay'
<1>1. MaxDelay \in Nat /\ Interval \in Nat /\ lost \in Nat /\ lost' \in Nat
  BY PeriodAssumption, BoundAssumption DEF TypeInv, TypeOK
<1> DEFINE n == Cardinality(Proc)
<1>2. PICK e \in Nat : lost' = lost + e
  <2>1. \A i, j \in Nat : i <= j => j - i \in Nat /\ j = i + (j - i)
    OBVIOUS
  <2>2. QED
    BY <1>1, <2>1
<1>3. n - 2 + lost' = (n - 2 + lost) + e /\ n - 2 + lost \in Nat
  BY <1>1, <1>2
<1>4. ((n - 2 + lost) + e) * Interval = (n - 2 + lost) * Interval + e * Interval
  BY <1>1, <1>3
<1>5. e * Interval \in Nat
  BY <1>1
<1>6. Relay \in Nat
  BY AllowanceEnds
<1>7. (n - 2 + lost) * Interval \in Nat /\ (n - 1) * MaxDelay \in Nat
  <2>1. \A i, j \in Nat : i * j \in Nat
    OBVIOUS
  <2>2. n - 1 \in Nat
    OBVIOUS
  <2>3. QED
    BY <1>1, <1>3, <2>1, <2>2
<1>8. Relay' = Relay + e * Interval
  <2>1. Relay = (n - 1) * MaxDelay + (n - 2 + lost) * Interval
    BY DEF Relay
  <2>2. Relay' = (n - 1) * MaxDelay + ((n - 2 + lost) + e) * Interval
    BY <1>3 DEF Relay
  <2>3. QED
    BY <1>4, <1>5, <1>7, <2>1, <2>2
<1>9. QED
  BY <1>5, <1>6, <1>8

\* The types of a deadline.
LEMMA DeadlineTypes ==
    ASSUME TypeInv, NEW p \in Proc, NEW q \in Proc, p # q
    PROVE  /\ now \in Nat /\ timer[p][q] \in 0 .. Timeout /\ Timeout \in Nat
           /\ crashedAt[q] \in Nat /\ armedAt[p] \in Nat /\ Relay \in Nat
           /\ Cardinality(Proc) \in Nat \ {0, 1}
BY TwoMembers, AllowanceEnds, PeriodAssumption, BoundAssumption
   DEF TypeInv, TypeOK, Never

\* A timer that runs on is no later.
LEMMA TimerRunsOn ==
    ASSUME TypeInv, TypeInv', NEW p \in Proc, NEW q \in Proc, p # q,
           now + timer[p][q] <= Deadline(p, q), lost <= lost',
           crashedAt'[q] = crashedAt[q], armedAt'[p] = armedAt[p],
           now' + timer'[p][q] <= now + timer[p][q]
    PROVE  (now + timer[p][q] <= Deadline(p, q))'
<1>1. Relay <= Relay' /\ Relay' \in Nat
  BY RelayGrows, DeadlineTypes
<1>2. now' \in Nat /\ timer'[p][q] \in 0 .. Timeout
  BY DEF TypeInv, TypeOK
<1>3. QED
  BY <1>1, <1>2, DeadlineTypes DEF Deadline, Later

\* A timer that starts anew when there may be news, or when it is armed, ends
\* before the deadline.
LEMMA TimerStarts ==
    ASSUME TypeInv', NEW p \in Proc, NEW q \in Proc, p # q, Relay' \in Nat,
           now' <= crashedAt'[q] + Relay' \/ now' <= armedAt'[p]
    PROVE  (now + timer[p][q] <= Deadline(p, q))'
<1>1. /\ now' \in Nat /\ timer'[p][q] \in 0 .. Timeout /\ Timeout \in Nat
      /\ crashedAt'[q] \in Nat /\ armedAt'[p] \in Nat
  BY PeriodAssumption, BoundAssumption DEF TypeInv, TypeOK, Never
<1>2. QED
  BY <1>1 DEF Deadline, Later

\* News comes at most Relay after the death.
LEMMA NewsEnds ==
    ASSUME NewsInv, NEW p \in Proc, NEW q \in Proc, p # q, Up(p), ~Up(q),
           NEW m \in net, m.to = p, m.ts[q] > ts[p][q]
    PROVE  now <= crashedAt[q] + Relay
<1>1. TypeInv /\ NetFresh /\ NewsComes(p, q)
  BY DEF NewsInv, NewsInTime, AllNews
<1>2. m.ts[q] \in Nat /\ ts[p][q] \in Nat /\ Bringing(p, q, m.ts[q]) # {}
  BY <1>1 DEF TypeInv, TypeOK, Datagram, Bringing
<1>3. PICK w \in Nat : /\ p \notin Knows(q, w)
                       /\ now <= crashedAt[q] + MaxDelay
                                 + Allowance(Cardinality(Knows(q, w)), lost)
  BY <1>1, <1>2, FirstNews
<1> DEFINE k == Cardinality(Knows(q, w))
           n == Cardinality(Proc)
           a == Allowance(k, lost)
           b == Allowance(n - 1, lost)
<1>4. n \in Nat \ {0, 1} /\ lost \in Nat
  BY <1>1, TwoMembers DEF TypeInv, TypeOK
<1>5. k \in Nat /\ n - 1 \in Nat /\ k <= n - 1
  BY <1>3, <1>4, KnowsFew, KnowsFinite
<1>6. Relay = b + MaxDelay
  BY <1>1, <1>4, AllowanceEnds
<1>7. now <= crashedAt[q] + MaxDelay + a
  BY <1>3
<1> HIDE DEF k, n
<1>8. a \in Int /\ b \in Int /\ a <= b
  BY <1>4, <1>5, AllowanceRules, AllowanceGrows
<1>9. now \in Nat /\ crashedAt[q] \in Nat /\ MaxDelay \in Nat
  BY <1>1, BoundAssumption DEF TypeInv, TypeOK, Never
<1> HIDE DEF a, b
<1>10. QED
  BY <1>6, <1>7, <1>8, <1>9

\* Every step leaves every timer that runs for a dead process in time.
LEMMA TimersNext == DetectInv /\ TypeInv' /\ [Next]_vars => TimersRunOut'
<1> SUFFICES ASSUME DetectInv, TypeInv', [Next]_vars,
                    NEW p \in Proc, NEW q \in Proc,
                    Up(p)', Armed(p)', ~Up(q)', q \notin failed'[p]
             PROVE  (now + timer[p][q] <= Deadline(p, q))'
  BY DEF TimersRunOut
<1> DEFINE Goal == (now + timer[p][q] <= Deadline(p, q))'
<1>1. NewsInv /\ TypeInv /\ TimersRunOut
  BY DEF DetectInv, NewsInv
<1>2. /\ Up(p) /\ p # q
      /\ ~Up(q) => crashedAt'[q] = crashedAt[q]
  BY <1>1, UpBefore, EntryGrows
<1>3. /\ now \in Nat /\ timer \in [Proc -> [Proc -> 0 .. Timeout]]
      /\ armedAt \in [Proc -> 0 .. Never] /\ failed \in [Proc -> SUBSET Proc]
      /\ Timeout \in Nat \ {0} /\ lost \in Nat
      /\ Cardinality(Proc) \in Nat \ {0, 1}
  BY <1>1, <1>2, PeriodAssumption, TwoMembers DEF TypeInv, TypeOK
<1>4. lost <= lost' /\ Relay' \in Nat
  <2>1. lost <= lost'
    <3>1. lost' = lost \/ lost' = lost + 1
      BY DEF Next, vars, MulticastRead, MulticastWrite, HeartbeatSend, Crash,
             Expire, Receive, Lose, Tick
    <3>2. QED
      BY <1>3, <3>1
  <2>2. QED
    BY <1>1, <1>3, <2>1, RelayGrows
\* The timer of a process that goes on as it was.
<1>5. ASSUME ~Up(q), Armed(p), failed[p] \subseteq failed'[p],
             armedAt'[p] = armedAt[p], now' + timer'[p][q] <= now + timer[p][q]
      PROVE  Goal
  <2>1. q \notin failed[p]
    BY <1>5
  <2>2. now + timer[p][q] <= Deadline(p, q)
    BY <1>1, <1>2, <1>5, <2>1 DEF TimersRunOut
  <2>3. QED
    BY <1>1, <1>2, <1>4, <1>5, <2>2, TimerRunsOn
<1>6. ASSUME now' <= crashedAt'[q] + Relay' \/ now' <= armedAt'[p]
      PROVE  Goal
  BY <1>2, <1>4, <1>6, TimerStarts
<1>7. ASSUME ~Up(q), now' = now, timer'[p] = timer[p], armedAt'[p] = armedAt[p],
             failed[p] \subseteq failed'[p]
      PROVE  Goal
  <2>1. Armed(p)
    BY <1>7 DEF Armed
  <2>2. now' + timer'[p][q] <= now + timer[p][q]
    BY <1>3, <1>7
  <2>3. QED
    BY <1>5, <1>7, <2>1, <2>2
<1>8. ASSUME crashedAt' = crashedAt PROVE ~Up(q)
  BY <1>8 DEF Up
<1>9. ASSUME NEW r \in Proc, MulticastRead(r) PROVE Goal
  <2>1. /\ crashedAt' = crashedAt /\ now' = now /\ failed' = failed
        /\ r = p /\ ~Armed(p) => armedAt'[p] = now
    BY <1>3, <1>9 DEF MulticastRead, ArmIfNecessary
  <2>2. CASE r = p /\ ~Armed(p)
    BY <1>3, <1>6, <2>1, <2>2
  <2>3. CASE ~(r = p /\ ~Armed(p))
    <3>1. timer'[p] = timer[p] /\ armedAt'[p] = armedAt[p]
      BY <1>3, <1>9, <2>3 DEF MulticastRead, ArmIfNecessary
    <3>2. QED
      BY <1>7, <1>8, <2>1, <3>1
  <2>4. QED
    BY <2>2, <2>3
<1>10. ASSUME NEW r \in Proc, MulticastWrite(r) \/ HeartbeatSend(r) PROVE Goal
  BY <1>7, <1>8, <1>10 DEF MulticastWrite, HeartbeatSend
<1>11. ASSUME NEW m \in net, Receive(m) PROVE Goal
  <2> DEFINE clock == Step(p, ts[p])
  <2>1. /\ crashedAt' = crashedAt /\ now' = now /\ lost' = lost
        /\ m.to \in Proc /\ failed' = [failed EXCEPT ![m.to] = @ \cup m.failed]
    BY <1>1, <1>11 DEF Receive, TypeInv, TypeOK, Datagram
  <2>2. ~Up(q) /\ failed[p] \subseteq failed'[p] /\ Relay' = Relay
    BY <1>3, <1>8, <2>1 DEF Relay
  <2>3. CASE m.to # p
    <3>1. timer'[p] = timer[p] /\ armedAt'[p] = armedAt[p]
      BY <1>3, <1>11, <2>1, <2>3 DEF Receive, ArmIfNecessary
    <3>2. QED
      BY <1>7, <2>1, <2>2, <3>1
  <2>4. CASE m.to = p /\ ~Armed(p)
    <3>1. armedAt'[p] = now
      BY <1>3, <1>11, <2>4 DEF Receive, ArmIfNecessary
    <3>2. QED
      BY <1>3, <1>6, <2>1, <3>1
  <2>5. CASE m.to = p /\ m.ts[q] > ts[p][q]
    <3>1. now <= crashedAt[q] + Relay
      BY <1>1, <1>2, <2>2, <2>5, NewsEnds
    <3>2. QED
      BY <1>6, <2>1, <2>2, <3>1
  <2>6. CASE m.to = p /\ Armed(p) /\ ~(m.ts[q] > ts[p][q])
    <3>1. q \notin News(clock, m.ts)
      <4>1. clock[q] = ts[p][q]
        BY <1>1, <1>2 DEF Step, TypeInv, TypeOK
      <4>2. QED
        BY <2>6, <4>1 DEF News
    <3>2. timer'[p][q] = timer[p][q] /\ armedAt'[p] = armedAt[p]
      BY <1>3, <1>11, <2>1, <2>6, <3>1 DEF Receive, ArmIfNecessary
    <3>3. now' + timer'[p][q] <= now + timer[p][q]
      BY <1>3, <2>1, <3>2
    <3>4. QED
      BY <1>5, <2>2, <2>6, <3>2, <3>3
  <2>7. QED
    BY <2>3, <2>4, <2>5, <2>6
<1>12. ASSUME NEW r \in Proc, NEW x \in Proc, Expire(r, x) PROVE Goal
  <2>1. /\ crashedAt' = crashedAt /\ now' = now /\ timer' = timer
        /\ armedAt' = armedAt /\ failed' = [failed EXCEPT ![r] = @ \cup {x}]
    BY <1>12 DEF Expire
  <2>2. failed[p] \subseteq failed'[p]
    BY <1>3, <2>1
  <2>3. QED
    BY <1>7, <1>8, <2>1, <2>2
<1>13. ASSUME NEW r \in Proc, Crash(r) PROVE Goal
  <2>1. /\ now' = now /\ lost' = lost
        /\ crashedAt' = [crashedAt EXCEPT ![r] = now]
    BY <1>13 DEF Crash
  <2>2. r # p
    BY <1>1, <2>1, PairTypes DEF Up, TypeInv, TypeOK
  <2>3. /\ timer'[p] = timer[p] /\ armedAt'[p] = armedAt[p]
        /\ failed'[p] = failed[p]
    BY <1>13, <2>2 DEF Crash, TypeInv, TypeOK
  <2>4. CASE r = q
    <3>1. crashedAt'[q] = now
      BY <1>1, <2>1, <2>4 DEF TypeInv, TypeOK
    <3>2. now' <= crashedAt'[q] + Relay'
      BY <1>3, <1>4, <2>1, <3>1
    <3>3. QED
      BY <1>6, <3>2
  <2>5. CASE r # q
    <3>1. ~Up(q)
      BY <1>1, <2>1, <2>5 DEF Up, TypeInv, TypeOK
    <3>2. QED
      BY <1>7, <2>1, <2>3, <3>1
  <2>6. QED
    BY <2>4, <2>5
<1>14. ASSUME NEW m \in net, Lose(m) PROVE Goal
  BY <1>7, <1>8, <1>14 DEF Lose
<1>15. ASSUME Tick PROVE Goal
  <2>1. /\ crashedAt' = crashedAt /\ now' = now + 1 /\ armedAt' = armedAt
        /\ failed' = failed
    BY <1>15 DEF Tick
  <2>2. Armed(p) /\ ~Up(q) /\ q \notin failed[p]
    BY <1>8, <2>1 DEF Armed
  <2>3. timer[p][q] # 0
    BY <1>2, <1>15, <2>2 DEF Tick, Urgent, External
  <2>4. timer'[p][q] = timer[p][q] - 1
    BY <1>2, <1>15, <2>2, <2>3 DEF Tick, Less
  <2>5. now' + timer'[p][q] <= now + timer[p][q]
    BY <1>3, <2>1, <2>4
  <2>6. QED
    BY <1>5, <2>1, <2>2, <2>5
<1>16. CASE UNCHANGED vars
  BY <1>7, <1>8, <1>16 DEF vars
<1>17. QED
  BY <1>9, <1>10, <1>11, <1>12, <1>13, <1>14, <1>15, <1>16 DEF Next

\* News of the dead in time, and timers that run out, are inductive together.
THEOREM DetectInvariant == Spec => []DetectInv
<1>1. Init => DetectInv
  <2>1. ASSUME Init PROVE /\ SentBefore /\ StampsEmpty /\ NetFresh
                          /\ \A p \in Proc : Up(p)
    BY <2>1 DEF Init, SentBefore, StampsEmpty, NetFresh, Up
  <2>2. QED
    BY <2>1, TypeInit DEF DetectInv, NewsInv, NewsInTime, TimersRunOut
<1>2. DetectInv /\ [Next]_vars => DetectInv'
  <2>1. SUFFICES ASSUME DetectInv, [Next]_vars PROVE DetectInv'
    OBVIOUS
  <2>2. NewsInv /\ TypeInv /\ NetFresh /\ SentBefore /\ StampsEmpty
    BY <2>1 DEF DetectInv, NewsInv
  <2>3. TypeInv' /\ NetFresh' /\ SentBefore' /\ StampsEmpty'
    BY <2>1, <2>2, TypeNext, FreshNext, SentBeforeNext, StampsNext
  <2>4. NewsInTime' /\ TimersRunOut'
    BY <2>1, <2>2, <2>3, NewsNext, TimersNext
  <2>5. QED
    BY <2>3, <2>4 DEF DetectInv, NewsInv
<1>3. QED
  BY <1>1, <1>2, PTL DEF Spec

\* Every failure is detected: in a group of any size, whoever else dies, however
\* much is lost and delayed, and although suspects are left out of the multicast,
\* a process with timers suspects a dead one Timeout after the last sign of life
\* can have reached it.
THEOREM EveryDeathIsDetected == Spec => []DetectedInTime
<1>1. DetectInv => DetectedInTime
  <2> SUFFICES ASSUME DetectInv, NEW p \in Proc, NEW q \in Proc,
                      Up(p), Armed(p), ~Up(q), q \notin failed[p],
                      now > Later(crashedAt[q] + Relay, armedAt[p]) + Timeout
               PROVE  FALSE
    BY DEF DetectedInTime
  <2>1. TypeInv /\ p # q
    BY DEF DetectInv, NewsInv
  <2>2. now + timer[p][q] <= Later(crashedAt[q] + Relay, armedAt[p]) + Timeout
    BY DEF DetectInv, TimersRunOut, Deadline
  <2>3. QED
    BY <2>1, <2>2, DeadlineTypes DEF Later
<1>2. QED
  BY DetectInvariant, <1>1, PTL
=============================================================================
