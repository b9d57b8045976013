---------------------------- MODULE ElectionProofs ----------------------------
(***************************************************************************)
(* Theorems about Election.  The types and LeadersAreElected hold for any  *)
(* number of replicas; that the election decides once, for up to three,     *)
(* which is what src/MP2/config asks for.  None of them rests on prepare() *)
(* and accept() being atomic, and that promises are kept is not among      *)
(* them: it is false.                                                      *)
(*                                                                         *)
(* The loops of startLeaderElection() end at the own number, so a replica  *)
(* has at most as many votes as there are numbers below its own.  Of three *)
(* replicas, 0 gets no vote, and 1 at most that of 0: but whoever votes is *)
(* alive, so 1 has counted two, and one of two is no majority.  Only 2 can *)
(* win, and it proposes no number below its own.  With five replicas this  *)
(* is false: 3 and 4 may both have a majority.                             *)
(***************************************************************************)
EXTENDS Election, FiniteSetTheorems, WellFoundedInduction, TLAPS

Asking == {"prepare", "accept"}

Records ==
    [pc : {"free", "start", "ping", "prepare", "accept", "inform",
           "assign", "check", "reply"},
     at : Replica, from : Client \cup Thread \cup {Gone},
     wait : ReplicaOrNone, i : 0 .. N, num : 0 .. N, votes : 0 .. N,
     high : ReplicaOrNone, ret : ReplicaOrNone]

\* A thread waits only for the replica whose turn it is, or for the leader.
WaitsRightly(f) ==
    f.wait # NoOne => /\ f.pc \in {"ping", "check"} \cup Asking
                      /\ f.pc # "check" => f.i = f.wait
                      /\ f.pc \in Asking => ~LoopEnds(f)

\* No more replicas are counted than were asked, and no more votes: the loops
\* that ask for votes do not go past the own number, and propose none below it.
CountsRightly(f) ==
    /\ f.pc \in {"start", "check"} => f.i = 0 /\ f.num = 0
    /\ f.pc \in {"start", "check", "ping"} => f.votes = 0
    /\ f.pc = "ping" => f.num <= f.i
    /\ f.pc \in Asking => f.votes <= f.i /\ f.i <= f.at
    /\ f.pc \in Asking \cup {"inform"} => f.at <= f.high

Good(f) == f \in Records /\ WaitsRightly(f) /\ CountsRightly(f)

\* A thread that was called by another one is what that one waits for, alone.
Callers ==
    \A t \in Thread : Running(t) /\ thr[t].from \in Thread =>
        /\ thr[thr[t].from].wait = thr[t].at
        /\ thr[thr[t].from].pc \in {"ping", "check"}
        /\ \A u \in Thread : Running(u) /\ thr[u].from = thr[t].from => u = t

\* What runs, runs at a replica that is up.
RunsUp == \A t \in Thread : Running(t) => up[thr[t].at]
ServedUp == \A x \in served : up[x.at]

\* The invariant for any number of replicas.
IInv ==
    /\ TypeOK
    /\ \A t \in Thread : Good(thr[t])
    /\ Callers
    /\ RunsUp
    /\ ServedUp
    /\ LeadersAreElected

\* 0, and 0 and 1, if they are alive and were asked, are among those counted.
CountsAlive(f, alive) ==
    LET Asked(r) == r \in Replica /\ (f.pc = "ping" => r < f.i)
    IN  f.pc \in Asking \cup {"ping"} =>
            /\ Asked(0) /\ alive[0] => 1 <= f.num
            /\ Asked(1) /\ alive[0] /\ alive[1] => 2 <= f.num

\* A vote for 1 is that of 0, and both are counted; nobody but 2 wins.
WinsRightly(f) ==
    /\ f.pc \in Asking /\ f.at = 1 /\ f.votes > 0 => 2 <= f.num
    /\ f.pc \in {"accept", "inform"} => f.at = 2

\* The invariant for up to three replicas.
IInvThree ==
    /\ IInv
    /\ \A t \in Thread : CountsAlive(thr[t], up) /\ WinsRightly(thr[t])
    /\ elected \subseteq {2}

-----------------------------------------------------------------------------
(* Threads. *)

\* A set of numbers has a least one.
LEMMA LeastNumber ==
    ASSUME NEW T, T \subseteq Nat, T # {}
    PROVE  \E x \in T : \A y \in T : x <= y
<1> DEFINE R == {ss \in Nat \X Nat : ss[1] < ss[2]}
<1>1. IsWellFoundedOn(OpToRel(<, Nat), Nat)
  BY NatLessThanWellFounded
<1>2. OpToRel(<, Nat) = R
  BY DEF OpToRel
<1>3. IsWellFoundedOn(R, Nat)
  BY <1>1, <1>2
<1>4. \A x, y \in Nat : y < x => <<y, x>> \in R
  OBVIOUS
<1> HIDE DEF R
<1>5. PICK x \in T : \A y \in T : ~(<<y, x>> \in R)
  BY <1>3, WFMin
<1>6. \A y \in T : x \in Nat /\ y \in Nat /\ ~(y < x)
  BY <1>4, <1>5
<1>7. \A y \in T : x <= y
  BY <1>6
<1>8. QED
  BY <1>7

\* The next thread is free.
LEMMA NextThreadFacts ==
    ASSUME HasThread
    PROVE  NextThread \in Thread /\ ~Running(NextThread)
<1> DEFINE T == {t \in Thread : ~Running(t)}
<1>1. T \subseteq Nat /\ T # {}
  BY MaxThreadsAssumption DEF HasThread, Thread
<1>2. PICK x \in T : \A y \in T : x <= y
  BY <1>1, LeastNumber
<1>3. \E t \in Thread : /\ ~Running(t)
                        /\ \A u \in Thread : ~Running(u) => t <= u
  BY <1>2
<1>4. QED
  BY <1>3 DEF NextThread

\* The numbers of replicas.
LEMMA ReplicaFacts ==
    /\ N \in Nat /\ N > 0 /\ 0 \in Replica
    /\ \A r : r \in Replica <=> r \in Int /\ 0 <= r /\ r < N
    /\ NoOne \notin Replica /\ NoOne \in ReplicaOrNone
    /\ \A r \in Replica : r \in ReplicaOrNone /\ r \in 0 .. N /\ r + 1 \in 0 .. N
BY NAssumption DEF Replica, NoOne, ReplicaOrNone

\* A thread that is not running is fit to be called.
LEMMA FreeIsGood == Good(Free) /\ Free.pc = "free" /\ Free.ret = NoOne
BY ReplicaFacts DEF Good, Free, Records, WaitsRightly, CountsRightly, Asking

\* A new call.
LEMMA HandlerIsGood ==
    ASSUME NEW pc \in {"start", "check"}, NEW r \in Replica,
           NEW caller \in Client \cup Thread \cup {Gone}
    PROVE  LET g == Handler(pc, r, caller)
           IN  /\ Good(g)
               /\ g.pc = pc /\ g.at = r /\ g.from = caller
               /\ g.wait = NoOne /\ g.ret = NoOne
BY ReplicaFacts DEF Handler, Good, Free, Records, WaitsRightly, CountsRightly, Asking

\* What keeps being true of a thread that is past its election.
LEMMA AssignIsGood ==
    ASSUME NEW r \in Replica, NEW caller \in Client \cup Thread \cup {Gone},
           NEW v \in ReplicaOrNone
    PROVE  LET g == [Handler("assign", r, caller) EXCEPT !.ret = v]
           IN  /\ Good(g)
               /\ g.pc = "assign" /\ g.at = r /\ g.from = caller
               /\ g.wait = NoOne /\ g.ret = v
BY ReplicaFacts DEF Handler, Good, Free, Records, WaitsRightly, CountsRightly, Asking

\* A replica answered, or did not.
LEMMA PingIsGood ==
    ASSUME NEW f, Good(f), f.pc = "ping", f.i < N
    PROVE  /\ Good(Counted(f)) /\ Good(Missed(f))
           /\ \A g \in {Counted(f), Missed(f)} :
                  /\ g.pc = "ping" /\ g.at = f.at /\ g.from = f.from
                  /\ g.wait = NoOne /\ g.ret = f.ret /\ g.i = f.i + 1
           /\ Counted(f).num = f.num + 1 /\ Missed(f).num = f.num
<1>1. /\ f.i \in 0 .. N /\ f.num \in 0 .. N /\ f.num <= f.i
      /\ f.i + 1 \in 0 .. N /\ f.num + 1 \in 0 .. N
  BY NAssumption DEF Good, Records, CountsRightly
<1>2. Counted(f) \in Records /\ Missed(f) \in Records
  BY <1>1, ReplicaFacts DEF Good, Records, Counted, Missed
<1>3. QED
  BY <1>1, <1>2 DEF Good, Records, Counted, Missed, WaitsRightly, CountsRightly, Asking
-----------------------------------------------------------------------------
(* What a step does to the threads. *)

\* Thread t goes on, without calling anybody.
Moves(t, g) ==
    /\ thr' = [thr EXCEPT ![t] = g]
    /\ Running(t) /\ thr[t].wait = NoOne
    /\ Good(g) /\ g.pc # "free" /\ g.wait = NoOne
    /\ g.at = thr[t].at /\ g.from = thr[t].from

\* Thread t calls r, where a thread of its own serves the call.
CallsThread(t, r) ==
    /\ Running(t) /\ thr[t].wait = NoOne /\ thr[t].pc \in {"ping", "check"}
    /\ r \in Replica /\ up[r]
    /\ \E n \in Thread :
           /\ ~Running(n)
           /\ thr' = [thr EXCEPT ![t].wait = r, ![n] = Handler("start", r, t)]
           /\ Good([thr[t] EXCEPT !.wait = r])

\* Thread t calls prepare() or accept() of r.
AsksFor(t, r) ==
    /\ Running(t) /\ thr[t].wait = NoOne
    /\ r \in Replica /\ up[r]
    /\ thr' = [thr EXCEPT ![t] = [thr[t] EXCEPT !.wait = r]]
    /\ Good([thr[t] EXCEPT !.wait = r])

\* The thread f waited for r to serve that call, and goes on as g.
Turned(f, g, r) ==
    /\ f.pc \in Asking /\ f.wait = r /\ ~LoopEnds(f)
    /\ Good(g) /\ g.pc = f.pc /\ g.wait = NoOne
    /\ g.at = f.at /\ g.from = f.from /\ g.num = f.num /\ g.ret = f.ret

Served(r) ==
    /\ r \in Replica /\ up[r]
    /\ thr' \in [Thread -> Records]
    /\ \A u \in Thread : thr'[u] = thr[u] \/ Turned(thr[u], thr'[u], r)

\* What t is told to return: what it was, nothing, or the leader of its replica.
Returns(t, g) == g.ret \in {thr[t].ret, NoOne, leader[thr[t].at]}

\* The shape of one thread.
LEMMA ThreadShape ==
    ASSUME TypeOK, NEW t \in Thread, Good(thr[t])
    PROVE  /\ thr[t] \in Records
           /\ thr[t].at \in Replica
           /\ thr[t].i \in Nat /\ thr[t].i <= N
           /\ thr[t].num \in Nat /\ thr[t].num <= N
           /\ thr[t].votes \in Nat
           /\ thr[t].from \in Client \cup Thread \cup {Gone}
           /\ thr[t].ret \in ReplicaOrNone /\ thr[t].high \in ReplicaOrNone
           /\ leader[thr[t].at] \in ReplicaOrNone
           /\ proposal[thr[t].at] \in 0 .. MaxProposal
BY NAssumption DEF Good, Records, TypeOK

\* startLeaderElection() begins, asks who is alive, and proposes.
LEMMA StartMoves ==
    ASSUME TypeOK, NEW t \in Thread, Good(thr[t]), Start(t)
    PROVE  LET g == [thr[t] EXCEPT !.pc = "ping"]
           IN  Moves(t, g) /\ Returns(t, g)
<1> DEFINE f == thr[t]
           g == [f EXCEPT !.pc = "ping"]
<1>1. f \in Records /\ f.pc = "start"
  BY ThreadShape DEF Start
<1>2. thr' = [thr EXCEPT ![t] = g]
  BY DEF Start, TypeOK
<1>3. /\ g \in Records /\ g.at = f.at /\ g.from = f.from /\ g.wait = f.wait
      /\ g.i = f.i /\ g.num = f.num /\ g.votes = f.votes /\ g.ret = f.ret
      /\ g.pc = "ping"
  BY <1>1 DEF Records
<1>4. f.wait = NoOne /\ f.i = 0 /\ f.num = 0 /\ f.votes = 0
  BY <1>1 DEF Good, WaitsRightly, CountsRightly, Asking
<1> HIDE DEF f, g
<1>5. Good(g)
  BY <1>3, <1>4 DEF Good, WaitsRightly, CountsRightly, Asking
<1>6. Moves(t, g) /\ Returns(t, g)
  BY <1>1, <1>2, <1>3, <1>4, <1>5 DEF Moves, Returns, Running, f
<1>7. QED
  BY <1>6 DEF f, g

\* A replica that does not exit answers, or is asked to elect.
LEMMA PingMoves ==
    ASSUME TypeOK, NEW t \in Thread, Good(thr[t]), Ping(t)
    PROVE  /\ thr[t].pc = "ping" /\ thr[t].i < N /\ thr[t].wait = NoOne
           /\ \/ /\ Dead(thr[t].i)
                 /\ Moves(t, Missed(thr[t])) /\ Returns(t, Missed(thr[t]))
              \/ /\ Moves(t, Counted(thr[t])) /\ Returns(t, Counted(thr[t]))
              \/ CallsThread(t, thr[t].i)
<1> DEFINE f == thr[t]
           r == f.i
<1>1. /\ f \in Records /\ f.pc = "ping" /\ f.wait = NoOne /\ r < N /\ r \in Nat
      /\ f.votes = 0 /\ f.num <= f.i
  BY ThreadShape DEF Ping, Calls, Good, CountsRightly
<1>2. r \in Replica
  BY <1>1, ReplicaFacts
<1>3. /\ Good(Counted(f)) /\ Good(Missed(f))
      /\ \A g \in {Counted(f), Missed(f)} :
             /\ g.pc = "ping" /\ g.at = f.at /\ g.from = f.from
             /\ g.wait = NoOne /\ g.ret = f.ret
  BY <1>1, PingIsGood
<1>4. CASE Dead(r) /\ thr' = [thr EXCEPT ![t] = Missed(@)]
  <2>1. thr' = [thr EXCEPT ![t] = Missed(f)]
    BY <1>4 DEF TypeOK
  <2> HIDE DEF f
  <2>2. Moves(t, Missed(f)) /\ Returns(t, Missed(f))
    BY <1>1, <1>3, <2>1 DEF Moves, Returns, Running, f
  <2>3. QED
    BY <1>1, <1>4, <2>2 DEF f
<1>5. CASE thr' = [thr EXCEPT ![t] = Counted(@)]
  <2>1. thr' = [thr EXCEPT ![t] = Counted(f)]
    BY <1>5 DEF TypeOK
  <2> HIDE DEF f
  <2>2. Moves(t, Counted(f)) /\ Returns(t, Counted(f))
    BY <1>1, <1>3, <2>1 DEF Moves, Returns, Running, f
  <2>3. QED
    BY <1>1, <2>2 DEF f
<1>6. CASE ~Dead(r) /\ StartAndWait(t, r)
  <2> DEFINE n == NextThread
  <2>1. n \in Thread /\ ~Running(n)
    BY <1>6, NextThreadFacts DEF StartAndWait
  <2>2. thr' = [thr EXCEPT ![t].wait = r, ![n] = Handler("start", r, t)]
    BY <1>6 DEF StartAndWait
  <2>3. up[r]
    BY <1>6 DEF Dead
  <2>4. Good([f EXCEPT !.wait = r])
    BY <1>1, <1>2, ReplicaFacts DEF Good, Records, WaitsRightly, CountsRightly, Asking
  <2> HIDE DEF n, r
  <2>5. CallsThread(t, r)
    BY <1>1, <1>2, <2>1, <2>2, <2>3, <2>4 DEF CallsThread, Running
  <2>6. QED
    BY <1>1, <2>5 DEF r
<1>7. QED
  BY <1>4, <1>5, <1>6 DEF Ping

\* The leader is asked whether it is alive.
LEMMA CheckMoves ==
    ASSUME TypeOK, NEW t \in Thread, Good(thr[t]), Check(t)
    PROVE  \/ \E pc \in {"start", "reply"} :
                  /\ Moves(t, [thr[t] EXCEPT !.pc = pc])
                  /\ Returns(t, [thr[t] EXCEPT !.pc = pc])
           \/ CallsThread(t, leader[thr[t].at])
<1> DEFINE f == thr[t]
           r == leader[f.at]
<1>1. /\ f \in Records /\ f.pc = "check" /\ f.wait = NoOne
      /\ f.votes = 0 /\ f.num = 0 /\ f.i = 0
  BY ThreadShape DEF Check, Calls, Good, CountsRightly
<1>2. ASSUME NEW pc \in {"start", "reply"}, thr' = [thr EXCEPT ![t].pc = pc]
      PROVE  Moves(t, [f EXCEPT !.pc = pc]) /\ Returns(t, [f EXCEPT !.pc = pc])
  <2> DEFINE g == [f EXCEPT !.pc = pc]
  <2>1. thr' = [thr EXCEPT ![t] = g]
    BY <1>2 DEF TypeOK
  <2>2. /\ g \in Records /\ g.at = f.at /\ g.from = f.from /\ g.wait = f.wait
        /\ g.i = f.i /\ g.num = f.num /\ g.votes = f.votes /\ g.ret = f.ret
        /\ g.pc = pc
    BY <1>1, <1>2 DEF Records
  <2> HIDE DEF g
  <2>3. Good(g)
    BY <1>1, <2>2 DEF Good, WaitsRightly, CountsRightly, Asking
  <2>4. Moves(t, g) /\ Returns(t, g)
    BY <1>1, <2>1, <2>2, <2>3 DEF Moves, Returns, Running
  <2>5. QED
    BY <2>4 DEF g
<1>3. CASE ~Dead(r) /\ StartAndWait(t, r)
  <2> DEFINE n == NextThread
  <2>1. n \in Thread /\ ~Running(n)
    BY <1>3, NextThreadFacts DEF StartAndWait
  <2>2. thr' = [thr EXCEPT ![t].wait = r, ![n] = Handler("start", r, t)]
    BY <1>3 DEF StartAndWait
  <2>3. up[r] /\ r \in Replica
    BY <1>3 DEF Dead
  <2>4. Good([f EXCEPT !.wait = r])
    BY <1>1, <2>3, ReplicaFacts DEF Good, Records, WaitsRightly, CountsRightly, Asking
  <2> HIDE DEF n, r
  <2>5. CallsThread(t, r)
    BY <1>1, <2>1, <2>2, <2>3, <2>4 DEF CallsThread, Running
  <2>6. QED
    BY <2>5 DEF r
<1>4. QED
  BY <1>2, <1>3 DEF Check
\* Those that were asked are counted, and the own number is proposed.
LEMMA ProposeMoves ==
    ASSUME TypeOK, NEW t \in Thread, Good(thr[t]), Propose(t)
    PROVE  LET g == [thr[t] EXCEPT !.pc = "prepare", !.i = 0, !.high = thr[t].at]
           IN  /\ thr[t].pc = "ping" /\ thr[t].i = N
               /\ Moves(t, g) /\ Returns(t, g)
<1> DEFINE f == thr[t]
           g == [f EXCEPT !.pc = "prepare", !.i = 0, !.high = f.at]
<1>1. f \in Records /\ f.pc = "ping" /\ f.i = N /\ f.at \in Replica
  BY ThreadShape DEF Propose
<1>2. f.wait = NoOne /\ f.votes = 0
  <2>1. f.wait \in ReplicaOrNone
    BY <1>1 DEF Records
  <2>2. f.wait \in Replica => f.wait # N
    BY ReplicaFacts
  <2>3. QED
    BY <1>1, <2>1, <2>2 DEF Good, WaitsRightly, CountsRightly, ReplicaOrNone
<1>3. thr' = [thr EXCEPT ![t] = g]
  BY DEF Propose, TypeOK
<1>4. /\ g \in Records /\ g.at = f.at /\ g.from = f.from /\ g.wait = f.wait
      /\ g.i = 0 /\ g.votes = f.votes /\ g.ret = f.ret
      /\ g.pc = "prepare" /\ g.high = f.at
  BY <1>1, ReplicaFacts DEF Records
<1>5. 0 <= f.at /\ f.at <= f.at
  BY <1>1, ReplicaFacts
<1> HIDE DEF f, g
<1>6. Good(g)
  BY <1>2, <1>4, <1>5 DEF Good, WaitsRightly, CountsRightly, Asking
<1>7. Moves(t, g) /\ Returns(t, g)
  BY <1>1, <1>2, <1>3, <1>4, <1>6 DEF Moves, Returns, Running, f
<1>8. QED
  BY <1>1, <1>7 DEF f, g

\* Where the loops over the acceptors are.
LEMMA LoopFacts ==
    ASSUME NEW f, Good(f), f.pc \in Asking \cup {"inform"}, ~LoopEnds(f)
    PROVE  /\ f.i \in Replica /\ f.i + 1 \in 0 .. N
           /\ f.pc \in Asking =>
                  \A v \in {0, 1} : /\ f.i + 1 <= f.at /\ f.votes + v <= f.i + 1
                                     /\ f.votes + v \in 0 .. N
<1>1. f \in Records /\ CountsRightly(f) /\ f.i < f.num /\ f.i # f.at
  <2>1. f \in Records
    BY DEF Good
  <2>2. f.i \in Int /\ f.num \in Int
    BY <2>1, NAssumption DEF Records
  <2>3. QED
    BY <2>1, <2>2 DEF Good, LoopEnds
<1>2. f.i \in 0 .. N /\ f.num \in 0 .. N /\ f.votes \in 0 .. N /\ f.at \in Replica
  BY <1>1 DEF Records
<1>3. f.i \in Replica /\ f.i + 1 \in 0 .. N
  BY <1>1, <1>2, NAssumption DEF Replica
<1>4. ASSUME f.pc \in Asking, NEW v \in {0, 1}
      PROVE  f.i + 1 <= f.at /\ f.votes + v <= f.i + 1 /\ f.votes + v \in 0 .. N
  <2>1. f.votes <= f.i /\ f.i <= f.at
    BY <1>1, <1>4 DEF CountsRightly
  <2>2. QED
    BY <1>1, <1>2, <1>3, <2>1, NAssumption DEF Replica
<1>5. QED
  BY <1>3, <1>4

\* The loop goes on without a vote, or with one.
LEMMA AskingIsGood ==
    ASSUME NEW f, Good(f), f.pc \in Asking \cup {"inform"}, ~LoopEnds(f), f.wait = NoOne
    PROVE  LET g == [f EXCEPT !.i = @ + 1]
           IN  /\ Good(g) /\ g.i = f.i + 1
               /\ g.pc = f.pc /\ g.at = f.at /\ g.from = f.from /\ g.wait = f.wait
               /\ g.ret = f.ret /\ g.votes = f.votes /\ g.num = f.num
<1> DEFINE g == [f EXCEPT !.i = @ + 1]
<1>1. f \in Records /\ CountsRightly(f) /\ f.i + 1 \in 0 .. N
  BY LoopFacts DEF Good
<1>2. /\ g \in Records /\ g.i = f.i + 1 /\ g.high = f.high
      /\ g.pc = f.pc /\ g.at = f.at /\ g.from = f.from /\ g.wait = f.wait
      /\ g.ret = f.ret /\ g.votes = f.votes /\ g.num = f.num
  BY <1>1 DEF Records
<1>3. f.pc \in Asking => f.i + 1 <= f.at /\ f.votes <= f.i + 1
  <2>1. f.votes \in Int
    BY <1>1 DEF Records
  <2>2. f.pc \in Asking => f.i + 1 <= f.at /\ f.votes + 0 <= f.i + 1
    BY LoopFacts
  <2>3. QED
    BY <2>1, <2>2
<1> HIDE DEF g
<1>4. Good(g)
  BY <1>1, <1>2, <1>3 DEF Good, WaitsRightly, CountsRightly, Asking
<1>5. QED
  BY <1>2, <1>4 DEF g

\* The acceptor has answered, with a vote or without, and perhaps with a value
\* that raises what is proposed.
LEMMA TurnIsGood ==
    ASSUME NEW f, Good(f), f.pc \in Asking, ~LoopEnds(f),
           NEW v \in {0, 1}, NEW h \in ReplicaOrNone, f.high <= h
    PROVE  Turned(f, Turn(f, v, h), f.wait)
<1> DEFINE g == Turn(f, v, h)
<1>1. /\ f \in Records /\ CountsRightly(f)
      /\ f.i + 1 \in 0 .. N /\ f.votes + v \in 0 .. N
      /\ f.i + 1 <= f.at /\ f.votes + v <= f.i + 1
  BY LoopFacts DEF Good
<1>2. /\ g \in Records /\ g.i = f.i + 1 /\ g.votes = f.votes + v /\ g.high = h
      /\ g.pc = f.pc /\ g.at = f.at /\ g.from = f.from /\ g.wait = NoOne
      /\ g.ret = f.ret /\ g.num = f.num
  BY <1>1, ReplicaFacts DEF Records, Turn
<1>3. f.at <= h
  <2>1. f.at \in Int /\ f.high \in Int /\ h \in Int
    BY <1>1, ReplicaFacts DEF Records, ReplicaOrNone, NoOne
  <2>2. f.at <= f.high
    BY <1>1 DEF CountsRightly
  <2>3. QED
    BY <2>1, <2>2
<1> HIDE DEF g
<1>4. Good(g)
  BY <1>1, <1>2, <1>3 DEF Good, WaitsRightly, CountsRightly, Asking
<1>5. QED
  BY <1>2, <1>4 DEF g, Turned

\* prepare() or accept() is called at the next acceptor, or that one is dead.
LEMMA SendMoves ==
    ASSUME TypeOK, NEW t \in Thread, Good(thr[t]),
           NEW pc \in Asking, NEW value, Send(t, pc, value)
    PROVE  /\ thr[t].pc = pc /\ ~LoopEnds(thr[t]) /\ thr[t].i \in Replica
           /\ \/ LET g == [thr[t] EXCEPT !.i = @ + 1]
                 IN  Moves(t, g) /\ Returns(t, g)
              \/ AsksFor(t, thr[t].i)
<1> DEFINE f == thr[t]
           r == f.i
<1>1. /\ f.pc = pc /\ f.wait = NoOne /\ ~LoopEnds(f) /\ r \in Replica
      /\ f \in Records /\ f.pc # "free"
  BY ThreadShape, LoopFacts DEF Send, Calls, Asking
<1>2. CASE thr' = [thr EXCEPT ![t].i = @ + 1]
  <2> DEFINE g == [f EXCEPT !.i = @ + 1]
  <2>1. thr' = [thr EXCEPT ![t] = g]
    BY <1>2 DEF TypeOK
  <2>2. /\ Good(g) /\ g.pc = f.pc /\ g.at = f.at /\ g.from = f.from
        /\ g.wait = f.wait /\ g.ret = f.ret
    BY <1>1, AskingIsGood DEF Asking
  <2> HIDE DEF g
  <2>3. Moves(t, g) /\ Returns(t, g)
    BY <1>1, <2>1, <2>2 DEF Moves, Returns, Running
  <2>4. QED
    BY <1>1, <2>3 DEF g
<1>3. CASE ~Dead(r) /\ thr' = [thr EXCEPT ![t].wait = r]
  <2> DEFINE g == [f EXCEPT !.wait = r]
  <2>1. thr' = [thr EXCEPT ![t] = g]
    BY <1>3 DEF TypeOK
  <2>2. /\ g \in Records /\ g.wait = r /\ g.pc = f.pc /\ g.at = f.at /\ g.i = f.i
        /\ g.num = f.num /\ g.votes = f.votes /\ g.high = f.high
    BY <1>1 DEF Records, ReplicaOrNone
  <2>3. ~LoopEnds(g) /\ CountsRightly(f)
    BY <1>1, <2>2 DEF LoopEnds, Good
  <2>4. up[r]
    BY <1>3 DEF Dead
  <2> HIDE DEF g
  <2>5. Good(g)
    BY <1>1, <2>2, <2>3 DEF Good, WaitsRightly, CountsRightly, Asking
  <2>6. QED
    BY <1>1, <2>1, <2>4, <2>5 DEF AsksFor, Running, g
<1>4. QED
  BY <1>1, <1>2, <1>3 DEF Send

\* prepare() and accept() at the acceptor: whoever waits for one of them has its
\* answer, or nobody has.
LEMMA ServeMoves ==
    ASSUME TypeOK, \A u \in Thread : Good(thr[u]), ServedUp, NEW x \in served, Serve(x)
    PROVE  thr' = thr \/ Served(x.at)
<1>1. x.at \in Replica /\ up[x.at] /\ x.value \in ReplicaOrNone
  BY DEF TypeOK, ServedUp
<1>2. ASSUME NEW v \in {0, 1}, NEW value \in ReplicaOrNone, Return(x, v, value)
      PROVE  Served(x.at)
  <2> DEFINE h(u) == Higher(value, thr[u].high)
  <2>1. \A u \in Thread : thr'[u] = IF u \in Caller(x) THEN Turn(thr[u], v, h(u)) ELSE thr[u]
    BY <1>2 DEF Return
  <2>2. ASSUME NEW u \in Thread, u \in Caller(x) PROVE Turned(thr[u], thr'[u], x.at)
    <3>1. /\ thr[u].pc \in Asking /\ thr[u].wait = x.at /\ Good(thr[u])
          /\ thr[u].high \in ReplicaOrNone
      BY <2>2, ThreadShape DEF Caller, Asking
    <3>2. ~LoopEnds(thr[u])
      BY <1>1, <3>1, ReplicaFacts DEF Good, WaitsRightly
    <3>3. h(u) \in ReplicaOrNone /\ thr[u].high <= h(u)
      <4>1. value \in Int /\ thr[u].high \in Int
        BY <3>1, ReplicaFacts DEF ReplicaOrNone, NoOne
      <4>2. QED
        BY <3>1, <4>1 DEF Higher
    <3> HIDE DEF h
    <3>4. Turned(thr[u], Turn(thr[u], v, h(u)), thr[u].wait)
      BY <3>1, <3>2, <3>3, TurnIsGood
    <3>5. QED
      BY <2>1, <2>2, <3>1, <3>4
  <2> HIDE DEF h
  <2>3. \A u \in Thread : thr'[u] = thr[u] \/ Turned(thr[u], thr'[u], x.at)
    BY <2>1, <2>2
  <2>4. \A u \in Thread : thr'[u] \in Records
    BY <2>3 DEF Turned, Good
  <2>5. thr' \in [Thread -> Records]
    <3>1. thr' = [u \in Thread |-> thr'[u]]
      BY <1>2 DEF Return
    <3>2. QED
      BY <2>4, <3>1
  <2>6. QED
    BY <1>1, <2>3, <2>5 DEF Served
<1>3. accepted[x.at].value \in ReplicaOrNone /\ NoOne \in ReplicaOrNone
  BY <1>1, ReplicaFacts DEF TypeOK
<1>4. CASE Consider(x) \/ Promise(x) \/ AcceptNumber(x)
  BY <1>2, <1>3, <1>4 DEF Consider, Promise, AcceptNumber, GoOn
<1>5. CASE Answer(x) \/ AcceptValue(x)
  BY <1>2, <1>3, <1>5 DEF Answer, AcceptValue
<1>6. QED
  BY <1>4, <1>5 DEF Serve

\* The end of an election: the leader is read.
LEMMA FinishMoves ==
    ASSUME TypeOK, NEW t \in Thread, Good(thr[t]), Running(t), thr[t].wait = NoOne,
           Finish(t)
    PROVE  \E g : g.pc = "assign" /\ Moves(t, g) /\ Returns(t, g)
<1> DEFINE f == thr[t]
           g == [Handler("assign", f.at, f.from) EXCEPT !.ret = leader[f.at]]
<1>1. /\ f.at \in Replica /\ f.from \in Client \cup Thread \cup {Gone}
      /\ leader[f.at] \in ReplicaOrNone
  BY ThreadShape
<1>2. thr' = [thr EXCEPT ![t] = g]
  BY DEF Finish, TypeOK
<1>3. /\ Good(g) /\ g.pc = "assign" /\ g.at = f.at /\ g.from = f.from
      /\ g.wait = NoOne /\ g.ret = leader[f.at]
  BY <1>1, AssignIsGood
<1> HIDE DEF g
<1>4. Moves(t, g) /\ Returns(t, g)
  BY <1>2, <1>3 DEF Moves, Returns
<1>5. QED
  BY <1>3, <1>4

\* A thread that has come to the end of such a loop waits for nobody.
LEMMA LoopsDoNotWait ==
    ASSUME TypeOK, NEW t \in Thread, Good(thr[t]), thr[t].pc \notin {"free", "ping", "check"},
           thr[t].pc \in Asking => LoopEnds(thr[t])
    PROVE  Running(t) /\ thr[t].wait = NoOne
BY DEF Running, Good, WaitsRightly

\* The votes are counted.
LEMMA PreparedMoves ==
    ASSUME TypeOK, NEW t \in Thread, Good(thr[t]), Prepared(t)
    PROVE  /\ thr[t].pc = "prepare" /\ LoopEnds(thr[t])
           /\ \/ LET g == [thr[t] EXCEPT !.pc = "accept", !.i = 0, !.votes = 0]
                 IN  Majority(thr[t]) /\ Moves(t, g) /\ Returns(t, g)
              \/ \E g : g.pc = "assign" /\ Moves(t, g) /\ Returns(t, g)
<1> DEFINE f == thr[t]
           g == [f EXCEPT !.pc = "accept", !.i = 0, !.votes = 0]
<1>1. /\ f.pc = "prepare" /\ LoopEnds(f) /\ f \in Records /\ CountsRightly(f)
      /\ Running(t) /\ f.wait = NoOne
  BY ThreadShape, LoopsDoNotWait DEF Prepared, Good
<1>2. CASE ~Majority(f) /\ Finish(t)
  BY <1>1, <1>2, FinishMoves
<1>3. CASE Majority(f) /\ thr' = [thr EXCEPT ![t] = g]
  <2>1. /\ g \in Records /\ g.pc = "accept" /\ g.i = 0 /\ g.votes = 0
        /\ g.at = f.at /\ g.from = f.from /\ g.wait = f.wait /\ g.ret = f.ret
        /\ g.high = f.high
    BY <1>1, ReplicaFacts DEF Records
  <2>2. f.at \in Replica /\ f.at <= f.high
    BY <1>1 DEF CountsRightly, Asking, Records
  <2>3. 0 <= f.at
    BY <2>2, ReplicaFacts
  <2> HIDE DEF g
  <2>4. Good(g)
    BY <1>1, <2>1, <2>2, <2>3 DEF Good, WaitsRightly, CountsRightly, Asking
  <2>5. Moves(t, g) /\ Returns(t, g)
    BY <1>1, <1>3, <2>1, <2>4 DEF Moves, Returns
  <2>6. QED
    BY <1>1, <1>3, <2>5 DEF g
<1>4. QED
  BY <1>2, <1>3 DEF Prepared

\* The acceptances are counted.
LEMMA AcceptedMoves ==
    ASSUME TypeOK, NEW t \in Thread, Good(thr[t]), Accepted(t)
    PROVE  /\ thr[t].pc = "accept" /\ LoopEnds(thr[t]) /\ thr[t].high \in Replica
           /\ \/ LET g == [thr[t] EXCEPT !.pc = "inform", !.i = 0]
                 IN  /\ Majority(thr[t]) /\ Moves(t, g) /\ Returns(t, g)
                     /\ leader' = [leader EXCEPT ![thr[t].at] = thr[t].high]
                     /\ elected' = elected \cup {thr[t].high}
              \/ /\ \E g : g.pc = "assign" /\ Moves(t, g) /\ Returns(t, g)
                 /\ UNCHANGED <<leader, elected>>
<1> DEFINE f == thr[t]
           g == [f EXCEPT !.pc = "inform", !.i = 0]
<1>1. /\ f.pc = "accept" /\ LoopEnds(f) /\ f \in Records /\ CountsRightly(f)
      /\ Running(t) /\ f.wait = NoOne
  BY ThreadShape, LoopsDoNotWait DEF Accepted, Good
<1>2. /\ f.at \in Replica /\ f.at <= f.high /\ f.high \in Replica
  <2>1. f.at \in Replica /\ f.at <= f.high /\ f.high \in ReplicaOrNone
    BY <1>1 DEF CountsRightly, Asking, Records
  <2>2. QED
    BY <2>1, ReplicaFacts DEF ReplicaOrNone, NoOne
<1>3. CASE ~Majority(f) /\ Finish(t) /\ UNCHANGED <<leader, elected>>
  BY <1>1, <1>2, <1>3, FinishMoves
<1>4. CASE /\ Majority(f) /\ thr' = [thr EXCEPT ![t] = g]
           /\ leader' = [leader EXCEPT ![f.at] = f.high]
           /\ elected' = elected \cup {f.high}
  <2>1. /\ g \in Records /\ g.pc = "inform" /\ g.i = 0 /\ g.votes = f.votes
        /\ g.at = f.at /\ g.from = f.from /\ g.wait = f.wait /\ g.ret = f.ret
        /\ g.high = f.high
    BY <1>1, ReplicaFacts DEF Records
  <2> HIDE DEF g
  <2>2. Good(g)
    BY <1>1, <1>2, <2>1 DEF Good, WaitsRightly, CountsRightly, Asking
  <2>3. Moves(t, g) /\ Returns(t, g)
    BY <1>1, <1>4, <2>1, <2>2 DEF Moves, Returns
  <2>4. QED
    BY <1>1, <1>2, <1>4, <2>3 DEF g
<1>5. QED
  BY <1>3, <1>4 DEF Accepted

\* The winner tells the others, and reads the leader.
LEMMA InformMoves ==
    ASSUME TypeOK, NEW t \in Thread, Good(thr[t]), Inform(t)
    PROVE  LET g == [thr[t] EXCEPT !.i = @ + 1]
           IN  /\ thr[t].pc = "inform" /\ thr[t].i \in Replica
               /\ Moves(t, g) /\ Returns(t, g)
<1> DEFINE f == thr[t]
           g == [f EXCEPT !.i = @ + 1]
<1>1. /\ f.pc = "inform" /\ f.wait = NoOne /\ ~LoopEnds(f) /\ f.i \in Replica
  BY ThreadShape, LoopFacts DEF Inform, Calls
<1>2. thr' = [thr EXCEPT ![t] = g]
  BY DEF Inform, TypeOK
<1>3. /\ Good(g) /\ g.pc = f.pc /\ g.at = f.at /\ g.from = f.from
      /\ g.wait = f.wait /\ g.ret = f.ret
  BY <1>1, AskingIsGood
<1> HIDE DEF g
<1>4. Moves(t, g) /\ Returns(t, g)
  BY <1>1, <1>2, <1>3 DEF Moves, Returns, Running
<1>5. QED
  BY <1>1, <1>4 DEF g

\* leader = startLeaderElection()
LEMMA AssignMoves ==
    ASSUME TypeOK, NEW t \in Thread, Good(thr[t]), Assign(t)
    PROVE  LET g == [thr[t] EXCEPT !.pc = "reply", !.ret = NoOne]
           IN  Moves(t, g) /\ Returns(t, g) /\ g.pc = "reply"
<1> DEFINE f == thr[t]
           g == [f EXCEPT !.pc = "reply", !.ret = NoOne]
<1>1. f \in Records /\ f.pc = "assign" /\ Running(t) /\ f.wait = NoOne
  BY ThreadShape, LoopsDoNotWait DEF Assign, Asking
<1>2. thr' = [thr EXCEPT ![t] = g]
  BY DEF Assign, TypeOK
<1>3. /\ g \in Records /\ g.pc = "reply" /\ g.ret = NoOne
      /\ g.at = f.at /\ g.from = f.from /\ g.wait = f.wait
  BY <1>1, ReplicaFacts DEF Records
<1> HIDE DEF g
<1>4. Good(g)
  BY <1>1, <1>3 DEF Good, WaitsRightly, CountsRightly, Asking
<1>5. Moves(t, g) /\ Returns(t, g)
  BY <1>1, <1>2, <1>3, <1>4 DEF Moves, Returns
<1>6. QED
  BY <1>3, <1>5 DEF g

\* Thread t ends, and u, if it waited for it, goes on.
Ends(t) == thr' = [thr EXCEPT ![t] = Free]
Answers(t, u, g) ==
    /\ u \in Thread /\ u # t /\ Running(u) /\ thr[t].from = u
    /\ thr' = [thr EXCEPT ![t] = Free, ![u] = g]
    /\ Good(g) /\ g.pc # "free" /\ g.wait = NoOne
    /\ g.at = thr[u].at /\ g.from = thr[u].from /\ g.ret = thr[u].ret

\* A call returns: the caller has counted its answer, or returns in turn.
LEMMA ReplyMoves ==
    ASSUME TypeOK, \A u \in Thread : Good(thr[u]), Callers, NEW t \in Thread, Reply(t)
    PROVE  /\ Running(t) /\ thr[t].wait = NoOne
           /\ \/ Ends(t) /\ thr[t].from \notin Thread
              \/ \E u \in Thread :
                     /\ thr[u].pc = "ping" /\ thr[u].i < N
                     /\ Answers(t, u, Counted(thr[u]))
              \/ \E u \in Thread : \E g : g.pc = "reply" /\ Answers(t, u, g)
<1> DEFINE f == thr[t]
<1>1. f \in Records /\ f.pc = "reply" /\ Running(t) /\ f.wait = NoOne
  BY ThreadShape, LoopsDoNotWait DEF Reply, Asking
<1>2. CASE f.from \in {Gone} \cup Client /\ thr' = [thr EXCEPT ![t] = Free]
  <2>1. f.from \notin Thread
    BY <1>2, ClientAssumption, MaxThreadsAssumption DEF Thread, Gone
  <2>2. QED
    BY <1>1, <1>2, <2>1 DEF Ends
<1>3. CASE f.from \in Thread
  <2> DEFINE u == f.from
             h == thr[u]
             g == IF h.pc = "ping" THEN Counted(h) ELSE [h EXCEPT !.pc = "reply", !.wait = NoOne]
  <2>1. u \in Thread /\ Good(h) /\ h \in Records /\ h.wait = f.at /\ f.at \in Replica
    BY <1>1, <1>3, ThreadShape DEF Callers
  <2>2. h.wait # NoOne
    BY <2>1, ReplicaFacts
  <2>3. h.pc \in {"ping", "check"} /\ (h.pc = "ping" => h.i = f.at)
    BY <1>1, <1>3, <2>1, <2>2 DEF Good, WaitsRightly, Callers
  <2>4. u # t
    BY <1>1, <2>3
  <2>5. thr' = [thr EXCEPT ![t] = Free, ![u] = g]
    <3>1. f.from # Gone /\ f.from \notin Client
      BY <1>3, ClientAssumption, MaxThreadsAssumption DEF Thread, Gone
    <3>2. thr' = [thr EXCEPT ![t] = Free, ![u] =
                     IF @.pc = "ping" THEN Counted(@)
                     ELSE [@ EXCEPT !.pc = "reply", !.wait = NoOne]]
      BY <1>3, <3>1 DEF Reply
    <3>3. thr \in [Thread -> Records]
      BY DEF TypeOK, Records
    <3>4. [thr EXCEPT ![t] = Free][u] = h
      BY <2>1, <2>4, <3>3
    <3>5. QED
      BY <3>2, <3>4
  <2>6. CASE h.pc = "ping"
    <3>1. f.at < N
      BY <2>1, ReplicaFacts
    <3>2. h.i < N
      BY <2>3, <2>6, <3>1
    <3> DEFINE k == Counted(h)
    <3>3. /\ Good(k) /\ k.pc = "ping" /\ k.at = h.at /\ k.from = h.from
          /\ k.wait = NoOne /\ k.ret = h.ret
      BY <2>1, <2>6, <3>2, PingIsGood
    <3>4. thr' = [thr EXCEPT ![t] = Free, ![u] = k]
      BY <2>5, <2>6
    <3> HIDE DEF k
    <3>5. Answers(t, u, k)
      BY <2>1, <2>4, <2>6, <3>3, <3>4 DEF Answers, Running
    <3>6. QED
      BY <1>1, <2>1, <2>6, <3>2, <3>5 DEF k
  <2>7. CASE h.pc = "check"
    <3> DEFINE k == [h EXCEPT !.pc = "reply", !.wait = NoOne]
    <3>1. /\ k \in Records /\ k.pc = "reply" /\ k.wait = NoOne
          /\ k.at = h.at /\ k.from = h.from /\ k.ret = h.ret
      BY <2>1, ReplicaFacts DEF Records
    <3>2. thr' = [thr EXCEPT ![t] = Free, ![u] = k]
      BY <2>5, <2>7
    <3> HIDE DEF k
    <3>3. Good(k)
      BY <3>1 DEF Good, WaitsRightly, CountsRightly, Asking
    <3>4. Answers(t, u, k)
      BY <2>1, <2>4, <2>7, <3>1, <3>2, <3>3 DEF Answers, Running
    <3>5. QED
      BY <1>1, <2>1, <3>1, <3>4
  <2>8. QED
    BY <2>3, <2>6, <2>7
<1>4. QED
  BY <1>2, <1>3 DEF Reply
\* A front end calls a replica that starts an election, or asks its leader.
ClientCalls(c) ==
    \E n \in Thread, r \in Replica, pc \in {"start", "check"} :
        /\ ~Running(n) /\ up[r]
        /\ thr' = [thr EXCEPT ![n] = Handler(pc, r, c)]

\* A call of a front end is answered at once, or has a thread of its own.
LEMMA AskMoves ==
    ASSUME NEW c \in Client, Ask(c)
    PROVE  thr' = thr \/ ClientCalls(c)
<1>1. ASSUME NEW r, NEW pc \in {"start", "check"}, ~Dead(r), HasThread,
             thr' = [thr EXCEPT ![NextThread] = Handler(pc, r, c)]
      PROVE  ClientCalls(c)
  <2> DEFINE n == NextThread
  <2>1. n \in Thread /\ ~Running(n)
    BY <1>1, NextThreadFacts
  <2>2. r \in Replica /\ up[r]
    BY <1>1 DEF Dead
  <2>3. thr' = [thr EXCEPT ![n] = Handler(pc, r, c)]
    BY <1>1
  <2> HIDE DEF n
  <2>4. QED
    BY <2>1, <2>2, <2>3 DEF ClientCalls
<1> DEFINE r == Target(cl[c])
<1>2. \/ thr' = thr
      \/ /\ ~Dead(r) /\ HasThread
         /\ \/ thr' = [thr EXCEPT ![NextThread] = Handler("start", r, c)]
            \/ thr' = [thr EXCEPT ![NextThread] = Handler("check", r, c)]
  BY DEF Ask
<1> HIDE DEF r
<1>3. QED
  BY <1>1, <1>2

\* What becomes of thread f when r, which it does not run at, exits.
Orphaned(f, g) == g = f \/ g = [f EXCEPT !.from = Gone]
Survives(f, g, r) ==
    /\ Good(g) /\ g.at = f.at /\ g.ret = f.ret
    /\ g.from = f.from \/ g.from = Gone
    /\ g.wait = IF f.wait = r THEN NoOne ELSE f.wait
    /\ \/ f.wait = r /\ g.pc = "start"
       \/ /\ f.pc = "ping" /\ f.wait = r
          /\ g.pc = "ping" /\ g.i = f.i + 1 /\ g.num = f.num
       \/ /\ g.pc = f.pc /\ g.num = f.num /\ g.votes = f.votes
          /\ g.pc = "ping" => g.i = f.i

\* Losing the caller changes nothing else.
LEMMA OrphanedIsGood ==
    ASSUME NEW f, NEW g, Good(f), Orphaned(f, g)
    PROVE  /\ Good(g) /\ (g.from = f.from \/ g.from = Gone)
           /\ g.pc = f.pc /\ g.at = f.at /\ g.wait = f.wait /\ g.i = f.i
           /\ g.num = f.num /\ g.votes = f.votes /\ g.high = f.high /\ g.ret = f.ret
<1>1. CASE g = f
  BY <1>1
<1>2. CASE g = [f EXCEPT !.from = Gone]
  <2>1. f \in Records
    BY DEF Good
  <2>2. /\ g \in Records /\ g.from = Gone
        /\ g.pc = f.pc /\ g.at = f.at /\ g.wait = f.wait /\ g.i = f.i
        /\ g.num = f.num /\ g.votes = f.votes /\ g.high = f.high /\ g.ret = f.ret
    BY <1>2, <2>1 DEF Records
  <2>3. Good(g)
    BY <2>2 DEF Good, WaitsRightly, CountsRightly, LoopEnds
  <2>4. QED
    BY <2>2, <2>3
<1>3. QED
  BY <1>1, <1>2 DEF Orphaned

\* A replica exits: its threads are gone, the others lose it.
LEMMA CrashMoves ==
    ASSUME NEW r \in Replica, Crash(r), NEW t \in Thread, Good(thr[t])
    PROVE  IF ~Running(t) \/ thr[t].at = r THEN thr'[t] = Free
           ELSE /\ Survives(thr[t], thr'[t], r) /\ thr'[t].pc # "free"
                /\ thr[t].from \in Thread /\ thr[thr[t].from].at = r => thr'[t].from = Gone
<1> DEFINE f == thr[t]
           g == IF f.from \in Thread /\ thr[f.from].at = r THEN [f EXCEPT !.from = Gone] ELSE f
           h == thr'[t]
<1>1. h = IF f.pc = "free" \/ f.at = r THEN Free
          ELSE CASE f.wait = r /\ f.pc = "ping"  -> Missed(g)
                 [] f.wait = r /\ f.pc \in {"prepare", "accept"} -> Turn(g, 0, f.high)
                 [] f.wait = r /\ f.pc = "check" -> [g EXCEPT !.pc = "start", !.wait = NoOne]
                 [] OTHER -> g
  BY DEF Crash
<1>2. CASE ~Running(t) \/ f.at = r
  BY <1>1, <1>2 DEF Running
<1>3. CASE Running(t) /\ f.at # r
  <2>1. h = IF f.wait = r /\ f.pc = "ping" THEN Missed(g)
            ELSE IF f.wait = r /\ f.pc \in Asking THEN Turn(g, 0, f.high)
            ELSE IF f.wait = r /\ f.pc = "check"
                 THEN [g EXCEPT !.pc = "start", !.wait = NoOne] ELSE g
    BY <1>1, <1>3 DEF Running, Asking
  <2>2. Orphaned(f, g)
    BY DEF Orphaned
  <2>3. f.from \in Thread /\ thr[f.from].at = r => g.from = Gone
    BY DEF Good, Records
  <2>4. f \in Records /\ WaitsRightly(f) /\ r # NoOne /\ r < N /\ f.pc # "free"
    BY <1>3, ReplicaFacts DEF Good, Running
  <2> HIDE DEF f, g, h
  <2>5. /\ Good(g) /\ (g.from = f.from \/ g.from = Gone)
        /\ g.pc = f.pc /\ g.at = f.at /\ g.wait = f.wait /\ g.i = f.i
        /\ g.num = f.num /\ g.votes = f.votes /\ g.high = f.high /\ g.ret = f.ret
    BY <2>2, OrphanedIsGood DEF f
  <2>6. CASE f.wait = r /\ f.pc = "ping"
    <3>1. g.i < N
      BY <2>4, <2>5, <2>6 DEF WaitsRightly
    <3> DEFINE m == Missed(g)
    <3>2. /\ Good(m) /\ m.pc = "ping" /\ m.at = g.at /\ m.from = g.from
          /\ m.wait = NoOne /\ m.ret = g.ret /\ m.i = g.i + 1 /\ m.num = g.num
      BY <2>5, <2>6, <3>1, PingIsGood
    <3>3. h = m
      BY <2>1, <2>6
    <3> HIDE DEF m
    <3>4. QED
      BY <1>3, <2>3, <2>5, <2>6, <3>2, <3>3 DEF Survives, f, h
  <2>7. CASE f.wait = r /\ f.pc = "check"
    <3>1. h = [g EXCEPT !.pc = "start", !.wait = NoOne]
      BY <2>1, <2>7 DEF Asking
    <3>2. g \in Records /\ CountsRightly(g)
      BY <2>5 DEF Good
    <3>3. /\ h \in Records /\ h.pc = "start" /\ h.wait = NoOne
          /\ h.at = g.at /\ h.from = g.from /\ h.i = g.i /\ h.num = g.num
          /\ h.votes = g.votes /\ h.ret = g.ret
      BY <3>1, <3>2, ReplicaFacts DEF Records
    <3>4. Good(h)
      BY <2>5, <2>7, <3>2, <3>3 DEF Good, WaitsRightly, CountsRightly, Asking
    <3>5. QED
      BY <1>3, <2>3, <2>5, <2>7, <3>3, <3>4 DEF Survives, f, h
  <2>8. CASE f.wait = r /\ f.pc \in Asking
    <3> DEFINE m == Turn(g, 0, f.high)
    <3>1. ~LoopEnds(g)
      BY <2>4, <2>5, <2>8 DEF WaitsRightly, LoopEnds
    <3>2. f.high \in ReplicaOrNone /\ f.high <= f.high /\ g \in Records /\ g.votes \in Nat
      BY <2>4, <2>5, NAssumption, ReplicaFacts DEF Good, Records, ReplicaOrNone, NoOne
    <3>3. Turned(g, m, g.wait)
      BY <2>5, <2>8, <3>1, <3>2, TurnIsGood
    <3>4. m.votes = g.votes
      BY <3>2 DEF Turn, Records
    <3>5. h = m
      BY <2>1, <2>8 DEF Asking
    <3> HIDE DEF m
    <3>6. QED
      BY <1>3, <2>3, <2>4, <2>5, <2>8, <3>3, <3>4, <3>5
         DEF Survives, Turned, Asking, f, h
  <2>9. CASE f.wait # r
    <3>1. h = g
      BY <2>1, <2>9
    <3>2. QED
      BY <1>3, <2>3, <2>4, <2>5, <2>9, <3>1 DEF Survives, f, h
  <2>10. f.wait = r => f.pc \in {"ping", "check"} \cup Asking
    BY <2>4 DEF WaitsRightly
  <2>11. QED
    BY <2>6, <2>7, <2>9, <2>10, <2>8
<1>4. QED
  BY <1>2, <1>3

\* A thread ends, and answers whoever waits for it.
Replies(t) ==
    /\ Running(t) /\ thr[t].wait = NoOne
    /\ Ends(t) \/ \E u \in Thread : \E g : Answers(t, u, g)

\* The cases of a step, for what concerns the threads.
LEMMA ThreadCases ==
    ASSUME TypeOK, \A u \in Thread : Good(thr[u]), Callers, ServedUp, [Next]_vars
    PROVE  \/ UNCHANGED <<thr, up>>
           \/ /\ UNCHANGED up
              /\ \/ \E t \in Thread : \E g : Moves(t, g) /\ Returns(t, g)
                 \/ \E t \in Thread, r \in Replica : CallsThread(t, r)
                 \/ \E t \in Thread, r \in Replica : AsksFor(t, r)
                 \/ \E r \in Replica : Served(r)
                 \/ \E t \in Thread : Replies(t)
                 \/ \E c \in Client : ClientCalls(c)
           \/ \E r \in Replica : Crash(r)
<1>1. ASSUME NEW t \in Thread, ThreadStep(t) PROVE UNCHANGED up
  BY <1>1 DEF ThreadStep, Start, Ping, Propose, Prepare, Send, Prepared, Accept, Accepted,
              Inform, Informed, Assign, Check, Reply
<1> DEFINE Goes(t) == \E g : Moves(t, g) /\ Returns(t, g)
<1>2. ASSUME NEW t \in Thread,
             \/ Start(t) \/ Propose(t) \/ Prepared(t)
             \/ Accepted(t) \/ Inform(t) \/ Assign(t)
      PROVE  Goes(t)
  <2>1. CASE Start(t)
    BY <2>1, StartMoves
  <2>2. CASE Propose(t)
    BY <2>2, ProposeMoves
  <2>3. CASE Prepared(t)
    BY <2>3, PreparedMoves
  <2>4. CASE Accepted(t)
    BY <2>4, AcceptedMoves
  <2>5. CASE Inform(t)
    BY <2>5, InformMoves
  <2>6. CASE Assign(t)
    BY <2>6, AssignMoves
  <2>7. QED
    BY <1>2, <2>1, <2>2, <2>3, <2>4, <2>5, <2>6
<1>3. ASSUME NEW t \in Thread, Informed(t) PROVE \E g : Moves(t, g) /\ Returns(t, g)
  BY <1>3, FinishMoves, LoopsDoNotWait DEF Informed, Asking
<1>4. ASSUME NEW t \in Thread, Ping(t) \/ Check(t)
      PROVE  \/ \E g : Moves(t, g) /\ Returns(t, g)
             \/ \E r \in Replica : CallsThread(t, r)
  BY <1>4, PingMoves, CheckMoves DEF CallsThread
<1>5. ASSUME NEW t \in Thread, Prepare(t) \/ Accept(t)
       PROVE  \/ \E g : Moves(t, g) /\ Returns(t, g)
              \/ \E r \in Replica : AsksFor(t, r)
  <2>1. \E pc \in Asking, value \in {NoOne, thr[t].high} : Send(t, pc, value)
    BY <1>5 DEF Prepare, Accept, Asking
  <2>2. QED
    BY <2>1, SendMoves
<1>6. ASSUME NEW x \in served, Serve(x)
       PROVE  UNCHANGED up /\ (thr' = thr \/ \E r \in Replica : Served(r))
  <2>1. x.at \in Replica
    BY DEF TypeOK
  <2>2. UNCHANGED up
    BY <1>6 DEF Serve
  <2>3. QED
    BY <1>6, <2>1, <2>2, ServeMoves
<1>7. ASSUME NEW t \in Thread, Reply(t) PROVE Replies(t)
  BY <1>7, ReplyMoves DEF Replies
<1>8. ASSUME NEW x \in informs, ReceiveInform(x) PROVE UNCHANGED <<thr, up>>
  BY <1>8 DEF ReceiveInform
<1>9. ASSUME NEW c \in Client, Search(c) PROVE UNCHANGED <<thr, up>>
  BY <1>9 DEF Search
<1>10. ASSUME NEW c \in Client, Ask(c) PROVE UNCHANGED up /\ (thr' = thr \/ ClientCalls(c))
  BY <1>10, AskMoves DEF Ask
<1>11. CASE UNCHANGED vars
  BY <1>11 DEF vars
<1>12. CASE \E t \in Thread : ThreadStep(t)
  <2>1. PICK t \in Thread : ThreadStep(t)
    BY <1>12
  <2>2. \/ \E g : Moves(t, g) /\ Returns(t, g)
        \/ \E r \in Replica : CallsThread(t, r)
        \/ \E r \in Replica : AsksFor(t, r)
        \/ Replies(t)
    BY <1>2, <1>3, <1>4, <1>7, <1>5, <2>1 DEF ThreadStep
  <2>3. QED
    BY <1>1, <2>1, <2>2
<1>13. QED
  BY <1>8, <1>9, <1>10, <1>11, <1>12, <1>6 DEF Next
-----------------------------------------------------------------------------
(* What every step keeps of the threads. *)

Threads == \A t \in Thread : Good(thr[t])

\* What a thread will return is nothing, what it was, or the leader that some
\* replica knows.
Told(u) == \/ thr'[u].ret \in {thr[u].ret, NoOne}
           \/ \E r \in Replica : thr'[u].ret = leader[r]

ThreadsKept ==
    /\ thr' \in [Thread -> Records]
    /\ \A t \in Thread : Good(thr'[t])
    /\ Callers' /\ RunsUp'
    /\ \A t \in Thread : Told(t)

\* The callers and those who wait, thread by thread.
LEMMA CallersFacts ==
    ASSUME TypeOK, Threads, Callers, NEW t \in Thread, Running(t), thr[t].from \in Thread
    PROVE  /\ thr[thr[t].from].wait = thr[t].at /\ thr[t].at # NoOne
           /\ thr[thr[t].from].pc \in {"ping", "check"}
           /\ \A u \in Thread : Running(u) /\ thr[u].from = thr[t].from => u = t
<1>1. thr[t].at \in Replica
  BY ThreadShape DEF Threads
<1>2. thr[thr[t].from].wait = thr[t].at /\ thr[t].at # NoOne
  BY <1>1, ReplicaFacts DEF Callers
<1>3. QED
  BY <1>2 DEF Callers

\* Good threads have the shape that the type invariant asks for.
LEMMA GoodRecords ==
    ASSUME NEW f, Good(f) PROVE f \in Records /\ (f.pc = "free" \/ f.at \in Replica)
BY DEF Good, Records

\* A thread that goes on by itself.
LEMMA MovesKeep ==
    ASSUME TypeOK, Threads, Callers, RunsUp, UNCHANGED up,
           NEW t \in Thread, NEW g, Moves(t, g), Returns(t, g)
    PROVE  ThreadsKept
<1>1. /\ Good(g) /\ g \in Records /\ g.wait = NoOne /\ g.pc # "free"
      /\ g.at = thr[t].at /\ g.from = thr[t].from
      /\ thr[t].pc # "free" /\ thr[t].wait = NoOne
  BY DEF Moves, Good, Running
<1>2. thr \in [Thread -> Records]
  BY DEF TypeOK, Records
<1>3. thr' \in [Thread -> Records]
  BY <1>1, <1>2 DEF Moves
<1>4. \A u \in Thread : thr'[u] = IF u = t THEN g ELSE thr[u]
  BY <1>2 DEF Moves
<1>5. \A u \in Thread : Good(thr'[u])
  BY <1>1, <1>4 DEF Threads
<1>6. Callers'
  <2> SUFFICES ASSUME NEW u \in Thread, Running(u)', thr'[u].from \in Thread
               PROVE  /\ thr'[thr'[u].from].wait = thr'[u].at
                      /\ thr'[thr'[u].from].pc \in {"ping", "check"}
                      /\ \A v \in Thread :
                             Running(v)' /\ thr'[v].from = thr'[u].from => v = u
    BY DEF Callers
  <2>1. \A v \in Thread : /\ thr'[v].from = thr[v].from /\ thr'[v].at = thr[v].at
                          /\ Running(v)' => Running(v)
                          /\ thr'[v].wait = thr[v].wait
                          /\ thr[v].wait # NoOne => thr'[v].pc = thr[v].pc
    BY <1>1, <1>4 DEF Running
  <2>2. QED
    BY <2>1, CallersFacts
<1>7. RunsUp'
  BY <1>1, <1>4 DEF RunsUp, Running
<1>8. \A u \in Thread : Told(u)
  <2>1. thr[t].at \in Replica
    BY ThreadShape DEF Threads
  <2>2. QED
    BY <1>4, <2>1 DEF Returns, Told
<1>9. QED
  BY <1>3, <1>5, <1>6, <1>7, <1>8 DEF ThreadsKept

\* A call that has a thread of its own.
LEMMA CallsKeep ==
    ASSUME TypeOK, Threads, Callers, RunsUp, UNCHANGED up,
           NEW t \in Thread, NEW r \in Replica, CallsThread(t, r)
    PROVE  ThreadsKept
<1>1. PICK n \in Thread : /\ ~Running(n)
                          /\ thr' = [thr EXCEPT ![t].wait = r, ![n] = Handler("start", r, t)]
                          /\ Good([thr[t] EXCEPT !.wait = r])
  BY DEF CallsThread
<1> DEFINE h == Handler("start", r, t)
           g == [thr[t] EXCEPT !.wait = r]
<1>2. /\ Good(h) /\ h.pc = "start" /\ h.at = r /\ h.from = t
      /\ h.wait = NoOne /\ h.ret = NoOne
  BY HandlerIsGood
<1>3. thr \in [Thread -> Records]
  BY DEF TypeOK, Records
<1>4. /\ g.pc = thr[t].pc /\ g.at = thr[t].at /\ g.from = thr[t].from
      /\ g.wait = r /\ g.ret = thr[t].ret /\ Good(g)
  BY <1>1, <1>3 DEF Records
<1>5. n # t /\ thr[t].wait = NoOne /\ Running(t) /\ up[r] /\ r # NoOne
  BY <1>1, ReplicaFacts DEF CallsThread
<1>6. thr' = [[thr EXCEPT ![t] = g] EXCEPT ![n] = h]
  BY <1>1, <1>3
<1> HIDE DEF g, h
<1>7. g \in Records /\ h \in Records
  BY <1>2, <1>4 DEF Good
<1>8. thr' \in [Thread -> Records]
  BY <1>3, <1>6, <1>7
<1>9. \A u \in Thread : thr'[u] = IF u = n THEN h ELSE IF u = t THEN g ELSE thr[u]
  BY <1>3, <1>5, <1>6
<1>10. \A u \in Thread : Good(thr'[u])
  BY <1>2, <1>4, <1>9 DEF Threads
<1>11. Callers'
  <2> SUFFICES ASSUME NEW u \in Thread, Running(u)', thr'[u].from \in Thread
               PROVE  /\ thr'[thr'[u].from].wait = thr'[u].at
                      /\ thr'[thr'[u].from].pc \in {"ping", "check"}
                      /\ \A v \in Thread :
                             Running(v)' /\ thr'[v].from = thr'[u].from => v = u
    BY DEF Callers
  <2>1. \A v \in Thread : v # n => /\ thr'[v].from = thr[v].from /\ thr'[v].at = thr[v].at
                                   /\ Running(v)' => Running(v)
                                   /\ v # t => thr'[v].wait = thr[v].wait
                                   /\ thr'[v].pc = thr[v].pc
    BY <1>4, <1>9 DEF Running
  <2>2. thr'[n].from = t /\ thr'[n].at = r /\ thr'[t].wait = r
    BY <1>2, <1>4, <1>5, <1>9
  <2>3. \A v \in Thread : v # n /\ Running(v)' => thr'[v].from # t
    BY <1>5, <2>1, CallersFacts
  <2>4. \A v \in Thread : v # n /\ Running(v)' => thr'[v].from # n
    <3>1. thr[n].pc = "free"
      BY <1>1 DEF Running
    <3>2. QED
      BY <2>1, <3>1, CallersFacts
  <2>5. CASE u = n
    <3>1. thr'[t].pc \in {"ping", "check"}
      BY <1>5, <2>1 DEF CallsThread
    <3>2. QED
      BY <2>2, <2>3, <2>5, <3>1
  <2>6. CASE u # n
    <3>1. /\ Running(u) /\ thr[u].from \in Thread /\ thr'[u].from = thr[u].from
          /\ thr'[u].from # t /\ thr'[u].from # n /\ thr'[u].at = thr[u].at
      BY <2>1, <2>3, <2>4, <2>6
    <3>2. thr'[thr'[u].from].wait = thr'[u].at /\ thr'[thr'[u].from].pc \in {"ping", "check"}
      BY <2>1, <3>1, CallersFacts
    <3>3. ASSUME NEW v \in Thread, Running(v)', thr'[v].from = thr'[u].from PROVE v = u
      BY <2>1, <2>2, <3>1, <3>3, CallersFacts
    <3>4. QED
      BY <3>2, <3>3
  <2>7. QED
    BY <2>5, <2>6
<1>12. RunsUp'
  BY <1>2, <1>4, <1>5, <1>9 DEF RunsUp, Running
<1>13. \A u \in Thread : Told(u)
  BY <1>2, <1>4, <1>9 DEF Told
<1>14. QED
  BY <1>8, <1>10, <1>11, <1>12, <1>13 DEF ThreadsKept
\* A front end's call that has a thread of its own.
LEMMA ClientCallsKeep ==
    ASSUME TypeOK, Threads, Callers, RunsUp, UNCHANGED up,
           NEW c \in Client, ClientCalls(c)
    PROVE  ThreadsKept
<1>1. PICK n \in Thread, r \in Replica, pc \in {"start", "check"} :
           /\ ~Running(n) /\ up[r]
           /\ thr' = [thr EXCEPT ![n] = Handler(pc, r, c)]
  BY DEF ClientCalls
<1> DEFINE h == Handler(pc, r, c)
<1>2. Good(h) /\ h.pc = pc /\ h.at = r /\ h.from = c /\ h.wait = NoOne /\ h.ret = NoOne
  BY HandlerIsGood
<1>3. thr \in [Thread -> Records] /\ thr[n].pc = "free" /\ h.pc # "free"
  BY <1>1, <1>2 DEF TypeOK, Records, Running
<1>4. thr' = [thr EXCEPT ![n] = h]
  BY <1>1
<1>5. c \notin Thread
  BY ClientAssumption
<1> HIDE DEF h
<1>6. h \in Records
  BY <1>2 DEF Good
<1>7. thr' \in [Thread -> Records] /\ \A u \in Thread : thr'[u] = IF u = n THEN h ELSE thr[u]
  BY <1>3, <1>4, <1>6
<1>8. \A u \in Thread : Good(thr'[u])
  BY <1>2, <1>7 DEF Threads
<1>9. Callers'
  <2> SUFFICES ASSUME NEW u \in Thread, Running(u)', thr'[u].from \in Thread
               PROVE  /\ thr'[thr'[u].from].wait = thr'[u].at
                      /\ thr'[thr'[u].from].pc \in {"ping", "check"}
                      /\ \A v \in Thread :
                             Running(v)' /\ thr'[v].from = thr'[u].from => v = u
    BY DEF Callers
  <2>1. \A v \in Thread : v # n => thr'[v] = thr[v] /\ (Running(v)' => Running(v))
    BY <1>7 DEF Running
  <2>2. thr'[n].from = c
    BY <1>2, <1>7
  <2>3. u # n /\ Running(u) /\ thr[u].from \in Thread /\ thr'[u] = thr[u]
    BY <1>5, <2>1, <2>2
  <2>4. thr[u].from # n
    BY <1>3, <2>3, CallersFacts
  <2>5. thr'[thr'[u].from].wait = thr'[u].at /\ thr'[thr'[u].from].pc \in {"ping", "check"}
    BY <2>1, <2>3, <2>4, CallersFacts
  <2>6. ASSUME NEW v \in Thread, Running(v)', thr'[v].from = thr'[u].from PROVE v = u
    BY <1>5, <2>1, <2>2, <2>3, <2>6, CallersFacts
  <2>7. QED
    BY <2>5, <2>6
<1>10. RunsUp'
  BY <1>1, <1>2, <1>7 DEF RunsUp, Running
<1>11. \A u \in Thread : Told(u)
  BY <1>2, <1>7 DEF Told
<1>12. QED
  BY <1>7, <1>8, <1>9, <1>10, <1>11 DEF ThreadsKept

\* A call that returns.
LEMMA RepliesKeep ==
    ASSUME TypeOK, Threads, Callers, RunsUp, UNCHANGED up,
           NEW t \in Thread, Replies(t)
    PROVE  ThreadsKept
<1>1. thr \in [Thread -> Records] /\ Running(t) /\ thr[t].wait = NoOne
  BY DEF TypeOK, Records, Replies
<1>2. Good(Free) /\ Free \in Records /\ Free.pc = "free" /\ Free.ret = NoOne
  BY FreeIsGood DEF Good
<1>3. ASSUME NEW u, NEW g,
             \/ u = t /\ g = Free
             \/ /\ u \in Thread /\ u # t /\ Running(u) /\ thr[t].from = u
                /\ Good(g) /\ g.pc # "free" /\ g.wait = NoOne
                /\ g.at = thr[u].at /\ g.from = thr[u].from /\ g.ret = thr[u].ret,
             thr' = [[thr EXCEPT ![t] = Free] EXCEPT ![u] = g]
      PROVE  ThreadsKept
  <2>1. u \in Thread /\ Good(g) /\ g \in Records
    BY <1>2, <1>3, GoodRecords
  <2>2. \A v \in Thread : thr'[v] = IF v = u THEN g ELSE IF v = t THEN Free ELSE thr[v]
    BY <1>1, <1>3, <2>1
  <2>3. thr' \in [Thread -> Records]
    BY <1>1, <1>2, <1>3, <2>1
  <2>4. \A v \in Thread : Good(thr'[v])
    BY <1>2, <2>1, <2>2 DEF Threads
  <2>5. \A v \in Thread : Running(v)' =>
            Running(v) /\ v # t /\ thr'[v].from = thr[v].from /\ thr'[v].at = thr[v].at
    BY <1>2, <1>3, <2>2 DEF Running
  <2>6. Callers'
    <3> SUFFICES ASSUME NEW v \in Thread, Running(v)', thr'[v].from \in Thread
                 PROVE  /\ thr'[thr'[v].from].wait = thr'[v].at
                        /\ thr'[thr'[v].from].pc \in {"ping", "check"}
                        /\ \A w \in Thread :
                               Running(w)' /\ thr'[w].from = thr'[v].from => w = v
      BY DEF Callers
    <3>1. /\ Running(v) /\ thr[v].from \in Thread /\ thr'[v].from = thr[v].from
          /\ v # t /\ thr'[v].at = thr[v].at
      BY <2>5
    <3>2. thr[v].from # t
      BY <1>1, <3>1, CallersFacts
    <3>3. thr[v].from # u
      BY <1>1, <1>3, <3>1, <3>2, CallersFacts
    <3>4. thr'[thr'[v].from].wait = thr'[v].at /\ thr'[thr'[v].from].pc \in {"ping", "check"}
      BY <2>2, <3>1, <3>2, <3>3, CallersFacts
    <3>5. ASSUME NEW w \in Thread, Running(w)', thr'[w].from = thr'[v].from PROVE w = v
      BY <2>5, <3>1, <3>5, CallersFacts
    <3>6. QED
      BY <3>4, <3>5
  <2>7. RunsUp'
    BY <2>5 DEF RunsUp
  <2>8. \A v \in Thread : Told(v)
    BY <1>2, <1>3, <2>2 DEF Told
  <2>9. QED
    BY <2>3, <2>4, <2>6, <2>7, <2>8 DEF ThreadsKept
<1>4. CASE Ends(t)
  <2>1. thr' = [[thr EXCEPT ![t] = Free] EXCEPT ![t] = Free]
    BY <1>1, <1>4 DEF Ends
  <2>2. QED
    BY <1>3, <2>1
<1>5. ASSUME NEW u \in Thread, NEW g, Answers(t, u, g) PROVE ThreadsKept
  BY <1>3, <1>5 DEF Answers
<1>6. QED
  BY <1>4, <1>5 DEF Replies

\* A thread calls an acceptor.
LEMMA AsksForKeep ==
    ASSUME TypeOK, Threads, Callers, RunsUp, UNCHANGED up,
           NEW t \in Thread, NEW r \in Replica, AsksFor(t, r)
    PROVE  ThreadsKept
<1> DEFINE g == [thr[t] EXCEPT !.wait = r]
<1>1. thr \in [Thread -> Records] /\ thr[t].pc # "free" /\ thr[t].wait = NoOne
  BY DEF TypeOK, Records, AsksFor, Running
<1>2. thr' = [thr EXCEPT ![t] = g] /\ Good(g)
  BY DEF AsksFor
<1>3. /\ g.pc = thr[t].pc /\ g.at = thr[t].at /\ g.from = thr[t].from
      /\ g.ret = thr[t].ret
  BY <1>1 DEF Records
<1> HIDE DEF g
<1>4. g \in Records
  BY <1>2 DEF Good
<1>5. thr' \in [Thread -> Records] /\ \A u \in Thread : thr'[u] = IF u = t THEN g ELSE thr[u]
  BY <1>1, <1>2, <1>4
<1>6. \A u \in Thread : Good(thr'[u]) /\ Told(u)
  BY <1>2, <1>3, <1>5 DEF Threads, Told
<1>7. \A v \in Thread : /\ thr'[v].from = thr[v].from /\ thr'[v].at = thr[v].at
                        /\ Running(v)' => Running(v)
                        /\ thr[v].wait # NoOne => /\ thr'[v].wait = thr[v].wait
                                                  /\ thr'[v].pc = thr[v].pc
  BY <1>1, <1>3, <1>5 DEF Running
<1>8. Callers'
  <2> SUFFICES ASSUME NEW u \in Thread, Running(u)', thr'[u].from \in Thread
               PROVE  /\ thr'[thr'[u].from].wait = thr'[u].at
                      /\ thr'[thr'[u].from].pc \in {"ping", "check"}
                      /\ \A v \in Thread :
                             Running(v)' /\ thr'[v].from = thr'[u].from => v = u
    BY DEF Callers
  <2>1. QED
    BY <1>7, CallersFacts
<1>9. RunsUp'
  BY <1>7 DEF RunsUp
<1>10. QED
  BY <1>5, <1>6, <1>8, <1>9 DEF ThreadsKept

\* An acceptor has answered.
LEMMA ServedKeep ==
    ASSUME TypeOK, Threads, Callers, RunsUp, UNCHANGED up, NEW r \in Replica, Served(r)
    PROVE  ThreadsKept
<1>1. /\ thr' \in [Thread -> Records]
      /\ \A u \in Thread : thr'[u] = thr[u] \/ Turned(thr[u], thr'[u], r)
  BY DEF Served
<1>2. \A u \in Thread : Good(thr'[u]) /\ Told(u)
  BY <1>1 DEF Threads, Told, Turned
<1>3. \A v \in Thread : /\ thr'[v].from = thr[v].from /\ thr'[v].at = thr[v].at
                        /\ Running(v)' => Running(v)
                        /\ thr[v].pc \in {"ping", "check"} => thr'[v] = thr[v]
  BY <1>1 DEF Running, Turned, Asking
<1>4. Callers'
  <2> SUFFICES ASSUME NEW u \in Thread, Running(u)', thr'[u].from \in Thread
               PROVE  /\ thr'[thr'[u].from].wait = thr'[u].at
                      /\ thr'[thr'[u].from].pc \in {"ping", "check"}
                      /\ \A v \in Thread :
                             Running(v)' /\ thr'[v].from = thr'[u].from => v = u
    BY DEF Callers
  <2>1. QED
    BY <1>3, CallersFacts
<1>5. RunsUp'
  BY <1>3 DEF RunsUp
<1>6. QED
  BY <1>1, <1>2, <1>4, <1>5 DEF ThreadsKept

\* A replica exits.
LEMMA CrashKeeps ==
    ASSUME TypeOK, Threads, Callers, RunsUp, NEW r \in Replica, Crash(r)
    PROVE  ThreadsKept
<1>1. Good(Free) /\ Free \in Records /\ Free.pc = "free" /\ Free.ret = NoOne
  BY FreeIsGood DEF Good
<1>2. \A t \in Thread :
          \/ thr'[t] = Free
          \/ /\ Running(t) /\ thr[t].at # r
             /\ Survives(thr[t], thr'[t], r)
             /\ thr[t].from \in Thread /\ thr[thr[t].from].at = r => thr'[t].from = Gone
  BY CrashMoves DEF Threads
<1>3. \A t \in Thread : Good(thr'[t]) /\ thr'[t] \in Records
  BY <1>1, <1>2 DEF Survives, Good
<1>4. thr' \in [Thread -> Records]
  <2>1. thr' = [t \in Thread |-> thr'[t]]
    BY DEF Crash
  <2>2. QED
    BY <1>3, <2>1
<1>5. Gone \notin Thread
  BY MaxThreadsAssumption DEF Gone, Thread
<1>6. Callers'
  <2> SUFFICES ASSUME NEW u \in Thread, Running(u)', thr'[u].from \in Thread
               PROVE  /\ thr'[thr'[u].from].wait = thr'[u].at
                      /\ thr'[thr'[u].from].pc \in {"ping", "check"}
                      /\ \A v \in Thread :
                             Running(v)' /\ thr'[v].from = thr'[u].from => v = u
    BY DEF Callers
  <2>1. \A v \in Thread : Running(v)' /\ thr'[v].from \in Thread =>
            /\ Running(v) /\ thr[v].at # r /\ thr'[v].from = thr[v].from
            /\ thr'[v].at = thr[v].at /\ thr[thr[v].from].at # r
    BY <1>1, <1>2, <1>5 DEF Survives, Running
  <2>2. /\ thr[thr[u].from].wait = thr[u].at /\ thr[u].at # NoOne
        /\ thr[thr[u].from].pc \in {"ping", "check"}
    BY <2>1, CallersFacts
  <2>3. /\ thr'[thr[u].from].wait = thr[u].at
        /\ thr'[thr[u].from].pc \in {"ping", "check"}
    <3>1. /\ thr[u].from \in Thread /\ Running(thr[u].from)
          /\ thr[thr[u].from].at # r /\ thr[thr[u].from].wait # r
      BY <2>1, <2>2 DEF Running
    <3>2. ~(~Running(thr[u].from) \/ thr[thr[u].from].at = r)
      BY <3>1
    <3>3. Survives(thr[thr[u].from], thr'[thr[u].from], r)
      BY <3>1, <3>2, CrashMoves DEF Threads
    <3>4. QED
      BY <2>2, <3>1, <3>3 DEF Survives
  <2>4. \A v \in Thread : Running(v)' /\ thr'[v].from = thr'[u].from => v = u
    BY <2>1, CallersFacts
  <2>5. QED
    BY <2>1, <2>3, <2>4
<1>7. RunsUp'
  <2>1. \A p \in Replica : p # r => up'[p] = up[p]
    BY DEF Crash, TypeOK
  <2>2. \A t \in Thread : Running(t)' =>
            Running(t) /\ thr[t].at # r /\ thr'[t].at = thr[t].at
    BY <1>1, <1>2 DEF Survives, Running
  <2>3. \A t \in Thread : thr[t].at \in Replica
    BY GoodRecords DEF Threads, Good, Records
  <2>4. QED
    BY <2>1, <2>2, <2>3 DEF RunsUp
<1>8. \A t \in Thread : Told(t)
  BY <1>1, <1>2 DEF Told, Survives
<1>9. QED
  BY <1>3, <1>4, <1>6, <1>7, <1>8 DEF ThreadsKept

\* Every step keeps the threads in order.
LEMMA StepKeepsThreads ==
    ASSUME TypeOK, Threads, Callers, RunsUp, ServedUp, [Next]_vars
    PROVE  ThreadsKept
<1>1. CASE UNCHANGED <<thr, up>>
  <2>1. thr' \in [Thread -> Records]
    BY <1>1 DEF TypeOK, Records
  <2>2. Callers' /\ RunsUp'
    BY <1>1 DEF Callers, RunsUp, Running
  <2>3. \A t \in Thread : Good(thr'[t]) /\ Told(t)
    BY <1>1 DEF Threads, Told
  <2>4. QED
    BY <2>1, <2>2, <2>3 DEF ThreadsKept
<1>2. CASE UNCHANGED up /\ \E t \in Thread : \E g : Moves(t, g) /\ Returns(t, g)
  BY <1>2, MovesKeep
<1>3. CASE UNCHANGED up /\ \E t \in Thread, r \in Replica : CallsThread(t, r)
  BY <1>3, CallsKeep
<1>4. CASE UNCHANGED up /\ \E t \in Thread : Replies(t)
  BY <1>4, RepliesKeep
<1>5. CASE UNCHANGED up /\ \E c \in Client : ClientCalls(c)
  BY <1>5, ClientCallsKeep
<1>6. CASE \E r \in Replica : Crash(r)
  BY <1>6, CrashKeeps
<1>7. CASE UNCHANGED up /\ \E t \in Thread, r \in Replica : AsksFor(t, r)
  BY <1>7, AsksForKeep
<1>8. CASE UNCHANGED up /\ \E r \in Replica : Served(r)
  BY <1>8, ServedKeep
<1>9. QED
  BY <1>1, <1>2, <1>3, <1>4, <1>5, <1>6, <1>7, <1>8, ThreadCases DEF Threads
-----------------------------------------------------------------------------
(* The front ends, and the other variables. *)

Fronts == [pc : {"idle", "check", "ask", "confirm"}, leader : ReplicaOrNone,
           i : Replica, named : ReplicaOrNone, wait : ReplicaOrNone]

\* A front end that goes on learns nothing but the answer.
Learns(f, g, r) ==
    g \in Fronts /\ g.leader \in {f.leader, r} /\ g.named \in {f.named, r, NoOne}

\* The search stays among the replicas, whatever the call returns.
LEMMA FrontFacts ==
    ASSUME NEW f \in Fronts, NEW r \in ReplicaOrNone
    PROVE  /\ Learns(f, AfterAnswer(f, r), r)
           /\ Learns(f, AfterFailure(f), r) /\ Learns(f, AfterFailure(f), NoOne)
           /\ \A s \in ReplicaOrNone : Learns(f, [f EXCEPT !.wait = s], r)
           /\ Learns(f, [f EXCEPT !.pc = "ask", !.i = 0], r)
           /\ Learns(f, [f EXCEPT !.pc = "check"], r)
<1>1. f.i \in Replica /\ (f.i + 1) % N \in Replica
  BY NAssumption DEF Fronts, Replica
<1>2. \A s \in {r, NoOne} : Learns(f, NextReplica(f), s)
  BY <1>1, ReplicaFacts DEF Fronts, Learns, NextReplica
<1>3. Learns(f, Found(f, r), r)
  BY ReplicaFacts DEF Fronts, Learns, Found
<1>4. Learns(f, [f EXCEPT !.pc = "confirm", !.named = r, !.wait = NoOne], r)
  BY ReplicaFacts DEF Fronts, Learns
<1>5. Learns(f, AfterAnswer(f, r), r)
  BY <1>2, <1>3, <1>4 DEF AfterAnswer
<1>6. \A s \in {r, NoOne} : Learns(f, [f EXCEPT !.pc = "ask", !.i = 0, !.wait = NoOne], s)
  BY ReplicaFacts DEF Fronts, Learns
<1>7. \A s \in {r, NoOne} : Learns(f, AfterFailure(f), s)
  BY <1>2, <1>6 DEF AfterFailure
<1>8. \A s \in ReplicaOrNone : Learns(f, [f EXCEPT !.wait = s], r)
  BY DEF Fronts, Learns
<1>9. /\ Learns(f, [f EXCEPT !.pc = "ask", !.i = 0], r)
      /\ Learns(f, [f EXCEPT !.pc = "check"], r)
  BY ReplicaFacts DEF Fronts, Learns
<1>10. QED
  BY <1>5, <1>7, <1>8, <1>9

\* What a step does to the front ends: each learns nothing, or what a replica
\* takes for the leader.
FrontsKept ==
    /\ cl' \in [Client -> Fronts]
    /\ \A c \in Client : \E r \in {NoOne} \cup {leader[p] : p \in Replica} :
           /\ cl'[c].leader \in {cl[c].leader, r}
           /\ cl'[c].named \in {cl[c].named, r, NoOne}

\* One front end goes on.
LEMMA OneFrontGoesOn ==
    ASSUME TypeOK, NEW c \in Client, NEW g,
           NEW r \in {NoOne} \cup {leader[p] : p \in Replica},
           Learns(cl[c], g, r), cl' = [cl EXCEPT ![c] = g]
    PROVE  FrontsKept
<1>1. cl \in [Client -> Fronts]
  BY DEF TypeOK, Fronts
<1>2. cl' \in [Client -> Fronts] /\ \A d \in Client : cl'[d] = IF d = c THEN g ELSE cl[d]
  BY <1>1 DEF Learns
<1>3. QED
  BY <1>2 DEF Learns, FrontsKept

\* Every step keeps the front ends in order.
LEMMA StepKeepsFronts ==
    ASSUME TypeOK, Threads, [Next]_vars
    PROVE  FrontsKept
<1>1. cl \in [Client -> Fronts]
  BY DEF TypeOK, Fronts
<1>2. NoOne \in ReplicaOrNone /\ \A p \in Replica : leader[p] \in ReplicaOrNone
  BY ReplicaFacts DEF TypeOK
<1>3. CASE UNCHANGED cl
  BY <1>1, <1>3 DEF FrontsKept
<1>4. ASSUME NEW c \in Client, Search(c) PROVE FrontsKept
  <2> DEFINE f == cl[c]
             g == IF f.leader = NoOne THEN [f EXCEPT !.pc = "ask", !.i = 0]
                  ELSE [f EXCEPT !.pc = "check"]
  <2>1. cl' = [cl EXCEPT ![c] = g]
    BY <1>1, <1>4 DEF Search
  <2>2. /\ Learns(f, [f EXCEPT !.pc = "ask", !.i = 0], NoOne)
        /\ Learns(f, [f EXCEPT !.pc = "check"], NoOne)
    BY <1>1, <1>2, FrontFacts
  <2>3. Learns(f, g, NoOne)
    BY <2>2
  <2> HIDE DEF g
  <2>4. QED
    BY <2>1, <2>3, OneFrontGoesOn
<1>5. ASSUME NEW c \in Client, Ask(c) PROVE FrontsKept
  <2> DEFINE f == cl[c]
             r == Target(f)
  <2>1. f \in Fronts
    BY <1>1
  <2>2. CASE cl' = [cl EXCEPT ![c] = AfterFailure(@)]
    <3>1. cl' = [cl EXCEPT ![c] = AfterFailure(f)]
      BY <1>1, <2>2
    <3>2. Learns(f, AfterFailure(f), NoOne)
      BY <1>2, <2>1, FrontFacts
    <3>3. QED
      BY <3>1, <3>2, OneFrontGoesOn
  <2>3. CASE ~Dead(r) /\ cl' = [cl EXCEPT ![c] = AfterAnswer(@, leader[r])]
    <3>1. r \in Replica
      BY <2>3 DEF Dead
    <3> HIDE DEF r
    <3>2. cl' = [cl EXCEPT ![c] = AfterAnswer(f, leader[r])]
      BY <1>1, <2>3
    <3>3. Learns(f, AfterAnswer(f, leader[r]), leader[r])
      BY <1>2, <2>1, <3>1, FrontFacts
    <3>4. QED
      BY <3>1, <3>2, <3>3, OneFrontGoesOn
  <2>4. CASE ~Dead(r) /\ cl' = [cl EXCEPT ![c].wait = r]
    <3>1. r \in Replica /\ r \in ReplicaOrNone
      BY <2>4 DEF Dead, ReplicaOrNone
    <3> HIDE DEF r
    <3> DEFINE g == [f EXCEPT !.wait = r]
    <3>2. cl' = [cl EXCEPT ![c] = g]
      BY <1>1, <2>4
    <3>3. Learns(f, g, NoOne)
      <4>1. \A s \in ReplicaOrNone : Learns(f, [f EXCEPT !.wait = s], NoOne)
        BY <1>2, <2>1, FrontFacts
      <4>2. QED
        BY <3>1, <4>1
    <3> HIDE DEF g
    <3>4. QED
      BY <3>2, <3>3, OneFrontGoesOn
  <2>5. QED
    BY <1>5, <2>2, <2>3, <2>4 DEF Ask
<1>6. ASSUME NEW t \in Thread, Reply(t) PROVE FrontsKept
  <2>1. thr[t].at \in Replica
    BY ThreadShape DEF Threads
  <2> DEFINE c == thr[t].from
             r == thr[t].at
  <2>2. CASE UNCHANGED cl
    BY <1>3, <2>2
  <2>3. CASE c \in Client /\ cl' = [cl EXCEPT ![c] = AfterAnswer(@, leader[r])]
    <3>1. r \in Replica
      BY <2>1
    <3> HIDE DEF c, r
    <3>2. cl' = [cl EXCEPT ![c] = AfterAnswer(cl[c], leader[r])] /\ cl[c] \in Fronts
      BY <1>1, <2>3
    <3>3. Learns(cl[c], AfterAnswer(cl[c], leader[r]), leader[r])
      BY <1>2, <3>1, <3>2, FrontFacts
    <3>4. leader[r] \in {NoOne} \cup {leader[p] : p \in Replica}
      BY <3>1
    <3>5. QED
      BY <2>3, <3>2, <3>3, <3>4, OneFrontGoesOn
  <2>4. QED
    BY <1>6, <2>2, <2>3 DEF Reply
<1>7. ASSUME NEW r \in Replica, Crash(r) PROVE FrontsKept
  <2>1. cl' = [c \in Client |-> IF cl[c].wait = r THEN AfterFailure(cl[c]) ELSE cl[c]]
    BY <1>7 DEF Crash
  <2>2. \A c \in Client : cl[c] \in Fronts /\ Learns(cl[c], AfterFailure(cl[c]), NoOne)
    BY <1>1, <1>2, FrontFacts
  <2>3. QED
    BY <2>1, <2>2 DEF Learns, FrontsKept
<1>8. ASSUME NEW t \in Thread, ThreadStep(t) PROVE Reply(t) \/ UNCHANGED cl
  BY <1>8 DEF ThreadStep, Start, Ping, Propose, Prepare, Send, Prepared, Accept, Accepted,
              Inform, Informed, Assign, Check
<1>9. /\ \A x \in informs : ReceiveInform(x) => UNCHANGED cl
      /\ \A x \in served : Serve(x) => UNCHANGED cl
  BY DEF ReceiveInform, Serve
<1>10. CASE UNCHANGED vars
  BY <1>3, <1>10 DEF vars
<1>11. QED
  BY <1>3, <1>4, <1>5, <1>6, <1>7, <1>8, <1>9, <1>10 DEF Next

\* A call of prepare() or accept(), as it is served.
Requests ==
    [pc : {"prepare", "promise", "answer", "accept", "number", "value"},
     from : Replica, at : Replica, num : 0 .. MaxProposal, value : ReplicaOrNone]

\* What the acceptors and the counters become.
CountersKept ==
    /\ up' \in [Replica -> BOOLEAN]
    /\ electionInProgress' \in [Replica -> BOOLEAN]
    /\ proposal' \in [Replica -> 0 .. MaxProposal]
    /\ highest' \in [Replica -> Int]
    /\ accepted' \in [Replica -> [number : Int, value : ReplicaOrNone]]
    /\ served' \subseteq Requests /\ ServedUp'
    /\ searches' \in [Client -> 0 .. MaxSearch]

\* A capped number stays within the bound.
LEMMA CappedFacts ==
    ASSUME NEW p \in 0 .. MaxProposal, NEW k \in 0 .. N
    PROVE  Capped(p + k) \in 0 .. MaxProposal
BY NAssumption, MaxProposalAssumption DEF Capped

\* Serving a call keeps the types of the acceptors.
LEMMA ServeKeepsCounters ==
    ASSUME TypeOK, ServedUp, NEW x \in served, Serve(x)
    PROVE  CountersKept
<1>1. /\ highest \in [Replica -> Int]
      /\ accepted \in [Replica -> [number : Int, value : ReplicaOrNone]]
      /\ served \subseteq Requests /\ x \in Requests
      /\ UNCHANGED <<up, electionInProgress, proposal, searches>>
  BY DEF TypeOK, Requests, Serve
<1>2. /\ x.at \in Replica /\ x.num \in Int /\ x.value \in ReplicaOrNone
  BY <1>1, MaxProposalAssumption DEF Requests
<1>3. ASSUME NEW pc \in {"promise", "answer", "number", "value"}, GoOn(x, pc)
      PROVE  served' \subseteq Requests /\ ServedUp'
  <2> DEFINE y == [x EXCEPT !.pc = pc]
  <2>1. y \in Requests /\ y.at = x.at
    BY <1>1 DEF Requests
  <2>2. served' \subseteq served \cup {y}
    BY <1>3 DEF GoOn
  <2> HIDE DEF y
  <2>3. QED
    BY <1>1, <2>1, <2>2 DEF ServedUp
<1>4. ASSUME served' \subseteq served PROVE served' \subseteq Requests /\ ServedUp'
  BY <1>1, <1>4 DEF ServedUp
<1>5. served' \subseteq Requests /\ ServedUp'
  <2>1. \/ \E pc \in {"promise", "answer", "number", "value"} : GoOn(x, pc)
        \/ served' \subseteq served
    BY DEF Serve, Consider, Promise, Answer, AcceptNumber, AcceptValue, Return
  <2>2. QED
    BY <1>3, <1>4, <2>1
<1>6. highest' \in [Replica -> Int]
  <2>1. highest' = highest \/ highest' = [highest EXCEPT ![x.at] = x.num]
    BY DEF Serve, Consider, Promise, Answer, AcceptNumber, AcceptValue
  <2>2. QED
    BY <1>1, <1>2, <2>1
<1>7. accepted' \in [Replica -> [number : Int, value : ReplicaOrNone]]
  <2>1. \/ accepted' = accepted
        \/ accepted' = [accepted EXCEPT ![x.at].number = x.num]
        \/ accepted' = [accepted EXCEPT ![x.at].value = x.value]
    BY DEF Serve, Consider, Promise, Answer, AcceptNumber, AcceptValue
  <2>2. QED
    BY <1>1, <1>2, <2>1
<1>8. QED
  BY <1>1, <1>5, <1>6, <1>7 DEF TypeOK, CountersKept

\* Every step keeps the types of the acceptors.
LEMMA StepKeepsCounters ==
    ASSUME TypeOK, Threads, ServedUp, [Next]_vars
    PROVE  CountersKept
<1>1. /\ up \in [Replica -> BOOLEAN]
      /\ electionInProgress \in [Replica -> BOOLEAN]
      /\ proposal \in [Replica -> 0 .. MaxProposal]
      /\ highest \in [Replica -> Int]
      /\ accepted \in [Replica -> [number : Int, value : ReplicaOrNone]]
      /\ served \subseteq Requests
      /\ searches \in [Client -> 0 .. MaxSearch]
  BY DEF TypeOK, Requests
<1>2. \A t \in Thread : /\ thr[t].at \in Replica /\ thr[t].num \in 0 .. N
                        /\ thr[t].high \in ReplicaOrNone
  BY DEF Threads, Good, Records
<1>3. CASE UNCHANGED <<up, electionInProgress, proposal, highest, accepted, served, searches>>
  BY <1>1, <1>3 DEF CountersKept, ServedUp
<1>4. ASSUME NEW r \in Replica, NEW b \in BOOLEAN,
             electionInProgress' = [electionInProgress EXCEPT ![r] = b],
             UNCHANGED <<up, proposal, highest, accepted, served, searches>>
      PROVE  CountersKept
  BY <1>1, <1>4 DEF CountersKept, ServedUp
<1>5. ASSUME NEW r \in Replica, NEW k \in 0 .. N,
             proposal' = [proposal EXCEPT ![r] = Capped(@ + k)],
             UNCHANGED <<up, electionInProgress, highest, accepted, served, searches>>
      PROVE  CountersKept
  <2>1. Capped(proposal[r] + k) \in 0 .. MaxProposal
    BY <1>1, CappedFacts
  <2>2. proposal' \in [Replica -> 0 .. MaxProposal]
    BY <1>1, <1>5, <2>1
  <2>3. QED
    BY <1>1, <1>5, <2>2 DEF CountersKept, ServedUp
<1>6. ASSUME NEW t \in Thread, Start(t) \/ Informed(t) PROVE CountersKept
  BY <1>2, <1>4, <1>6 DEF Start, Informed, Finish, acceptor
<1>7. ASSUME NEW t \in Thread, Propose(t) PROVE CountersKept
  BY <1>2, <1>5, <1>7 DEF Propose, acceptor
<1>8. ASSUME NEW t \in Thread, Prepared(t) PROVE CountersKept
  BY <1>2, <1>4, <1>5, <1>8 DEF Prepared, Finish, acceptor
<1>9. ASSUME NEW t \in Thread, Accepted(t) PROVE CountersKept
  BY <1>2, <1>3, <1>4, <1>9 DEF Accepted, Finish, acceptor
<1>10. ASSUME NEW t \in Thread, NEW pc \in Asking, NEW value \in ReplicaOrNone,
              Send(t, pc, value)
       PROVE  CountersKept
  <2> DEFINE r == thr[t].i
             n == proposal[thr[t].at]
             x == [pc |-> pc, from |-> thr[t].at, at |-> r, num |-> n, value |-> value]
  <2>1. r \in Replica /\ n \in 0 .. MaxProposal
    <3>1. r \in Replica
      BY <1>10, SendMoves DEF Threads
    <3>2. QED
      BY <1>1, <1>2, <3>1
  <2>2. x \in Requests /\ x.at = r
    BY <1>2, <2>1 DEF Requests, Asking
  <2>3. \/ electionInProgress' = electionInProgress /\ served' = served
        \/ /\ up[r] /\ electionInProgress' = [electionInProgress EXCEPT ![r] = TRUE]
           /\ served' = served \cup {x}
    BY <1>10 DEF Send, Dead
  <2>4. UNCHANGED <<up, proposal, highest, accepted, searches>>
    BY <1>10 DEF Send
  <2> HIDE DEF r, n, x
  <2>5. electionInProgress' \in [Replica -> BOOLEAN]
    BY <1>1, <2>1, <2>3
  <2>6. served' \subseteq Requests /\ ServedUp'
    BY <1>1, <2>2, <2>3, <2>4 DEF ServedUp
  <2>7. QED
    BY <1>1, <2>4, <2>5, <2>6 DEF CountersKept
<1>11. ASSUME NEW t \in Thread, Prepare(t) \/ Accept(t) PROVE CountersKept
  <2>1. \E pc \in Asking, value \in ReplicaOrNone : Send(t, pc, value)
    BY <1>2, <1>11, ReplicaFacts DEF Prepare, Accept, Asking
  <2>2. QED
    BY <1>10, <2>1
<1>12. ASSUME NEW t \in Thread, Ping(t) \/ Inform(t) \/ Assign(t) \/ Check(t) \/ Reply(t)
       PROVE  CountersKept
  BY <1>3, <1>12 DEF Ping, Inform, Assign, Check, Reply, acceptor
<1>13. ASSUME NEW x \in informs, ReceiveInform(x) PROVE CountersKept
  <2>1. x[2] \in Replica
    BY DEF TypeOK
  <2>2. QED
    BY <1>4, <1>13, <2>1 DEF ReceiveInform, acceptor
<1>14. ASSUME NEW c \in Client, Search(c) PROVE CountersKept
  <2>1. searches' = [searches EXCEPT ![c] = @ + 1] /\ searches[c] < MaxSearch
    BY <1>14 DEF Search
  <2>2. searches' \in [Client -> 0 .. MaxSearch]
    BY <1>1, <2>1, MaxSearchAssumption
  <2>3. UNCHANGED <<up, electionInProgress, proposal, highest, accepted, served>>
    BY <1>14 DEF Search, acceptor
  <2>4. QED
    BY <1>1, <2>2, <2>3 DEF CountersKept, ServedUp
<1>15. ASSUME NEW c \in Client, Ask(c) PROVE CountersKept
  BY <1>3, <1>15 DEF Ask, acceptor
<1>16. ASSUME NEW r \in Replica, Crash(r) PROVE CountersKept
  <2>1. up' = [up EXCEPT ![r] = FALSE]
        /\ UNCHANGED <<electionInProgress, proposal, highest, accepted, searches>>
        /\ served' = {x \in served : x.at # r}
    BY <1>16 DEF Crash
  <2>2. \A x \in Requests : x.at \in Replica
    BY DEF Requests
  <2>3. served' \subseteq Requests /\ ServedUp'
    BY <1>1, <2>1, <2>2 DEF ServedUp
  <2>4. QED
    BY <1>1, <2>1, <2>3 DEF CountersKept
<1>17. CASE UNCHANGED vars
  BY <1>3, <1>17 DEF vars, acceptor
<1>18. ASSUME NEW t \in Thread, ThreadStep(t) PROVE CountersKept
  BY <1>6, <1>7, <1>8, <1>9, <1>11, <1>12, <1>18 DEF ThreadStep
<1>19. QED
  BY <1>13, <1>14, <1>15, <1>16, <1>17, <1>18, ServeKeepsCounters DEF Next

-----------------------------------------------------------------------------
(* Who knows a leader, knows one that was elected. *)

KnowledgeKept ==
    /\ leader' \in [Replica -> ReplicaOrNone]
    /\ elected \subseteq elected' /\ elected' \subseteq Replica
    /\ informs' \subseteq Replica \X Replica \X ReplicaOrNone
    /\ \A r \in Replica : leader'[r] \in elected' \cup {NoOne}
    /\ \A x \in informs' : x[3] \in elected' \cup {NoOne}

\* Every step keeps what the replicas and the calls in flight know.
LEMMA StepKeepsKnowledge ==
    ASSUME TypeOK, Threads, LeadersAreElected, [Next]_vars
    PROVE  KnowledgeKept
<1>1. /\ leader \in [Replica -> ReplicaOrNone] /\ elected \subseteq Replica
      /\ informs \subseteq Replica \X Replica \X ReplicaOrNone
      /\ \A r \in Replica : leader[r] \in elected \cup {NoOne}
      /\ \A x \in informs : x[3] \in elected \cup {NoOne}
      /\ \A t \in Thread : thr[t].ret \in elected \cup {NoOne} /\ thr[t].at \in Replica
  BY DEF TypeOK, LeadersAreElected, Threads, Good, Records
<1>2. ASSUME UNCHANGED <<leader, elected>>, informs' \subseteq informs PROVE KnowledgeKept
  BY <1>1, <1>2 DEF KnowledgeKept
<1>3. ASSUME NEW r \in Replica, NEW v \in elected \cup {NoOne},
             leader' = [leader EXCEPT ![r] = v], elected' = elected, informs' \subseteq informs
      PROVE  KnowledgeKept
  <2>1. v \in ReplicaOrNone
    BY <1>1 DEF ReplicaOrNone
  <2>2. QED
    BY <1>1, <1>3, <2>1 DEF KnowledgeKept
<1>4. ASSUME NEW t \in Thread, Accepted(t) PROVE KnowledgeKept
  <2> DEFINE r == thr[t].at
             v == thr[t].high
  <2>1. UNCHANGED informs
    BY <1>4 DEF Accepted
  <2>2. v \in Replica /\ r \in Replica
        /\ \/ leader' = [leader EXCEPT ![r] = v] /\ elected' = elected \cup {v}
           \/ UNCHANGED <<leader, elected>>
    BY <1>1, <1>4, AcceptedMoves DEF Threads
  <2> HIDE DEF r, v
  <2>3. CASE leader' = [leader EXCEPT ![r] = v] /\ elected' = elected \cup {v}
    <3>1. v \in ReplicaOrNone
      BY <2>2 DEF ReplicaOrNone
    <3>2. leader' \in [Replica -> ReplicaOrNone] /\ \A p \in Replica : leader'[p] \in elected' \cup {NoOne}
      BY <1>1, <2>2, <2>3, <3>1
    <3>3. QED
      BY <1>1, <2>1, <2>2, <2>3, <3>2 DEF KnowledgeKept
  <2>4. QED
    BY <1>2, <2>1, <2>2, <2>3
<1>5. ASSUME NEW t \in Thread, Assign(t) PROVE KnowledgeKept
  <2>1. leader' = [leader EXCEPT ![thr[t].at] = thr[t].ret] /\ UNCHANGED <<elected, informs>>
    BY <1>5 DEF Assign
  <2>2. QED
    BY <1>1, <1>3, <2>1
<1>6. ASSUME NEW x \in informs, ReceiveInform(x) PROVE KnowledgeKept
  <2>1. /\ leader' = [leader EXCEPT ![x[2]] = x[3]] /\ elected' = elected
        /\ informs' \subseteq informs
    BY <1>6 DEF ReceiveInform
  <2>2. x[2] \in Replica /\ x[3] \in elected \cup {NoOne}
    BY <1>1
  <2>3. QED
    BY <1>3, <2>1, <2>2
<1>7. ASSUME NEW t \in Thread, Inform(t) PROVE KnowledgeKept
  <2> DEFINE x == <<thr[t].at, thr[t].i, leader[thr[t].at]>>
  <2>1. thr[t].i \in Replica /\ thr[t].at \in Replica /\ leader[thr[t].at] \in ReplicaOrNone
    BY <1>1, <1>7, InformMoves DEF Threads
  <2>2. x \in Replica \X Replica \X ReplicaOrNone /\ x[3] \in elected \cup {NoOne}
    BY <1>1, <2>1
  <2>3. (informs' = informs \/ informs' = informs \cup {x}) /\ UNCHANGED <<leader, elected>>
    BY <1>7 DEF Inform
  <2> HIDE DEF x
  <2>4. QED
    BY <1>1, <2>2, <2>3 DEF KnowledgeKept
<1>8. ASSUME NEW t \in Thread,
             \/ Start(t) \/ Ping(t) \/ Propose(t) \/ Prepare(t) \/ Prepared(t)
             \/ Accept(t) \/ Informed(t) \/ Check(t) \/ Reply(t)
      PROVE  UNCHANGED <<leader, elected, informs>>
  BY <1>8 DEF Start, Ping, Propose, Prepare, Send, Prepared, Accept, Informed, Check, Reply
<1>9. ASSUME NEW x \in served, Serve(x) PROVE UNCHANGED <<leader, elected, informs>>
  BY <1>9 DEF Serve
<1>10. ASSUME NEW c \in Client, Search(c) \/ Ask(c) PROVE UNCHANGED <<leader, elected, informs>>
  BY <1>10 DEF Search, Ask
<1>11. ASSUME NEW r \in Replica, Crash(r)
       PROVE  UNCHANGED <<leader, elected>> /\ informs' \subseteq informs
  BY <1>11 DEF Crash
<1>12. CASE UNCHANGED vars
  BY <1>2, <1>12 DEF vars
<1>13. CASE \E t \in Thread : ThreadStep(t)
  BY <1>2, <1>4, <1>5, <1>7, <1>8, <1>13 DEF ThreadStep
<1>14. QED
  BY <1>2, <1>6, <1>10, <1>11, <1>12, <1>13, <1>9 DEF Next

-----------------------------------------------------------------------------
(* The theorems for any number of replicas. *)

\* Initially nobody runs and nobody knows a leader.
LEMMA InitIsGood == ASSUME Init PROVE IInv
<1>1. TypeOK
  <2>1. up \in [Replica -> BOOLEAN] /\ electionInProgress \in [Replica -> BOOLEAN]
    BY DEF Init
  <2>2. leader \in [Replica -> ReplicaOrNone] /\ elected \subseteq Replica
    BY ReplicaFacts DEF Init
  <2>3. proposal \in [Replica -> 0 .. MaxProposal]
    BY NAssumption, MaxProposalAssumption DEF Init, Replica
  <2>4. highest \in [Replica -> Int]
    BY GarbageAssumption DEF Init
  <2>5. accepted \in [Replica -> [number : Int, value : ReplicaOrNone]]
    BY ReplicaFacts DEF Init
  <2>6. thr \in [Thread -> Records]
    BY FreeIsGood DEF Init, Good
  <2>7. cl \in [Client -> Fronts]
    BY ReplicaFacts DEF Init, Fronts
  <2>8. informs \subseteq Replica \X Replica \X ReplicaOrNone
    BY DEF Init
  <2>9. searches \in [Client -> 0 .. MaxSearch]
    BY MaxSearchAssumption DEF Init
  <2>10. served = {}
    BY DEF Init
  <2>11. QED
    BY <2>1, <2>2, <2>3, <2>4, <2>5, <2>6, <2>7, <2>8, <2>9, <2>10 DEF TypeOK, Records, Fronts
<1>2. \A t \in Thread : thr[t] = Free /\ ~Running(t) /\ Good(thr[t]) /\ thr[t].ret = NoOne
  BY FreeIsGood DEF Init, Running
<1>3. Callers /\ RunsUp /\ ServedUp
  BY <1>2 DEF Callers, RunsUp, ServedUp, Init
<1>4. LeadersAreElected
  <2>1. /\ \A r \in Replica : leader[r] = NoOne
        /\ \A c \in Client : cl[c].leader = NoOne /\ cl[c].named = NoOne
        /\ informs = {}
    BY DEF Init
  <2>2. QED
    BY <1>2, <2>1 DEF LeadersAreElected
<1>5. QED
  BY <1>1, <1>2, <1>3, <1>4 DEF IInv

\* The invariant is inductive.
LEMMA StepIsGood == ASSUME IInv, [Next]_vars PROVE IInv'
<1>1. TypeOK /\ Threads /\ Callers /\ RunsUp /\ ServedUp /\ LeadersAreElected
  BY DEF IInv, Threads
<1>2. ThreadsKept
  BY <1>1, StepKeepsThreads
<1>3. FrontsKept
  BY <1>1, StepKeepsFronts
<1>4. CountersKept
  BY <1>1, StepKeepsCounters
<1>5. KnowledgeKept
  BY <1>1, StepKeepsKnowledge
<1>6. TypeOK'
  BY <1>2, <1>3, <1>4, <1>5
     DEF TypeOK, ThreadsKept, FrontsKept, CountersKept, KnowledgeKept, Records, Fronts, Requests
<1>7. (\A t \in Thread : Good(thr[t]))' /\ Callers' /\ RunsUp' /\ ServedUp'
  BY <1>2, <1>4 DEF ThreadsKept, CountersKept
<1>8. LeadersAreElected'
  <2>1. \A r \in Replica : leader[r] \in elected' \cup {NoOne}
    BY <1>1, <1>5 DEF KnowledgeKept, LeadersAreElected
  <2>2. \A t \in Thread : thr'[t].ret \in elected' \cup {NoOne}
    BY <1>1, <1>2, <1>5, <2>1 DEF ThreadsKept, Told, KnowledgeKept, LeadersAreElected
  <2>3. \A c \in Client : /\ cl'[c].leader \in elected' \cup {NoOne}
                          /\ cl'[c].named \in elected' \cup {NoOne}
    <3>1. \A c \in Client : /\ cl[c].leader \in elected' \cup {NoOne}
                            /\ cl[c].named \in elected' \cup {NoOne}
      BY <1>1, <1>5 DEF KnowledgeKept, LeadersAreElected
    <3>2. QED
      BY <1>3, <2>1, <3>1 DEF FrontsKept
  <2>4. QED
    BY <1>5, <2>2, <2>3 DEF KnowledgeKept, LeadersAreElected
<1>9. QED
  BY <1>6, <1>7, <1>8 DEF IInv

\* The invariant holds in every state, for any number of replicas.
THEOREM Invariant == Spec => []IInv
<1>1. Init => IInv
  BY InitIsGood
<1>2. IInv /\ [Next]_vars => IInv'
  BY StepIsGood
<1>3. QED
  BY <1>1, <1>2, PTL DEF Spec

\* No loop of a handler or of findLeader() leaves the numbers of the replicas,
\* whatever their number, and whatever the uninitialised number holds.
THEOREM TypeCorrect == Spec => []TypeOK
BY Invariant, PTL DEF IInv

\* replica_handler.cpp:121, 200 and 208, frontend.cpp:28: nobody names a leader
\* for which no majority has voted.
THEOREM NamedLeadersAreElected == Spec => []LeadersAreElected
BY Invariant, PTL DEF IInv
-----------------------------------------------------------------------------
(* Up to three replicas. *)

Right(f, alive) == CountsAlive(f, alive) /\ WinsRightly(f)

\* Outside of the loops nothing is asked for.
LEMMA RestIsRight ==
    ASSUME NEW f, NEW alive, f.pc \notin {"ping", "prepare", "accept", "inform"}
    PROVE  Right(f, alive)
BY DEF Right, CountsAlive, WinsRightly, Asking

\* An answer counts; only the dead do not answer.
LEMMA CountedIsRight ==
    ASSUME NEW f, Good(f), f.pc = "ping", f.i < N,
           NEW alive \in [Replica -> BOOLEAN], Right(f, alive)
    PROVE  /\ f.i \in Replica
           /\ Right(Counted(f), alive)
           /\ ~alive[f.i] => Right(Missed(f), alive)
<1>1. f.i \in Nat /\ f.num \in Nat
  BY NAssumption DEF Good, Records
<1>2. f.i \in Replica
  BY <1>1, ReplicaFacts
<1>3. /\ 0 \in Replica /\ 0 < f.i /\ alive[0] => 1 <= f.num
      /\ 1 \in Replica /\ 1 < f.i /\ alive[0] /\ alive[1] => 2 <= f.num
  BY DEF Right, CountsAlive
<1> DEFINE g == Counted(f)
           h == Missed(f)
<1>4. /\ g.pc = "ping" /\ g.i = f.i + 1 /\ g.num = f.num + 1
      /\ h.pc = "ping" /\ h.i = f.i + 1 /\ h.num = f.num
  BY PingIsGood
<1> HIDE DEF g, h
<1>5. Right(g, alive)
  <2>1. 1 \in Replica => 0 \in Replica
    BY ReplicaFacts
  <2>2. QED
    BY <1>1, <1>3, <1>4, <2>1 DEF Right, CountsAlive, WinsRightly, Asking
<1>6. ASSUME ~alive[f.i] PROVE Right(h, alive)
  <2>1. 0 < f.i + 1 /\ alive[0] => 0 < f.i
    BY <1>1, <1>6
  <2>2. 1 < f.i + 1 /\ alive[1] => 1 < f.i
    BY <1>1, <1>6
  <2>3. QED
    BY <1>3, <1>4, <2>1, <2>2 DEF Right, CountsAlive, WinsRightly, Asking
<1>7. QED
  BY <1>2, <1>5, <1>6 DEF g, h

\* Who has a majority of the promises, is 2.
LEMMA MajorityIsTwo ==
    ASSUME N <= 3, NEW f, Good(f), f.pc = "prepare", Majority(f), WinsRightly(f)
    PROVE  f.at = 2
<1>1. /\ f.at \in Replica /\ f.votes \in 0 .. N /\ f.num \in 0 .. N /\ f.i \in 0 .. N
      /\ f.votes <= f.i /\ f.i <= f.at
  BY DEF Good, Records, CountsRightly, Asking
<1>2. f.at = 1 /\ f.votes > 0 => 2 <= f.num
  BY DEF WinsRightly, Asking
<1>3. f.at \in {0, 1, 2}
  BY <1>1, NAssumption, ReplicaFacts
<1>4. f.votes \in Nat /\ f.num \in Nat /\ f.i \in Nat
  BY <1>1, NAssumption
<1>5. f.votes > f.num \div 2
  BY DEF Majority
<1>6. f.at # 0
  BY <1>1, <1>4, <1>5
<1>7. f.at # 1
  BY <1>1, <1>2, <1>4, <1>5
<1>8. QED
  BY <1>3, <1>6, <1>7

\* The threads of a step that a thread takes by itself.
LEMMA RightGoesOn ==
    ASSUME N <= 3, TypeOK, Threads, RunsUp, NEW t \in Thread, Right(thr[t], up),
           \/ Start(t) \/ Propose(t) \/ Prepared(t)
           \/ Accepted(t) \/ Inform(t) \/ Informed(t) \/ Assign(t)
    PROVE  \E g : Moves(t, g) /\ Right(g, up)
<1> DEFINE f == thr[t]
<1>1. Good(f) /\ f \in Records /\ up \in [Replica -> BOOLEAN]
  BY DEF Threads, Good, TypeOK
<1>2. ASSUME NEW g, g.pc \in {"assign", "reply"} PROVE Right(g, up)
  BY <1>2, RestIsRight
<1>3. CASE Start(t)
  <2> DEFINE g == [f EXCEPT !.pc = "ping"]
  <2>1. Moves(t, g)
    BY <1>1, <1>3, StartMoves
  <2>2. f.i = 0
    BY <1>1, <1>3 DEF Start, Good, CountsRightly
  <2>3. g.pc = "ping" /\ g.i = 0
    BY <1>1, <2>2 DEF Records
  <2> HIDE DEF g
  <2>4. Right(g, up)
    BY <2>3 DEF Right, CountsAlive, WinsRightly, Asking
  <2>5. QED
    BY <2>1, <2>4
<1>4. CASE Propose(t)
  <2> DEFINE g == [f EXCEPT !.pc = "prepare", !.i = 0, !.high = f.at]
  <2>1. Moves(t, g) /\ f.pc = "ping" /\ f.i = N
    BY <1>1, <1>4, ProposeMoves
  <2>2. f.votes = 0
    BY <1>1, <2>1 DEF Good, CountsRightly
  <2>3. g.pc = "prepare" /\ g.num = f.num /\ g.votes = 0
    BY <1>1, <2>2 DEF Records
  <2> HIDE DEF g
  <2>4. \A r \in Replica : r < f.i
    BY <2>1, ReplicaFacts
  <2>5. Right(g, up)
    BY <2>1, <2>3, <2>4 DEF Right, CountsAlive, WinsRightly, Asking
  <2>6. QED
    BY <2>1, <2>5
<1>5. CASE Prepared(t)
  <2> DEFINE g == [f EXCEPT !.pc = "accept", !.i = 0, !.votes = 0]
  <2>1. /\ f.pc = "prepare"
        /\ \/ Majority(f) /\ Moves(t, g)
           \/ \E h : h.pc = "assign" /\ Moves(t, h)
    BY <1>1, <1>5, PreparedMoves
  <2>2. CASE Majority(f) /\ Moves(t, g)
    <3>1. f.at = 2
      BY <1>1, <2>1, <2>2, MajorityIsTwo DEF Right
    <3>2. g.pc = "accept" /\ g.num = f.num /\ g.at = f.at /\ g.votes = 0
      BY <1>1 DEF Records
    <3> HIDE DEF g
    <3>3. Right(g, up)
      BY <2>1, <3>1, <3>2 DEF Right, CountsAlive, WinsRightly, Asking
    <3>4. QED
      BY <2>2, <3>3
  <2>3. QED
    BY <1>2, <2>1, <2>2
<1>6. CASE Accepted(t)
  <2> DEFINE g == [f EXCEPT !.pc = "inform", !.i = 0]
  <2>1. f.pc = "accept" /\ (Moves(t, g) \/ \E h : h.pc = "assign" /\ Moves(t, h))
    BY <1>1, <1>6, AcceptedMoves
  <2>2. f.at = 2 /\ g.pc = "inform" /\ g.at = f.at
    BY <1>1, <2>1 DEF Right, WinsRightly, Records
  <2> HIDE DEF g
  <2>3. Right(g, up)
    BY <2>2 DEF Right, CountsAlive, WinsRightly, Asking
  <2>4. QED
    BY <1>2, <2>1, <2>3
<1>7. CASE Inform(t)
  <2> DEFINE g == [f EXCEPT !.i = @ + 1]
  <2>1. f.pc = "inform" /\ Moves(t, g)
    BY <1>1, <1>7, InformMoves
  <2>2. f.at = 2 /\ g.pc = "inform" /\ g.at = f.at
    BY <1>1, <2>1 DEF Right, WinsRightly, Records
  <2> HIDE DEF g
  <2>3. Right(g, up)
    BY <2>2 DEF Right, CountsAlive, WinsRightly, Asking
  <2>4. QED
    BY <2>1, <2>3
<1>8. CASE Informed(t)
  <2>1. \E h : h.pc = "assign" /\ Moves(t, h)
    BY <1>1, <1>8, FinishMoves, LoopsDoNotWait DEF Informed, Asking
  <2>2. QED
    BY <1>2, <2>1
<1>9. CASE Assign(t)
  <2> DEFINE g == [f EXCEPT !.pc = "reply", !.ret = NoOne]
  <2>1. Moves(t, g) /\ g.pc = "reply"
    BY <1>1, <1>9, AssignMoves
  <2> HIDE DEF g
  <2>2. QED
    BY <1>2, <2>1
<1>10. QED
  BY <1>3, <1>4, <1>5, <1>6, <1>7, <1>8, <1>9

AllRight(alive) == \A t \in Thread : Right(thr'[t], alive)

\* Who is called, or is waited for, changes nothing.
LEMMA CallIsRight ==
    ASSUME TypeOK, Threads, \A u \in Thread : Right(thr[u], up),
           NEW t \in Thread, NEW r \in Replica, CallsThread(t, r)
    PROVE  AllRight(up)
<1>1. PICK n \in Thread : /\ ~Running(n)
                          /\ thr' = [thr EXCEPT ![t].wait = r, ![n] = Handler("start", r, t)]
  BY DEF CallsThread
<1> DEFINE h == Handler("start", r, t)
           g == [thr[t] EXCEPT !.wait = r]
<1>2. Right(h, up)
  BY HandlerIsGood, RestIsRight
<1>3. thr \in [Thread -> Records]
  BY DEF TypeOK, Records
<1>4. /\ g.pc = thr[t].pc /\ g.at = thr[t].at /\ g.i = thr[t].i
      /\ g.num = thr[t].num /\ g.votes = thr[t].votes
  BY <1>3 DEF Records
<1>5. thr' = [[thr EXCEPT ![t] = g] EXCEPT ![n] = h] /\ n # t
  BY <1>1, <1>3 DEF CallsThread
<1> HIDE DEF g, h
<1>6. Right(g, up)
  BY <1>4 DEF Right, CountsAlive, WinsRightly
<1>7. \A u \in Thread : thr'[u] \in {h, g, thr[u]}
  BY <1>3, <1>5
<1>8. QED
  BY <1>2, <1>6, <1>7 DEF AllRight

\* Who asks, or has no answer, has no vote more.
LEMMA AskingIsRight ==
    ASSUME NEW f, NEW g, Right(f, up), f.pc \in Asking, g.pc = f.pc, g.at = f.at,
           g.num = f.num, g.votes = f.votes
    PROVE  Right(g, up)
BY DEF Right, CountsAlive, WinsRightly, Asking

\* A thread calls an acceptor.
LEMMA SendIsRight ==
    ASSUME TypeOK, Threads, \A u \in Thread : Right(thr[u], up), NEW t \in Thread,
           NEW pc \in Asking, NEW value, Send(t, pc, value)
    PROVE  AllRight(up)
<1>1. /\ thr \in [Thread -> Records] /\ thr[t].pc \in Asking
      /\ \/ thr' = [thr EXCEPT ![t] = [thr[t] EXCEPT !.i = @ + 1]]
         \/ thr' = [thr EXCEPT ![t] = [thr[t] EXCEPT !.wait = thr[t].i]]
  <2>1. thr \in [Thread -> Records] /\ Good(thr[t])
    BY DEF TypeOK, Records, Threads
  <2>2. /\ thr[t].pc = pc
        /\ \/ Moves(t, [thr[t] EXCEPT !.i = @ + 1])
           \/ AsksFor(t, thr[t].i)
    BY <2>1, SendMoves
  <2>3. QED
    BY <2>1, <2>2 DEF Moves, AsksFor
<1>2. ASSUME NEW g, thr' = [thr EXCEPT ![t] = g], g.pc = thr[t].pc, g.at = thr[t].at,
             g.num = thr[t].num, g.votes = thr[t].votes
      PROVE  AllRight(up)
  <2>1. Right(g, up)
    BY <1>1, <1>2, AskingIsRight
  <2>2. \A u \in Thread : thr'[u] \in {g, thr[u]}
    BY <1>1, <1>2
  <2>3. QED
    BY <2>1, <2>2 DEF AllRight
<1> DEFINE g == [thr[t] EXCEPT !.i = @ + 1]
           h == [thr[t] EXCEPT !.wait = thr[t].i]
<1>3. /\ g.pc = thr[t].pc /\ g.at = thr[t].at /\ g.num = thr[t].num /\ g.votes = thr[t].votes
      /\ h.pc = thr[t].pc /\ h.at = thr[t].at /\ h.num = thr[t].num /\ h.votes = thr[t].votes
  BY <1>1 DEF Records
<1>4. thr' = [thr EXCEPT ![t] = g] \/ thr' = [thr EXCEPT ![t] = h]
  BY <1>1
<1> HIDE DEF g, h
<1>5. QED
  BY <1>2, <1>3, <1>4

\* An acceptor has answered.  If it is asked by 1 it is 0, which is up and was
\* counted, as 1 itself was.
LEMMA ServedIsRight ==
    ASSUME TypeOK, Threads, RunsUp, \A u \in Thread : Right(thr[u], up),
           NEW r \in Replica, Served(r)
    PROVE  AllRight(up)
<1> SUFFICES ASSUME NEW u \in Thread, Turned(thr[u], thr'[u], r) PROVE Right(thr'[u], up)
  BY DEF Served, AllRight
<1> DEFINE f == thr[u]
           g == thr'[u]
<1>1. /\ f.pc \in Asking /\ f.wait = r /\ ~LoopEnds(f) /\ Good(f) /\ Right(f, up)
      /\ g.pc = f.pc /\ g.at = f.at /\ g.num = f.num /\ up[r]
  BY DEF Turned, Threads, Served
<1>2. f.i = r
  BY <1>1, ReplicaFacts DEF Good, WaitsRightly, Asking
<1>3. f.at \in Replica /\ f.i + 1 <= f.at /\ up[f.at]
  <2>1. f.pc # "free"
    BY <1>1 DEF Asking
  <2>2. \A v \in {0, 1} : f.i + 1 <= f.at
    BY <1>1, LoopFacts
  <2>3. QED
    BY <1>1, <2>1, <2>2 DEF RunsUp, Running, Good, Records
<1> HIDE DEF f, g
<1>4. f.at = 1 => up[0] /\ up[1] /\ 1 \in Replica
  BY <1>1, <1>2, <1>3, ReplicaFacts
<1>5. 1 \in Replica /\ up[0] /\ up[1] => 2 <= f.num
  BY <1>1 DEF Right, CountsAlive, Asking
<1>6. Right(g, up)
  BY <1>1, <1>4, <1>5 DEF Right, CountsAlive, WinsRightly, Asking
<1>7. QED
  BY <1>6 DEF g

\* Every step of a thread or of a front end keeps the counts right.
LEMMA StepIsRight ==
    ASSUME N <= 3, IInv, \A u \in Thread : Right(thr[u], up), [Next]_vars
    PROVE  AllRight(up')
<1>1. TypeOK /\ Threads /\ Callers /\ RunsUp /\ ServedUp
  BY DEF IInv, Threads
<1>2. thr \in [Thread -> Records] /\ up \in [Replica -> BOOLEAN]
  BY <1>1 DEF TypeOK, Records
<1>3. ASSUME UNCHANGED <<thr, up>> PROVE AllRight(up')
  BY <1>3 DEF AllRight
<1>4. ASSUME NEW t \in Thread, NEW g, Moves(t, g), Right(g, up), UNCHANGED up
      PROVE  AllRight(up')
  <2>1. \A u \in Thread : thr'[u] \in {g, thr[u]}
    BY <1>2, <1>4 DEF Moves
  <2>2. QED
    BY <1>4, <2>1 DEF AllRight
<1>5. ASSUME NEW t \in Thread, ThreadStep(t) PROVE UNCHANGED up
  BY <1>5 DEF ThreadStep, Start, Ping, Propose, Prepare, Send, Prepared, Accept, Accepted,
              Inform, Informed, Assign, Check, Reply
<1>6. ASSUME NEW t \in Thread, UNCHANGED up, Ping(t) PROVE AllRight(up')
  <2> DEFINE f == thr[t]
  <2>1. /\ f.pc = "ping" /\ f.i < N /\ Good(f) /\ Right(f, up)
        /\ \/ Dead(f.i) /\ Moves(t, Missed(f))
           \/ Moves(t, Counted(f))
           \/ CallsThread(t, f.i)
    BY <1>1, <1>6, PingMoves DEF Threads
  <2>2. /\ f.i \in Replica /\ Right(Counted(f), up)
        /\ Dead(f.i) => Right(Missed(f), up)
    BY <1>2, <2>1, CountedIsRight DEF Dead
  <2>3. CASE CallsThread(t, f.i)
    BY <1>1, <1>6, <2>2, <2>3, CallIsRight
  <2> HIDE DEF f
  <2>4. QED
    BY <1>4, <1>6, <2>1, <2>2, <2>3
<1>7. ASSUME NEW t \in Thread, UNCHANGED up, Check(t) PROVE AllRight(up')
  <2>1. ASSUME NEW pc \in {"start", "reply"}, Moves(t, [thr[t] EXCEPT !.pc = pc])
        PROVE  AllRight(up')
    <3> DEFINE g == [thr[t] EXCEPT !.pc = pc]
    <3>1. g.pc = pc
      BY <1>2 DEF Records
    <3>2. Moves(t, g)
      BY <2>1
    <3> HIDE DEF g
    <3>3. Right(g, up)
      BY <3>1, RestIsRight
    <3>4. QED
      BY <1>4, <1>7, <3>2, <3>3
  <2>2. CASE CallsThread(t, leader[thr[t].at])
    <3>1. leader[thr[t].at] \in Replica
      BY <2>2 DEF CallsThread
    <3>2. QED
      BY <1>1, <1>7, <2>2, <3>1, CallIsRight
  <2>3. Good(thr[t])
    BY <1>1 DEF Threads
  <2>4. QED
    BY <1>1, <1>7, <2>1, <2>2, <2>3, CheckMoves
<1>8. ASSUME NEW t \in Thread, UNCHANGED up, Reply(t) PROVE AllRight(up')
  <2>1. Right(Free, up)
    BY FreeIsGood, RestIsRight
  <2>2. CASE Ends(t)
    <3>1. \A u \in Thread : thr'[u] \in {Free, thr[u]}
      BY <1>2, <2>2 DEF Ends
    <3>2. QED
      BY <1>8, <2>1, <3>1 DEF AllRight
  <2>3. ASSUME NEW u \in Thread, NEW g, Answers(t, u, g), Right(g, up) PROVE AllRight(up')
    <3>1. \A v \in Thread : thr'[v] \in {Free, g, thr[v]}
      BY <1>2, <2>3 DEF Answers
    <3>2. QED
      BY <1>8, <2>1, <2>3, <3>1 DEF AllRight
  <2>4. ASSUME NEW u \in Thread, thr[u].pc = "ping", thr[u].i < N PROVE Right(Counted(thr[u]), up)
    BY <1>1, <1>2, <2>4, CountedIsRight DEF Threads
  <2>5. ASSUME NEW g, g.pc = "reply" PROVE Right(g, up)
    BY <2>5, RestIsRight
  <2>6. \/ Ends(t)
        \/ \E u \in Thread : /\ thr[u].pc = "ping" /\ thr[u].i < N
                             /\ Answers(t, u, Counted(thr[u]))
        \/ \E u \in Thread : \E g : g.pc = "reply" /\ Answers(t, u, g)
    BY <1>1, <1>8, ReplyMoves DEF Threads
  <2>7. QED
    BY <2>2, <2>3, <2>4, <2>5, <2>6
<1>9. ASSUME NEW t \in Thread, UNCHANGED up,
             \/ Start(t) \/ Propose(t) \/ Prepared(t)
             \/ Accepted(t) \/ Inform(t) \/ Informed(t) \/ Assign(t)
      PROVE  AllRight(up')
  <2>1. \E g : Moves(t, g) /\ Right(g, up)
    BY <1>1, <1>9, RightGoesOn
  <2>2. QED
    BY <1>4, <1>9, <2>1
<1>10. ASSUME NEW t \in Thread, UNCHANGED up, Prepare(t) \/ Accept(t) PROVE AllRight(up')
  <2>1. \E pc \in Asking, value \in {NoOne, thr[t].high} : Send(t, pc, value)
    BY <1>10 DEF Prepare, Accept, Asking
  <2>2. AllRight(up)
    BY <1>1, <2>1, SendIsRight
  <2>3. QED
    BY <1>10, <2>2
<1>11. ASSUME NEW x \in served, Serve(x) PROVE AllRight(up')
  <2>1. UNCHANGED up /\ x.at \in Replica
    BY <1>1, <1>11 DEF Serve, TypeOK
  <2>2. thr' = thr \/ Served(x.at)
    BY <1>1, <1>11, ServeMoves DEF Threads
  <2>3. CASE Served(x.at)
    <3>1. AllRight(up)
      BY <1>1, <2>1, <2>3, ServedIsRight
    <3>2. QED
      BY <2>1, <3>1
  <2>4. QED
    BY <1>3, <2>1, <2>2, <2>3
<1>12. ASSUME NEW x \in informs, ReceiveInform(x) PROVE UNCHANGED <<thr, up>>
  BY <1>12 DEF ReceiveInform
<1>13. ASSUME NEW c \in Client, Search(c) PROVE UNCHANGED <<thr, up>>
  BY <1>13 DEF Search
<1>14. ASSUME NEW c \in Client, Ask(c) PROVE AllRight(up')
  <2>1. UNCHANGED up /\ (thr' = thr \/ ClientCalls(c))
    BY <1>14, AskMoves DEF Ask
  <2>2. CASE ClientCalls(c)
    <3>1. PICK n \in Thread, r \in Replica, pc \in {"start", "check"} :
              thr' = [thr EXCEPT ![n] = Handler(pc, r, c)]
      BY <2>2 DEF ClientCalls
    <3> DEFINE h == Handler(pc, r, c)
    <3>2. Right(h, up)
      BY HandlerIsGood, RestIsRight
    <3> HIDE DEF h
    <3>3. \A u \in Thread : thr'[u] \in {h, thr[u]}
      BY <1>2, <3>1 DEF h
    <3>4. QED
      BY <2>1, <3>2, <3>3 DEF AllRight
  <2>3. QED
    BY <1>3, <2>1, <2>2
<1>15. ASSUME NEW r \in Replica, Crash(r) PROVE AllRight(up')
  <2>1. up' = [up EXCEPT ![r] = FALSE]
    BY <1>15 DEF Crash
  <2>2. /\ ~up'[r] /\ up' \in [Replica -> BOOLEAN]
        /\ \A p \in Replica : up'[p] => up[p]
    BY <1>2, <2>1
  <2>3. ASSUME NEW f, Right(f, up) PROVE Right(f, up')
    <3>1. /\ 0 \in Replica /\ up'[0] => up[0]
          /\ 1 \in Replica /\ up'[1] => up[1]
          /\ 1 \in Replica => 0 \in Replica
      BY <2>2, ReplicaFacts
    <3>2. QED
      BY <2>3, <3>1 DEF Right, CountsAlive
  <2>4. SUFFICES ASSUME NEW t \in Thread PROVE Right(thr'[t], up')
    BY DEF AllRight
  <2>5. CASE thr'[t] = Free
    BY <2>5, FreeIsGood, RestIsRight
  <2>6. CASE Survives(thr[t], thr'[t], r)
    <3> DEFINE f == thr[t]
               g == thr'[t]
    <3>1. Good(f) /\ Right(f, up')
      BY <1>1, <2>3 DEF Threads
    <3>2. CASE g.pc = "start"
      BY <3>2, RestIsRight
    <3>3. CASE /\ f.pc = "ping" /\ f.wait = r
               /\ g.pc = "ping" /\ g.i = f.i + 1 /\ g.num = f.num
      <4>1. f.i = r /\ f.i < N
        BY <3>1, <3>3, ReplicaFacts DEF Good, WaitsRightly
      <4>2. Right(Missed(f), up') /\ Missed(f).pc = "ping"
            /\ Missed(f).i = g.i /\ Missed(f).num = g.num
        BY <2>2, <3>1, <3>3, <4>1, CountedIsRight, PingIsGood
      <4> HIDE DEF f, g
      <4>3. Right(g, up')
        BY <3>3, <4>2 DEF Right, CountsAlive, WinsRightly, Asking
      <4>4. QED
        BY <4>3 DEF g
    <3>4. CASE /\ g.pc = f.pc /\ g.num = f.num /\ g.votes = f.votes
               /\ g.pc = "ping" => g.i = f.i
      <4>1. g.at = f.at
        BY <2>6 DEF Survives
      <4> HIDE DEF f, g
      <4>2. Right(g, up')
        BY <3>1, <3>4, <4>1 DEF Right, CountsAlive, WinsRightly
      <4>3. QED
        BY <4>2 DEF g
    <3>5. QED
      BY <2>6, <3>2, <3>3, <3>4 DEF Survives
  <2>7. QED
    BY <1>1, <1>15, <2>5, <2>6, CrashMoves DEF Threads
<1>16. CASE UNCHANGED vars
  BY <1>3, <1>16 DEF vars
<1>17. CASE \E t \in Thread : ThreadStep(t)
  <2>1. PICK t \in Thread : ThreadStep(t)
    BY <1>17
  <2>2. UNCHANGED up
    BY <1>5, <2>1
  <2>3. QED
    BY <1>6, <1>7, <1>8, <1>9, <1>10, <2>1, <2>2 DEF ThreadStep
<1>18. QED
  BY <1>3, <1>12, <1>13, <1>14, <1>15, <1>16, <1>17, <1>11 DEF Next

\* What is decided, and who knows it.
Decision(t) ==
    /\ thr[t].pc = "accept" /\ thr[t].high \in Replica /\ thr[t].at <= thr[t].high
    /\ leader' = [leader EXCEPT ![thr[t].at] = thr[t].high]
    /\ elected' = elected \cup {thr[t].high}

\* A majority decides, or the election ends without a decision.
LEMMA AcceptedDecides ==
    ASSUME TypeOK, NEW t \in Thread, Good(thr[t]), Accepted(t)
    PROVE  Decision(t) \/ UNCHANGED <<elected, leader>>
<1>1. /\ thr[t].pc = "accept" /\ thr[t].high \in Replica
      /\ \/ UNCHANGED <<elected, leader>>
         \/ /\ leader' = [leader EXCEPT ![thr[t].at] = thr[t].high]
            /\ elected' = elected \cup {thr[t].high}
  BY AcceptedMoves
<1>2. thr[t].at <= thr[t].high
  BY <1>1 DEF Good, CountsRightly, Asking
<1>3. QED
  BY <1>1, <1>2 DEF Decision

\* Only a call that has a majority decides.
LEMMA DecisionMoves ==
    ASSUME TypeOK, Threads, [Next]_vars
    PROVE  elected' = elected \/ \E t \in Thread : Decision(t)
<1>1. ASSUME NEW t \in Thread, Accepted(t) PROVE elected' = elected \/ Decision(t)
  BY <1>1, AcceptedDecides DEF Threads
<1>2. ASSUME NEW t \in Thread, ThreadStep(t) PROVE Accepted(t) \/ elected' = elected
  BY <1>2 DEF ThreadStep, Start, Ping, Propose, Prepare, Send, Prepared, Accept,
              Inform, Informed, Assign, Check, Reply
<1>3. /\ \A x \in informs : ReceiveInform(x) => elected' = elected
      /\ \A x \in served : Serve(x) => elected' = elected
  BY DEF ReceiveInform, Serve
<1>4. ASSUME NEW c \in Client, Search(c) \/ Ask(c) PROVE elected' = elected
  BY <1>4 DEF Search, Ask
<1>5. ASSUME NEW r \in Replica, Crash(r) PROVE elected' = elected
  BY <1>5 DEF Crash
<1>6. CASE UNCHANGED vars
  BY <1>6 DEF vars
<1>7. QED
  BY <1>1, <1>2, <1>3, <1>4, <1>5, <1>6 DEF Next

\* A decision is for 2, when there are no more than three.
LEMMA DecisionIsTwo ==
    ASSUME N <= 3, NEW t \in Thread, Good(thr[t]), Right(thr[t], up), Decision(t)
    PROVE  thr[t].at = 2 /\ thr[t].high = 2 /\ 2 \in Replica
<1>1. thr[t].at = 2 /\ 2 <= thr[t].high /\ thr[t].high \in Replica
  BY DEF Decision, Right, WinsRightly
<1>2. QED
  BY <1>1, NAssumption, ReplicaFacts

\* The invariant of up to three replicas is inductive.
LEMMA ThreeIsInductive ==
    ASSUME N <= 3, IInvThree, [Next]_vars
    PROVE  IInvThree'
<1>1. /\ TypeOK /\ Threads /\ IInv /\ elected \subseteq {2}
      /\ \A u \in Thread : Right(thr[u], up) /\ Good(thr[u])
  BY DEF IInvThree, IInv, Threads, Right
<1>2. IInv'
  BY <1>1, StepIsGood
<1>3. (\A t \in Thread : CountsAlive(thr[t], up) /\ WinsRightly(thr[t]))'
  <2>1. AllRight(up')
    BY <1>1, StepIsRight
  <2>2. QED
    BY <2>1 DEF AllRight, Right
<1>4. elected' \subseteq {2}
  BY <1>1, DecisionMoves, DecisionIsTwo DEF Decision
<1>5. QED
  BY <1>2, <1>3, <1>4 DEF IInvThree

\* Nobody has voted, initially.
LEMMA InitIsGoodForThree == ASSUME Init PROVE IInvThree
<1>1. IInv
  BY InitIsGood
<1>2. \A t \in Thread : Right(thr[t], up)
  BY FreeIsGood, RestIsRight DEF Init
<1>3. elected \subseteq {2}
  BY DEF Init
<1>4. QED
  BY <1>1, <1>2, <1>3 DEF IInvThree, Right

\* src/MP2/config: numreplicas=3
UpToThree == N <= 3

\* The invariant of up to three replicas holds in every state.
THEOREM InvariantForThree == UpToThree => (Spec => []IInvThree)
<1> SUFFICES ASSUME UpToThree PROVE Spec => []IInvThree
  OBVIOUS
<1>1. Init => IInvThree
  BY InitIsGoodForThree
<1>2. IInvThree /\ [Next]_vars => IInvThree'
  BY ThreeIsInductive DEF UpToThree
<1>3. QED
  BY <1>1, <1>2, PTL DEF Spec

\* The election decides once: no two majorities, of one election or of several,
\* accept different leaders.
THEOREM DecidedOnce == UpToThree => (Spec => []AtMostOneElected)
<1> SUFFICES ASSUME UpToThree PROVE Spec => []AtMostOneElected
  OBVIOUS
<1>1. IInvThree => AtMostOneElected
  <2> SUFFICES ASSUME IInvThree PROVE AtMostOneElected
    OBVIOUS
  <2>1. elected = {} \/ elected = {2}
    BY DEF IInvThree
  <2>2. Cardinality({}) = 0 /\ Cardinality({2}) = 1
    BY FS_EmptySet, FS_Singleton
  <2>3. QED
    BY <2>1, <2>2 DEF AtMostOneElected
<1>2. QED
  BY <1>1, InvariantForThree, PTL

\* A step of the election is a decision, or makes a decision known or forgotten.
LEMMA StepDecidesOnce ==
    ASSUME N <= 3, IInvThree, [Next]_vars
    PROVE  [Consensus!Next]_<<elected, leader>>
<1>1. /\ TypeOK /\ Threads /\ LeadersAreElected /\ elected \subseteq {2}
      /\ \A u \in Thread : Right(thr[u], up) /\ Good(thr[u])
  BY DEF IInvThree, IInv, Threads, Right
<1>2. /\ leader \in [Replica -> ReplicaOrNone] /\ elected \subseteq Replica
      /\ \A t \in Thread : thr[t].ret \in elected \cup {NoOne} /\ thr[t].at \in Replica
      /\ \A x \in informs : x[3] \in elected \cup {NoOne} /\ x[2] \in Replica
  BY <1>1 DEF TypeOK, LeadersAreElected, Good, Records
<1>3. ASSUME NEW r \in Replica, NEW v \in elected \cup {NoOne},
             leader' = [leader EXCEPT ![r] = v], elected' = elected
      PROVE  Consensus!Next
  <2>1. CASE v \in elected
    <3>1. Consensus!Learn(r, v)
      BY <1>3, <2>1 DEF Consensus!Learn
    <3>2. v \in Replica
      BY <1>2, <2>1
    <3>3. QED
      BY <3>1, <3>2 DEF Consensus!Next
  <2>2. CASE v = NoOne
    <3>1. Consensus!Forget(r)
      BY <1>3, <2>2 DEF Consensus!Forget, NoOne
    <3>2. QED
      BY <3>1 DEF Consensus!Next
  <2>3. QED
    BY <2>1, <2>2
<1>4. ASSUME NEW t \in Thread, Accepted(t) PROVE [Consensus!Next]_<<elected, leader>>
  <2>1. Decision(t) \/ UNCHANGED <<elected, leader>>
    BY <1>1, <1>4, AcceptedDecides
  <2>2. CASE Decision(t)
    <3>1. thr[t].at = 2 /\ thr[t].high = 2 /\ 2 \in Replica
      BY <1>1, <2>2, DecisionIsTwo
    <3>2. Consensus!Decide(2, 2)
      BY <1>1, <2>2, <3>1 DEF Decision, Consensus!Decide
    <3>3. QED
      BY <3>1, <3>2 DEF Consensus!Next
  <2>3. QED
    BY <2>1, <2>2
<1>5. ASSUME NEW t \in Thread, Assign(t) PROVE Consensus!Next
  BY <1>2, <1>3, <1>5 DEF Assign
<1>6. ASSUME NEW x \in informs, ReceiveInform(x) PROVE Consensus!Next
  <2>1. leader' = [leader EXCEPT ![x[2]] = x[3]] /\ elected' = elected
    BY <1>6 DEF ReceiveInform
  <2>2. QED
    BY <1>2, <1>3, <2>1
<1>7. ASSUME NEW t \in Thread, ThreadStep(t)
      PROVE  Accepted(t) \/ Assign(t) \/ UNCHANGED <<elected, leader>>
  BY <1>7 DEF ThreadStep, Start, Ping, Propose, Prepare, Send, Prepared, Accept,
              Inform, Informed, Check, Reply
<1>8. ASSUME NEW x \in served, Serve(x) PROVE UNCHANGED <<elected, leader>>
  BY <1>8 DEF Serve
<1>9. ASSUME NEW c \in Client, Search(c) \/ Ask(c) PROVE UNCHANGED <<elected, leader>>
  BY <1>9 DEF Search, Ask
<1>10. ASSUME NEW r \in Replica, Crash(r) PROVE UNCHANGED <<elected, leader>>
  BY <1>10 DEF Crash
<1>11. CASE UNCHANGED vars
  BY <1>11 DEF vars
<1>12. QED
  BY <1>4, <1>5, <1>6, <1>7, <1>9, <1>10, <1>11, <1>8 DEF Next

\* The election implements a decision that is taken once, which replicas learn
\* and may forget.
THEOREM DecisionIsTakenOnce == UpToThree => (Spec => DecidesOnce)
<1> SUFFICES ASSUME UpToThree PROVE Spec => DecidesOnce
  OBVIOUS
<1>1. Init => Consensus!Init
  BY DEF Init, Consensus!Init, NoOne
<1>2. IInvThree /\ [Next]_vars => [Consensus!Next]_<<elected, leader>>
  BY StepDecidesOnce DEF UpToThree
<1>3. QED
  BY <1>1, <1>2, InvariantForThree, PTL DEF Spec, DecidesOnce, Consensus!Spec
=============================================================================
