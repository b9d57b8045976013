------------------------------ MODULE Election ------------------------------
(***************************************************************************)
(* The leader election of MP2 (replica_handler.cpp) and the search for the *)
(* leader that a front end makes (frontend.cpp).                           *)
(*                                                                         *)
(* Every replica serves calls in a pool of threads and makes calls itself, *)
(* so an election that asks a replica whether it is alive may start an     *)
(* election there, whose first act is to ask everybody whether they are    *)
(* alive.  A thread is a record: where its loop stands, who called it and  *)
(* whom it waits for.  A call that only answers is part of the step of the *)
(* caller.  One that starts an election gets a thread of its own, and the  *)
(* caller waits.  prepare() and accept() test and assign without a lock,   *)
(* so that each is served in several steps, and several at a time.         *)
(* inform() is a oneway call: it is in flight until it is served.          *)
(*                                                                         *)
(* All replicas are started before the first call; a replica that exits    *)
(* does not come back.  The threads of a replica share one connection to   *)
(* each peer, and take turns on it.                                        *)
(***************************************************************************)
EXTENDS Integers, FiniteSets

CONSTANTS
    N,             \* numreplicas; the replicas are 0 .. N - 1
    Client,        \* the front ends
    MaxThreads,    \* bound: calls under way at the same time
    MaxSearch,     \* bound: how often each front end looks for the leader
    Mortal,        \* bound: the replicas that may exit
    MaxProposal,   \* bound: where proposal numbers stop growing
    Garbage        \* what the uninitialised highestProposalNumber may hold

ASSUME NAssumption == N \in Nat \ {0}
ASSUME MaxThreadsAssumption == MaxThreads \in Nat
ASSUME MaxSearchAssumption == MaxSearch \in Nat
ASSUME MaxProposalAssumption == MaxProposal \in Nat /\ MaxProposal >= N
ASSUME GarbageAssumption == Garbage \subseteq Int

Replica == 0 .. N - 1

ASSUME MortalAssumption == Mortal \subseteq Replica

NoOne == -1
ReplicaOrNone == Replica \cup {NoOne}
Thread == 1 .. MaxThreads
Gone == 0          \* the caller of a thread whose caller has exited

ASSUME ClientAssumption == Client \cap (Thread \cup {Gone}) = {}

VARIABLES
    up,                  \* up[r]: the process of r runs
    leader,              \* leader[r]
    electionInProgress,  \* electionInProgress[r]
    proposal,            \* proposal[r]: proposalNumber
    highest,             \* highest[r]: highestProposalNumber
    accepted,            \* accepted[r]: acceptedProposalNumber and ...Value
    served,              \* the calls of prepare() and accept() being served
    thr,                 \* thr[t]: a call under way at a replica
    cl,                  \* cl[c]: the state of findLeader() at front end c
    informs,             \* inform() calls in flight, <<from, to, value>>
    elected,             \* history: the values for which a majority accepted
    searches             \* searches[c]: how often c has called findLeader()

acceptor == <<highest, accepted, served>>
vars == <<up, leader, electionInProgress, proposal, acceptor, thr, cl, informs,
          elected, searches>>

-----------------------------------------------------------------------------
(* Threads. *)

Free == [pc |-> "free", at |-> 0, from |-> Gone, wait |-> NoOne, i |-> 0,
         num |-> 0, votes |-> 0, high |-> NoOne, ret |-> NoOne]

Handler(pc, r, caller) ==
    [Free EXCEPT !.pc = pc, !.at = r, !.from = caller]

Running(t) == thr[t].pc # "free"

\* The thread that takes the next call, if one is left.
HasThread == \E t \in Thread : ~Running(t)
NextThread == CHOOSE t \in Thread :
                 /\ ~Running(t)
                 /\ \A u \in Thread : ~Running(u) => t <= u

Dead(r) == ~(r \in Replica /\ up[r])

\* Mutant: start an election although one is in progress.
MustElectAlways(r) == leader[r] = NoOne

\* getBwUtilization() and its like answer, unless the first call finds that no
\* leader is known and no election is running: then one is started.
MustElect(r) == leader[r] = NoOne /\ ~electionInProgress[r]

\* The connection from p to r is in use.
Taken(p, r) ==
    \/ \E x \in informs : x[1] = p /\ x[2] = r
    \/ \E t \in Thread : Running(t) /\ thr[t].at = p /\ thr[t].wait = r

\* Thread t is at pc and may call r now.
Calls(t, pc, r) ==
    /\ thr[t].pc = pc /\ thr[t].wait = NoOne
    /\ Dead(r) \/ ~Taken(thr[t].at, r)

\* Thread t waits for an election at r.
StartAndWait(t, r) ==
    /\ HasThread
    /\ thr' = [thr EXCEPT ![t].wait = r,
                          ![NextThread] = Handler("start", r, t)]

\* The replica answered, or it did not.
Counted(f) == [f EXCEPT !.wait = NoOne, !.i = @ + 1, !.num = @ + 1]
Missed(f) == [f EXCEPT !.wait = NoOne, !.i = @ + 1]

Capped(n) == IF n > MaxProposal THEN MaxProposal ELSE n

\* Mutant: the loops go over all replicas, as was probably meant.
LoopAsksAll(f) == f.i >= f.num

\* "if (i == id) break": the loops end at the own number.
LoopEnds(f) == f.i >= f.num \/ f.i = f.at

\* Mutant: more than a majority.
MajorityAndOne(f) == f.votes > f.num \div 2 + 1

Majority(f) == f.votes > f.num \div 2

-----------------------------------------------------------------------------
(* startLeaderElection() *)

Start(t) ==
    /\ thr[t].pc = "start"
    /\ electionInProgress' = [electionInProgress EXCEPT ![thr[t].at] = TRUE]
    /\ thr' = [thr EXCEPT ![t].pc = "ping"]
    /\ UNCHANGED <<up, leader, proposal, acceptor, cl, informs, elected,
                   searches>>

\* Who is alive?  The replica asks itself too.
Ping(t) ==
    LET r == thr[t].i
    IN  /\ r < N
        /\ Calls(t, "ping", r)
        /\ \/ Dead(r) /\ thr' = [thr EXCEPT ![t] = Missed(@)]
           \/ ~Dead(r) /\ ~MustElect(r) /\ thr' = [thr EXCEPT ![t] = Counted(@)]
           \/ ~Dead(r) /\ MustElect(r) /\ StartAndWait(t, r)
        /\ UNCHANGED <<up, leader, electionInProgress, proposal, acceptor, cl,
                       informs, elected, searches>>

Propose(t) ==
    LET f == thr[t]
    IN  /\ f.pc = "ping" /\ f.i = N
        /\ proposal' = [proposal EXCEPT ![f.at] = Capped(@ + f.num)]
        /\ thr' = [thr EXCEPT ![t] =
               [f EXCEPT !.pc = "prepare", !.i = 0, !.high = f.at]]
        /\ UNCHANGED <<up, leader, electionInProgress, acceptor, cl, informs,
                       elected, searches>>

\* electionInProgress = false; return leader.
Finish(t) ==
    LET r == thr[t].at
    IN  /\ electionInProgress' = [electionInProgress EXCEPT ![r] = FALSE]
        /\ thr' = [thr EXCEPT ![t] =
               [Handler("assign", r, @.from) EXCEPT !.ret = leader[r]]]

\* Mutant: keep one's own number whatever was accepted.
HigherOwn(value, own) == own

Higher(value, own) == IF value > own THEN value ELSE own

\* The thread calls prepare() or accept() of the replica whose turn it is, which
\* notes that an election is in progress.
Send(t, pc, value) ==
    LET f == thr[t]
        r == f.i
    IN  /\ ~LoopEnds(f)
        /\ Calls(t, pc, r)
        /\ \/ /\ Dead(r)
              /\ thr' = [thr EXCEPT ![t].i = @ + 1]
              /\ UNCHANGED <<electionInProgress, served>>
           \/ /\ ~Dead(r)
              /\ electionInProgress' = [electionInProgress EXCEPT ![r] = TRUE]
              /\ served' = served \cup {[pc |-> pc, from |-> f.at, at |-> r,
                                        num |-> proposal[f.at], value |-> value]}
              /\ thr' = [thr EXCEPT ![t].wait = r]
        /\ UNCHANGED <<up, leader, proposal, highest, accepted, cl, informs,
                       elected, searches>>

Prepare(t) == Send(t, "prepare", NoOne)

Prepared(t) ==
    LET f == thr[t]
    IN  /\ f.pc = "prepare" /\ LoopEnds(f)
        /\ \/ /\ Majority(f)
              /\ proposal' = [proposal EXCEPT ![f.at] = Capped(@ + f.num)]
              /\ thr' = [thr EXCEPT ![t] =
                     [f EXCEPT !.pc = "accept", !.i = 0, !.votes = 0]]
              /\ UNCHANGED electionInProgress
           \/ ~Majority(f) /\ Finish(t) /\ UNCHANGED proposal
        /\ UNCHANGED <<up, leader, acceptor, cl, informs, elected, searches>>

Accept(t) == Send(t, "accept", thr[t].high)

\* Mutant: the proposer leads whatever the acceptors said.
AcceptedByNobody(t) ==
    LET f == thr[t]
    IN  /\ f.pc = "accept" /\ LoopEnds(f)
        /\ leader' = [leader EXCEPT ![f.at] = f.high]
        /\ elected' = IF Majority(f) THEN elected \cup {f.high} ELSE elected
        /\ thr' = [thr EXCEPT ![t] = [f EXCEPT !.pc = "inform", !.i = 0]]
        /\ UNCHANGED <<up, electionInProgress, proposal, acceptor, cl, informs,
                       searches>>

Accepted(t) ==
    LET f == thr[t]
    IN  /\ f.pc = "accept" /\ LoopEnds(f)
        /\ \/ /\ Majority(f)
              /\ leader' = [leader EXCEPT ![f.at] = f.high]
              /\ elected' = elected \cup {f.high}
              /\ thr' = [thr EXCEPT ![t] = [f EXCEPT !.pc = "inform", !.i = 0]]
              /\ UNCHANGED electionInProgress
           \/ ~Majority(f) /\ Finish(t) /\ UNCHANGED <<leader, elected>>
        /\ UNCHANGED <<up, proposal, acceptor, cl, informs, searches>>

\* The leader is read anew for each inform().
Inform(t) ==
    LET f == thr[t]
    IN  /\ ~LoopEnds(f)
        /\ Calls(t, "inform", f.i)
        /\ informs' = IF Dead(f.i) THEN informs
                      ELSE informs \cup {<<f.at, f.i, leader[f.at]>>}
        /\ thr' = [thr EXCEPT ![t].i = @ + 1]
        /\ UNCHANGED <<up, leader, electionInProgress, proposal, acceptor, cl,
                       elected, searches>>

Informed(t) ==
    /\ thr[t].pc = "inform" /\ LoopEnds(thr[t])
    /\ Finish(t)
    /\ UNCHANGED <<up, leader, proposal, acceptor, cl, informs, elected,
                   searches>>

\* leader = startLeaderElection(): what was read above is written back.
Assign(t) ==
    /\ thr[t].pc = "assign"
    /\ leader' = [leader EXCEPT ![thr[t].at] = thr[t].ret]
    /\ thr' = [thr EXCEPT ![t].pc = "reply", ![t].ret = NoOne]
    /\ UNCHANGED <<up, electionInProgress, proposal, acceptor, cl, informs,
                   elected, searches>>

\* inform() is served.
ReceiveInform(x) ==
    /\ x \in informs
    /\ leader' = [leader EXCEPT ![x[2]] = x[3]]
    /\ electionInProgress' = [electionInProgress EXCEPT ![x[2]] = FALSE]
    /\ informs' = informs \ {x}
    /\ UNCHANGED <<up, proposal, acceptor, thr, cl, elected, searches>>

-----------------------------------------------------------------------------
(* prepare() and accept(), as they are served. *)

\* The proposer that waits for x; there is none if it has exited.
Caller(x) == {t \in Thread : /\ thr[t].at = x.from /\ thr[t].wait = x.at
                             /\ thr[t].pc \in {"prepare", "accept"}}

Turn(f, votes, high) ==
    [f EXCEPT !.i = @ + 1, !.wait = NoOne, !.votes = @ + votes, !.high = high]

\* The call returns with so many votes, and perhaps a value that was accepted.
Return(x, votes, value) ==
    /\ served' = served \ {x}
    /\ thr' = [t \in Thread |->
           IF t \in Caller(x)
           THEN Turn(thr[t], votes, Higher(value, thr[t].high)) ELSE thr[t]]

GoOn(x, pc) ==
    /\ served' = (served \ {x}) \cup {[x EXCEPT !.pc = pc]}
    /\ UNCHANGED thr

Outvotes(n, r) == n > highest[r]

\* "if (n > highestProposalNumber)"
Consider(x) ==
    /\ x.pc \in {"prepare", "accept"}
    /\ IF ~Outvotes(x.num, x.at) THEN Return(x, 0, NoOne)
       ELSE GoOn(x, IF x.pc = "prepare" THEN "promise" ELSE "number")
    /\ UNCHANGED <<highest, accepted>>

Promise(x) ==
    /\ x.pc = "promise"
    /\ highest' = [highest EXCEPT ![x.at] = x.num]
    /\ GoOn(x, "answer")
    /\ UNCHANGED accepted

\* What the replica has accepted is read now.
Answer(x) ==
    /\ x.pc = "answer"
    /\ Return(x, 1, accepted[x.at].value)
    /\ UNCHANGED <<highest, accepted>>

\* accept() raises no promise.  It assigns first the number, ...
AcceptNumber(x) ==
    /\ x.pc = "number"
    /\ accepted' = [accepted EXCEPT ![x.at].number = x.num]
    /\ GoOn(x, "value")
    /\ UNCHANGED highest

\* ... then the value.
AcceptValue(x) ==
    /\ x.pc = "value"
    /\ accepted' = [accepted EXCEPT ![x.at].value = x.value]
    /\ Return(x, 1, NoOne)
    /\ UNCHANGED highest

Serve(x) ==
    /\ x \in served
    /\ \/ Consider(x) \/ Promise(x) \/ Answer(x)
       \/ AcceptNumber(x) \/ AcceptValue(x)
    /\ UNCHANGED <<up, leader, electionInProgress, proposal, cl, informs,
                   elected, searches>>

-----------------------------------------------------------------------------
(* getLeader() and findLeader() *)

Searching(c) == cl[c].pc # "idle"

\* The replica that findLeader() calls next.
Target(f) == CASE f.pc = "check"   -> f.leader
               [] f.pc = "ask"     -> f.i
               [] f.pc = "confirm" -> f.named

\* Mutant: the loop runs off its end.
NextReplicaUnwrapped(f) ==
    [f EXCEPT !.pc = "ask", !.i = @ + 1, !.named = NoOne, !.wait = NoOne]

\* The next replica; after the last one findLeader() sleeps and starts again.
NextReplica(f) ==
    [f EXCEPT !.pc = "ask", !.i = (@ + 1) % N, !.named = NoOne, !.wait = NoOne]

Found(f, r) == [f EXCEPT !.pc = "idle", !.leader = r, !.i = 0,
                         !.named = NoOne, !.wait = NoOne]

\* replicas[-1] throws like a dead replica does.
AfterAnswer(f, r) ==
    CASE f.pc \in {"check", "confirm"} -> Found(f, r)
      [] f.pc = "ask" /\ r = NoOne     -> NextReplica(f)
      [] OTHER -> [f EXCEPT !.pc = "confirm", !.named = r, !.wait = NoOne]

AfterFailure(f) ==
    IF f.pc = "check" THEN [f EXCEPT !.pc = "ask", !.i = 0, !.wait = NoOne]
    ELSE NextReplica(f)

Search(c) ==
    /\ ~Searching(c) /\ searches[c] < MaxSearch
    /\ searches' = [searches EXCEPT ![c] = @ + 1]
    /\ cl' = [cl EXCEPT ![c] =
           IF cl[c].leader = NoOne THEN [@ EXCEPT !.pc = "ask", !.i = 0]
           ELSE [@ EXCEPT !.pc = "check"]]
    /\ UNCHANGED <<up, leader, electionInProgress, proposal, acceptor, thr,
                   informs, elected>>

\* getLeader() at the replica that c calls: no leader known; itself the leader;
\* or another one, which is then asked whether it is alive.
Ask(c) ==
    LET r == Target(cl[c])
    IN  /\ Searching(c) /\ cl[c].wait = NoOne
        /\ \/ /\ Dead(r)
              /\ cl' = [cl EXCEPT ![c] = AfterFailure(@)]
              /\ UNCHANGED thr
           \/ /\ ~Dead(r)
              /\ leader[r] = r \/ (leader[r] = NoOne /\ electionInProgress[r])
              /\ cl' = [cl EXCEPT ![c] = AfterAnswer(@, leader[r])]
              /\ UNCHANGED thr
           \/ /\ ~Dead(r) /\ MustElect(r) /\ HasThread
              /\ cl' = [cl EXCEPT ![c].wait = r]
              /\ thr' = [thr EXCEPT ![NextThread] = Handler("start", r, c)]
           \/ /\ ~Dead(r) /\ leader[r] \notin {r, NoOne} /\ HasThread
              /\ cl' = [cl EXCEPT ![c].wait = r]
              /\ thr' = [thr EXCEPT ![NextThread] = Handler("check", r, c)]
        /\ UNCHANGED <<up, leader, electionInProgress, proposal, acceptor,
                       informs, elected, searches>>

\* "Ensure that the leader is still alive."  If it is not, an election starts
\* whether or not one is in progress.
Check(t) ==
    LET r == leader[thr[t].at]
    IN  /\ Calls(t, "check", r)
        /\ \/ Dead(r) /\ thr' = [thr EXCEPT ![t].pc = "start"]
           \/ ~Dead(r) /\ ~MustElect(r) /\ thr' = [thr EXCEPT ![t].pc = "reply"]
           \/ ~Dead(r) /\ MustElect(r) /\ StartAndWait(t, r)
        /\ UNCHANGED <<up, leader, electionInProgress, proposal, acceptor, cl,
                       informs, elected, searches>>

\* The call returns to the thread or the front end that made it.
Reply(t) ==
    LET f == thr[t]
    IN  /\ f.pc = "reply"
        /\ \/ /\ f.from = Gone
              /\ thr' = [thr EXCEPT ![t] = Free]
              /\ UNCHANGED cl
           \/ /\ f.from \in Thread
              /\ thr' = [thr EXCEPT ![t] = Free, ![f.from] =
                     IF @.pc = "ping" THEN Counted(@)
                     ELSE [@ EXCEPT !.pc = "reply", !.wait = NoOne]]
              /\ UNCHANGED cl
           \/ /\ f.from \in Client
              /\ thr' = [thr EXCEPT ![t] = Free]
              /\ cl' = [cl EXCEPT ![f.from] = AfterAnswer(@, leader[f.at])]
        /\ UNCHANGED <<up, leader, electionInProgress, proposal, acceptor,
                       informs, elected, searches>>

-----------------------------------------------------------------------------
\* Replica r exits.  Its calls end with it; who waits for it gets an exception;
\* a call that it was making goes on without a caller.
Crash(r) ==
    /\ up[r] /\ r \in Mortal
    /\ up' = [up EXCEPT ![r] = FALSE]
    /\ thr' = [t \in Thread |->
           LET f == thr[t]
               g == IF f.from \in Thread /\ thr[f.from].at = r
                    THEN [f EXCEPT !.from = Gone] ELSE f
           IN  IF f.pc = "free" \/ f.at = r THEN Free
               ELSE CASE f.wait = r /\ f.pc = "ping"  -> Missed(g)
                      [] f.wait = r /\ f.pc \in {"prepare", "accept"} ->
                             Turn(g, 0, f.high)
                      [] f.wait = r /\ f.pc = "check" ->
                             [g EXCEPT !.pc = "start", !.wait = NoOne]
                      [] OTHER -> g]
    /\ cl' = [c \in Client |-> IF cl[c].wait = r THEN AfterFailure(cl[c])
                               ELSE cl[c]]
    /\ informs' = {x \in informs : x[2] # r}
    /\ served' = {x \in served : x.at # r}
    /\ UNCHANGED <<leader, electionInProgress, proposal, highest, accepted,
                   elected, searches>>

Init ==
    /\ up = [r \in Replica |-> TRUE]
    /\ leader = [r \in Replica |-> NoOne]
    /\ electionInProgress = [r \in Replica |-> FALSE]
    /\ proposal = [r \in Replica |-> r]
    /\ highest \in [Replica -> Garbage]
    /\ accepted = [r \in Replica |-> [number |-> -1, value |-> NoOne]]
    /\ served = {}
    /\ thr = [t \in Thread |-> Free]
    /\ cl = [c \in Client |-> [pc |-> "idle", leader |-> NoOne, i |-> 0,
                               named |-> NoOne, wait |-> NoOne]]
    /\ informs = {}
    /\ elected = {}
    /\ searches = [c \in Client |-> 0]

ThreadStep(t) ==
    \/ Start(t) \/ Ping(t) \/ Propose(t)
    \/ Prepare(t) \/ Prepared(t)
    \/ Accept(t) \/ Accepted(t)
    \/ Inform(t) \/ Informed(t)
    \/ Assign(t) \/ Check(t) \/ Reply(t)

Next ==
    \/ \E t \in Thread : ThreadStep(t)
    \/ \E x \in informs : ReceiveInform(x)
    \/ \E x \in served : Serve(x)
    \/ \E c \in Client : Search(c) \/ Ask(c)
    \/ \E r \in Replica : Crash(r)

Spec == Init /\ [][Next]_vars

\* The scheduler runs every thread, calls are delivered, and findLeader() goes
\* on until it has found a leader.  Nobody has to search and nobody has to exit.
Fairness ==
    /\ \A t \in Thread : WF_vars(ThreadStep(t))
    /\ \A c \in Client : WF_vars(Ask(c))
    /\ \A p, r \in Replica :
           /\ WF_vars(\E x \in informs : x[1] = p /\ x[2] = r /\ ReceiveInform(x))
           /\ WF_vars(\E x \in served : x.from = p /\ x.at = r /\ Serve(x))

FairSpec == Spec /\ Fairness

-----------------------------------------------------------------------------
(* Properties. *)

\* Every variable keeps the shape the handlers assume: no loop of a handler or
\* of findLeader() leaves the numbers of the replicas.
TypeOK ==
    /\ up \in [Replica -> BOOLEAN]
    /\ leader \in [Replica -> ReplicaOrNone]
    /\ electionInProgress \in [Replica -> BOOLEAN]
    /\ proposal \in [Replica -> 0 .. MaxProposal]
    /\ highest \in [Replica -> Int]
    /\ accepted \in [Replica -> [number : Int, value : ReplicaOrNone]]
    /\ served \subseteq
           [pc : {"prepare", "promise", "answer", "accept", "number", "value"},
            from : Replica, at : Replica, num : 0 .. MaxProposal,
            value : ReplicaOrNone]
    /\ thr \in [Thread ->
           [pc : {"free", "start", "ping", "prepare", "accept", "inform",
                  "assign", "check", "reply"},
            at : Replica, from : Client \cup Thread \cup {Gone},
            wait : ReplicaOrNone, i : 0 .. N, num : 0 .. N, votes : 0 .. N,
            high : ReplicaOrNone, ret : ReplicaOrNone]]
    /\ cl \in [Client ->
           [pc : {"idle", "check", "ask", "confirm"}, leader : ReplicaOrNone,
            i : Replica, named : ReplicaOrNone, wait : ReplicaOrNone]]
    /\ informs \subseteq Replica \X Replica \X ReplicaOrNone
    /\ elected \subseteq Replica
    /\ searches \in [Client -> 0 .. MaxSearch]

\* Whoever knows a leader, be it a replica, a call, an inform() in flight or a
\* front end, knows one that a majority accepted.
LeadersAreElected ==
    LET Known == elected \cup {NoOne}
    IN  /\ \A r \in Replica : leader[r] \in Known
        /\ \A t \in Thread : thr[t].ret \in Known
        /\ \A x \in informs : x[3] \in Known
        /\ \A c \in Client : cl[c].leader \in Known /\ cl[c].named \in Known

\* Paxos' promise: the election decides once.  Two elections at the same time,
\* or one after the other, end with the same leader.
AtMostOneElected == Cardinality(elected) <= 1

\* "their unbreakable word" (replica_handler.cpp:81): the number below which a
\* replica has promised to take no proposal never falls.
PromisesKept == [][\A r \in Replica : highest[r] <= highest'[r]]_vars

\* The election implements a decision that is taken once (LeaderConsensus).
Consensus == INSTANCE LeaderConsensus WITH chosen <- elected, learned <- leader
DecidesOnce == Consensus!Spec

\* No two threads wait for each other, over any number of calls: every call
\* that is under way returns.
CallsReturn == \A t \in Thread : Running(t) ~> ~Running(t)

\* frontend.cpp:85: the search for the leader ends.
SearchEnds == \A c \in Client : Searching(c) ~> ~Searching(c)

\* It does as long as nobody exits.
SearchEndsIfAllLive ==
    \A c \in Client : Searching(c) ~> ~Searching(c) \/ \E r \in Replica : ~up[r]
=============================================================================
