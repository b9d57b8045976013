-------------------------- MODULE ReplicaStoreProofs --------------------------
(***************************************************************************)
(* Theorems about ReplicaStore.  The types hold for any number of replicas *)
(* and any program of the front ends; so does, until the machine is        *)
(* spoilt, that the queue keeps its entries.  That the copies stay in      *)
(* step, that nothing acknowledged is lost and that the store implements   *)
(* one log (SharedLog) holds under one hypothesis, which the theorems      *)
(* name: there are no more replicas than a machine has copies              *)
(* (EverywhereCopied), as configured.                                      *)
(***************************************************************************)
EXTENDS ReplicaStore, SequenceFacts

\* src/MP2/config has as many replicas as MIN_REPLICAS (replica_handler.cpp).
EverywhereCopied == N <= MinReplicas

Calling ==
    [pc : {"idle", "scan", "await", "forward", "drain", "survey", "copy",
           "install", "fetch", "notify", "unmake", "gone"},
     calls : Seq(Kind), op : Op \cup {None}, i : 0 .. N,
     j : 0 .. MinReplicas, count : 0 .. N, pick : 0 .. N,
     preexisting : BOOLEAN, where : 0 .. N, lacking : Seq(Replica),
     found : 0 .. N, k : 1 .. N + 1, value : Value, since : Nat]

Entries == [kind : {"w"}, op : Op] \cup [kind : {"r"}, at : Replica, by : Client]

Writing == {"await", "forward"}
Located == {"copy", "install", "fetch", "notify"}

\* No two front ends have the same write waiting, so that an entry of the queue
\* tells whose it is.
WritesDiffer ==
    ~spoilt => \A c, d \in Client :
        c # d /\ cl[c].pc \in Writing /\ cl[d].pc \in Writing => cl[c].op # cl[d].op

\* The loops over the replicas: what is counted was asked, who lacks a copy is
\* taken in turn, and a replica that was picked is one.
Bounded(f) ==
    /\ f.pc = "scan" => f.count <= f.i /\ f.j < MinReplicas
    /\ f.pc = "drain" => f.lacking = <<>> /\ f.found = 0
    /\ f.pc = "survey" => Len(f.lacking) + f.found <= f.i
    /\ f.pc = "survey" /\ f.found > 0 => f.where # NoOne
    /\ Len(f.lacking) <= N /\ f.k <= Len(f.lacking) + 1
    /\ f.pc = "install" => f.pick # NoOne
    /\ f.pc = "install" \/ (f.pc = "scan" /\ f.where # NoOne) => f.k <= Len(f.lacking)
    /\ f.pc \in Located => f.where # NoOne

WritesOwn(c) == cl[c].pc \in Writing => cl[c].op \in MayWrite[c]

\* What runs, runs at a replica that is up.
RunsUp == \A c \in Client, r \in Replica : RunsAt(c, r) => Up(r)

TInv == /\ TypeOK
        /\ \A c \in Client : Bounded(cl[c]) /\ WritesOwn(c)
        /\ RunsUp

\* The front ends' calls that use the machine.
Using == {"await", "forward", "drain", "survey", "copy", "fetch", "notify"}

\* A create() that has seen only copies, or has placed j of them, knows where:
\* H are the replicas with a copy.
Placing(f, H) ==
    /\ f.where = NoOne /\ f.value = <<>>
    /\ f.count = f.i => \A r \in Replica : r < f.i => r \in H
    /\ \E P \in SUBSET H : Cardinality(P) = f.j /\ f.pick \notin P

\* Nobody copies what is everywhere, and who uses the machine waited until it
\* was made: m says that it is.
Regular(f, H, m) ==
    /\ f.lacking = <<>> /\ f.pc \notin {"install", "unmake"}
    /\ f.pc = "scan" => Placing(f, H)
    /\ f.pc = "await" => f.i = 0
    /\ f.pc \in Using => m

Forwarding == {c \in Client : At(c, "forward")}

\* How far a write has come, if one is on its way.
CopiesFit ==
    IF ~made THEN acked = <<>> /\ \A r \in Replica : copy[r] = <<>>
    ELSE IF Up(Leader)
    THEN /\ copy[Leader] = acked
         /\ Forwarding = {} => \A r \in Replica : Up(r) => copy[r] = acked
         /\ \A c \in Forwarding : \A r \in Replica \ {Leader} : Up(r) =>
                copy[r] = IF r < cl[c].i THEN Append(acked, cl[c].op) ELSE acked
    ELSE \E ahead \in {acked} \cup {Append(acked, op) : op \in Op} :
             \A r \in Replica : Up(r) => copy[r] \in {acked, ahead}

KeptInv ==
    ~spoilt =>
        /\ \A c \in Client : Regular(cl[c], holders, made)
        /\ made => holders = Replica
        /\ CopiesFit
        /\ \A r \in Replica : status[r] # "aborted"

-----------------------------------------------------------------------------
(* The records of the calls. *)

\* The numbers of replicas, and of none.
LEMMA ReplicaFacts ==
    /\ N \in Nat /\ N > 0 /\ 0 \in 0 .. N /\ NoOne \in 0 .. N /\ NoOne \notin Replica
    /\ Leader \in Replica /\ Leader # NoOne
    /\ \A r : r \in Replica <=> r \in Nat /\ r < N
    /\ \A r \in 0 .. N : r # NoOne => r \in Replica
    /\ \A r \in Replica : r \in 0 .. N /\ r + 1 \in 0 .. N /\ r # NoOne
    /\ MinReplicas \in Nat /\ MinReplicas > 0
BY NAssumption, MinReplicasAssumption DEF Replica, NoOne

\* A call that is over.
LEMMA IdleFacts ==
    ASSUME NEW calls \in Seq(Kind)
    PROVE  LET g == Idle(calls)
           IN  /\ g \in Calling /\ Bounded(g)
               /\ g.pc = "idle" /\ g.calls = calls /\ g.lacking = <<>>
               /\ g.i = 0 /\ g.j = 0 /\ g.count = 0 /\ g.found = 0 /\ g.k = 1
               /\ g.pick = NoOne /\ g.where = NoOne /\ g.value = <<>>
               /\ g.preexisting = TRUE
<1> DEFINE g == Idle(calls)
<1>1. g \in Calling
  BY ReplicaFacts DEF Idle, Calling, Value
<1>2. /\ g.pc = "idle" /\ g.calls = calls /\ g.lacking = <<>>
      /\ g.i = 0 /\ g.j = 0 /\ g.count = 0 /\ g.found = 0 /\ g.k = 1
      /\ g.pick = NoOne /\ g.where = NoOne /\ g.value = <<>>
      /\ g.preexisting = TRUE
  BY DEF Idle
<1> HIDE DEF g
<1>3. Bounded(g)
  BY <1>2, ReplicaFacts DEF Bounded, Located
<1>4. QED
  BY <1>1, <1>2, <1>3 DEF g

\* The shape of the call of c.
LEMMA CallShape ==
    ASSUME TInv, NEW c \in Client
    PROVE  /\ cl[c] \in Calling /\ Bounded(cl[c])
           /\ cl[c].i \in Nat /\ cl[c].i <= N
           /\ cl[c].j \in Nat /\ cl[c].count \in Nat /\ cl[c].found \in Nat
           /\ cl[c].pick \in 0 .. N /\ cl[c].where \in 0 .. N
           /\ cl[c].lacking \in Seq(Replica) /\ Len(cl[c].lacking) \in Nat
           /\ cl[c].k \in Nat /\ cl[c].k >= 1
           /\ cl[c].calls \in Seq(Kind) /\ cl[c].value \in Value
<1>1. cl[c] \in Calling /\ Bounded(cl[c])
  BY DEF TInv, TypeOK, Calling
<1>2. /\ cl[c].i \in 0 .. N /\ cl[c].j \in 0 .. MinReplicas /\ cl[c].count \in 0 .. N
      /\ cl[c].found \in 0 .. N /\ cl[c].k \in 1 .. N + 1
      /\ cl[c].pick \in 0 .. N /\ cl[c].where \in 0 .. N
  BY <1>1 DEF Calling
<1>3. /\ cl[c].lacking \in Seq(Replica) /\ cl[c].calls \in Seq(Kind)
      /\ cl[c].value \in Value
  BY <1>1 DEF Calling
<1>4. Len(cl[c].lacking) \in Nat
  BY <1>3
<1>5. QED
  BY <1>1, <1>2, <1>3, <1>4, NAssumption, MinReplicasAssumption

\* A call that begins.
LEMMA BeginFacts ==
    ASSUME TInv, NEW c \in Client, cl[c].calls # <<>>,
           NEW pc \in {"idle", "scan", "await", "drain", "unmake"}
    PROVE  LET g == Begin(c, pc)
           IN  /\ g \in Calling /\ g.pc = pc /\ g.lacking = <<>> /\ Bounded(g)
               /\ g.i = 0 /\ g.j = 0 /\ g.count = 0 /\ g.found = 0 /\ g.k = 1
               /\ g.pick = NoOne /\ g.where = NoOne /\ g.value = <<>>
               /\ g.preexisting = TRUE
<1> DEFINE t == Tail(cl[c].calls)
<1>1. t \in Seq(Kind)
  BY CallShape
<1> HIDE DEF t
<1>2. Begin(c, pc) = [Idle(t) EXCEPT !.pc = pc]
  BY DEF Begin, t
<1> DEFINE h == Idle(t)
           g == [h EXCEPT !.pc = pc]
<1>3. /\ h \in Calling /\ h.lacking = <<>>
      /\ h.i = 0 /\ h.j = 0 /\ h.count = 0 /\ h.found = 0 /\ h.k = 1
      /\ h.pick = NoOne /\ h.where = NoOne /\ h.value = <<>> /\ h.preexisting = TRUE
  BY <1>1, IdleFacts
<1> HIDE DEF h
<1>4. /\ g \in Calling /\ g.pc = pc /\ g.lacking = <<>>
      /\ g.i = 0 /\ g.j = 0 /\ g.count = 0 /\ g.found = 0 /\ g.k = 1
      /\ g.pick = NoOne /\ g.where = NoOne /\ g.value = <<>> /\ g.preexisting = TRUE
  BY <1>3 DEF Calling
<1> HIDE DEF g
<1>5. Bounded(g)
  BY <1>4, ReplicaFacts DEF Bounded, Located
<1>6. QED
  BY <1>2, <1>4, <1>5 DEF g, h

\* The scan starts over.
LEMMA ScanFacts ==
    ASSUME NEW f \in Calling
    PROVE  LET g == Scan(f)
           IN  /\ g \in Calling /\ g.pc = "scan" /\ g.i = 0 /\ g.count = 0
               /\ g.pick = NoOne /\ g.j = f.j /\ g.where = f.where /\ g.k = f.k
               /\ g.lacking = f.lacking /\ g.value = f.value /\ g.found = f.found
BY ReplicaFacts DEF Scan, Calling

-----------------------------------------------------------------------------
(* What a step does to the calls. *)

\* The replica that a call runs at.
Home(f, r) ==
    /\ f.pc \notin {"idle", "fetch", "gone"}
    /\ IF f.pc \in {"install", "notify"} THEN r = f.where ELSE r = Leader

\* The call of c goes on, at a replica that is up.
Goes(c, g) ==
    /\ cl' = [cl EXCEPT ![c] = g]
    /\ g \in Calling /\ Bounded(g)
    /\ g.pc \in Writing => g.op \in MayWrite[c]
    /\ \A r \in Replica : Home(g, r) => Up(r)

\* Everything but the calls and the processes keeps its type.
RestOK ==
    /\ holders \subseteq Replica
    /\ copy \in [Replica -> Value]
    /\ queue \in Seq(Entries)
    /\ made \in BOOLEAN
    /\ acked \in Value
    /\ lost \subseteq Client
    /\ spoilt \in BOOLEAN

\* Where a call runs depends on its record alone.
LEMMA RunsAtFacts ==
    \A c \in Client : \A r : RunsAt(c, r) <=> Home(cl[c], r)
BY DEF RunsAt, Home, At

\* The invariant, in parts.
LEMMA TInvParts ==
    TInv <=> /\ status \in [Replica -> {"up", "exited", "aborted"}]
             /\ cl \in [Client -> Calling]
             /\ RestOK
             /\ \A c \in Client : Bounded(cl[c]) /\ WritesOwn(c)
             /\ \A c \in Client, r \in Replica : Home(cl[c], r) => Up(r)
<1>1. RunsUp <=> \A c \in Client, r \in Replica : Home(cl[c], r) => Up(r)
  BY RunsAtFacts DEF RunsUp
<1>2. TypeOK <=> /\ status \in [Replica -> {"up", "exited", "aborted"}]
                 /\ cl \in [Client -> Calling]
                 /\ RestOK
  BY DEF TypeOK, RestOK, Calling, Entries
<1>3. QED
  BY <1>1, <1>2 DEF TInv

\* One call goes on.
LEMMA GoesKeeps ==
    ASSUME TInv, NEW c \in Client, NEW g, Goes(c, g), UNCHANGED status, RestOK'
    PROVE  TInv'
<1>1. /\ status \in [Replica -> {"up", "exited", "aborted"}]
      /\ cl \in [Client -> Calling]
      /\ \A d \in Client : Bounded(cl[d]) /\ WritesOwn(d)
      /\ \A d \in Client, r \in Replica : Home(cl[d], r) => Up(r)
  BY TInvParts
<1>2. cl' \in [Client -> Calling] /\ \A d \in Client : cl'[d] = IF d = c THEN g ELSE cl[d]
  BY <1>1 DEF Goes
<1>3. \A d \in Client : Bounded(cl'[d]) /\ WritesOwn(d)'
  BY <1>1, <1>2 DEF Goes, WritesOwn
<1>4. \A d \in Client, r \in Replica : Home(cl'[d], r) => Up(r)
  BY <1>1, <1>2 DEF Goes
<1>5. RunsUp'
  BY <1>4 DEF RunsUp, RunsAt, Home, At, Up
<1>6. TypeOK'
  BY <1>1, <1>2 DEF TypeOK, RestOK, Calling, Entries
<1>7. QED
  BY <1>3, <1>5, <1>6 DEF TInv

\* A process ends, and the calls that run there.
LEMMA EndsKeep ==
    ASSUME TInv, NEW r \in Replica, NEW how \in {"exited", "aborted"},
           NEW D \in SUBSET Client, Ends(r, how, D),
           UNCHANGED <<machines, queue, made, acked, spoilt>>
    PROVE  TInv'
<1>1. /\ status \in [Replica -> {"up", "exited", "aborted"}]
      /\ cl \in [Client -> Calling] /\ RestOK
      /\ \A d \in Client : Bounded(cl[d]) /\ WritesOwn(d)
      /\ \A d \in Client, p \in Replica : Home(cl[d], p) => Up(p)
  BY TInvParts
<1> DEFINE ended == D \cup {c \in Client : RunsAt(c, r)}
<1>2. /\ status' = [status EXCEPT ![r] = how]
      /\ cl' = [c \in Client |-> IF c \in ended THEN Idle(cl[c].calls) ELSE cl[c]]
      /\ lost' = lost \cup {c \in ended : At(c, "notify")}
  BY DEF Ends
<1>3. ended \subseteq Client
  OBVIOUS
<1>4. \A d \in Client : d \notin ended => ~Home(cl[d], r)
  BY RunsAtFacts
<1> HIDE DEF ended
<1>5. \A d \in Client : /\ Idle(cl[d].calls) \in Calling /\ Bounded(Idle(cl[d].calls))
                        /\ Idle(cl[d].calls).pc = "idle"
  BY CallShape, IdleFacts
<1>6. \A d \in Client : \/ cl'[d] = Idle(cl[d].calls)
                        \/ cl'[d] = cl[d] /\ ~Home(cl[d], r)
  BY <1>2, <1>4
<1>7. cl' \in [Client -> Calling]
  BY <1>1, <1>2, <1>5
<1>8. \A d \in Client : Bounded(cl'[d]) /\ WritesOwn(d)'
  <2>1. SUFFICES ASSUME NEW d \in Client PROVE Bounded(cl'[d]) /\ WritesOwn(d)'
    OBVIOUS
  <2>2. CASE cl'[d] = Idle(cl[d].calls)
    BY <1>5, <2>2 DEF WritesOwn, Writing
  <2>3. CASE cl'[d] = cl[d]
    BY <1>1, <2>3 DEF WritesOwn
  <2>4. QED
    BY <1>6, <2>2, <2>3
<1>9. status' \in [Replica -> {"up", "exited", "aborted"}]
  BY <1>1, <1>2
<1>10. \A d \in Client, p \in Replica : Home(cl'[d], p) => Up(p)'
  <2>1. SUFFICES ASSUME NEW d \in Client, NEW p \in Replica, Home(cl'[d], p) PROVE Up(p)'
    OBVIOUS
  <2>2. cl'[d] = cl[d] /\ ~Home(cl[d], r)
    BY <1>5, <1>6, <2>1 DEF Home
  <2>3. p # r /\ Up(p)
    BY <1>1, <2>1, <2>2
  <2>4. QED
    BY <1>1, <1>2, <2>3 DEF Up
<1>11. RunsUp'
  BY <1>10 DEF RunsUp, RunsAt, Home, At, Up
<1>12. RestOK'
  BY <1>1, <1>2, <1>3 DEF RestOK, machines
<1>13. TypeOK'
  BY <1>7, <1>9, <1>12 DEF TypeOK, RestOK, Calling, Entries
<1>14. QED
  BY <1>8, <1>11, <1>13 DEF TInv

\* The rest, if nothing of it changes.
LEMMA RestStays ==
    ASSUME TInv, UNCHANGED <<machines, queue, made, acked, lost, spoilt>>
    PROVE  RestOK'
BY TInvParts DEF RestOK, machines

\* A call returns, or throws.
LEMMA ReturnGoes ==
    ASSUME TInv, NEW c \in Client, Return(c)
    PROVE  Goes(c, Idle(cl[c].calls))
<1>1. cl' = [cl EXCEPT ![c] = Idle(cl[c].calls)]
  BY TInvParts DEF Return
<1>2. /\ Idle(cl[c].calls) \in Calling /\ Bounded(Idle(cl[c].calls))
      /\ Idle(cl[c].calls).pc = "idle"
  BY CallShape, IdleFacts
<1>3. QED
  BY <1>1, <1>2 DEF Goes, Home, Writing

\* A call begins, at the leader.
LEMMA CreateKeeps == ASSUME TInv, NEW c \in Client, Create(c) PROVE TInv'
<1> DEFINE b == Begin(c, "scan")
           g == Scan(b)
<1>1. cl[c].calls # <<>> /\ Up(Leader)
  BY DEF Create, Calls
<1>2. b \in Calling /\ b.lacking = <<>> /\ b.j = 0 /\ b.k = 1 /\ b.where = NoOne
  BY <1>1, BeginFacts
<1>3. cl' = [cl EXCEPT ![c] = g] /\ UNCHANGED <<status, machines, queue, made, acked, lost, spoilt>>
  BY DEF Create
<1> HIDE DEF b
<1>4. /\ g \in Calling /\ g.pc = "scan" /\ g.i = 0 /\ g.count = 0 /\ g.j = 0
      /\ g.lacking = <<>> /\ g.k = 1 /\ g.where = NoOne
  BY <1>2, ScanFacts
<1> HIDE DEF g
<1>5. Bounded(g)
  BY <1>4, ReplicaFacts DEF Bounded, Located
<1>6. Goes(c, g)
  BY <1>1, <1>3, <1>4, <1>5 DEF Goes, Home, Writing
<1>7. QED
  BY <1>3, <1>6, GoesKeeps, RestStays

\* The log is what was acknowledged, or a copy that is longer.
LEMMA LogCases ==
    /\ Unacknowledged = {} => Log = acked
    /\ Unacknowledged # {} => \E r \in Replica : /\ Log = copy[r]
                                                /\ Len(copy[r]) > Len(acked)
BY DEF Log, Unacknowledged

\* The log is a state of the machine.
LEMMA LogType == ASSUME TInv PROVE Log \in Value /\ Len(Log) \in Nat
<1>1. acked \in Value /\ copy \in [Replica -> Value]
  BY TInvParts DEF RestOK
<1>2. Log \in Value
  BY <1>1, LogCases
<1>3. Len(Log) \in Nat
  BY <1>2 DEF Value
<1>4. QED
  BY <1>2, <1>3

\* A read begins, and notes how long the log is.
LEMMA ReadGoes ==
    ASSUME TInv, NEW c \in Client, Read(c)
    PROVE  /\ cl[c].pc = "idle" /\ Up(Leader)
           /\ UNCHANGED <<status, machines, queue, made, acked, lost, spoilt>>
           /\ \E g \in Calling :
                  /\ cl' = [cl EXCEPT ![c] = g] /\ g.pc = "drain"
                  /\ Bounded(g) /\ g.lacking = <<>> /\ g.since = Len(Log)
<1> DEFINE b == Begin(c, "drain")
           g == [b EXCEPT !.since = Len(Log)]
<1>1. cl[c].calls # <<>> /\ Up(Leader) /\ cl[c].pc = "idle"
  BY DEF Read, Calls, At
<1>2. b \in Calling /\ b.pc = "drain" /\ b.lacking = <<>> /\ b.found = 0 /\ b.k = 1
  BY <1>1, BeginFacts
<1>3. /\ cl' = [cl EXCEPT ![c] = g]
      /\ UNCHANGED <<status, machines, queue, made, acked, lost, spoilt>>
  BY DEF Read
<1> HIDE DEF b
<1>4. /\ g \in Calling /\ g.pc = "drain" /\ g.lacking = <<>> /\ g.since = Len(Log)
      /\ g.found = 0 /\ g.k = 1
  BY <1>2, LogType DEF Calling
<1> HIDE DEF g
<1>5. Bounded(g)
  BY <1>4, ReplicaFacts DEF Bounded, Located
<1>6. QED
  BY <1>1, <1>3, <1>4, <1>5

\* read() and remove() begin likewise.
LEMMA ReadKeeps == ASSUME TInv, NEW c \in Client, Read(c) PROVE TInv'
<1>1. cl[c].pc = "idle" /\ Up(Leader)
  BY ReadGoes
<1>2. PICK g \in Calling : cl' = [cl EXCEPT ![c] = g] /\ g.pc = "drain" /\ Bounded(g)
  BY ReadGoes
<1>3. UNCHANGED <<status, machines, queue, made, acked, lost, spoilt>>
  BY DEF Read
<1>4. Goes(c, g)
  BY <1>1, <1>2, <1>3 DEF Goes, Home, Writing
<1>5. QED
  BY <1>3, <1>4, GoesKeeps, RestStays

\* The machine of the leader is erased, or there was none.
LEMMA RemoveMachineKeeps == ASSUME TInv, NEW c \in Client, RemoveMachine(c) PROVE TInv'
<1>1. cl[c].calls # <<>> /\ Up(Leader)
  BY DEF RemoveMachine, Calls
<1>2. \A pc \in {"idle", "unmake"} :
          Begin(c, pc) \in Calling /\ Begin(c, pc).pc = pc /\ Bounded(Begin(c, pc))
  BY <1>1, BeginFacts
<1>3. RestOK
  BY TInvParts
<1>4. \E g \in {Begin(c, "idle"), Begin(c, "unmake")} : cl' = [cl EXCEPT ![c] = g]
  BY DEF RemoveMachine
<1>5. \E g : Goes(c, g)
  BY <1>1, <1>2, <1>4 DEF Goes, Home, Writing
<1>6. holders' \subseteq Replica /\ copy' \in [Replica -> Value] /\ queue' \in Seq(Entries)
  <2>1. CASE UNCHANGED <<machines, queue>>
    BY <1>3, <2>1 DEF RestOK, machines
  <2>2. CASE /\ holders' = holders \ {Leader} /\ queue' = <<>>
             /\ copy' = [copy EXCEPT ![Leader] = <<>>]
    <3>1. <<>> \in Value /\ <<>> \in Seq(Entries)
      BY DEF Value
    <3>2. QED
      BY <1>3, <2>2, <3>1 DEF RestOK
  <2>3. QED
    BY <2>1, <2>2 DEF RemoveMachine
<1>7. spoilt' \in BOOLEAN /\ UNCHANGED <<status, made, acked, lost>>
  BY <1>3 DEF RemoveMachine, RestOK
<1>8. RestOK'
  BY <1>3, <1>6, <1>7 DEF RestOK
<1>9. QED
  BY <1>5, <1>7, <1>8, GoesKeeps

\* apply() is queued.
LEMMA ApplyKeeps == ASSUME TInv, NEW c \in Client, Apply(c) PROVE TInv'
<1>1. cl[c].calls # <<>> /\ Up(Leader)
  BY DEF Apply, Calls
<1>2. RestOK
  BY TInvParts
<1>3. UNCHANGED <<status, machines, made, acked, lost>> /\ spoilt' \in BOOLEAN
  BY <1>2 DEF Apply, RestOK
<1>4. CASE cl' = [cl EXCEPT ![c] = Begin(c, "idle")] /\ UNCHANGED <<queue, spoilt>>
  <2> DEFINE g == Begin(c, "idle")
  <2>1. g \in Calling /\ g.pc = "idle" /\ Bounded(g)
    BY <1>1, BeginFacts
  <2>2. cl' = [cl EXCEPT ![c] = g]
    BY <1>4
  <2> HIDE DEF g
  <2>3. Goes(c, g)
    BY <2>1, <2>2 DEF Goes, Home, Writing
  <2>4. QED
    BY <1>3, <1>4, <2>3, GoesKeeps, RestStays
<1>5. ASSUME NEW op \in MayWrite[c], queue' = Append(queue, Write(op)),
             cl' = [cl EXCEPT ![c] = [Begin(c, "await") EXCEPT !.op = op]]
      PROVE  TInv'
  <2> DEFINE b == Begin(c, "await")
             g == [b EXCEPT !.op = op]
  <2>1. b \in Calling /\ b.pc = "await" /\ b.lacking = <<>> /\ b.k = 1
    BY <1>1, BeginFacts
  <2>2. op \in Op
    BY ClientAssumption
  <2>3. cl' = [cl EXCEPT ![c] = g]
    BY <1>5
  <2> HIDE DEF b
  <2>4. /\ g \in Calling /\ g.pc = "await" /\ g.op = op /\ g.lacking = <<>> /\ g.k = 1
    BY <2>1, <2>2 DEF Calling
  <2> HIDE DEF g
  <2>5. Bounded(g)
    BY <2>4, ReplicaFacts DEF Bounded, Located
  <2>6. Goes(c, g)
    BY <1>1, <2>3, <2>4, <2>5 DEF Goes, Home
  <2>7. Write(op) \in Entries
    BY <2>2 DEF Write, Entries
  <2>8. queue' \in Seq(Entries)
    BY <1>2, <1>5, <2>7, AppendFacts DEF RestOK
  <2>9. RestOK'
    BY <1>2, <1>3, <2>8 DEF RestOK, machines
  <2>10. QED
    BY <1>3, <2>6, <2>9, GoesKeeps
<1>6. QED
  BY <1>4, <1>5 DEF Apply
\* What a handler of the leader shows: the leader is up.
LEMMA LeaderWorks ==
    ASSUME TInv, NEW c \in Client,
           cl[c].pc \notin {"idle", "fetch", "gone", "install", "notify"}
    PROVE  Up(Leader)
BY TInvParts, NAssumption DEF Home

\* A call that goes on at the leader.
LEMMA GoesOn ==
    ASSUME TInv, NEW c \in Client, NEW g, Up(Leader),
           cl' = [cl EXCEPT ![c] = g], g \in Calling, Bounded(g),
           g.pc \notin {"install", "notify"},
           g.pc \in Writing => g.op \in MayWrite[c]
    PROVE  Goes(c, g)
BY DEF Goes, Home

\* The scan goes on: one more replica was asked.
LEMMA ScanReplicaKeeps == ASSUME TInv, NEW c \in Client, ScanReplica(c) PROVE TInv'
<1> DEFINE f == cl[c]
<1>1. /\ f.pc = "scan" /\ f.i < N
      /\ UNCHANGED <<status, machines, queue, made, acked, lost, spoilt>>
  BY DEF ScanReplica, At
<1>2. Up(Leader)
  BY <1>1, LeaderWorks
<1>3. /\ f \in Calling /\ Bounded(f) /\ f.i \in Nat /\ f.count \in Nat
      /\ f.pick \in 0 .. N /\ f.j \in Nat
  BY CallShape
<1>4. f.count <= f.i /\ f.i + 1 \in 0 .. N /\ f.i \in 0 .. N /\ f.count + 1 \in 0 .. N
  BY <1>1, <1>3, NAssumption DEF Bounded
<1>5. \/ cl' = [cl EXCEPT ![c] = [f EXCEPT !.i = @ + 1]]
      \/ cl' = [cl EXCEPT ![c] = [[f EXCEPT !.i = @ + 1] EXCEPT !.count = @ + 1]]
      \/ \E r \in {f.i, f.pick} :
             cl' = [cl EXCEPT ![c] = [[f EXCEPT !.i = @ + 1] EXCEPT !.pick = r]]
  BY DEF ScanReplica
<1> HIDE DEF f
<1>6. ASSUME NEW r \in {f.i, f.pick},
             NEW g \in {[f EXCEPT !.i = @ + 1],
                        [[f EXCEPT !.i = @ + 1] EXCEPT !.count = @ + 1],
                        [[f EXCEPT !.i = @ + 1] EXCEPT !.pick = r]}
      PROVE  g \in Calling /\ Bounded(g) /\ g.pc = "scan"
  <2>1. r \in 0 .. N
    BY <1>3, <1>4
  <2>2. /\ g \in Calling /\ g.pc = "scan" /\ g.i = f.i + 1
        /\ g.count \in {f.count, f.count + 1} /\ g.j = f.j
        /\ g.where = f.where /\ g.lacking = f.lacking /\ g.k = f.k
    <3>1. CASE g = [f EXCEPT !.i = @ + 1]
      BY <1>1, <1>3, <1>4, <3>1 DEF Calling
    <3>2. CASE g = [[f EXCEPT !.i = @ + 1] EXCEPT !.count = @ + 1]
      BY <1>1, <1>3, <1>4, <3>2 DEF Calling
    <3>3. CASE g = [[f EXCEPT !.i = @ + 1] EXCEPT !.pick = r]
      BY <1>1, <1>3, <1>4, <2>1, <3>3 DEF Calling
    <3>4. QED
      BY <3>1, <3>2, <3>3
  <2> HIDE DEF f
  <2>3. Bounded(g)
    BY <1>1, <1>3, <1>4, <2>2 DEF Bounded, Located
  <2>4. QED
    BY <2>2, <2>3
<1>7. \E g : /\ cl' = [cl EXCEPT ![c] = g] /\ g \in Calling /\ Bounded(g)
             /\ g.pc = "scan"
  BY <1>5, <1>6
<1>8. \E g : Goes(c, g)
  BY <1>2, <1>7, GoesOn DEF Writing
<1>9. QED
  BY <1>1, <1>8, GoesKeeps, RestStays

\* create() returns, to the front end or to makeCopy().
LEMMA CreateReturnsGoes ==
    ASSUME TInv, NEW c \in Client, At(c, "scan"), NEW preexisting \in BOOLEAN,
           CreateReturns(c, preexisting)
    PROVE  (\E g : Goes(c, g)) /\ made' \in BOOLEAN
<1> DEFINE f == cl[c]
           g == [f EXCEPT !.pc = "copy", !.k = @ + 1]
<1>1. f.pc = "scan" /\ Up(Leader)
  BY LeaderWorks DEF At
<1>2. cl \in [Client -> Calling] /\ made \in BOOLEAN
  BY TInvParts DEF RestOK
<1>3. CASE Return(c) /\ made' = (made \/ (f.where = NoOne /\ ~preexisting))
  BY <1>2, <1>3, ReturnGoes
<1>4. CASE /\ f.where # NoOne /\ UNCHANGED made
           /\ cl' = [cl EXCEPT ![c].pc = "copy", ![c].k = @ + 1]
  <2>1. cl' = [cl EXCEPT ![c] = g]
    BY <1>2, <1>4
  <2>2. /\ f \in Calling /\ Bounded(f) /\ f.k \in Nat /\ f.k >= 1
        /\ Len(f.lacking) \in Nat
    BY CallShape
  <2>3. f.k <= Len(f.lacking) /\ Len(f.lacking) <= N
    BY <1>1, <1>4, <2>2 DEF Bounded
  <2> HIDE DEF f
  <2>4. f.k + 1 \in 1 .. N + 1
    BY <2>2, <2>3, NAssumption
  <2>5. /\ g \in Calling /\ g.pc = "copy" /\ g.k = f.k + 1
        /\ g.lacking = f.lacking /\ g.where = f.where
    BY <2>2, <2>4 DEF Calling
  <2> HIDE DEF g
  <2>6. Bounded(g)
    BY <1>4, <2>2, <2>3, <2>5, NAssumption DEF Bounded, Located
  <2>7. Goes(c, g)
    BY <1>1, <2>1, <2>5, <2>6, GoesOn DEF Writing
  <2>8. QED
    BY <1>2, <1>4, <2>7
<1>5. QED
  BY <1>3, <1>4 DEF CreateReturns

\* A copy is placed, or there are enough, or there is nobody to hold one.
LEMMA PlaceKeeps == ASSUME TInv, NEW c \in Client, Place(c) PROVE TInv'
<1> DEFINE f == cl[c]
           r == f.pick
           pre == f.preexisting /\ f.count > 0
<1>1. At(c, "scan") /\ f.pc = "scan" /\ UNCHANGED <<status, queue, acked, lost, spoilt>>
  BY DEF Place, At
<1>2. Up(Leader)
  BY <1>1, LeaderWorks
<1>3. /\ f \in Calling /\ Bounded(f) /\ f.j \in Nat /\ r \in 0 .. N
      /\ f.lacking \in Seq(Replica) /\ f.k \in Nat
  BY CallShape
<1>4. pre \in BOOLEAN
  OBVIOUS
<1>5. RestOK /\ cl \in [Client -> Calling]
  BY TInvParts
<1>6. CASE CreateReturns(c, pre) /\ UNCHANGED machines
  <2>1. (\E g : Goes(c, g)) /\ made' \in BOOLEAN
    BY <1>1, <1>4, <1>6, CreateReturnsGoes
  <2>2. RestOK'
    BY <1>1, <1>5, <1>6, <2>1 DEF RestOK, machines
  <2>3. QED
    BY <1>1, <2>1, <2>2, GoesKeeps
<1>7. CASE Return(c) /\ UNCHANGED <<machines, made>>
  <2>1. \E g : Goes(c, g)
    BY <1>7, ReturnGoes
  <2>2. QED
    BY <1>1, <1>7, <2>1, GoesKeeps, RestStays
<1>8. CASE /\ r # NoOne /\ holders' = holders \cup {r}
           /\ copy' = IF Has(r) THEN copy ELSE [copy EXCEPT ![r] = f.value]
           /\ \/ CreateReturns(c, pre)
              \/ /\ f.j + 1 # MinReplicas /\ UNCHANGED made
                 /\ cl' = [cl EXCEPT ![c] =
                        [Scan(f) EXCEPT !.j = @ + 1, !.preexisting = pre]]
  <2>1. r \in Replica /\ f.value \in Value
    BY <1>3, <1>8, ReplicaFacts DEF Calling
  <2>2. holders' \subseteq Replica /\ copy' \in [Replica -> Value]
    BY <1>5, <1>8, <2>1 DEF RestOK
  <2>3. (\E g : Goes(c, g)) /\ made' \in BOOLEAN
    <3>1. CASE CreateReturns(c, pre)
      BY <1>1, <1>4, <3>1, CreateReturnsGoes
    <3>2. CASE /\ f.j + 1 # MinReplicas /\ UNCHANGED made
               /\ cl' = [cl EXCEPT ![c] =
                      [Scan(f) EXCEPT !.j = @ + 1, !.preexisting = pre]]
      <4> DEFINE s == Scan(f)
                 g == [s EXCEPT !.j = @ + 1, !.preexisting = pre]
      <4>1. /\ s \in Calling /\ s.pc = "scan" /\ s.i = 0 /\ s.count = 0
            /\ s.j = f.j /\ s.where = f.where /\ s.k = f.k /\ s.lacking = f.lacking
        BY <1>3, ScanFacts
      <4>2. cl' = [cl EXCEPT ![c] = g]
        BY <3>2
      <4>3. f.j < MinReplicas
        BY <1>1, <1>3 DEF Bounded
      <4> HIDE DEF s, f, pre
      <4>4. f.j + 1 \in 0 .. MinReplicas /\ f.j + 1 < MinReplicas
        BY <1>3, <3>2, <4>3, MinReplicasAssumption
      <4>5. /\ g \in Calling /\ g.pc = "scan" /\ g.i = 0 /\ g.count = 0
            /\ g.j = f.j + 1 /\ g.where = f.where /\ g.k = f.k /\ g.lacking = f.lacking
        BY <1>4, <4>1, <4>4 DEF Calling
      <4> HIDE DEF g
      <4>6. Bounded(g)
        BY <1>1, <1>3, <4>4, <4>5 DEF Bounded, Located
      <4>7. Goes(c, g)
        BY <1>2, <4>2, <4>5, <4>6, GoesOn DEF Writing
      <4>8. made' \in BOOLEAN
        BY <1>5, <3>2 DEF RestOK
      <4>9. QED
        BY <4>7, <4>8
    <3>3. QED
      BY <1>8, <3>1, <3>2
  <2>4. RestOK'
    BY <1>1, <1>5, <2>2, <2>3 DEF RestOK
  <2>5. QED
    BY <1>1, <2>3, <2>4, GoesKeeps
<1>9. QED
  BY <1>6, <1>7, <1>8 DEF Place
\* A handler that works at r, or ends with it, aborts.
LEMMA AbortKeeps ==
    ASSUME TInv, NEW r \in Replica, NEW c \in Client, Aborts(r, c),
           UNCHANGED <<machines, queue, made, acked, spoilt>>
    PROVE  TInv'
BY EndsKeep, {c} \in SUBSET Client DEF Aborts

\* A writer comes to its turn, or finds the queue erased.
LEMMA AwaitKeeps == ASSUME TInv, NEW c \in Client, Await(c) PROVE TInv'
<1> DEFINE f == cl[c]
           g == [f EXCEPT !.pc = "forward"]
<1>1. f.pc = "await" /\ UNCHANGED <<machines, queue, made, acked, spoilt>>
  BY DEF Await, At
<1>2. Up(Leader)
  BY <1>1, LeaderWorks
<1>3. f \in Calling /\ Bounded(f) /\ WritesOwn(c) /\ cl \in [Client -> Calling]
  BY CallShape, TInvParts
<1>4. CASE /\ cl' = [cl EXCEPT ![c].pc = "forward"] /\ UNCHANGED <<status, lost>>
  <2>1. cl' = [cl EXCEPT ![c] = g]
    BY <1>3, <1>4
  <2>2. f.op \in MayWrite[c]
    BY <1>1, <1>3 DEF WritesOwn, Writing
  <2> HIDE DEF f
  <2>3. /\ g \in Calling /\ g.pc = "forward" /\ g.op = f.op
        /\ g.lacking = f.lacking /\ g.k = f.k
    BY <1>3 DEF Calling
  <2> HIDE DEF g
  <2>4. Bounded(g)
    BY <1>1, <1>3, <2>3 DEF Bounded, Located
  <2>5. Goes(c, g)
    BY <1>2, <2>1, <2>2, <2>3, <2>4, GoesOn
  <2>6. QED
    BY <1>1, <1>4, <2>5, GoesKeeps, RestStays
<1>5. CASE Aborts(Leader, c)
  BY <1>1, <1>5, AbortKeeps, NAssumption
<1>6. QED
  BY <1>4, <1>5 DEF Await

\* The write is sent to one more replica.
LEMMA ForwardKeeps == ASSUME TInv, NEW c \in Client, Forward(c) PROVE TInv'
<1> DEFINE f == cl[c]
           g == [f EXCEPT !.i = @ + 1]
<1>1. /\ f.pc = "forward" /\ f.i # N
      /\ UNCHANGED <<status, holders, queue, made, acked, lost, spoilt>>
      /\ cl' = [cl EXCEPT ![c].i = @ + 1]
  BY DEF Forward, Forwarded, At
<1>2. Up(Leader)
  BY <1>1, LeaderWorks
<1>3. /\ f \in Calling /\ Bounded(f) /\ WritesOwn(c) /\ cl \in [Client -> Calling]
      /\ RestOK
  BY CallShape, TInvParts
<1>4. f.i \in Replica /\ f.i + 1 \in 0 .. N
  BY <1>1, CallShape, NAssumption DEF Replica
<1>5. f.op \in MayWrite[c] /\ f.op \in Op
  BY <1>1, <1>3, ClientAssumption DEF WritesOwn, Writing
<1>6. cl' = [cl EXCEPT ![c] = g]
  BY <1>1, <1>3
<1>7. copy' \in [Replica -> Value]
  <2>1. copy \in [Replica -> Value]
    BY <1>3 DEF RestOK
  <2>2. Append(copy[f.i], f.op) \in Value
    BY <1>4, <1>5, <2>1, AppendFacts DEF Value
  <2>3. copy' \in {copy, [copy EXCEPT ![f.i] = Append(copy[f.i], f.op)]}
    BY DEF Forward
  <2> HIDE DEF f
  <2>4. QED
    BY <1>4, <2>1, <2>2, <2>3
<1> HIDE DEF f
<1>8. /\ g \in Calling /\ g.pc = "forward" /\ g.op = f.op
      /\ g.lacking = f.lacking /\ g.k = f.k
  BY <1>1, <1>3, <1>4 DEF Calling
<1> HIDE DEF g
<1>9. Bounded(g)
  BY <1>1, <1>3, <1>8 DEF Bounded, Located
<1>10. Goes(c, g)
  BY <1>2, <1>5, <1>6, <1>8, <1>9, GoesOn
<1>11. RestOK'
  BY <1>1, <1>3, <1>7 DEF RestOK
<1>12. QED
  BY <1>1, <1>10, <1>11, GoesKeeps

\* The leader applies the write, or finds the machine erased.
LEMMA AppliedKeeps == ASSUME TInv, NEW c \in Client, Applied(c) PROVE TInv'
<1> DEFINE f == cl[c]
<1>1. f.pc = "forward" /\ UNCHANGED <<made, spoilt>>
  BY DEF Applied, At
<1>2. Leader \in Replica
  BY NAssumption
<1>3. RestOK
  BY TInvParts
<1>4. CASE Aborts(Leader, c) /\ UNCHANGED <<machines, queue, acked>>
  BY <1>1, <1>2, <1>4, AbortKeeps
<1>5. CASE /\ queue # <<>>
           /\ copy' = [copy EXCEPT ![Leader] = Append(@, f.op)]
           /\ queue' = Dequeue(queue)
           /\ acked' = Append(acked, f.op)
           /\ Return(c)
           /\ UNCHANGED <<status, holders, lost>>
  <2>1. f.op \in Op
    BY <1>1, TInvParts, ClientAssumption DEF WritesOwn, Writing
  <2>2. copy \in [Replica -> Value] /\ acked \in Value /\ queue \in Seq(Entries)
    BY <1>3 DEF RestOK
  <2> HIDE DEF f
  <2>3. Append(copy[Leader], f.op) \in Value /\ Append(acked, f.op) \in Value
    BY <1>2, <2>1, <2>2, AppendFacts DEF Value
  <2>4. queue' \in Seq(Entries)
    BY <1>5, <2>2, TailFacts DEF Dequeue
  <2>5. copy' \in [Replica -> Value]
    BY <1>2, <1>5, <2>2, <2>3
  <2>6. RestOK'
    BY <1>1, <1>3, <1>5, <2>3, <2>4, <2>5 DEF RestOK
  <2>7. \E g : Goes(c, g)
    BY <1>5, ReturnGoes
  <2>8. QED
    BY <1>5, <2>6, <2>7, GoesKeeps
<1>6. QED
  BY <1>4, <1>5 DEF Applied

\* No write is queued, and the leader asks who has a copy.
LEMMA DrainKeeps == ASSUME TInv, NEW c \in Client, Drain(c) PROVE TInv'
<1> DEFINE f == cl[c]
           g == [f EXCEPT !.pc = "survey"]
<1>1. /\ f.pc = "drain" /\ cl' = [cl EXCEPT ![c].pc = "survey"]
      /\ UNCHANGED <<status, machines, queue, made, acked, lost, spoilt>>
  BY DEF Drain, At
<1>2. Up(Leader)
  BY <1>1, LeaderWorks
<1>3. f \in Calling /\ Bounded(f) /\ cl \in [Client -> Calling] /\ f.i \in Nat
      /\ f.k \in Nat
  BY CallShape, TInvParts
<1>4. cl' = [cl EXCEPT ![c] = g]
  BY <1>1, <1>3
<1> HIDE DEF f
<1>5. /\ g \in Calling /\ g.pc = "survey" /\ g.lacking = f.lacking /\ g.k = f.k
      /\ g.found = f.found /\ g.i = f.i
  BY <1>3 DEF Calling
<1> HIDE DEF g
<1>6. g.lacking = <<>> /\ g.found = 0
  BY <1>1, <1>3, <1>5 DEF Bounded
<1>7. Bounded(g)
  BY <1>1, <1>3, <1>5, <1>6, NAssumption DEF Bounded, Located
<1>8. Goes(c, g)
  BY <1>2, <1>4, <1>5, <1>7, GoesOn DEF Writing
<1>9. QED
  BY <1>1, <1>8, GoesKeeps, RestStays

\* One more replica was asked whether it has a copy.
LEMMA SurveyKeeps == ASSUME TInv, NEW c \in Client, Survey(c) PROVE TInv'
<1> DEFINE f == cl[c]
<1>1. /\ f.pc = "survey" /\ f.i < N
      /\ UNCHANGED <<status, machines, queue, made, acked, lost, spoilt>>
  BY DEF Survey, At
<1>2. Up(Leader)
  BY <1>1, LeaderWorks
<1>3. /\ f \in Calling /\ Bounded(f) /\ f.i \in Nat /\ f.found \in Nat
      /\ f.where \in 0 .. N /\ f.lacking \in Seq(Replica) /\ Len(f.lacking) \in Nat
      /\ f.k \in Nat /\ f.k >= 1
  BY CallShape
<1>4. Len(f.lacking) + f.found <= f.i
  BY <1>1, <1>3 DEF Bounded
<1>5. /\ f.i \in 0 .. N /\ f.i + 1 \in 0 .. N /\ f.i # NoOne /\ f.i \in Replica
      /\ f.found + 1 \in 0 .. N
  <2> HIDE DEF f
  <2>1. f.i + 1 <= N /\ f.found + 1 <= N /\ N \in Nat
    BY <1>1, <1>3, <1>4, NAssumption
  <2>2. QED
    BY <1>3, <2>1 DEF NoOne, Replica
<1>6. \/ cl' = [cl EXCEPT ![c] = [f EXCEPT !.i = @ + 1]]
      \/ \E r \in {f.i, f.where} \ {NoOne} :
             cl' = [cl EXCEPT ![c] =
                 [[f EXCEPT !.i = @ + 1] EXCEPT !.where = r, !.found = @ + 1]]
      \/ cl' = [cl EXCEPT ![c] =
             [[f EXCEPT !.i = @ + 1] EXCEPT !.lacking = Append(@, f.i)]]
  BY DEF Survey
<1> HIDE DEF f
<1>7. ASSUME NEW g \in Calling, g.pc = "survey", g.i = f.i + 1, g.k = f.k,
             \/ g.lacking = f.lacking /\ g.found = f.found /\ g.where = f.where
             \/ g.lacking = f.lacking /\ g.found = f.found + 1 /\ g.where # NoOne
             \/ /\ Len(g.lacking) = Len(f.lacking) + 1 /\ g.found = f.found
                /\ g.where = f.where
      PROVE  Bounded(g)
  <2>1. /\ f.k <= Len(f.lacking) + 1 /\ Len(f.lacking) + 1 <= N
        /\ f.found > 0 => f.where # NoOne
    BY <1>1, <1>3, <1>4, NAssumption DEF Bounded
  <2>2. g.found > 0 => g.where # NoOne
    BY <1>3, <1>7, <2>1
  <2>3. /\ Len(g.lacking) + g.found <= g.i
        /\ Len(g.lacking) <= N /\ g.k <= Len(g.lacking) + 1
    <3> DEFINE n == Len(f.lacking)
               m == Len(g.lacking)
    <3>1. /\ n \in Nat /\ f.i \in Nat /\ f.found \in Nat /\ f.k \in Nat /\ N \in Nat
          /\ n + f.found <= f.i /\ f.k <= n + 1 /\ n + 1 <= N
      BY <1>3, <1>4, <2>1, NAssumption
    <3>2. /\ \/ m = n /\ g.found \in {f.found, f.found + 1}
             \/ m = n + 1 /\ g.found = f.found
          /\ g.i = f.i + 1 /\ g.k = f.k
      BY <1>7
    <3> HIDE DEF n, m
    <3>3. m + g.found <= g.i /\ m <= N /\ g.k <= m + 1
      BY <3>1, <3>2
    <3>4. QED
      BY <3>3 DEF m
  <2>4. QED
    BY <1>7, <2>2, <2>3 DEF Bounded, Located
<1>8. CASE cl' = [cl EXCEPT ![c] = [f EXCEPT !.i = @ + 1]]
  <2> DEFINE g == [f EXCEPT !.i = @ + 1]
  <2>1. /\ g \in Calling /\ g.pc = "survey" /\ g.i = f.i + 1 /\ g.k = f.k
        /\ g.lacking = f.lacking /\ g.found = f.found /\ g.where = f.where
    BY <1>1, <1>3, <1>5 DEF Calling
  <2> HIDE DEF g
  <2>2. Bounded(g)
    BY <1>7, <2>1
  <2>3. Goes(c, g)
    BY <1>2, <1>8, <2>1, <2>2, GoesOn DEF g, Writing
  <2>4. QED
    BY <1>1, <2>3, GoesKeeps, RestStays
<1>9. ASSUME NEW r \in {f.i, f.where} \ {NoOne},
             cl' = [cl EXCEPT ![c] =
                 [[f EXCEPT !.i = @ + 1] EXCEPT !.where = r, !.found = @ + 1]]
      PROVE  TInv'
  <2> DEFINE g == [[f EXCEPT !.i = @ + 1] EXCEPT !.where = r, !.found = @ + 1]
  <2>1. r \in 0 .. N /\ r # NoOne
    BY <1>3, <1>5
  <2>2. /\ g \in Calling /\ g.pc = "survey" /\ g.i = f.i + 1 /\ g.k = f.k
        /\ g.lacking = f.lacking /\ g.found = f.found + 1 /\ g.where = r
    BY <1>1, <1>3, <1>5, <2>1 DEF Calling
  <2>3. cl' = [cl EXCEPT ![c] = g]
    BY <1>9
  <2> HIDE DEF g
  <2>4. Bounded(g)
    BY <1>7, <2>1, <2>2
  <2>5. Goes(c, g)
    BY <1>2, <2>2, <2>3, <2>4, GoesOn DEF Writing
  <2>6. QED
    BY <1>1, <2>5, GoesKeeps, RestStays
<1>10. CASE cl' = [cl EXCEPT ![c] =
             [[f EXCEPT !.i = @ + 1] EXCEPT !.lacking = Append(@, f.i)]]
  <2> DEFINE a == Append(f.lacking, f.i)
             g == [[f EXCEPT !.i = @ + 1] EXCEPT !.lacking = a]
  <2>1. a \in Seq(Replica) /\ Len(a) = Len(f.lacking) + 1
    BY <1>3, <1>5, AppendFacts
  <2>2. cl' = [cl EXCEPT ![c] = g]
    BY <1>10
  <2> HIDE DEF a
  <2>3. /\ g \in Calling /\ g.pc = "survey" /\ g.i = f.i + 1 /\ g.k = f.k
        /\ g.lacking = a /\ g.found = f.found /\ g.where = f.where
    BY <1>1, <1>3, <1>5, <2>1 DEF Calling
  <2> HIDE DEF g
  <2>4. Bounded(g)
    BY <1>7, <2>1, <2>3
  <2>5. Goes(c, g)
    BY <1>2, <2>2, <2>3, <2>4, GoesOn DEF Writing
  <2>6. QED
    BY <1>1, <2>5, GoesKeeps, RestStays
<1>11. QED
  BY <1>6, <1>8, <1>9, <1>10

\* The leader knows who lacks a copy, or that nobody has one.
LEMMA SurveyedKeeps == ASSUME TInv, NEW c \in Client, Surveyed(c) PROVE TInv'
<1> DEFINE f == cl[c]
           g == [f EXCEPT !.pc = "copy"]
<1>1. /\ f.pc = "survey"
      /\ UNCHANGED <<status, machines, queue, made, acked, lost, spoilt>>
  BY DEF Surveyed, At
<1>2. Up(Leader)
  BY <1>1, LeaderWorks
<1>3. f \in Calling /\ Bounded(f) /\ cl \in [Client -> Calling] /\ f.found \in Nat
  BY CallShape, TInvParts
<1>4. CASE Return(c)
  BY <1>1, <1>4, ReturnGoes, GoesKeeps, RestStays
<1>5. CASE f.found # 0 /\ cl' = [cl EXCEPT ![c].pc = "copy"]
  <2>1. cl' = [cl EXCEPT ![c] = g]
    BY <1>3, <1>5
  <2>2. f.where # NoOne
    BY <1>1, <1>3, <1>5 DEF Bounded
  <2> HIDE DEF f
  <2>3. /\ g \in Calling /\ g.pc = "copy" /\ g.lacking = f.lacking /\ g.k = f.k
        /\ g.where = f.where
    BY <1>3 DEF Calling
  <2> HIDE DEF g
  <2>4. Bounded(g)
    BY <1>3, <2>2, <2>3 DEF Bounded, Located
  <2>5. Goes(c, g)
    BY <1>2, <2>1, <2>3, <2>4, GoesOn DEF Writing
  <2>6. QED
    BY <1>1, <2>5, GoesKeeps, RestStays
<1>6. QED
  BY <1>4, <1>5 DEF Surveyed
\* makeCopy() reads the copy to be made.
LEMMA CopyKeeps == ASSUME TInv, NEW c \in Client, Copy(c) PROVE TInv'
<1> DEFINE f == cl[c]
<1>1. /\ f.pc = "copy" /\ f.k <= Len(f.lacking)
      /\ UNCHANGED <<machines, queue, made, acked, spoilt>>
  BY DEF Copy, At
<1>2. /\ f \in Calling /\ Bounded(f) /\ f.lacking \in Seq(Replica)
      /\ f.k \in Nat /\ f.k >= 1
  BY CallShape
<1>3. f.where \in Replica
  BY <1>1, CallShape, ReplicaFacts DEF Bounded, Located
<1>4. RestOK /\ cl \in [Client -> Calling]
  BY TInvParts
<1>5. CASE Return(c) /\ UNCHANGED <<status, lost>>
  BY <1>1, <1>5, ReturnGoes, GoesKeeps, RestStays
<1>6. CASE Aborts(Leader, c)
  BY <1>1, <1>6, AbortKeeps, NAssumption
<1>7. CASE Aborts(f.where, c)
  BY <1>1, <1>3, <1>7, AbortKeeps
<1>8. ASSUME NEW r \in Target(f), Up(f.where), UNCHANGED <<status, lost>>,
             cl' = [cl EXCEPT ![c].pc = "install", ![c].pick = r,
                              ![c].value = copy[f.where]]
      PROVE  TInv'
  <2> DEFINE v == copy[f.where]
             g == [f EXCEPT !.pc = "install", !.pick = r, !.value = v]
  <2>1. cl' = [cl EXCEPT ![c] = g]
    BY <1>4, <1>8
  <2>2. v \in Value
    BY <1>3, <1>4 DEF RestOK
  <2> HIDE DEF v, f
  <2>3. r \in Replica
    <3>1. f.lacking[f.k] \in Replica
      BY <1>1, <1>2
    <3>2. ToSet(f.lacking) \subseteq Replica
      BY <1>2, ToSetFacts
    <3>3. QED
      BY <1>8, <3>1, <3>2 DEF Target
  <2>4. r \in 0 .. N /\ r # NoOne
    BY <2>3, ReplicaFacts
  <2>5. /\ g \in Calling /\ g.pc = "install" /\ g.pick = r /\ g.where = f.where
        /\ g.lacking = f.lacking /\ g.k = f.k
    BY <1>2, <2>2, <2>4 DEF Calling
  <2> HIDE DEF g
  <2>6. Bounded(g)
    BY <1>1, <1>2, <1>3, <2>4, <2>5, ReplicaFacts DEF Bounded, Located
  <2>7. Goes(c, g)
    BY <1>8, <2>1, <2>5, <2>6 DEF Goes, Home, Writing
  <2>8. QED
    BY <1>1, <1>8, <2>7, GoesKeeps, RestStays
<1>9. QED
  BY <1>5, <1>6, <1>7, <1>8 DEF Copy

\* The copy is made, or the leader looks for a place itself.
LEMMA InstallKeeps == ASSUME TInv, NEW c \in Client, Install(c) PROVE TInv'
<1> DEFINE f == cl[c]
           r == f.pick
<1>1. f.pc = "install" /\ UNCHANGED <<status, queue, made, acked, lost, spoilt>>
  BY DEF Install, At
<1>2. /\ f \in Calling /\ Bounded(f) /\ f.k \in Nat /\ f.k >= 1 /\ f.value \in Value
      /\ Len(f.lacking) \in Nat
  BY CallShape
<1>3. f.k <= Len(f.lacking) /\ Len(f.lacking) <= N /\ f.where # NoOne
  BY <1>1, <1>2 DEF Bounded, Located
<1>4. r \in Replica
  BY <1>1, CallShape, ReplicaFacts DEF Bounded
<1>5. RestOK /\ cl \in [Client -> Calling]
  BY TInvParts
<1>6. CASE Return(c) /\ UNCHANGED machines
  BY <1>1, <1>6, ReturnGoes, GoesKeeps, RestStays
<1>7. CASE /\ holders' = holders \cup {r} /\ copy' = [copy EXCEPT ![r] = f.value]
           /\ \/ /\ Up(Leader)
                 /\ cl' = [cl EXCEPT ![c].pc = "copy", ![c].k = @ + 1]
              \/ Return(c)
  <2> DEFINE g == [f EXCEPT !.pc = "copy", !.k = @ + 1]
  <2>1. RestOK'
    BY <1>1, <1>2, <1>4, <1>5, <1>7 DEF RestOK
  <2>2. CASE Return(c)
    BY <1>1, <2>1, <2>2, ReturnGoes, GoesKeeps
  <2>3. CASE Up(Leader) /\ cl' = [cl EXCEPT ![c].pc = "copy", ![c].k = @ + 1]
    <3>1. cl' = [cl EXCEPT ![c] = g]
      BY <1>5, <2>3
    <3> HIDE DEF f
    <3>2. f.k + 1 \in 1 .. N + 1
      BY <1>2, <1>3, NAssumption
    <3>3. /\ g \in Calling /\ g.pc = "copy" /\ g.k = f.k + 1 /\ g.where = f.where
          /\ g.lacking = f.lacking
      BY <1>2, <3>2 DEF Calling
    <3> HIDE DEF g
    <3>4. Bounded(g)
      BY <1>2, <1>3, <3>3, NAssumption DEF Bounded, Located
    <3>5. Goes(c, g)
      BY <2>3, <3>1, <3>3, <3>4, GoesOn DEF Writing
    <3>6. QED
      BY <1>1, <2>1, <3>5, GoesKeeps
  <2>4. QED
    BY <1>7, <2>2, <2>3
<1>8. CASE /\ r = Leader /\ Up(r) /\ UNCHANGED machines
           /\ cl' = [cl EXCEPT ![c] =
                  [Scan(f) EXCEPT !.j = 0, !.preexisting = TRUE]]
  <2> DEFINE s == Scan(f)
             g == [s EXCEPT !.j = 0, !.preexisting = TRUE]
  <2>1. /\ s \in Calling /\ s.pc = "scan" /\ s.i = 0 /\ s.count = 0
        /\ s.where = f.where /\ s.k = f.k /\ s.lacking = f.lacking
    BY <1>2, ScanFacts
  <2>2. cl' = [cl EXCEPT ![c] = g]
    BY <1>8
  <2>3. Up(Leader)
    BY <1>8
  <2> HIDE DEF s, f
  <2>4. 0 \in 0 .. MinReplicas /\ 0 < MinReplicas
    BY MinReplicasAssumption
  <2>5. /\ g \in Calling /\ g.pc = "scan" /\ g.i = 0 /\ g.count = 0
        /\ g.j = 0 /\ g.where = f.where /\ g.k = f.k /\ g.lacking = f.lacking
    BY <2>1, <2>4 DEF Calling
  <2> HIDE DEF g
  <2>6. Bounded(g)
    BY <1>2, <1>3, <2>4, <2>5 DEF Bounded, Located
  <2>7. Goes(c, g)
    BY <2>2, <2>3, <2>5, <2>6, GoesOn DEF Writing
  <2>8. QED
    BY <1>1, <1>8, <2>7, GoesKeeps, RestStays
<1>9. QED
  BY <1>6, <1>7, <1>8 DEF Install

\* The read is queued.
LEMMA PreparedKeeps == ASSUME TInv, NEW c \in Client, Prepared(c) PROVE TInv'
<1> DEFINE f == cl[c]
           g == [f EXCEPT !.pc = "fetch"]
<1>1. /\ f.pc = "copy" /\ UNCHANGED <<status, machines, made, acked, lost, spoilt>>
      /\ queue' = Append(queue, Reading(f.where, c))
      /\ cl' = [cl EXCEPT ![c].pc = "fetch"]
  BY DEF Prepared, At
<1>2. f \in Calling /\ Bounded(f) /\ RestOK /\ cl \in [Client -> Calling]
  BY CallShape, TInvParts
<1>3. f.where \in Replica
  BY <1>1, CallShape, ReplicaFacts DEF Bounded, Located
<1>4. cl' = [cl EXCEPT ![c] = g]
  BY <1>1, <1>2
<1> HIDE DEF f
<1>5. /\ g \in Calling /\ g.pc = "fetch" /\ g.where = f.where
      /\ g.lacking = f.lacking /\ g.k = f.k
  BY <1>2 DEF Calling
<1> HIDE DEF g
<1>6. Bounded(g)
  BY <1>2, <1>3, <1>5, ReplicaFacts DEF Bounded, Located
<1>7. Goes(c, g)
  BY <1>4, <1>5, <1>6 DEF Goes, Home, Writing
<1>8. Reading(f.where, c) \in Entries
  BY <1>3 DEF Reading, Entries
<1>9. queue' \in Seq(Entries)
  BY <1>1, <1>2, <1>8, AppendFacts DEF RestOK
<1>10. RestOK'
  BY <1>1, <1>2, <1>9 DEF RestOK, machines
<1>11. QED
  BY <1>1, <1>7, <1>10, GoesKeeps

\* The copy is read where the leader said, or it is not there.
LEMMA FetchKeeps == ASSUME TInv, NEW c \in Client, Fetch(c) PROVE TInv'
<1> DEFINE f == cl[c]
           v == copy[f.where]
           g == [f EXCEPT !.pc = "notify", !.value = v]
<1>1. f.pc = "fetch" /\ UNCHANGED <<status, machines, queue, made, acked, spoilt>>
  BY DEF Fetch, At
<1>2. f \in Calling /\ Bounded(f) /\ RestOK /\ cl \in [Client -> Calling]
  BY CallShape, TInvParts
<1>3. f.where \in Replica
  BY <1>1, CallShape, ReplicaFacts DEF Bounded, Located
<1>4. CASE Return(c) /\ lost' = lost \cup {c}
  <2>1. RestOK'
    BY <1>1, <1>2, <1>4 DEF RestOK, machines
  <2>2. QED
    BY <1>1, <1>4, <2>1, ReturnGoes, GoesKeeps
<1>5. CASE /\ Up(f.where) /\ UNCHANGED lost
           /\ cl' = [cl EXCEPT ![c].pc = "notify", ![c].value = v]
  <2>1. cl' = [cl EXCEPT ![c] = g]
    BY <1>2, <1>5
  <2>2. v \in Value
    BY <1>2, <1>3 DEF RestOK
  <2> HIDE DEF f, v
  <2>3. /\ g \in Calling /\ g.pc = "notify" /\ g.where = f.where
        /\ g.lacking = f.lacking /\ g.k = f.k
    BY <1>2, <2>2 DEF Calling
  <2> HIDE DEF g
  <2>4. Bounded(g)
    BY <1>2, <1>3, <2>3, ReplicaFacts DEF Bounded, Located
  <2>5. Goes(c, g)
    BY <1>5, <2>1, <2>3, <2>4 DEF Goes, Home, Writing
  <2>6. QED
    BY <1>1, <1>5, <2>5, GoesKeeps, RestStays
<1>6. QED
  BY <1>4, <1>5 DEF Fetch

\* The read is taken from the queue.
LEMMA NotifyKeeps == ASSUME TInv, NEW c \in Client, Notify(c) PROVE TInv'
<1>1. Return(c) /\ UNCHANGED <<status, machines, made, acked, lost, spoilt>>
  BY DEF Notify
<1>2. RestOK
  BY TInvParts
<1>3. queue' \in Seq(Entries)
  BY <1>2, RemoveFirstFacts DEF Notify, Without, RestOK
<1>4. RestOK'
  BY <1>1, <1>2, <1>3 DEF RestOK, machines
<1>5. QED
  BY <1>1, <1>4, ReturnGoes, GoesKeeps

\* The machine is erased at one more replica.
LEMMA RemoveElsewhereKeeps ==
    ASSUME TInv, NEW c \in Client, RemoveElsewhere(c) PROVE TInv'
<1> DEFINE f == cl[c]
           g == [f EXCEPT !.i = @ + 1]
<1>1. /\ f.pc = "unmake" /\ f.i < N
      /\ UNCHANGED <<status, queue, made, acked, lost, spoilt>>
  BY DEF RemoveElsewhere, At
<1>2. Up(Leader)
  BY <1>1, LeaderWorks
<1>3. f \in Calling /\ Bounded(f) /\ RestOK /\ cl \in [Client -> Calling]
  BY CallShape, TInvParts
<1>4. f.i \in Replica /\ f.i + 1 \in 0 .. N
  BY <1>1, CallShape, NAssumption DEF Replica
<1>5. holders' \subseteq Replica /\ copy' \in [Replica -> Value]
  <2>1. <<>> \in Value
    BY DEF Value
  <2>2. \/ holders' = holders \ {f.i} /\ copy' = [copy EXCEPT ![f.i] = <<>>]
        \/ UNCHANGED machines
    BY DEF RemoveElsewhere
  <2> HIDE DEF f
  <2>3. QED
    BY <1>3, <1>4, <2>1, <2>2 DEF RestOK, machines
<1>6. RestOK'
  BY <1>1, <1>3, <1>5 DEF RestOK
<1>7. CASE Return(c)
  BY <1>1, <1>6, <1>7, ReturnGoes, GoesKeeps
<1>8. CASE cl' = [cl EXCEPT ![c].i = @ + 1]
  <2>1. cl' = [cl EXCEPT ![c] = g]
    BY <1>3, <1>8
  <2> HIDE DEF f
  <2>2. /\ g \in Calling /\ g.pc = "unmake" /\ g.lacking = f.lacking /\ g.k = f.k
    BY <1>1, <1>3, <1>4 DEF Calling
  <2> HIDE DEF g
  <2>3. Bounded(g)
    BY <1>1, <1>3, <2>2 DEF Bounded, Located
  <2>4. Goes(c, g)
    BY <1>2, <2>1, <2>2, <2>3, GoesOn DEF Writing
  <2>5. QED
    BY <1>1, <1>6, <2>4, GoesKeeps
<1>9. QED
  BY <1>7, <1>8 DEF RemoveElsewhere

\* A front end ends.
LEMMA LeaveKeeps == ASSUME TInv, NEW c \in Client, Leave(c) PROVE TInv'
<1> DEFINE h == Idle(<<>>)
           g == [h EXCEPT !.pc = "gone"]
<1>1. /\ cl' = [cl EXCEPT ![c] = g] /\ lost' = lost \cup {c}
      /\ UNCHANGED <<status, machines, queue, made, acked, spoilt>>
  BY DEF Leave
<1>2. <<>> \in Seq(Kind)
  OBVIOUS
<1>3. h \in Calling /\ h.lacking = <<>> /\ h.k = 1
  BY <1>2, IdleFacts
<1> HIDE DEF h
<1>4. g \in Calling /\ g.pc = "gone" /\ g.lacking = <<>> /\ g.k = 1
  BY <1>3 DEF Calling
<1> HIDE DEF g
<1>5. Bounded(g)
  BY <1>4, ReplicaFacts DEF Bounded, Located
<1>6. Goes(c, g)
  BY <1>1, <1>4, <1>5 DEF Goes, Home, Writing
<1>7. RestOK /\ RestOK'
  BY <1>1, TInvParts DEF RestOK, machines
<1>8. QED
  BY <1>1, <1>6, <1>7, GoesKeeps

\* A replica exits.
LEMMA ExitKeeps == ASSUME TInv, NEW r \in Replica, Exit(r) PROVE TInv'
BY EndsKeep, {} \in SUBSET Client DEF Exit

-----------------------------------------------------------------------------
(* The types, for any number of replicas. *)

\* No replica has been asked for anything.
LEMMA TInvInit == Init => TInv
<1> SUFFICES ASSUME Init PROVE TInv
  OBVIOUS
<1>1. \A c \in Client : /\ Idle(Program[c]) \in Calling /\ Bounded(Idle(Program[c]))
                        /\ Idle(Program[c]).pc = "idle"
  BY ClientAssumption, IdleFacts
<1>2. \A c \in Client : cl[c] = Idle(Program[c])
  BY DEF Init
<1>3. cl \in [Client -> Calling]
  BY <1>1 DEF Init
<1>4. status \in [Replica -> {"up", "exited", "aborted"}] /\ RestOK
  <2>1. status \in [Replica -> {"up", "exited", "aborted"}]
    BY DEF Init
  <2>2. <<>> \in Value /\ <<>> \in Seq(Entries)
    BY DEF Value
  <2>3. copy \in [Replica -> Value] /\ queue \in Seq(Entries) /\ acked \in Value
    BY <2>2 DEF Init
  <2>4. QED
    BY <2>1, <2>3 DEF Init, RestOK
<1>5. \A c \in Client : Bounded(cl[c]) /\ WritesOwn(c)
  BY <1>1, <1>2 DEF WritesOwn, Writing
<1>6. \A c \in Client, r \in Replica : Home(cl[c], r) => Up(r)
  BY <1>1, <1>2 DEF Home
<1>7. QED
  BY <1>3, <1>4, <1>5, <1>6, TInvParts

\* A step of a call that has begun keeps the types.
LEMMA StepKeeps == ASSUME TInv, NEW c \in Client, Step(c) PROVE TInv'
BY ScanReplicaKeeps, PlaceKeeps, AwaitKeeps, ForwardKeeps, AppliedKeeps, DrainKeeps,
   SurveyKeeps, SurveyedKeeps, CopyKeeps, InstallKeeps, PreparedKeeps, FetchKeeps,
   NotifyKeeps, RemoveElsewhereKeeps
   DEF Step

\* Nothing of TInv depends on anything but the variables.
LEMMA TInvNext == TInv /\ [Next]_vars => TInv'
<1> SUFFICES ASSUME TInv, [Next]_vars PROVE TInv'
  OBVIOUS
<1>1. ASSUME NEW c \in Client,
             \/ Create(c) \/ Apply(c) \/ Read(c) \/ RemoveMachine(c)
             \/ Step(c) \/ Leave(c)
      PROVE  TInv'
  BY <1>1, CreateKeeps, ApplyKeeps, ReadKeeps, RemoveMachineKeeps, StepKeeps, LeaveKeeps
<1>2. ASSUME NEW r \in Replica, Exit(r) PROVE TInv'
  BY <1>2, ExitKeeps
<1>3. CASE UNCHANGED vars
  BY <1>3 DEF vars, machines, TInv, TypeOK, Value, Bounded, WritesOwn, RunsUp, RunsAt, At, Up
<1>4. QED
  BY <1>1, <1>2, <1>3 DEF Next

\* The inductive invariant, for any number of replicas and of copies.
THEOREM Invariant == Spec => []TInv
BY TInvInit, TInvNext, PTL DEF Spec

\* The variables keep their types: in particular the loops over the replicas
\* stay within them, a replica that is called is one, and the entry that a
\* write or a read leaves in the queue names an operation or a replica
\* (replica_handler.cpp, frontend.cpp).
THEOREM TypeCorrect == Spec => []TypeOK
<1>1. TInv => TypeOK
  BY DEF TInv
<1>2. QED
  BY <1>1, Invariant, PTL
-----------------------------------------------------------------------------
(* The entries of the queue. *)

\* The entry that the call f of c has in the queue.
EntryOf(f, c) ==
    IF f.pc \in Writing THEN {Write(f.op)}
    ELSE IF f.pc \in {"fetch", "notify"} THEN {Reading(f.where, c)} ELSE {}

\* What the queue q owes to the call f of c.
Served(f, c, q) ==
    /\ \A e \in EntryOf(f, c) : Contains(q, e)
    /\ f.pc = "forward" => q # <<>> /\ Head(q) = Write(f.op)

\* EntriesKept, said with the records of the calls.
LEMMA ServedParts ==
    ASSUME queue \in Seq(Entries)
    PROVE  EntriesKept <=>
               (Up(Leader) /\ ~spoilt => \A c \in Client : Served(cl[c], c, queue))
<1>1. ASSUME NEW c \in Client
      PROVE  Entry(c) \subseteq ToSet(queue) <=>
                 \A e \in EntryOf(cl[c], c) : Contains(queue, e)
  <2>1. Entry(c) = EntryOf(cl[c], c)
    BY DEF Entry, EntryOf, At, Writing
  <2>2. \A x : x \in ToSet(queue) <=> Contains(queue, x)
    BY ToSetFacts
  <2>3. QED
    BY <2>1, <2>2
<1>2. \A c \in Client : (At(c, "forward") => AtHead(c)) <=>
          (cl[c].pc = "forward" => queue # <<>> /\ Head(queue) = Write(cl[c].op))
  BY DEF At, AtHead
<1>3. QED
  BY <1>1, <1>2 DEF EntriesKept, Served

\* The same of the next state.
LEMMA ServedPartsNext ==
    ASSUME TInv', Up(Leader)' /\ ~spoilt' =>
                      \A c \in Client : Served(cl'[c], c, queue')
    PROVE  EntriesKept'
<1>1. queue' \in Seq(Entries)
  BY DEF TInv, TypeOK, Entries
<1>2. ASSUME NEW c \in Client, Up(Leader)', ~spoilt'
      PROVE  Entry(c)' \subseteq ToSet(queue')
  <2>1. Entry(c)' = EntryOf(cl'[c], c)
    BY DEF Entry, EntryOf, At, Writing
  <2>2. \A e \in EntryOf(cl'[c], c) : Contains(queue', e)
    BY <1>2 DEF Served
  <2>3. \A x : x \in ToSet(queue') <=> Contains(queue', x)
    BY <1>1, ToSetFacts
  <2>4. QED
    BY <2>1, <2>2, <2>3
<1>3. ASSUME NEW c \in Client, Up(Leader)', ~spoilt', At(c, "forward")'
      PROVE  AtHead(c)'
  BY <1>3 DEF At, AtHead, Served
<1>4. QED
  BY <1>2, <1>3 DEF EntriesKept

\* The entries of two front ends differ, and a reader's from any writer's.
LEMMA EntriesDiffer ==
    ASSUME WritesDiffer, ~spoilt, NEW c \in Client, NEW d \in Client, c # d,
           NEW e \in EntryOf(cl[c], c), NEW x \in EntryOf(cl[d], d)
    PROVE  e # x
<1>1. cl[c].pc \in Writing /\ cl[d].pc \in Writing => cl[c].op # cl[d].op
  BY DEF WritesDiffer
<1>2. \/ cl[c].pc \in Writing /\ e.kind = "w" /\ e.op = cl[c].op
      \/ cl[c].pc \notin Writing /\ e.kind = "r" /\ e.by = c
  BY DEF EntryOf, Write, Reading
<1>3. \/ cl[d].pc \in Writing /\ x.kind = "w" /\ x.op = cl[d].op
      \/ cl[d].pc \notin Writing /\ x.kind = "r" /\ x.by = d
  BY DEF EntryOf, Write, Reading
<1>4. QED
  BY <1>1, <1>2, <1>3

\* One writer is at work at a time.
LEMMA OneWriter ==
    ASSUME WritesDiffer, TInv, EntriesKept, Up(Leader), ~spoilt,
           NEW c \in Client, cl[c].pc \in Writing,
           queue # <<>>, Head(queue) = Write(cl[c].op),
           NEW d \in Client, cl[d].pc = "forward"
    PROVE  d = c
<1>1. Head(queue) = Write(cl[d].op)
  BY DEF EntriesKept, AtHead, At
<1>2. Write(cl[c].op) \in EntryOf(cl[c], c) /\ Write(cl[d].op) \in EntryOf(cl[d], d)
  BY DEF EntryOf, Writing
<1>3. QED
  BY <1>1, <1>2, EntriesDiffer

\* The queue stays, and no call gains an entry.
LEMMA QueueStays ==
    ASSUME TInv, EntriesKept, TInv', UNCHANGED <<queue, spoilt>>,
           Up(Leader)' => Up(Leader),
           \A d \in Client : \/ cl'[d] = cl[d]
                             \/ EntryOf(cl'[d], d) = {}
                             \/ /\ EntryOf(cl'[d], d) = EntryOf(cl[d], d)
                                /\ cl'[d].pc = "forward" =>
                                       cl[d].pc = "forward" /\ cl'[d].op = cl[d].op
    PROVE  EntriesKept'
<1>1. SUFFICES ASSUME Up(Leader)', ~spoilt', NEW d \in Client
               PROVE  Served(cl'[d], d, queue)
  BY ServedPartsNext
<1>2. queue \in Seq(Entries)
  BY DEF TInv, TypeOK, Entries
<1>3. Served(cl[d], d, queue)
  BY <1>1, <1>2, ServedParts
<1>4. CASE cl'[d] = cl[d]
  BY <1>3, <1>4
<1>5. CASE EntryOf(cl'[d], d) = {}
  BY <1>5 DEF EntryOf, Served, Writing
<1>6. CASE /\ EntryOf(cl'[d], d) = EntryOf(cl[d], d)
           /\ cl'[d].pc = "forward" => cl[d].pc = "forward" /\ cl'[d].op = cl[d].op
  BY <1>3, <1>6 DEF Served
<1>7. QED
  BY <1>4, <1>5, <1>6

\* A call goes on without an entry in the queue.
LEMMA QuietStep ==
    ASSUME TInv, EntriesKept, TInv', UNCHANGED <<queue, spoilt>>,
           Up(Leader)' => Up(Leader), NEW c \in Client, NEW g,
           cl' = [cl EXCEPT ![c] = g], g.pc \notin Writing \cup {"fetch", "notify"}
    PROVE  EntriesKept'
<1>1. cl \in [Client -> Calling]
  BY TInvParts
<1>2. EntryOf(g, c) = {}
  BY DEF EntryOf
<1>3. \A d \in Client : cl'[d] = IF d = c THEN g ELSE cl[d]
  BY <1>1
<1>4. \A d \in Client : cl'[d] = cl[d] \/ EntryOf(cl'[d], d) = {}
  BY <1>2, <1>3
<1>5. QED
  BY <1>4, QueueStays

\* A call returns without touching the queue.
LEMMA QuietReturn ==
    ASSUME TInv, EntriesKept, TInv', UNCHANGED <<queue, spoilt>>,
           Up(Leader)' => Up(Leader), NEW c \in Client, Return(c)
    PROVE  EntriesKept'
<1>1. cl' = [cl EXCEPT ![c] = Idle(cl[c].calls)]
  BY TInvParts DEF Return
<1>2. Idle(cl[c].calls).pc = "idle"
  BY DEF Idle
<1>3. QED
  BY <1>1, <1>2, QuietStep DEF Writing

\* A process ends, and the calls that run there.
LEMMA QuietEnd ==
    ASSUME TInv, EntriesKept, TInv', UNCHANGED <<queue, spoilt>>,
           NEW r \in Replica, NEW how \in {"exited", "aborted"},
           NEW D \in SUBSET Client, Ends(r, how, D)
    PROVE  EntriesKept'
<1>1. \A d \in Client : cl'[d] = Idle(cl[d].calls) \/ cl'[d] = cl[d]
  BY DEF Ends
<1>2. \A d \in Client : EntryOf(Idle(cl[d].calls), d) = {}
  BY DEF EntryOf, Idle, Writing
<1>3. Up(Leader)' => Up(Leader)
  BY TInvParts DEF Ends, Up
<1>4. \A d \in Client : cl'[d] = cl[d] \/ EntryOf(cl'[d], d) = {}
  BY <1>1, <1>2
<1>5. QED
  BY <1>3, <1>4, QueueStays

\* Something is added to the queue, and c has an entry now.
LEMMA QueueGrows ==
    ASSUME TInv, EntriesKept, TInv', UNCHANGED <<status, spoilt>>,
           NEW c \in Client, NEW g, cl' = [cl EXCEPT ![c] = g],
           NEW e \in Entries, queue' = Append(queue, e),
           EntryOf(g, c) = {e}, g.pc # "forward"
    PROVE  EntriesKept'
<1>1. SUFFICES ASSUME Up(Leader)', ~spoilt', NEW d \in Client
               PROVE  Served(cl'[d], d, queue')
  BY ServedPartsNext
<1>2. queue \in Seq(Entries) /\ cl \in [Client -> Calling]
  BY TInvParts DEF RestOK
<1>3. \A x : Contains(queue', x) <=> Contains(queue, x) \/ x = e
  BY <1>2, AppendContains
<1>4. CASE d = c
  <2>1. cl'[d] = g
    BY <1>2, <1>4
  <2>2. QED
    BY <1>3, <1>4, <2>1 DEF Served
<1>5. CASE d # c
  <2>1. cl'[d] = cl[d]
    BY <1>2, <1>5
  <2>2. Up(Leader) /\ ~spoilt
    BY <1>1 DEF Up
  <2>3. Served(cl[d], d, queue)
    BY <1>2, <2>2, ServedParts
  <2>4. queue # <<>> => queue' # <<>> /\ Head(queue') = Head(queue)
    BY <1>2
  <2>5. QED
    BY <1>3, <2>1, <2>3, <2>4 DEF Served
<1>6. QED
  BY <1>4, <1>5

\* c returns, and its entry alone leaves the queue.
LEMMA QueueShrinks ==
    ASSUME TInv, EntriesKept, TInv', UNCHANGED <<status, spoilt>>,
           NEW c \in Client, Return(c),
           \A x : x \notin EntryOf(cl[c], c) /\ Contains(queue, x) =>
                      Contains(queue', x),
           Up(Leader) /\ ~spoilt =>
               \A d \in Client : d # c /\ cl[d].pc = "forward" =>
                   queue' # <<>> /\ Head(queue') = Head(queue),
           WritesDiffer
    PROVE  EntriesKept'
<1>1. SUFFICES ASSUME Up(Leader)', ~spoilt', NEW d \in Client
               PROVE  Served(cl'[d], d, queue')
  BY ServedPartsNext
<1>2. queue \in Seq(Entries) /\ cl \in [Client -> Calling]
  BY TInvParts DEF RestOK
<1>3. Up(Leader) /\ ~spoilt
  BY <1>1 DEF Up
<1>4. CASE d = c
  <2>1. cl'[d] = Idle(cl[d].calls)
    BY <1>2, <1>4 DEF Return
  <2>2. QED
    BY <2>1 DEF Served, EntryOf, Idle, Writing
<1>5. CASE d # c
  <2>1. cl'[d] = cl[d]
    BY <1>2, <1>5 DEF Return
  <2>2. Served(cl[d], d, queue)
    BY <1>2, <1>3, ServedParts
  <2>3. \A x \in EntryOf(cl[d], d) : x \notin EntryOf(cl[c], c)
    BY <1>3, <1>5, EntriesDiffer
  <2>4. \A x \in EntryOf(cl[d], d) : Contains(queue', x)
    BY <2>2, <2>3 DEF Served
  <2>5. cl[d].pc = "forward" => queue' # <<>> /\ Head(queue') = Write(cl[d].op)
    BY <1>3, <1>5, <2>2 DEF Served
  <2>6. QED
    BY <2>1, <2>4, <2>5 DEF Served
<1>6. QED
  BY <1>4, <1>5
\* A call begins, without an entry in the queue.
LEMMA BeginEntries ==
    ASSUME TInv, EntriesKept, TInv', NEW c \in Client,
           Create(c) \/ Read(c) \/ RemoveMachine(c)
    PROVE  EntriesKept'
<1>1. \A pc \in {"scan", "idle", "unmake"} : Begin(c, pc).pc = pc
  BY DEF Begin, Idle
<1>2. Scan(Begin(c, "scan")).pc = "scan"
  BY DEF Scan, Begin, Idle
<1>3. CASE spoilt'
  BY <1>3, ServedPartsNext
<1>4. ASSUME NEW g, g.pc \in {"scan", "drain", "idle"}, cl' = [cl EXCEPT ![c] = g],
             UNCHANGED <<status, queue, spoilt>>
      PROVE  EntriesKept'
  BY <1>4, QuietStep DEF Writing, Up
<1>5. CASE Create(c)
  <2> DEFINE g == Scan(Begin(c, "scan"))
  <2>1. cl' = [cl EXCEPT ![c] = g] /\ UNCHANGED <<status, queue, spoilt>>
    BY <1>5 DEF Create
  <2> HIDE DEF g
  <2>2. g.pc = "scan"
    BY <1>2 DEF g
  <2>3. QED
    BY <2>1, <2>2, QuietStep DEF Writing, Up
<1>6. CASE Read(c)
  <2>1. PICK g \in Calling : cl' = [cl EXCEPT ![c] = g] /\ g.pc = "drain"
    BY <1>6, ReadGoes
  <2>2. UNCHANGED <<status, queue, spoilt>>
    BY <1>6 DEF Read
  <2>3. QED
    BY <2>1, <2>2, QuietStep DEF Writing, Up
<1>7. CASE RemoveMachine(c)
  <2> DEFINE g == Begin(c, "idle")
  <2>1. \/ spoilt'
        \/ cl' = [cl EXCEPT ![c] = g] /\ UNCHANGED <<status, queue, spoilt>>
    BY <1>7 DEF RemoveMachine
  <2>2. g.pc = "idle"
    BY <1>1
  <2> HIDE DEF g
  <2>3. QED
    BY <1>3, <1>4, <2>1, <2>2
<1>8. QED
  BY <1>5, <1>6, <1>7

\* Unless it spoils the machine, apply() leaves nothing said of that, and its
\* operation is waited for by nobody.
LEMMA ApplySpoils ==
    ASSUME TInv, NEW c \in Client, Apply(c), ~spoilt'
    PROVE  /\ spoilt' = spoilt
           /\ \/ cl' = [cl EXCEPT ![c] = Begin(c, "idle")]
              \/ \E op : /\ cl' = [cl EXCEPT ![c] = [Begin(c, "await") EXCEPT !.op = op]]
                          /\ \A d \in Client : ~Applies(d, op)
<1>1. spoilt \in BOOLEAN
  BY TInvParts DEF RestOK
<1>2. CASE cl' = [cl EXCEPT ![c] = Begin(c, "idle")] /\ UNCHANGED spoilt
  BY <1>2
<1>3. ASSUME NEW op \in MayWrite[c],
             cl' = [cl EXCEPT ![c] = [Begin(c, "await") EXCEPT !.op = op]],
             spoilt' = (spoilt \/ \E d \in Client : Applies(d, op))
      PROVE  /\ spoilt' = spoilt
             /\ \A d \in Client : ~Applies(d, op)
  <2>1. ~spoilt /\ \A d \in Client : ~Applies(d, op)
    BY <1>3
  <2>2. QED
    BY <1>1, <1>3, <2>1
<1>4. QED
  BY <1>2, <1>3 DEF Apply

\* A write is queued, behind all others.
LEMMA ApplyEntries ==
    ASSUME TInv, EntriesKept, TInv', NEW c \in Client, Apply(c)
    PROVE  EntriesKept'
<1>1. SUFFICES ASSUME ~spoilt' PROVE EntriesKept'
  BY DEF EntriesKept
<1>2. UNCHANGED <<status, spoilt>>
  BY <1>1, ApplySpoils DEF Apply
<1>3. CASE cl' = [cl EXCEPT ![c] = Begin(c, "idle")] /\ UNCHANGED queue
  <2>1. Begin(c, "idle").pc = "idle"
    BY DEF Begin, Idle
  <2>2. QED
    BY <1>2, <1>3, <2>1, QuietStep DEF Writing, Up
<1>4. ASSUME NEW op \in MayWrite[c], queue' = Append(queue, Write(op)),
             cl' = [cl EXCEPT ![c] = [Begin(c, "await") EXCEPT !.op = op]]
      PROVE  EntriesKept'
  <2> DEFINE g == [Begin(c, "await") EXCEPT !.op = op]
  <2>1. g.pc = "await" /\ g.op = op
    BY DEF Begin, Idle
  <2>2. Write(op) \in Entries
    BY ClientAssumption DEF Write, Entries
  <2>3. cl' = [cl EXCEPT ![c] = g]
    BY <1>4
  <2> HIDE DEF g
  <2>4. EntryOf(g, c) = {Write(op)} /\ g.pc # "forward"
    BY <2>1 DEF EntryOf, Writing
  <2>5. QED
    BY <1>2, <1>4, <2>2, <2>3, <2>4, QueueGrows
<1>5. QED
  BY <1>3, <1>4 DEF Apply

\* What these steps make of a call is quiet: it returns, or comes to a place where
\* it has no entry in the queue.
LEMMA QuietCalls ==
    ASSUME TInv, NEW c \in Client,
           \/ ScanReplica(c) \/ Place(c)
           \/ Drain(c) \/ Survey(c) \/ Surveyed(c) \/ Install(c)
           \/ RemoveElsewhere(c)
    PROVE  \/ Return(c)
           \/ \E g : /\ cl' = [cl EXCEPT ![c] = g]
                    /\ g.pc \in {"scan", "copy", "survey", "unmake"}
<1> DEFINE Quiet(g) == g.pc \in {"scan", "copy", "survey", "unmake"}
           Calm == Return(c) \/ \E g : cl' = [cl EXCEPT ![c] = g] /\ Quiet(g)
<1> SUFFICES Calm
  OBVIOUS
<1>1. cl[c] \in Calling /\ cl \in [Client -> Calling]
  BY CallShape, TInvParts
<1>2. CASE ScanReplica(c)
  <2>1. cl[c].pc = "scan"
    BY <1>2 DEF ScanReplica, At
  <2>2. \/ cl' = [cl EXCEPT ![c] = [cl[c] EXCEPT !.i = @ + 1]]
        \/ cl' = [cl EXCEPT ![c] = [[cl[c] EXCEPT !.i = @ + 1] EXCEPT !.count = @ + 1]]
        \/ \E r \in {cl[c].i, cl[c].pick} :
               cl' = [cl EXCEPT ![c] = [[cl[c] EXCEPT !.i = @ + 1] EXCEPT !.pick = r]]
    BY <1>2 DEF ScanReplica
  <2>3. \A r : /\ Quiet([cl[c] EXCEPT !.i = @ + 1])
               /\ Quiet([[cl[c] EXCEPT !.i = @ + 1] EXCEPT !.count = @ + 1])
               /\ Quiet([[cl[c] EXCEPT !.i = @ + 1] EXCEPT !.pick = r])
    BY <1>1, <2>1 DEF Calling
  <2> HIDE DEF Quiet
  <2>4. QED
    BY <2>2, <2>3
<1>3. CASE Place(c)
  <2>1. \/ Return(c)
        \/ cl' = [cl EXCEPT ![c].pc = "copy", ![c].k = @ + 1]
        \/ \E b : cl' = [cl EXCEPT ![c] =
               [Scan(cl[c]) EXCEPT !.j = @ + 1, !.preexisting = b]]
    BY <1>3 DEF Place, CreateReturns
  <2>2. cl' = [cl EXCEPT ![c].pc = "copy", ![c].k = @ + 1] =>
            cl' = [cl EXCEPT ![c] = [cl[c] EXCEPT !.pc = "copy", !.k = @ + 1]]
    BY <1>1
  <2>3. Quiet([cl[c] EXCEPT !.pc = "copy", !.k = @ + 1])
    BY <1>1 DEF Calling
  <2>4. \A b : Quiet([Scan(cl[c]) EXCEPT !.j = @ + 1, !.preexisting = b])
    BY <1>1 DEF Scan, Calling
  <2> HIDE DEF Quiet
  <2>5. QED
    BY <2>1, <2>2, <2>3, <2>4
<1>4. CASE Drain(c)
  <2>1. cl' = [cl EXCEPT ![c] = [cl[c] EXCEPT !.pc = "survey"]]
    BY <1>1, <1>4 DEF Drain
  <2>2. Quiet([cl[c] EXCEPT !.pc = "survey"])
    BY <1>1 DEF Calling
  <2>3. QED
    BY <2>1, <2>2
<1>5. CASE Survey(c)
  <2>1. cl[c].pc = "survey"
    BY <1>5 DEF Survey, At
  <2>2. \/ cl' = [cl EXCEPT ![c] = [cl[c] EXCEPT !.i = @ + 1]]
        \/ \E r : cl' = [cl EXCEPT ![c] =
               [[cl[c] EXCEPT !.i = @ + 1] EXCEPT !.where = r, !.found = @ + 1]]
        \/ cl' = [cl EXCEPT ![c] =
               [[cl[c] EXCEPT !.i = @ + 1] EXCEPT !.lacking = Append(@, cl[c].i)]]
    BY <1>5 DEF Survey
  <2>3. /\ Quiet([cl[c] EXCEPT !.i = @ + 1])
        /\ \A r : Quiet([[cl[c] EXCEPT !.i = @ + 1] EXCEPT !.where = r, !.found = @ + 1])
        /\ \A q : Quiet([[cl[c] EXCEPT !.i = @ + 1] EXCEPT !.lacking = q])
    BY <1>1, <2>1 DEF Calling
  <2> HIDE DEF Quiet
  <2>4. QED
    BY <2>2, <2>3
<1>6. CASE Surveyed(c)
  <2>1. Return(c) \/ cl' = [cl EXCEPT ![c] = [cl[c] EXCEPT !.pc = "copy"]]
    BY <1>1, <1>6 DEF Surveyed
  <2>2. Quiet([cl[c] EXCEPT !.pc = "copy"])
    BY <1>1 DEF Calling
  <2>3. QED
    BY <2>1, <2>2
<1>7. CASE Install(c)
  <2>1. \/ Return(c)
        \/ cl' = [cl EXCEPT ![c].pc = "copy", ![c].k = @ + 1]
        \/ cl' = [cl EXCEPT ![c] =
               [Scan(cl[c]) EXCEPT !.j = 0, !.preexisting = TRUE]]
    BY <1>7 DEF Install
  <2>2. cl' = [cl EXCEPT ![c].pc = "copy", ![c].k = @ + 1] =>
            cl' = [cl EXCEPT ![c] = [cl[c] EXCEPT !.pc = "copy", !.k = @ + 1]]
    BY <1>1
  <2>3. Quiet([cl[c] EXCEPT !.pc = "copy", !.k = @ + 1])
    BY <1>1 DEF Calling
  <2>4. Quiet([Scan(cl[c]) EXCEPT !.j = 0, !.preexisting = TRUE])
    BY <1>1 DEF Scan, Calling
  <2> HIDE DEF Quiet
  <2>5. QED
    BY <2>1, <2>2, <2>3, <2>4
<1>8. CASE RemoveElsewhere(c)
  <2>1. cl[c].pc = "unmake"
    BY <1>8 DEF RemoveElsewhere, At
  <2>2. Return(c) \/ cl' = [cl EXCEPT ![c] = [cl[c] EXCEPT !.i = @ + 1]]
    BY <1>1, <1>8 DEF RemoveElsewhere
  <2>3. Quiet([cl[c] EXCEPT !.i = @ + 1])
    BY <1>1, <2>1 DEF Calling
  <2>4. QED
    BY <2>2, <2>3
<1>9. QED
  BY <1>2, <1>3, <1>4, <1>5, <1>6, <1>7, <1>8

\* create(), the survey of a read and the copies it makes leave the queue alone.
LEMMA PlaceEntries ==
    ASSUME TInv, EntriesKept, TInv', NEW c \in Client,
           \/ ScanReplica(c) \/ Place(c)
           \/ Drain(c) \/ Survey(c) \/ Surveyed(c) \/ Install(c)
           \/ RemoveElsewhere(c)
    PROVE  EntriesKept'
<1>1. UNCHANGED <<status, queue, spoilt>>
  BY DEF ScanReplica, Place, Drain, Survey, Surveyed, Install, RemoveElsewhere
<1>2. CASE Return(c)
  BY <1>1, <1>2, QuietReturn DEF Up
<1>3. ASSUME NEW g, cl' = [cl EXCEPT ![c] = g],
             g.pc \in {"scan", "copy", "survey", "unmake"}
      PROVE  EntriesKept'
  BY <1>1, <1>3, QuietStep DEF Writing, Up
<1>4. QED
  BY <1>2, <1>3, QuietCalls

\* A writer comes to its turn.
LEMMA AwaitEntries ==
    ASSUME TInv, EntriesKept, TInv', NEW c \in Client, Await(c)
    PROVE  EntriesKept'
<1>1. cl[c].pc = "await" /\ UNCHANGED <<queue, spoilt>>
  BY DEF Await, At
<1>2. cl \in [Client -> Calling] /\ cl[c] \in Calling /\ queue \in Seq(Entries)
  BY TInvParts, CallShape DEF RestOK
<1>3. CASE Aborts(Leader, c)
  BY <1>1, <1>3, QuietEnd, {c} \in SUBSET Client, NAssumption DEF Aborts
<1>4. CASE AtHead(c) /\ cl' = [cl EXCEPT ![c].pc = "forward"] /\ UNCHANGED status
  <2> DEFINE g == [cl[c] EXCEPT !.pc = "forward"]
  <2>1. SUFFICES ASSUME Up(Leader)', ~spoilt', NEW d \in Client
                 PROVE  Served(cl'[d], d, queue)
    BY <1>1, ServedPartsNext
  <2>2. Served(cl[d], d, queue)
    BY <1>1, <1>2, <1>4, <2>1, ServedParts DEF Up
  <2>3. g.pc = "forward" /\ g.op = cl[c].op
    BY <1>2 DEF Calling
  <2>4. cl'[d] = IF d = c THEN g ELSE cl[d]
    BY <1>2, <1>4
  <2>5. CASE d = c
    <3>1. EntryOf(g, c) = EntryOf(cl[c], c)
      BY <1>1, <2>3 DEF EntryOf, Writing
    <3>2. QED
      BY <1>4, <2>2, <2>3, <2>4, <2>5, <3>1 DEF Served, AtHead
  <2>6. QED
    BY <2>2, <2>4, <2>5
<1>5. QED
  BY <1>3, <1>4 DEF Await

\* The write goes to one more replica.
LEMMA ForwardEntries ==
    ASSUME TInv, EntriesKept, TInv', NEW c \in Client, Forward(c)
    PROVE  EntriesKept'
<1> DEFINE g == [cl[c] EXCEPT !.i = @ + 1]
<1>1. cl[c].pc = "forward" /\ UNCHANGED <<status, queue, spoilt>>
  BY DEF Forward, At
<1>2. cl \in [Client -> Calling] /\ cl[c] \in Calling
  BY TInvParts, CallShape
<1>3. cl' = [cl EXCEPT ![c] = g]
  BY <1>2 DEF Forward
<1>4. g.pc = "forward" /\ g.op = cl[c].op
  BY <1>1, <1>2 DEF Calling
<1>5. EntryOf(g, c) = EntryOf(cl[c], c)
  BY <1>1, <1>4 DEF EntryOf, Writing
<1>6. \A d \in Client : cl'[d] = IF d = c THEN g ELSE cl[d]
  BY <1>2, <1>3
<1> HIDE DEF g
<1>7. QED
  BY <1>1, <1>4, <1>5, <1>6, QueueStays DEF Up

\* The write is done: the entry that is erased is its own.
LEMMA AppliedEntries ==
    ASSUME WritesDiffer, TInv, EntriesKept, TInv', NEW c \in Client, Applied(c)
    PROVE  EntriesKept'
<1>1. cl[c].pc = "forward" /\ UNCHANGED spoilt
  BY DEF Applied, At
<1>2. queue \in Seq(Entries)
  BY TInvParts DEF RestOK
<1>3. CASE Aborts(Leader, c) /\ UNCHANGED queue
  BY <1>1, <1>3, QuietEnd, {c} \in SUBSET Client, NAssumption DEF Aborts
<1>4. CASE queue # <<>> /\ queue' = Dequeue(queue) /\ Return(c) /\ UNCHANGED status
  <2>1. CASE spoilt \/ ~Up(Leader)
    BY <1>1, <1>4, <2>1, ServedPartsNext DEF Up
  <2>2. CASE ~spoilt /\ Up(Leader)
    <3>1. Head(queue) = Write(cl[c].op)
      BY <1>1, <2>2 DEF EntriesKept, At, AtHead
    <3>2. Head(queue) \in EntryOf(cl[c], c)
      BY <1>1, <3>1 DEF EntryOf, Writing
    <3>3. \A x : Contains(queue, x) => x = Head(queue) \/ Contains(queue', x)
      BY <1>2, <1>4, TailContains DEF Dequeue
    <3>4. \A x : x \notin EntryOf(cl[c], c) /\ Contains(queue, x) => Contains(queue', x)
      BY <3>2, <3>3
    <3>5. \A d \in Client : cl[d].pc = "forward" => d = c
      BY <1>1, <1>4, <2>2, <3>1, OneWriter DEF Writing
    <3>6. QED
      BY <1>1, <1>4, <3>4, <3>5, QueueShrinks
  <2>3. QED
    BY <2>1, <2>2
<1>5. QED
  BY <1>3, <1>4 DEF Applied

\* A read is queued; a handler reads its copy, or finds it erased.
LEMMA ReadEntries ==
    ASSUME TInv, EntriesKept, TInv', NEW c \in Client,
           Copy(c) \/ Prepared(c) \/ Fetch(c)
    PROVE  EntriesKept'
<1>1. /\ cl[c] \in Calling /\ Bounded(cl[c]) /\ cl \in [Client -> Calling]
      /\ cl[c].pc \in Located => cl[c].where \in Replica
  BY TInvParts, CallShape, ReplicaFacts DEF Bounded
<1>2. CASE Copy(c)
  <2>1. cl[c].pc = "copy" /\ UNCHANGED <<queue, spoilt>>
    BY <1>2 DEF Copy, At
  <2>2. CASE Return(c) /\ UNCHANGED status
    BY <2>1, <2>2, QuietReturn DEF Up
  <2>3. ASSUME NEW r \in Replica, Aborts(r, c) PROVE EntriesKept'
    BY <2>1, <2>3, QuietEnd, {c} \in SUBSET Client DEF Aborts
  <2>4. ASSUME NEW r, UNCHANGED status,
               cl' = [cl EXCEPT ![c].pc = "install", ![c].pick = r,
                                ![c].value = copy[cl[c].where]]
        PROVE  EntriesKept'
    <3> DEFINE v == copy[cl[c].where]
               g == [cl[c] EXCEPT !.pc = "install", !.pick = r, !.value = v]
    <3> HIDE DEF v
    <3>1. cl' = [cl EXCEPT ![c] = g]
      BY <1>1, <2>4 DEF v
    <3>2. g.pc = "install"
      BY <1>1 DEF Calling
    <3> HIDE DEF g
    <3>3. QED
      BY <2>1, <2>4, <3>1, <3>2, QuietStep DEF Writing, Up
  <2>5. cl[c].where \in Replica /\ Leader \in Replica
    BY <1>1, <2>1, NAssumption DEF Located
  <2>6. QED
    BY <1>2, <2>2, <2>3, <2>4, <2>5 DEF Copy
<1>3. CASE Prepared(c)
  <2> DEFINE f == cl[c]
             g == [f EXCEPT !.pc = "fetch"]
  <2>1. /\ f.pc = "copy" /\ UNCHANGED <<status, spoilt>>
        /\ queue' = Append(queue, Reading(f.where, c))
    BY <1>3 DEF Prepared, At
  <2>2. cl' = [cl EXCEPT ![c] = g]
    BY <1>1, <1>3 DEF Prepared
  <2>3. f.where \in Replica
    BY <1>1, <2>1 DEF Located
  <2>4. g.pc = "fetch" /\ g.where = f.where
    BY <1>1 DEF Calling
  <2> HIDE DEF f, g
  <2>5. Reading(f.where, c) \in Entries
    BY <2>3 DEF Reading, Entries
  <2>6. EntryOf(g, c) = {Reading(f.where, c)} /\ g.pc # "forward"
    BY <2>4 DEF EntryOf, Writing
  <2>7. QED
    BY <2>1, <2>2, <2>5, <2>6, QueueGrows
<1>4. CASE Fetch(c)
  <2>1. cl[c].pc = "fetch" /\ UNCHANGED <<status, queue, spoilt>>
    BY <1>4 DEF Fetch, At
  <2>2. CASE Return(c)
    BY <2>1, <2>2, QuietReturn DEF Up
  <2>3. CASE cl' = [cl EXCEPT ![c].pc = "notify", ![c].value = copy[cl[c].where]]
    <3> DEFINE v == copy[cl[c].where]
               g == [cl[c] EXCEPT !.pc = "notify", !.value = v]
    <3> HIDE DEF v
    <3>1. cl' = [cl EXCEPT ![c] = g]
      BY <1>1, <2>3 DEF v
    <3>2. g.pc = "notify" /\ g.where = cl[c].where
      BY <1>1 DEF Calling
    <3>3. \A d \in Client : cl'[d] = IF d = c THEN g ELSE cl[d]
      BY <1>1, <3>1
    <3> HIDE DEF g
    <3>4. EntryOf(g, c) = EntryOf(cl[c], c)
      BY <2>1, <3>2 DEF EntryOf, Writing
    <3>5. QED
      BY <2>1, <3>2, <3>3, <3>4, QueueStays DEF Up
  <2>4. QED
    BY <1>4, <2>2, <2>3 DEF Fetch
<1>5. QED
  BY <1>2, <1>3, <1>4

\* The read is over: the entry that is removed is its own.
LEMMA NotifyEntries ==
    ASSUME WritesDiffer, TInv, EntriesKept, TInv', NEW c \in Client, Notify(c)
    PROVE  EntriesKept'
<1>1. /\ cl[c].pc = "notify" /\ Return(c) /\ UNCHANGED <<status, spoilt>>
      /\ queue \in Seq(Entries)
  BY TInvParts DEF Notify, At, RestOK
<1> DEFINE e == Reading(cl[c].where, c)
<1>2. CASE ~Up(Leader)
  BY <1>1, <1>2, ServedPartsNext DEF Up
<1>3. CASE Up(Leader)
  <2>1. queue' = RemoveFirst(queue, e)
    BY <1>3 DEF Notify, Without
  <2>2. EntryOf(cl[c], c) = {e} /\ e.kind = "r"
    BY <1>1 DEF EntryOf, Writing, Reading
  <2> HIDE DEF e
  <2>3. \A x : x # e /\ Contains(queue, x) => Contains(queue', x)
    BY <1>1, <2>1, RemoveFirstFacts
  <2>4. ASSUME ~spoilt, NEW d \in Client, cl[d].pc = "forward"
        PROVE  queue' # <<>> /\ Head(queue') = Head(queue)
    <3>1. queue # <<>> /\ Head(queue) = Write(cl[d].op)
      BY <1>3, <2>4 DEF EntriesKept, At, AtHead
    <3>2. Head(queue) # e
      BY <2>2, <3>1 DEF Write
    <3>3. QED
      BY <1>1, <2>1, <3>1, <3>2, RemoveFirstFacts
  <2>5. QED
    BY <1>1, <2>2, <2>3, <2>4, QueueShrinks
<1>4. QED
  BY <1>2, <1>3

\* A front end ends: its entry stays, for nobody.
LEMMA LeaveEntries ==
    ASSUME TInv, EntriesKept, TInv', NEW c \in Client, Leave(c)
    PROVE  EntriesKept'
<1> DEFINE g == [Idle(<<>>) EXCEPT !.pc = "gone"]
<1>1. g.pc = "gone"
  BY DEF Idle
<1>2. cl' = [cl EXCEPT ![c] = g] /\ UNCHANGED <<status, queue, spoilt>>
  BY DEF Leave
<1> HIDE DEF g
<1>3. QED
  BY <1>1, <1>2, QuietStep DEF Writing, Up

\* No step but apply() makes a call a write, or changes what it writes.
OldWriters ==
    \A d \in Client : cl'[d].pc \in Writing =>
                          cl[d].pc \in Writing /\ cl'[d].op = cl[d].op

LEMMA WritersStay ==
    ASSUME TInv, NEW c \in Client,
           Create(c) \/ Read(c) \/ RemoveMachine(c) \/ Step(c) \/ Leave(c)
    PROVE  OldWriters
<1>1. cl \in [Client -> Calling] /\ cl[c] \in Calling
  BY TInvParts, CallShape
<1>2. ASSUME NEW g, cl' = [cl EXCEPT ![c] = g],
             g.pc \in Writing => cl[c].pc \in Writing /\ g.op = cl[c].op
      PROVE  OldWriters
  <2>1. \A d \in Client : cl'[d] = IF d = c THEN g ELSE cl[d]
    BY <1>1, <1>2
  <2>2. QED
    BY <1>2, <2>1 DEF OldWriters
<1>3. CASE Return(c)
  <2>1. cl' = [cl EXCEPT ![c] = Idle(cl[c].calls)]
    BY <1>1, <1>3 DEF Return
  <2>2. Idle(cl[c].calls).pc \notin Writing
    BY DEF Idle, Writing
  <2>3. QED
    BY <1>2, <2>1, <2>2
<1>4. ASSUME NEW r, NEW how, NEW D, Ends(r, how, D) PROVE OldWriters
  <2>1. \A d \in Client : cl'[d] = Idle(cl[d].calls) \/ cl'[d] = cl[d]
    BY <1>4 DEF Ends
  <2>2. \A d \in Client : Idle(cl[d].calls).pc \notin Writing
    BY DEF Idle, Writing
  <2>3. QED
    BY <2>1, <2>2 DEF OldWriters
<1>5. CASE Create(c)
  <2>1. cl' = [cl EXCEPT ![c] = Scan(Begin(c, "scan"))]
    BY <1>5 DEF Create
  <2>2. Scan(Begin(c, "scan")).pc \notin Writing
    BY DEF Scan, Begin, Idle, Writing
  <2>3. QED
    BY <1>2, <2>1, <2>2
<1>6. CASE Read(c)
  <2>1. PICK g \in Calling : cl' = [cl EXCEPT ![c] = g] /\ g.pc = "drain"
    BY <1>6, ReadGoes
  <2>2. QED
    BY <1>2, <2>1 DEF Writing
<1>7. CASE RemoveMachine(c)
  <2>1. \A pc \in {"idle", "unmake"} : Begin(c, pc).pc \notin Writing
    BY DEF Begin, Idle, Writing
  <2>2. PICK pc \in {"idle", "unmake"} : cl' = [cl EXCEPT ![c] = Begin(c, pc)]
    BY <1>7 DEF RemoveMachine
  <2>3. QED
    BY <1>2, <2>1, <2>2
<1>8. CASE Leave(c)
  <2>1. cl' = [cl EXCEPT ![c] = [Idle(<<>>) EXCEPT !.pc = "gone"]]
    BY <1>8 DEF Leave
  <2>2. [Idle(<<>>) EXCEPT !.pc = "gone"].pc \notin Writing
    BY DEF Idle, Writing
  <2>3. QED
    BY <1>2, <2>1, <2>2
<1>9. CASE \/ ScanReplica(c) \/ Place(c)
           \/ Drain(c) \/ Survey(c) \/ Surveyed(c) \/ Install(c)
           \/ RemoveElsewhere(c)
  <2>1. \/ Return(c)
        \/ \E g : /\ cl' = [cl EXCEPT ![c] = g]
                 /\ g.pc \in {"scan", "copy", "survey", "unmake"}
    BY <1>9, QuietCalls
  <2>2. QED
    BY <1>2, <1>3, <2>1 DEF Writing
<1>10. CASE Await(c)
  <2> DEFINE g == [cl[c] EXCEPT !.pc = "forward"]
  <2>1. cl[c].pc = "await" /\ g.op = cl[c].op
    BY <1>1, <1>10 DEF Await, At, Calling
  <2>2. cl' = [cl EXCEPT ![c] = g] \/ Ends(Leader, "aborted", {c})
    BY <1>1, <1>10 DEF Await, Aborts
  <2> HIDE DEF g
  <2>3. QED
    BY <1>2, <1>4, <2>1, <2>2 DEF Writing
<1>11. CASE Forward(c)
  <2> DEFINE g == [cl[c] EXCEPT !.i = @ + 1]
  <2>1. cl[c].pc = "forward" /\ g.op = cl[c].op
    BY <1>1, <1>11 DEF Forward, At, Calling
  <2>2. cl' = [cl EXCEPT ![c] = g]
    BY <1>1, <1>11 DEF Forward
  <2> HIDE DEF g
  <2>3. QED
    BY <1>2, <2>1, <2>2 DEF Writing
<1>12. CASE Applied(c) \/ Notify(c)
  <2>1. Return(c) \/ Ends(Leader, "aborted", {c})
    BY <1>12 DEF Applied, Notify, Aborts
  <2>2. QED
    BY <1>3, <1>4, <2>1
<1>13. CASE Copy(c)
  <2> DEFINE v == copy[cl[c].where]
  <2>1. ASSUME NEW r, cl' = [cl EXCEPT ![c].pc = "install", ![c].pick = r,
                                       ![c].value = v]
        PROVE  OldWriters
    <3> DEFINE g == [cl[c] EXCEPT !.pc = "install", !.pick = r, !.value = v]
    <3> HIDE DEF v
    <3>1. cl' = [cl EXCEPT ![c] = g]
      BY <1>1, <2>1
    <3>2. g.pc = "install"
      BY <1>1 DEF Calling
    <3> HIDE DEF g
    <3>3. QED
      BY <1>2, <3>1, <3>2 DEF Writing
  <2>2. \/ Return(c)
        \/ \E r : cl' = [cl EXCEPT ![c].pc = "install", ![c].pick = r, ![c].value = v]
        \/ \E r : Ends(r, "aborted", {c})
    BY <1>13 DEF Copy, Aborts
  <2>3. QED
    BY <1>3, <1>4, <2>1, <2>2
<1>14. CASE Prepared(c)
  <2> DEFINE g == [cl[c] EXCEPT !.pc = "fetch"]
  <2>1. cl' = [cl EXCEPT ![c] = g] /\ g.pc = "fetch"
    BY <1>1, <1>14 DEF Prepared, Calling
  <2> HIDE DEF g
  <2>2. QED
    BY <1>2, <2>1 DEF Writing
<1>15. CASE Fetch(c)
  <2> DEFINE v == copy[cl[c].where]
             g == [cl[c] EXCEPT !.pc = "notify", !.value = v]
  <2>1. Return(c) \/ cl' = [cl EXCEPT ![c].pc = "notify", ![c].value = v]
    BY <1>15 DEF Fetch
  <2> HIDE DEF v
  <2>2. cl' = [cl EXCEPT ![c].pc = "notify", ![c].value = v] => cl' = [cl EXCEPT ![c] = g]
    BY <1>1
  <2>3. g.pc = "notify"
    BY <1>1 DEF Calling
  <2> HIDE DEF g
  <2>4. QED
    BY <1>2, <1>3, <2>1, <2>2, <2>3 DEF Writing
<1>16. QED
  BY <1>5, <1>6, <1>7, <1>8, <1>9, <1>10, <1>11, <1>12, <1>13, <1>14, <1>15 DEF Step

\* A machine that is spoilt stays so.
LEMMA SpoiltStays == ASSUME [Next]_vars, spoilt PROVE spoilt'
BY DEF Next, vars, Create, Apply, Read, RemoveMachine, Step, Leave, Exit, ScanReplica,
       Place, Await, Forward, Applied, Drain, Survey, Surveyed, Copy, Install,
       Prepared, Fetch, Notify, RemoveElsewhere

\* No two writes become the same, unless the machine is spoilt by it.
LEMMA DifferNext ==
    ASSUME TInv, WritesDiffer, [Next]_vars
    PROVE  WritesDiffer'
<1>1. SUFFICES ASSUME ~spoilt' PROVE WritesDiffer'
  BY DEF WritesDiffer
<1>2. ~spoilt
  BY <1>1, SpoiltStays
<1>3. CASE OldWriters
  BY <1>2, <1>3 DEF OldWriters, WritesDiffer
<1>4. ASSUME NEW c \in Client, Apply(c) PROVE WritesDiffer'
  <2>1. cl \in [Client -> Calling] /\ cl[c] \in Calling /\ cl[c].calls # <<>>
    BY <1>4, TInvParts, CallShape DEF Apply, Calls
  <2>2. CASE cl' = [cl EXCEPT ![c] = Begin(c, "idle")]
    <3>1. Begin(c, "idle").pc \notin Writing
      BY DEF Begin, Idle, Writing
    <3>2. \A d \in Client : cl'[d] = IF d = c THEN Begin(c, "idle") ELSE cl[d]
      BY <2>1, <2>2
    <3>3. OldWriters
      BY <3>1, <3>2 DEF OldWriters
    <3>4. QED
      BY <1>3, <3>3
  <2>3. ASSUME NEW op, \A d \in Client : ~Applies(d, op),
               cl' = [cl EXCEPT ![c] = [Begin(c, "await") EXCEPT !.op = op]]
        PROVE  WritesDiffer'
    <3> DEFINE b == Begin(c, "await")
               g == [b EXCEPT !.op = op]
    <3>1. b \in Calling
      BY <2>1, BeginFacts
    <3>2. \A d \in Client : cl'[d] = IF d = c THEN g ELSE cl[d]
      BY <2>1, <2>3
    <3> HIDE DEF b
    <3>3. g.op = op
      BY <3>1 DEF Calling
    <3> HIDE DEF g
    <3>4. \A d \in Client : cl[d].pc \in Writing => cl[d].op # op
      BY <2>3 DEF Applies, At, Writing
    <3>5. QED
      BY <1>2, <3>2, <3>3, <3>4 DEF WritesDiffer
  <2>4. QED
    BY <1>1, <1>4, <2>2, <2>3, ApplySpoils
<1>5. ASSUME NEW r \in Replica, Exit(r) PROVE OldWriters
  <2>1. \A d \in Client : cl'[d] = Idle(cl[d].calls) \/ cl'[d] = cl[d]
    BY <1>5 DEF Exit, Ends
  <2>2. \A d \in Client : Idle(cl[d].calls).pc \notin Writing
    BY DEF Idle, Writing
  <2>3. QED
    BY <2>1, <2>2 DEF OldWriters
<1>6. CASE UNCHANGED vars
  BY <1>3, <1>6 DEF OldWriters, vars
<1>7. QED
  BY <1>3, <1>4, <1>5, <1>6, WritersStay DEF Next

\* No step takes the entry of another call.
LEMMA EntriesNext ==
    ASSUME WritesDiffer, TInv, EntriesKept, [Next]_vars
    PROVE  EntriesKept'
<1>1. TInv'
  BY TInvNext
<1>2. ASSUME NEW c \in Client,
             \/ Create(c) \/ Apply(c) \/ Read(c) \/ RemoveMachine(c)
             \/ Step(c) \/ Leave(c)
      PROVE  EntriesKept'
  BY <1>1, <1>2, BeginEntries, ApplyEntries, PlaceEntries, AwaitEntries, ForwardEntries,
     AppliedEntries, ReadEntries, NotifyEntries, LeaveEntries
     DEF Step
<1>3. ASSUME NEW r \in Replica, Exit(r) PROVE EntriesKept'
  BY <1>1, <1>3, QuietEnd, {} \in SUBSET Client DEF Exit
<1>4. CASE UNCHANGED vars
  BY <1>4 DEF vars, machines, EntriesKept, Entry, AtHead, At, Up
<1>5. QED
  BY <1>2, <1>3, <1>4 DEF Next

\* The entry of a call stays in the queue of the leader until the call takes it,
\* and a writer at work is first, whatever the others do, so that erase(begin())
\* erases its own (replica_handler.cpp:493, 499-505): until a remove(), or until two
\* front ends have the same write waiting, which is one entry to the code.  For
\* any number of replicas, of copies and of front ends.
THEOREM QueueKeepsEntries == Spec => [](EntriesKept /\ WritesDiffer)
<1>1. Init => TInv /\ EntriesKept /\ WritesDiffer
  <2>1. SUFFICES ASSUME Init PROVE TInv /\ EntriesKept /\ WritesDiffer
    OBVIOUS
  <2>2. \A c \in Client : cl[c].pc = "idle"
    <3>1. \A c \in Client : cl[c] = Idle(Program[c])
      BY <2>1 DEF Init
    <3>2. \A c \in Client : Idle(Program[c]).pc = "idle"
      BY DEF Idle
    <3>3. QED
      BY <3>1, <3>2
  <2>3. \A c \in Client : Entry(c) = {} /\ ~At(c, "forward")
    BY <2>2 DEF Entry, At
  <2>4. QED
    BY <2>1, <2>2, <2>3, TInvInit DEF EntriesKept, WritesDiffer, Writing
<1>2. TInv /\ EntriesKept /\ WritesDiffer /\ [Next]_vars =>
          (TInv /\ EntriesKept /\ WritesDiffer)'
  BY TInvNext, EntriesNext, DifferNext
<1>3. QED
  BY <1>1, <1>2, PTL DEF Spec
-----------------------------------------------------------------------------
(* The copies, when a machine is on every replica. *)

\* As many different replicas as a machine has copies are all of them.
LEMMA EnoughIsAll ==
    ASSUME EverywhereCopied, NEW P \in SUBSET Replica, NEW r \in Replica, r \notin P
    PROVE  /\ Cardinality(P) \in Nat
           /\ Cardinality(P \cup {r}) = Cardinality(P) + 1
           /\ Cardinality(P) + 1 >= MinReplicas => P \cup {r} = Replica
<1>1. N \in Nat /\ N > 0 /\ MinReplicas \in Nat
  BY NAssumption, MinReplicasAssumption
<1>2. IsFiniteSet(Replica) /\ Cardinality(Replica) = N
  <2>1. IsFiniteSet(0 .. N - 1) /\ Cardinality(0 .. N - 1) = N
    BY <1>1, FS_Interval
  <2>2. QED
    BY <2>1 DEF Replica
<1>3. IsFiniteSet(P) /\ Cardinality(P) \in Nat
  BY <1>2, FS_Subset, FS_CardinalityType
<1>4. Cardinality(P \cup {r}) = Cardinality(P) + 1
  BY <1>3, FS_AddElement
<1>5. P \cup {r} \in SUBSET Replica
  OBVIOUS
<1>6. /\ Cardinality(P \cup {r}) <= Cardinality(Replica)
      /\ Cardinality(P \cup {r}) = Cardinality(Replica) => P \cup {r} = Replica
  BY <1>2, <1>5, FS_Subset
<1>7. QED
  BY <1>1, <1>2, <1>3, <1>4, <1>6 DEF EverywhereCopied

\* A call that is idle or starts owes nothing.
LEMMA RegularFacts ==
    ASSUME NEW H, NEW m \in BOOLEAN, NEW f, f.lacking = <<>>,
           \/ f.pc \in {"idle", "gone"}
           \/ m /\ f.pc \in Using \ {"await"}
    PROVE  Regular(f, H, m)
BY DEF Regular, Using

\* Regular calls stay so while copies are added.
LEMMA RegularStays ==
    ASSUME NEW f, NEW H, NEW J, NEW m \in BOOLEAN, NEW n \in BOOLEAN,
           Regular(f, H, m), H \subseteq J, m => n
    PROVE  Regular(f, J, n)
<1>1. f.pc = "scan" => Placing(f, J)
  BY DEF Regular, Placing
<1>2. QED
  BY <1>1 DEF Regular

\* What CopiesFit says depends on the calls that forward a write.
LEMMA FitStays ==
    ASSUME CopiesFit, UNCHANGED <<status, copy, made, acked>>,
           \A d \in Client : /\ cl'[d].pc = "forward" <=> cl[d].pc = "forward"
                             /\ cl[d].pc = "forward" => cl'[d] = cl[d]
    PROVE  CopiesFit'
<1>1. Forwarding' = Forwarding
  BY DEF Forwarding, At
<1>2. \A d \in Forwarding : cl'[d] = cl[d]
  BY DEF Forwarding, At
<1>3. CASE ~made
  BY <1>3 DEF CopiesFit
<1>4. CASE made /\ Up(Leader)
  BY <1>1, <1>2, <1>4 DEF CopiesFit, Up
<1>5. CASE made /\ ~Up(Leader)
  BY <1>5 DEF CopiesFit, Up
<1>6. QED
  BY <1>3, <1>4, <1>5

\* A call goes on that changes nothing that is shared, and neither begins nor
\* ends to forward a write.
LEMMA KeptGoes ==
    ASSUME TInv, KeptInv, NEW c \in Client, NEW g, cl' = [cl EXCEPT ![c] = g],
           UNCHANGED <<status, machines, made, acked, spoilt>>,
           cl[c].pc # "forward", g.pc # "forward",
           ~spoilt => Regular(g, holders, made)
    PROVE  KeptInv'
<1>1. SUFFICES ASSUME ~spoilt' PROVE KeptInv'
  BY DEF KeptInv
<1>2. ~spoilt /\ cl \in [Client -> Calling]
  BY <1>1, TInvParts
<1>3. \A d \in Client : cl'[d] = IF d = c THEN g ELSE cl[d]
  BY <1>2
<1>4. \A d \in Client : Regular(cl'[d], holders, made)
  BY <1>2, <1>3 DEF KeptInv
<1>5. CopiesFit'
  <2>1. CopiesFit /\ UNCHANGED <<status, copy, made, acked>>
    BY <1>2 DEF KeptInv, machines
  <2>2. \A d \in Client : /\ cl'[d].pc = "forward" <=> cl[d].pc = "forward"
                          /\ cl[d].pc = "forward" => cl'[d] = cl[d]
    BY <1>3
  <2>3. QED
    BY <2>1, <2>2, FitStays
<1>6. QED
  BY <1>2, <1>4, <1>5 DEF KeptInv, machines

\* A call returns that forwards no write.
LEMMA KeptReturn ==
    ASSUME TInv, KeptInv, NEW c \in Client, Return(c), cl[c].pc # "forward",
           UNCHANGED <<status, machines, made, acked, spoilt>>
    PROVE  KeptInv'
<1> DEFINE g == Idle(cl[c].calls)
<1>1. cl' = [cl EXCEPT ![c] = g]
  BY TInvParts DEF Return
<1>2. g.pc = "idle" /\ g.lacking = <<>>
  BY DEF Idle
<1>3. made \in BOOLEAN
  BY TInvParts DEF RestOK
<1> HIDE DEF g
<1>4. Regular(g, holders, made)
  BY <1>2, <1>3, RegularFacts
<1>5. QED
  BY <1>1, <1>2, <1>4, KeptGoes

\* create() begins.
LEMMA CreateKept ==
    ASSUME TInv, KeptInv, NEW c \in Client, Create(c) PROVE KeptInv'
<1> DEFINE b == Begin(c, "scan")
           g == Scan(b)
<1>1. cl[c].calls # <<>> /\ cl[c].pc = "idle"
  BY DEF Create, Calls, At
<1>2. /\ b \in Calling /\ b.lacking = <<>> /\ b.j = 0 /\ b.where = NoOne
      /\ b.value = <<>>
  BY <1>1, BeginFacts
<1>3. /\ cl' = [cl EXCEPT ![c] = g]
      /\ UNCHANGED <<status, machines, made, acked, spoilt>>
  BY DEF Create
<1> HIDE DEF b
<1>4. /\ g.pc = "scan" /\ g.i = 0 /\ g.count = 0 /\ g.j = 0 /\ g.pick = NoOne
      /\ g.lacking = <<>> /\ g.where = NoOne /\ g.value = <<>>
  BY <1>2, ScanFacts
<1> HIDE DEF g
<1>5. Cardinality({}) = 0
  BY FS_EmptySet
<1>6. \A r \in Replica : ~(r < 0)
  BY NAssumption DEF Replica
<1>7. Placing(g, holders)
  <2>1. {} \in SUBSET holders /\ Cardinality({}) = g.j /\ g.pick \notin {}
    BY <1>4, <1>5
  <2>2. QED
    BY <1>4, <1>6, <2>1 DEF Placing
<1>8. Regular(g, holders, made)
  BY <1>4, <1>7 DEF Regular, Using
<1>9. QED
  BY <1>1, <1>3, <1>4, <1>8, KeptGoes

\* The scan goes on: it counts while there are only copies.
LEMMA ScanReplicaKept ==
    ASSUME TInv, KeptInv, NEW c \in Client, ScanReplica(c) PROVE KeptInv'
<1> DEFINE f == cl[c]
<1>1. /\ f.pc = "scan" /\ f.i < N
      /\ UNCHANGED <<status, machines, made, acked, spoilt>>
  BY DEF ScanReplica, At
<1>2. /\ f \in Calling /\ f.i \in Nat /\ f.count \in Nat /\ f.count <= f.i
      /\ f.j \in Nat
  BY <1>1, CallShape DEF Bounded
<1>3. \A r \in Replica : r \in Nat
  BY NAssumption DEF Replica
<1>4. \/ cl' = [cl EXCEPT ![c] = [f EXCEPT !.i = @ + 1]]
      \/ /\ Has(f.i)
         /\ cl' = [cl EXCEPT ![c] = [[f EXCEPT !.i = @ + 1] EXCEPT !.count = @ + 1]]
      \/ \E r \in {f.i, f.pick} :
             /\ ~Has(f.i)
             /\ cl' = [cl EXCEPT ![c] = [[f EXCEPT !.i = @ + 1] EXCEPT !.pick = r]]
  BY DEF ScanReplica
<1>5. ~spoilt => Regular(f, holders, made)
  BY DEF KeptInv
<1> HIDE DEF f
<1>6. ASSUME NEW g, ~spoilt, g.pc = "scan", g.lacking = f.lacking, g.where = f.where,
             g.value = f.value, g.j = f.j, g.i = f.i + 1,
             \/ g.count = f.count /\ g.pick = f.pick
             \/ Has(f.i) /\ g.count = f.count + 1 /\ g.pick = f.pick
             \/ ~Has(f.i) /\ g.count = f.count /\ g.pick \in {f.i, f.pick}
      PROVE  Regular(g, holders, made)
  <2>1. f.lacking = <<>> /\ Placing(f, holders)
    BY <1>1, <1>5, <1>6 DEF Regular
  <2>2. g.count = g.i => \A r \in Replica : r < g.i => r \in holders
    <3>1. SUFFICES ASSUME g.count = g.i, NEW r \in Replica, r < g.i PROVE r \in holders
      OBVIOUS
    <3>2. Has(f.i) /\ f.count = f.i
      BY <1>2, <1>6, <3>1
    <3>3. r = f.i \/ r < f.i
      BY <1>2, <1>3, <1>6, <3>1
    <3>4. QED
      BY <2>1, <3>2, <3>3 DEF Placing, Has
  <2>3. PICK P \in SUBSET holders : Cardinality(P) = f.j /\ f.pick \notin P
    BY <2>1 DEF Placing
  <2>4. g.pick \notin P
    BY <1>6, <2>3 DEF Has
  <2>5. Placing(g, holders)
    BY <1>6, <2>1, <2>2, <2>3, <2>4 DEF Placing
  <2>6. QED
    BY <1>6, <2>1, <2>5 DEF Regular, Using
<1>7. CASE cl' = [cl EXCEPT ![c] = [f EXCEPT !.i = @ + 1]]
  <2> DEFINE g == [f EXCEPT !.i = @ + 1]
  <2>1. /\ g.pc = "scan" /\ g.lacking = f.lacking /\ g.where = f.where
        /\ g.value = f.value /\ g.j = f.j /\ g.i = f.i + 1
        /\ g.count = f.count /\ g.pick = f.pick
    BY <1>1, <1>2 DEF Calling
  <2>2. cl' = [cl EXCEPT ![c] = g]
    BY <1>7
  <2> HIDE DEF g
  <2>3. ~spoilt => Regular(g, holders, made)
    BY <1>6, <2>1
  <2>4. QED
    BY <1>1, <2>1, <2>2, <2>3, KeptGoes DEF f
<1>8. CASE /\ Has(f.i)
           /\ cl' = [cl EXCEPT ![c] = [[f EXCEPT !.i = @ + 1] EXCEPT !.count = @ + 1]]
  <2> DEFINE g == [[f EXCEPT !.i = @ + 1] EXCEPT !.count = @ + 1]
  <2>1. /\ g.pc = "scan" /\ g.lacking = f.lacking /\ g.where = f.where
        /\ g.value = f.value /\ g.j = f.j /\ g.i = f.i + 1
        /\ g.count = f.count + 1 /\ g.pick = f.pick
    BY <1>1, <1>2 DEF Calling
  <2>2. cl' = [cl EXCEPT ![c] = g]
    BY <1>8
  <2> HIDE DEF g
  <2>3. ~spoilt => Regular(g, holders, made)
    BY <1>6, <1>8, <2>1
  <2>4. QED
    BY <1>1, <2>1, <2>2, <2>3, KeptGoes DEF f
<1>9. ASSUME NEW r \in {f.i, f.pick}, ~Has(f.i),
             cl' = [cl EXCEPT ![c] = [[f EXCEPT !.i = @ + 1] EXCEPT !.pick = r]]
      PROVE  KeptInv'
  <2> DEFINE g == [[f EXCEPT !.i = @ + 1] EXCEPT !.pick = r]
  <2>1. /\ g.pc = "scan" /\ g.lacking = f.lacking /\ g.where = f.where
        /\ g.value = f.value /\ g.j = f.j /\ g.i = f.i + 1
        /\ g.count = f.count /\ g.pick = r
    BY <1>1, <1>2 DEF Calling
  <2>2. cl' = [cl EXCEPT ![c] = g]
    BY <1>9
  <2> HIDE DEF g
  <2>3. ~spoilt => Regular(g, holders, made)
    BY <1>6, <1>9, <2>1
  <2>4. QED
    BY <1>1, <2>1, <2>2, <2>3, KeptGoes DEF f
<1>10. QED
  BY <1>4, <1>7, <1>8, <1>9
\* A copy is placed, or the machine is in use from now on.
LEMMA KeptGrows ==
    ASSUME TInv, KeptInv, ~spoilt, NEW c \in Client, NEW g,
           cl' = [cl EXCEPT ![c] = g],
           UNCHANGED <<status, copy, acked, spoilt>>,
           holders \subseteq holders', made' \in BOOLEAN, made => made',
           made' => holders' = Replica,
           cl[c].pc # "forward", g.pc # "forward", Regular(g, holders', made')
    PROVE  KeptInv'
<1>1. cl \in [Client -> Calling] /\ made \in BOOLEAN
  BY TInvParts DEF RestOK
<1>2. \A d \in Client : cl'[d] = IF d = c THEN g ELSE cl[d]
  BY <1>1
<1>3. \A d \in Client : Regular(cl[d], holders, made)
  BY DEF KeptInv
<1>4. ASSUME NEW d \in Client PROVE Regular(cl'[d], holders', made')
  <2>1. CASE d = c
    BY <1>2, <2>1
  <2>2. CASE d # c
    <3>1. Regular(cl[d], holders', made')
      BY <1>1, <1>3, RegularStays
    <3>2. QED
      BY <1>2, <2>2, <3>1
  <2>3. QED
    BY <2>1, <2>2
<1>5. CopiesFit'
  <2>1. CASE made' = made
    <3>1. CopiesFit
      BY DEF KeptInv
    <3>2. \A d \in Client : /\ cl'[d].pc = "forward" <=> cl[d].pc = "forward"
                            /\ cl[d].pc = "forward" => cl'[d] = cl[d]
      BY <1>2
    <3>3. QED
      BY <2>1, <3>1, <3>2, FitStays
  <2>2. CASE ~made /\ made'
    <3>1. \A d \in Client : cl[d].pc # "forward"
      BY <1>3, <2>2 DEF Regular, Using
    <3>2. Forwarding' = {}
      BY <1>2, <3>1 DEF Forwarding, At
    <3>3. acked' = <<>> /\ \A r \in Replica : copy'[r] = <<>>
      BY <2>2 DEF KeptInv, CopiesFit
    <3>4. Leader \in Replica
      BY NAssumption
    <3>5. QED
      BY <2>2, <3>2, <3>3, <3>4 DEF CopiesFit
  <2>3. QED
    BY <1>1, <2>1, <2>2
<1>6. \A r \in Replica : status'[r] # "aborted"
  BY DEF KeptInv
<1>7. QED
  BY <1>4, <1>5, <1>6 DEF KeptInv

\* create() places a copy of the empty state, which overwrites none, and when
\* it returns the machine is everywhere.
LEMMA PlaceKept ==
    ASSUME EverywhereCopied, TInv, KeptInv, NEW c \in Client, Place(c)
    PROVE  KeptInv'
<1> DEFINE f == cl[c]
           r == f.pick
           pre == f.preexisting /\ f.count > 0
<1>1. /\ f.pc = "scan" /\ f.i = N
      /\ UNCHANGED <<status, queue, acked, lost, spoilt>>
  BY DEF Place, At
<1>2. SUFFICES ASSUME ~spoilt PROVE KeptInv'
  BY <1>1 DEF KeptInv
<1>3. /\ f \in Calling /\ r \in 0 .. N /\ f.i \in Nat /\ f.count \in Nat
      /\ f.count <= f.i /\ f.j \in Nat
  BY <1>1, CallShape DEF Bounded
<1>4. /\ holders \subseteq Replica /\ copy \in [Replica -> Value] /\ made \in BOOLEAN
      /\ cl \in [Client -> Calling]
  BY TInvParts DEF RestOK
<1>5. /\ f.lacking = <<>> /\ Placing(f, holders)
      /\ made => holders = Replica
      /\ ~made => \A p \in Replica : copy[p] = <<>>
  BY <1>1, <1>2 DEF KeptInv, Regular, CopiesFit
<1>6. f.where = NoOne /\ f.value = <<>>
  BY <1>5 DEF Placing
<1>7. \A b : CreateReturns(c, b) => Return(c) /\ made' = (made \/ ~b)
  BY <1>6 DEF CreateReturns
<1>8. pre \in BOOLEAN
  OBVIOUS
<1> DEFINE h == Idle(f.calls)
<1>9. h.pc = "idle" /\ h.lacking = <<>>
  BY DEF Idle
<1>10. ASSUME NEW m \in BOOLEAN PROVE Regular(h, holders', m)
  BY <1>9, RegularFacts
<1>11. ASSUME UNCHANGED copy, holders \subseteq holders', holders' = Replica,
              CreateReturns(c, pre)
       PROVE  KeptInv'
  <2>1. Return(c) /\ made' = (made \/ ~pre)
    BY <1>7, <1>11
  <2>2. made' \in BOOLEAN /\ (made => made')
    BY <1>4, <1>8, <2>1
  <2>3. cl' = [cl EXCEPT ![c] = h]
    BY <1>4, <2>1 DEF Return
  <2>4. Regular(h, holders', made')
    BY <1>10, <2>2
  <2>5. f.pc # "forward" /\ h.pc # "forward"
    BY <1>1, <1>9
  <2> HIDE DEF h
  <2>6. QED
    BY <1>1, <1>2, <1>11, <2>2, <2>3, <2>4, <2>5, KeptGrows DEF f
<1>12. CASE f.count >= MinReplicas /\ CreateReturns(c, pre) /\ UNCHANGED machines
  <2>1. f.count = f.i
    BY <1>1, <1>3, <1>12, NAssumption, MinReplicasAssumption DEF EverywhereCopied
  <2>2. \A p \in Replica : p < f.i
    BY <1>1, NAssumption DEF Replica
  <2>3. holders = Replica
    BY <1>4, <1>5, <2>1, <2>2 DEF Placing
  <2>4. QED
    BY <1>11, <1>12, <2>3 DEF machines
<1>13. CASE Return(c) /\ UNCHANGED <<machines, made>>
  BY <1>1, <1>13, KeptReturn
<1>14. CASE /\ r # NoOne /\ (r = Leader \/ (Up(r) /\ ~Has(r)))
            /\ holders' = holders \cup {r}
            /\ copy' = IF Has(r) THEN copy ELSE [copy EXCEPT ![r] = f.value]
            /\ IF f.j + 1 = MinReplicas
               THEN CreateReturns(c, pre)
               ELSE /\ cl' = [cl EXCEPT ![c] = [Scan(f) EXCEPT
                           !.j = @ + 1, !.preexisting = pre]]
                    /\ UNCHANGED made
  <2>1. r \in Replica
    BY <1>3, <1>14, ReplicaFacts
  <2>2. copy' = copy
    <3>1. Has(r) \/ copy[r] = <<>>
      BY <1>4, <1>5, <2>1 DEF Has
    <3>2. QED
      BY <1>4, <1>6, <1>14, <2>1, <3>1
  <2>3. holders \subseteq holders' /\ holders' \subseteq Replica
    BY <1>4, <1>14, <2>1
  <2>4. PICK P \in SUBSET holders : Cardinality(P) = f.j /\ r \notin P
    BY <1>5 DEF Placing
  <2>5. P \in SUBSET Replica
    BY <1>4, <2>4
  <2>6. /\ Cardinality(P \cup {r}) = f.j + 1
        /\ f.j + 1 >= MinReplicas => P \cup {r} = Replica
    BY <2>1, <2>4, <2>5, EnoughIsAll
  <2>7. P \cup {r} \in SUBSET holders'
    BY <1>14, <2>4
  <2>8. CASE f.j + 1 = MinReplicas
    <3>1. CreateReturns(c, pre)
      BY <1>14, <2>8
    <3>2. holders' = Replica
      BY <2>3, <2>6, <2>7, <2>8, MinReplicasAssumption
    <3>3. QED
      BY <1>11, <2>2, <2>3, <3>1, <3>2
  <2>9. CASE f.j + 1 # MinReplicas
    <3> DEFINE s == Scan(f)
               g == [s EXCEPT !.j = @ + 1, !.preexisting = pre]
    <3>1. /\ s \in Calling /\ s.pc = "scan" /\ s.i = 0 /\ s.count = 0
          /\ s.pick = NoOne /\ s.j = f.j /\ s.where = f.where
          /\ s.lacking = f.lacking /\ s.value = f.value
      BY <1>3, ScanFacts
    <3>2. cl' = [cl EXCEPT ![c] = g] /\ UNCHANGED made
      BY <1>14, <2>9
    <3> HIDE DEF s
    <3>3. /\ g.pc = "scan" /\ g.i = 0 /\ g.count = 0 /\ g.pick = NoOne
          /\ g.j = f.j + 1 /\ g.where = NoOne /\ g.lacking = <<>>
          /\ g.value = <<>>
      BY <1>5, <1>6, <3>1 DEF Calling
    <3> HIDE DEF g
    <3>4. \A p \in Replica : ~(p < 0)
      BY NAssumption DEF Replica
    <3>5. NoOne \notin P \cup {r}
      BY <2>1, <2>5, ReplicaFacts
    <3>6. Placing(g, holders')
      <4>1. /\ P \cup {r} \in SUBSET holders' /\ Cardinality(P \cup {r}) = g.j
            /\ g.pick \notin P \cup {r}
        BY <2>6, <2>7, <3>3, <3>5
      <4>2. g.count = g.i => \A p \in Replica : p < g.i => p \in holders'
        BY <3>3, <3>4
      <4>3. QED
        BY <3>3, <4>1, <4>2 DEF Placing
    <3>7. Regular(g, holders', made')
      BY <3>3, <3>6 DEF Regular, Using
    <3>8. made' \in BOOLEAN /\ (made => made') /\ (made' => holders' = Replica)
      BY <1>4, <1>5, <2>3, <3>2
    <3>9. QED
      BY <1>1, <1>2, <2>2, <2>3, <3>2, <3>3, <3>7, <3>8, KeptGrows DEF f
  <2>10. QED
    BY <2>8, <2>9
<1>15. QED
  BY <1>12, <1>13, <1>14 DEF Place
\* apply() and getState() are called of a machine that was made; remove() ends
\* what is said here.
LEMMA BeginKept ==
    ASSUME TInv, KeptInv, NEW c \in Client,
           Apply(c) \/ Read(c) \/ RemoveMachine(c)
    PROVE  KeptInv'
<1>1. SUFFICES ASSUME ~spoilt' PROVE KeptInv'
  BY DEF KeptInv
<1>2. cl[c].pc = "idle" /\ cl[c].calls # <<>> /\ made = TRUE
  BY TInvParts DEF RestOK, Apply, Read, RemoveMachine, Calls, At
<1>3. UNCHANGED <<status, machines, made, acked, spoilt>>
  BY <1>1, ApplySpoils DEF Apply, Read, RemoveMachine
<1>4. CASE cl' = [cl EXCEPT ![c] = Begin(c, "idle")]
  <2> DEFINE g == Begin(c, "idle")
  <2>1. g.pc = "idle" /\ g.lacking = <<>>
    BY <1>2, BeginFacts
  <2>2. cl' = [cl EXCEPT ![c] = g]
    BY <1>4
  <2> HIDE DEF g
  <2>3. Regular(g, holders, made)
    BY <1>2, <2>1 DEF Regular, Using
  <2>4. QED
    BY <1>2, <1>3, <2>1, <2>2, <2>3, KeptGoes
<1>5. CASE Read(c)
  <2>1. PICK g \in Calling : /\ cl' = [cl EXCEPT ![c] = g]
                             /\ g.pc = "drain" /\ g.lacking = <<>>
    BY <1>5, ReadGoes
  <2>2. Regular(g, holders, made)
    BY <1>2, <2>1 DEF Regular, Using
  <2>3. QED
    BY <1>2, <1>3, <2>1, <2>2, KeptGoes
<1>6. ASSUME NEW op, cl' = [cl EXCEPT ![c] = [Begin(c, "await") EXCEPT !.op = op]]
      PROVE  KeptInv'
  <2> DEFINE b == Begin(c, "await")
             g == [b EXCEPT !.op = op]
  <2>1. b \in Calling /\ b.pc = "await" /\ b.lacking = <<>> /\ b.i = 0
    BY <1>2, BeginFacts
  <2>2. cl' = [cl EXCEPT ![c] = g]
    BY <1>6
  <2> HIDE DEF b
  <2>3. g.pc = "await" /\ g.lacking = <<>> /\ g.i = 0
    BY <2>1 DEF Calling
  <2> HIDE DEF g
  <2>4. Regular(g, holders, made)
    BY <1>2, <2>3 DEF Regular, Using
  <2>5. QED
    BY <1>2, <1>3, <2>2, <2>3, <2>4, KeptGoes
<1>7. QED
  BY <1>1, <1>4, <1>5, <1>6 DEF Apply, RemoveMachine

\* While c is the writer at work, and the leader is up, the copies are as far
\* as c has come.
LEMMA WriterFacts ==
    ASSUME WritesDiffer, TInv, EntriesKept, KeptInv, ~spoilt,
           NEW c \in Client, cl[c].pc = "forward"
    PROVE  /\ Up(Leader) /\ made = TRUE /\ holders = Replica
           /\ queue # <<>> /\ Head(queue) = Write(cl[c].op)
           /\ \A d \in Client : cl[d].pc = "forward" => d = c
           /\ Forwarding = {c}
           /\ cl[c].op \in Op
           /\ copy[Leader] = acked
           /\ \A r \in Replica \ {Leader} : Up(r) =>
                  copy[r] = IF r < cl[c].i THEN Append(acked, cl[c].op) ELSE acked
<1>1. Up(Leader)
  BY LeaderWorks
<1>2. made = TRUE
  BY TInvParts DEF KeptInv, Regular, Using, RestOK
<1>3. queue # <<>> /\ Head(queue) = Write(cl[c].op)
  BY <1>1 DEF EntriesKept, At, AtHead
<1>4. \A d \in Client : cl[d].pc = "forward" => d = c
  BY <1>1, <1>3, OneWriter DEF Writing
<1>5. Forwarding = {c}
  BY <1>4 DEF Forwarding, At
<1>6. cl[c].op \in Op
  BY TInvParts, ClientAssumption DEF WritesOwn, Writing
<1>7. /\ copy[Leader] = acked
      /\ \A r \in Replica \ {Leader} : Up(r) =>
             copy[r] = IF r < cl[c].i THEN Append(acked, cl[c].op) ELSE acked
  BY <1>1, <1>2, <1>5 DEF KeptInv, CopiesFit
<1>8. holders = Replica
  BY <1>2 DEF KeptInv
<1>9. QED
  BY <1>1, <1>2, <1>3, <1>4, <1>5, <1>6, <1>7, <1>8

\* A writer's turn comes when no other is at work, so all copies are equal.
LEMMA AwaitKept ==
    ASSUME WritesDiffer, TInv, EntriesKept, KeptInv, NEW c \in Client, Await(c)
    PROVE  KeptInv'
<1>1. cl[c].pc = "await" /\ UNCHANGED <<machines, queue, made, acked, spoilt>>
  BY DEF Await, At
<1>2. SUFFICES ASSUME ~spoilt PROVE KeptInv'
  BY <1>1 DEF KeptInv
<1>3. /\ Up(Leader) /\ cl \in [Client -> Calling] /\ cl[c] \in Calling
      /\ queue \in Seq(Entries) /\ cl[c].i = 0 /\ made = TRUE
      /\ cl[c].lacking = <<>>
  BY <1>1, <1>2, LeaderWorks, CallShape, TInvParts DEF RestOK, KeptInv, Regular, Using
<1>4. queue # <<>>
  <2>1. Contains(queue, Write(cl[c].op))
    BY <1>1, <1>2, <1>3, ServedParts DEF Served, EntryOf, Writing
  <2>2. QED
    BY <2>1 DEF Contains
<1>5. Head(queue) = Write(cl[c].op) /\ UNCHANGED status
      /\ cl' = [cl EXCEPT ![c].pc = "forward"]
  BY <1>4 DEF Await, AtHead
<1> DEFINE g == [cl[c] EXCEPT !.pc = "forward"]
<1>6. /\ cl' = [cl EXCEPT ![c] = g]
      /\ g.pc = "forward" /\ g.i = 0 /\ g.lacking = <<>>
  BY <1>3, <1>5 DEF Calling
<1> HIDE DEF g
<1>7. \A d \in Client : cl[d].pc # "forward"
  BY <1>1, <1>2, <1>3, <1>4, <1>5, OneWriter DEF Writing
<1>8. \A d \in Client : cl'[d] = IF d = c THEN g ELSE cl[d]
  BY <1>3, <1>6
<1>9. Forwarding = {} /\ Forwarding' = {c} /\ cl'[c].i = 0
  BY <1>6, <1>7, <1>8 DEF Forwarding, At
<1>10. CopiesFit'
  <2>1. copy[Leader] = acked /\ \A r \in Replica : Up(r) => copy[r] = acked
    BY <1>2, <1>3, <1>9 DEF KeptInv, CopiesFit
  <2>2. \A r \in Replica : ~(r < 0)
    BY NAssumption DEF Replica
  <2>3. UNCHANGED <<status, copy, acked, made>>
    BY <1>1, <1>5 DEF machines
  <2>4. QED
    BY <1>3, <1>9, <2>1, <2>2, <2>3 DEF CopiesFit, Up
<1>11. \A d \in Client : Regular(cl'[d], holders, made)
  <2>1. Regular(g, holders, made)
    BY <1>3, <1>6 DEF Regular, Using
  <2>2. \A d \in Client : Regular(cl[d], holders, made)
    BY <1>2 DEF KeptInv
  <2>3. QED
    BY <1>8, <2>1, <2>2
<1>12. QED
  BY <1>1, <1>2, <1>5, <1>10, <1>11 DEF KeptInv, machines

\* The write has come to one more replica.
LEMMA ForwardKept ==
    ASSUME WritesDiffer, TInv, EntriesKept, KeptInv, NEW c \in Client, Forward(c)
    PROVE  KeptInv'
<1> DEFINE f == cl[c]
           g == [f EXCEPT !.i = @ + 1]
<1>1. /\ f.pc = "forward" /\ f.i # N
      /\ UNCHANGED <<status, holders, queue, made, acked, spoilt>>
  BY DEF Forward, Forwarded, At
<1>2. SUFFICES ASSUME ~spoilt PROVE KeptInv'
  BY <1>1 DEF KeptInv
<1>3. /\ Up(Leader) /\ made = TRUE /\ holders = Replica /\ Forwarding = {c}
      /\ copy[Leader] = acked
      /\ \A r \in Replica \ {Leader} : Up(r) =>
             copy[r] = IF r < f.i THEN Append(acked, f.op) ELSE acked
      /\ \A d \in Client : cl[d].pc = "forward" => d = c
  BY <1>1, <1>2, WriterFacts
<1>4. /\ f \in Calling /\ cl \in [Client -> Calling] /\ f.i \in Nat /\ f.i <= N
      /\ copy \in [Replica -> Value]
  BY CallShape, TInvParts DEF RestOK
<1>5. f.i \in Replica
  BY <1>1, <1>4, NAssumption DEF Replica
<1>6. cl' = [cl EXCEPT ![c] = g]
  BY <1>4 DEF Forward
<1>7. copy' = IF f.i # Leader /\ Up(f.i) /\ Has(f.i)
              THEN [copy EXCEPT ![f.i] = Append(@, f.op)] ELSE copy
  BY DEF Forward
<1>8. Regular(f, holders, made)
  BY <1>2 DEF KeptInv
<1> HIDE DEF f
<1>9. /\ g.pc = "forward" /\ g.i = f.i + 1 /\ g.op = f.op /\ g.lacking = f.lacking
  BY <1>1, <1>4 DEF Calling
<1> HIDE DEF g
<1>10. \A d \in Client : cl'[d] = IF d = c THEN g ELSE cl[d]
  BY <1>4, <1>6
<1>11. Forwarding' = {c}
  BY <1>3, <1>9, <1>10 DEF Forwarding, At
<1>12. \A r \in Replica \ {Leader} : Up(r) =>
           copy'[r] = IF r < f.i + 1 THEN Append(acked, f.op) ELSE acked
  <2>1. SUFFICES ASSUME NEW r \in Replica \ {Leader}, Up(r)
                 PROVE copy'[r] = IF r < f.i + 1 THEN Append(acked, f.op) ELSE acked
    OBVIOUS
  <2>2. r \in Nat /\ f.i \in Nat
    BY <1>4, NAssumption DEF Replica
  <2>3. copy[r] = IF r < f.i THEN Append(acked, f.op) ELSE acked
    BY <1>3, <2>1
  <2>4. CASE r = f.i
    <3>1. copy[r] = acked /\ r < f.i + 1
      BY <2>2, <2>3, <2>4
    <3>2. copy'[r] = Append(copy[r], f.op)
      BY <1>3, <1>4, <1>7, <2>1, <2>4 DEF Has
    <3>3. QED
      BY <3>1, <3>2
  <2>5. CASE r # f.i
    <3>1. copy'[r] = copy[r]
      BY <1>4, <1>5, <1>7, <2>5
    <3>2. r < f.i <=> r < f.i + 1
      BY <2>2, <2>5
    <3>3. QED
      BY <2>3, <3>1, <3>2
  <2>6. QED
    BY <2>4, <2>5
<1>13. copy'[Leader] = acked
  BY <1>3, <1>4, <1>5, <1>7, NAssumption
<1>14. CopiesFit'
  <2>1. cl'[c].i = f.i + 1 /\ cl'[c].op = f.op
    BY <1>9, <1>10
  <2>2. QED
    BY <1>1, <1>3, <1>11, <1>12, <1>13, <2>1 DEF CopiesFit, Up
<1>15. \A d \in Client : Regular(cl'[d], holders, made)
  <2>1. Regular(g, holders, made)
    BY <1>3, <1>8, <1>9 DEF Regular, Using
  <2>2. \A d \in Client : Regular(cl[d], holders, made)
    BY <1>2 DEF KeptInv
  <2>3. QED
    BY <1>10, <2>1, <2>2
<1>16. QED
  BY <1>1, <1>2, <1>3, <1>14, <1>15 DEF KeptInv

\* The write has come everywhere, and to the leader last.
LEMMA AppliedKept ==
    ASSUME WritesDiffer, TInv, EntriesKept, KeptInv, NEW c \in Client, Applied(c)
    PROVE  KeptInv'
<1> DEFINE f == cl[c]
           h == Idle(f.calls)
<1>1. f.pc = "forward" /\ f.i = N /\ UNCHANGED <<made, spoilt>>
  BY DEF Applied, Forwarded, At
<1>2. SUFFICES ASSUME ~spoilt PROVE KeptInv'
  BY <1>1 DEF KeptInv
<1>3. /\ Up(Leader) /\ made = TRUE /\ holders = Replica /\ queue # <<>>
      /\ copy[Leader] = acked
      /\ \A r \in Replica \ {Leader} : Up(r) =>
             copy[r] = IF r < f.i THEN Append(acked, f.op) ELSE acked
      /\ \A d \in Client : cl[d].pc = "forward" => d = c
  BY <1>1, <1>2, WriterFacts
<1>4. cl \in [Client -> Calling] /\ copy \in [Replica -> Value]
  BY TInvParts DEF RestOK
<1>5. /\ copy' = [copy EXCEPT ![Leader] = Append(@, f.op)]
      /\ acked' = Append(acked, f.op) /\ Return(c) /\ UNCHANGED <<status, holders>>
  BY <1>3, NAssumption DEF Applied, Has
<1>6. \A d \in Client : cl'[d] = IF d = c THEN h ELSE cl[d]
  BY <1>4, <1>5 DEF Return
<1>7. h.pc = "idle" /\ h.lacking = <<>>
  BY DEF Idle
<1> HIDE DEF h
<1>8. Forwarding' = {}
  BY <1>3, <1>6, <1>7 DEF Forwarding, At
<1>9. ASSUME NEW r \in Replica, Up(r) PROVE copy'[r] = acked'
  <2>1. r < N
    BY NAssumption DEF Replica
  <2>2. CASE r = Leader
    BY <1>3, <1>4, <1>5, <2>2
  <2>3. CASE r # Leader
    BY <1>1, <1>3, <1>4, <1>5, <1>9, <2>1, <2>3
  <2>4. QED
    BY <2>2, <2>3
<1>10. CopiesFit'
  BY <1>1, <1>3, <1>5, <1>8, <1>9, NAssumption DEF CopiesFit, Up
<1>11. \A d \in Client : Regular(cl'[d], holders, made)
  <2>1. Regular(h, holders, made)
    BY <1>3, <1>7, RegularFacts
  <2>2. \A d \in Client : Regular(cl[d], holders, made)
    BY <1>2 DEF KeptInv
  <2>3. QED
    BY <1>6, <2>1, <2>2
<1>12. QED
  BY <1>1, <1>2, <1>3, <1>5, <1>10, <1>11 DEF KeptInv

\* How a read goes on, when every copy is made: it returns, or has its next state
\* of the call, g.  It makes no copy and changes nothing but the queue.
LEMMA ReadMoves ==
    ASSUME TInv, KeptInv, ~spoilt, NEW c \in Client,
           \/ Drain(c) \/ Survey(c) \/ Surveyed(c) \/ Copy(c) \/ Prepared(c)
           \/ Fetch(c) \/ Notify(c) \/ Install(c) \/ RemoveElsewhere(c)
    PROVE  /\ UNCHANGED <<status, machines, made, acked, spoilt>>
           /\ cl[c].pc \in {"drain", "survey", "copy", "fetch", "notify"}
           /\ made = TRUE /\ holders = Replica
           /\ \/ Return(c)
              \/ \E g : /\ cl' = [cl EXCEPT ![c] = g] /\ g.lacking = <<>>
                        /\ \/ /\ cl[c].pc = "drain" /\ Drained /\ Up(Leader)
                              /\ g.pc = "survey" /\ g.since = cl[c].since
                           \/ /\ cl[c].pc \in {"survey", "copy"}
                              /\ g.pc \in {"survey", "copy", "fetch"}
                              /\ g.since = cl[c].since
                           \/ /\ cl[c].pc = "fetch" /\ g.pc = "notify"
                              /\ \E r \in Replica : Up(r) /\ g.value = copy[r]
<1> DEFINE f == cl[c]
<1>2. /\ Regular(f, holders, made) /\ f.lacking = <<>>
      /\ f.pc \notin {"install", "unmake"}
  BY DEF KeptInv, Regular
<1>3. /\ f \in Calling /\ Bounded(f) /\ f.k \in Nat /\ f.k >= 1 /\ f.where \in 0 .. N
      /\ cl \in [Client -> Calling] /\ made \in BOOLEAN
  BY CallShape, TInvParts DEF RestOK
<1>4. ~Install(c) /\ ~RemoveElsewhere(c)
  BY <1>2 DEF Install, RemoveElsewhere, At
<1>5. ~Copy(c)
  <2>1. Len(f.lacking) = 0
    BY <1>2
  <2>2. Copy(c) => f.k <= Len(f.lacking)
    BY DEF Copy
  <2> HIDE DEF f
  <2>3. QED
    BY <1>3, <2>1, <2>2
<1>6. /\ UNCHANGED <<status, machines, made, acked, spoilt>>
      /\ f.pc \in {"drain", "survey", "copy", "fetch", "notify"}
  BY <1>4, <1>5 DEF Drain, Survey, Surveyed, Prepared, Fetch, Notify, At, Using
<1>7. f.pc \in Using /\ f.pc # "forward"
  BY <1>6 DEF Using
<1>8. made = TRUE /\ holders = Replica
  BY <1>2, <1>3, <1>7 DEF Regular, KeptInv
<1> DEFINE Moves(g) ==
              /\ cl' = [cl EXCEPT ![c] = g] /\ g.lacking = <<>>
              /\ \/ /\ f.pc = "drain" /\ Drained /\ Up(Leader)
                    /\ g.pc = "survey" /\ g.since = f.since
                 \/ /\ f.pc \in {"survey", "copy"}
                    /\ g.pc \in {"survey", "copy", "fetch"}
                    /\ g.since = f.since
                 \/ /\ f.pc = "fetch" /\ g.pc = "notify"
                    /\ \E r \in Replica : Up(r) /\ g.value = copy[r]
<1>9. Return(c) \/ \E g : Moves(g)
  <2>1. CASE Drain(c)
    <3> DEFINE g == [f EXCEPT !.pc = "survey"]
    <3>1. cl' = [cl EXCEPT ![c] = g] /\ f.pc = "drain" /\ Drained
      BY <1>3, <2>1 DEF Drain, At
    <3>2. g.pc = "survey" /\ g.lacking = <<>> /\ g.since = f.since
      BY <1>2, <1>3 DEF Calling
    <3>3. Up(Leader)
      BY <3>1, LeaderWorks
    <3> HIDE DEF g, f
    <3>4. QED
      BY <3>1, <3>2, <3>3
  <2>2. CASE Survey(c)
    <3>1. f.pc = "survey" /\ Has(f.i)
      <4>1. f.pc = "survey" /\ f.i < N
        BY <2>2 DEF Survey, At
      <4>2. f.i \in Nat
        BY CallShape
      <4> HIDE DEF f
      <4>3. f.i \in Replica
        BY <4>1, <4>2, NAssumption DEF Replica
      <4>4. QED
        BY <1>8, <4>1, <4>3 DEF Has
    <3> DEFINE n == [f EXCEPT !.i = @ + 1]
               m(r) == [n EXCEPT !.where = r, !.found = @ + 1]
    <3>2. \/ cl' = [cl EXCEPT ![c] = n]
          \/ \E r : cl' = [cl EXCEPT ![c] = m(r)]
      BY <2>2, <3>1 DEF Survey
    <3> HIDE DEF f
    <3>3. n.pc = "survey" /\ n.lacking = <<>> /\ n.since = f.since
      BY <1>2, <1>3, <3>1 DEF Calling
    <3>4. \A r : m(r).pc = "survey" /\ m(r).lacking = <<>> /\ m(r).since = f.since
      BY <1>2, <1>3, <3>1 DEF Calling
    <3> HIDE DEF n, m
    <3>5. QED
      BY <3>1, <3>2, <3>3, <3>4
  <2>3. CASE Surveyed(c)
    <3> DEFINE g == [f EXCEPT !.pc = "copy"]
    <3>1. (Return(c) \/ cl' = [cl EXCEPT ![c] = g]) /\ f.pc = "survey"
      BY <1>3, <2>3 DEF Surveyed, At
    <3>2. g.pc = "copy" /\ g.lacking = <<>> /\ g.since = f.since
      BY <1>2, <1>3 DEF Calling
    <3> HIDE DEF g, f
    <3>3. QED
      BY <3>1, <3>2
  <2>4. CASE Prepared(c)
    <3> DEFINE g == [f EXCEPT !.pc = "fetch"]
    <3>1. cl' = [cl EXCEPT ![c] = g] /\ f.pc = "copy"
      BY <1>3, <2>4 DEF Prepared, At
    <3>2. g.pc = "fetch" /\ g.lacking = <<>> /\ g.since = f.since
      BY <1>2, <1>3 DEF Calling
    <3> HIDE DEF g, f
    <3>3. QED
      BY <3>1, <3>2
  <2>5. CASE Fetch(c)
    <3> DEFINE v == copy[f.where]
               g == [f EXCEPT !.pc = "notify", !.value = v]
    <3>1. /\ f.pc = "fetch"
          /\ \/ Return(c)
             \/ Up(f.where) /\ Has(f.where)
                /\ cl' = [cl EXCEPT ![c].pc = "notify", ![c].value = v]
      BY <2>5 DEF Fetch, At
    <3>2. Has(f.where) => f.where \in Replica
      BY <1>8 DEF Has
    <3>3. \E r \in Replica : Up(f.where) /\ Has(f.where) => Up(r) /\ v = copy[r]
      BY <3>2, NAssumption
    <3> HIDE DEF v
    <3>4. cl' = [cl EXCEPT ![c].pc = "notify", ![c].value = v] =>
              cl' = [cl EXCEPT ![c] = g]
      BY <1>3
    <3>5. g.pc = "notify" /\ g.lacking = <<>> /\ g.value = v
      BY <1>2, <1>3 DEF Calling
    <3> HIDE DEF g, f
    <3>6. QED
      BY <3>1, <3>3, <3>4, <3>5
  <2>6. CASE Notify(c)
    BY <2>6 DEF Notify
  <2>7. QED
    BY <1>4, <1>5, <2>1, <2>2, <2>3, <2>4, <2>5, <2>6
<1>10. QED
  BY <1>6, <1>8, <1>9

\* A read finds every copy made, makes none, and takes its turn.
LEMMA ReadKept ==
    ASSUME TInv, KeptInv, NEW c \in Client,
           \/ Drain(c) \/ Survey(c) \/ Surveyed(c) \/ Copy(c) \/ Prepared(c)
           \/ Fetch(c) \/ Notify(c) \/ Install(c) \/ RemoveElsewhere(c)
    PROVE  KeptInv'
<1>1. CASE spoilt
  BY <1>1 DEF Drain, Survey, Surveyed, Copy, Prepared, Fetch, Notify, Install,
              RemoveElsewhere, KeptInv
<1>2. CASE ~spoilt
  <2>1. /\ UNCHANGED <<status, machines, made, acked, spoilt>>
        /\ cl[c].pc \in {"drain", "survey", "copy", "fetch", "notify"}
        /\ made = TRUE
    BY <1>2, ReadMoves
  <2>2. CASE Return(c)
    BY <2>1, <2>2, KeptReturn
  <2>3. CASE ~Return(c)
    <3>1. PICK g : /\ cl' = [cl EXCEPT ![c] = g] /\ g.lacking = <<>>
                   /\ g.pc \in {"survey", "copy", "fetch", "notify"}
      BY <1>2, <2>3, ReadMoves
    <3>2. Regular(g, holders, made)
      BY <2>1, <3>1 DEF Regular, Using
    <3>3. g.pc # "forward" /\ cl[c].pc # "forward"
      BY <2>1, <3>1
    <3>4. QED
      BY <2>1, <3>1, <3>2, <3>3, KeptGoes
  <2>4. QED
    BY <2>2, <2>3
<1>3. QED
  BY <1>1, <1>2

\* A front end ends.
LEMMA LeaveKept ==
    ASSUME TInv, KeptInv, NEW c \in Client, Leave(c) PROVE KeptInv'
<1> DEFINE g == [Idle(<<>>) EXCEPT !.pc = "gone"]
<1>1. g.pc = "gone" /\ g.lacking = <<>>
  BY DEF Idle
<1>2. /\ cl' = [cl EXCEPT ![c] = g] /\ cl[c].pc = "fetch"
      /\ UNCHANGED <<status, machines, made, acked, spoilt>>
  BY DEF Leave, At
<1> HIDE DEF g
<1>3. Regular(g, holders, made)
  BY <1>1, TInvParts, RegularFacts DEF RestOK
<1>4. QED
  BY <1>1, <1>2, <1>3, KeptGoes

\* When the leader exits over a write, the copies left are as far as the write
\* had come.
LEMMA ExitKept ==
    ASSUME WritesDiffer, TInv, EntriesKept, KeptInv, NEW r \in Replica, Exit(r)
    PROVE  KeptInv'
<1>1. /\ Up(r) /\ UNCHANGED <<machines, queue, made, acked, spoilt>>
      /\ status' = [status EXCEPT ![r] = "exited"]
      /\ cl' = [d \in Client |-> IF RunsAt(d, r) THEN Idle(cl[d].calls) ELSE cl[d]]
  BY DEF Exit, Ends
<1>2. SUFFICES ASSUME ~spoilt PROVE KeptInv'
  BY <1>1 DEF KeptInv
<1>3. /\ status \in [Replica -> {"up", "exited", "aborted"}] /\ Leader \in Replica
      /\ made \in BOOLEAN
  BY TInvParts, NAssumption DEF RestOK
<1>4. \A d \in Client : \/ cl'[d] = Idle(cl[d].calls)
                        \/ cl'[d] = cl[d] /\ ~Home(cl[d], r)
  BY <1>1, RunsAtFacts
<1>5. \A d \in Client : Idle(cl[d].calls).pc = "idle" /\ Idle(cl[d].calls).lacking = <<>>
  BY DEF Idle
<1>6. \A d \in Client : Regular(cl'[d], holders, made)
  <2>1. SUFFICES ASSUME NEW d \in Client PROVE Regular(cl'[d], holders, made)
    OBVIOUS
  <2>2. CASE cl'[d] = Idle(cl[d].calls)
    BY <1>3, <1>5, <2>2, RegularFacts
  <2>3. CASE cl'[d] = cl[d]
    BY <1>2, <2>3 DEF KeptInv
  <2>4. QED
    BY <1>4, <2>2, <2>3
<1>7. \A p \in Replica : Up(p)' => Up(p) /\ p # r
  BY <1>1, <1>3 DEF Up
<1>8. /\ \A p \in Replica : status'[p] # "aborted"
      /\ \A p \in Replica : p # r => status'[p] = status[p]
  BY <1>1, <1>2, <1>3 DEF KeptInv
<1>9. CopiesFit
  BY <1>2 DEF KeptInv
<1>10. UNCHANGED <<copy, acked, made>>
  BY <1>1 DEF machines
<1>11. CopiesFit'
  <2>1. CASE ~made
    BY <1>9, <1>10, <2>1 DEF CopiesFit
  <2>2. CASE made /\ ~Up(Leader)
    <3>1. ~Up(Leader)'
      BY <1>3, <1>7, <2>2
    <3>2. PICK ahead \in {acked} \cup {Append(acked, op) : op \in Op} :
              \A p \in Replica : Up(p) => copy[p] \in {acked, ahead}
      BY <1>9, <2>2 DEF CopiesFit
    <3>3. \A p \in Replica : Up(p)' => copy[p] \in {acked, ahead}
      BY <1>7, <3>2
    <3>4. QED
      BY <1>10, <2>2, <3>1, <3>2, <3>3 DEF CopiesFit
  <2>3. CASE made /\ Up(Leader) /\ r # Leader
    <3>1. Up(Leader)'
      BY <1>3, <1>8, <2>3 DEF Up
    <3>2. \A d \in Client : cl[d].pc = "forward" => cl'[d] = cl[d]
      BY <1>1, <2>3 DEF RunsAt, At
    <3>3. \A d \in Client : cl'[d].pc = "forward" => cl[d].pc = "forward"
      BY <1>4, <1>5
    <3>4. Forwarding' = Forwarding /\ \A d \in Forwarding : cl'[d] = cl[d]
      BY <3>2, <3>3 DEF Forwarding, At
    <3>5. QED
      BY <1>7, <1>9, <1>10, <2>3, <3>1, <3>4 DEF CopiesFit
  <2>4. CASE made /\ Up(Leader) /\ r = Leader
    <3>1. ~Up(Leader)'
      BY <1>3, <1>7, <2>4
    <3>2. CASE Forwarding = {}
      <4>1. \A p \in Replica : Up(p)' => copy[p] \in {acked, acked}
        BY <1>7, <1>9, <2>4, <3>2 DEF CopiesFit
      <4>2. QED
        BY <1>10, <2>4, <3>1, <4>1 DEF CopiesFit
    <3>3. ASSUME NEW d \in Client, cl[d].pc = "forward" PROVE CopiesFit'
      <4> DEFINE ahead == Append(acked, cl[d].op)
      <4>1. /\ cl[d].op \in Op
            /\ \A p \in Replica \ {Leader} : Up(p) =>
                   copy[p] = IF p < cl[d].i THEN ahead ELSE acked
        BY <1>2, <3>3, WriterFacts
      <4>2. ahead \in {Append(acked, op) : op \in Op}
        BY <4>1
      <4> HIDE DEF ahead
      <4>3. \A p \in Replica : Up(p)' => copy[p] \in {acked, ahead}
        BY <1>7, <2>4, <4>1
      <4>4. QED
        BY <1>10, <2>4, <3>1, <4>2, <4>3 DEF CopiesFit
    <3>4. QED
      BY <3>2, <3>3 DEF Forwarding, At
  <2>5. QED
    BY <1>3, <2>1, <2>2, <2>3, <2>4
<1>12. QED
  BY <1>1, <1>2, <1>6, <1>8, <1>11 DEF KeptInv, machines

\* Every step keeps the copies as they are said to be.
LEMMA KeptNext ==
    ASSUME WritesDiffer, EverywhereCopied, TInv, EntriesKept, KeptInv, [Next]_vars
    PROVE  KeptInv'
<1>1. ASSUME NEW c \in Client,
             \/ Create(c) \/ Apply(c) \/ Read(c) \/ RemoveMachine(c)
             \/ Step(c) \/ Leave(c)
      PROVE  KeptInv'
  BY <1>1, CreateKept, BeginKept, ScanReplicaKept, PlaceKept, AwaitKept, ForwardKept,
     AppliedKept, ReadKept, LeaveKept
     DEF Step
<1>2. ASSUME NEW r \in Replica, Exit(r) PROVE KeptInv'
  BY <1>2, ExitKept
<1>3. CASE UNCHANGED vars
  BY <1>3 DEF vars, machines, KeptInv, CopiesFit, Forwarding, At, Up
<1>4. QED
  BY <1>1, <1>2, <1>3 DEF Next

\* At first there is no machine.
LEMMA KeptInit == Init => KeptInv
<1> SUFFICES ASSUME Init PROVE KeptInv
  OBVIOUS
<1>1. \A c \in Client : cl[c] = Idle(Program[c])
  BY DEF Init
<1>2. \A c \in Client : Idle(Program[c]).pc = "idle" /\ Idle(Program[c]).lacking = <<>>
  BY DEF Idle
<1>3. \A c \in Client : Regular(cl[c], holders, made)
  <2>1. made \in BOOLEAN
    BY DEF Init
  <2>2. QED
    BY <1>1, <1>2, <2>1, RegularFacts
<1>4. CopiesFit
  BY DEF Init, CopiesFit
<1>5. QED
  BY <1>3, <1>4 DEF Init, KeptInv

-----------------------------------------------------------------------------
(* The theorems about the copies. *)

\* The inductive invariant with the queue and the copies.
THEOREM InvariantOfCopies ==
    EverywhereCopied => (Spec => [](TInv /\ EntriesKept /\ WritesDiffer /\ KeptInv))
<1> SUFFICES ASSUME EverywhereCopied
             PROVE  Spec => [](TInv /\ EntriesKept /\ WritesDiffer /\ KeptInv)
  OBVIOUS
<1>1. Init => KeptInv
  BY KeptInit
<1>2. TInv /\ EntriesKept /\ WritesDiffer /\ KeptInv /\ [Next]_vars => KeptInv'
  BY KeptNext
<1>3. QED
  BY <1>1, <1>2, Invariant, QueueKeepsEntries, PTL DEF Spec

\* Every copy that is left holds what was acknowledged, and one operation more
\* at most, the same one everywhere.
LEMMA CopiesLeft ==
    ASSUME TInv, KeptInv, ~spoilt
    PROVE  \E ahead \in {acked} \cup {Append(acked, op) :
                             op \in IF Up(Leader) THEN Pending ELSE Op} :
               \A r \in Replica : Up(r) => copy[r] \in {acked, ahead}
<1>1. CopiesFit /\ Leader \in Replica
  BY NAssumption DEF KeptInv
<1>2. CASE ~made \/ (Up(Leader) /\ Forwarding = {})
  <2>1. \A r \in Replica : Up(r) => copy[r] \in {acked, acked}
    BY <1>1, <1>2 DEF CopiesFit
  <2>2. QED
    BY <2>1
<1>3. CASE made /\ ~Up(Leader)
  BY <1>1, <1>3 DEF CopiesFit
<1>4. ASSUME made, Up(Leader), NEW c \in Forwarding
      PROVE  \E ahead \in {acked} \cup {Append(acked, op) :
                               op \in IF Up(Leader) THEN Pending ELSE Op} :
                 \A r \in Replica : Up(r) => copy[r] \in {acked, ahead}
  <2> DEFINE ahead == Append(acked, cl[c].op)
  <2>1. cl[c].op \in Pending
    BY DEF Pending, Forwarding
  <2>2. ahead \in {Append(acked, op) : op \in IF Up(Leader) THEN Pending ELSE Op}
    BY <1>4, <2>1
  <2>3. /\ copy[Leader] = acked
        /\ \A r \in Replica \ {Leader} : Up(r) =>
               copy[r] = IF r < cl[c].i THEN ahead ELSE acked
    BY <1>1, <1>4 DEF CopiesFit
  <2> HIDE DEF ahead
  <2>4. \A r \in Replica : Up(r) => copy[r] \in {acked, ahead}
    BY <2>3
  <2>5. QED
    BY <2>2, <2>4
<1>5. QED
  BY <1>2, <1>3, <1>4

\* The copies agree but for the one write that is on its way, or that the leader
\* died over: apply() goes to every replica before the next write begins
\* (replica_handler.cpp), for any number of replicas that all get a copy, of front
\* ends and of operations, until the machine is removed or two front ends have the
\* same write waiting at once.
THEOREM CopiesKeepStep == EverywhereCopied => (Spec => []CopiesInStep)
<1>1. TInv /\ KeptInv => CopiesInStep
  <2>1. SUFFICES ASSUME TInv, KeptInv, ~spoilt,
                        NEW p \in {r \in holders : Up(r)},
                        NEW q \in {r \in holders : Up(r)}
                 PROVE  \/ copy[p] = copy[q]
                        \/ \E op \in IF Up(Leader) THEN Pending ELSE Op :
                               copy[p] = Append(copy[q], op)
                        \/ \E op \in IF Up(Leader) THEN Pending ELSE Op :
                               copy[q] = Append(copy[p], op)
    BY DEF CopiesInStep
  <2>2. PICK ahead \in {acked} \cup {Append(acked, op) :
                           op \in IF Up(Leader) THEN Pending ELSE Op} :
            \A r \in Replica : Up(r) => copy[r] \in {acked, ahead}
    BY <2>1, CopiesLeft
  <2>3. p \in Replica /\ q \in Replica /\ Up(p) /\ Up(q)
    BY <2>1, TInvParts DEF RestOK
  <2>4. QED
    BY <2>2, <2>3
<1>2. QED
  BY <1>1, InvariantOfCopies, PTL

\* What was acknowledged to a front end is in every copy that is left, in the
\* order of the acknowledgements, whoever has exited, the leader included, until
\* the machine is removed or two front ends have the same write waiting at once.
THEOREM AcknowledgedSurvives == EverywhereCopied => (Spec => []AckedSurvive)
<1>1. TInv /\ KeptInv => AckedSurvive
  <2>1. SUFFICES ASSUME TInv, KeptInv, ~spoilt, NEW r \in holders, Up(r)
                 PROVE  IsPrefix(acked, copy[r])
    BY DEF AckedSurvive
  <2>2. r \in Replica /\ acked \in Value
    BY <2>1, TInvParts DEF RestOK
  <2>3. copy[r] = acked \/ \E op \in Op : copy[r] = Append(acked, op)
    <3>1. PICK ahead \in {acked} \cup {Append(acked, op) :
                             op \in IF Up(Leader) THEN Pending ELSE Op} :
              \A p \in Replica : Up(p) => copy[p] \in {acked, ahead}
      BY <2>1, CopiesLeft
    <3>2. Pending \subseteq Op
      <4>1. ASSUME NEW c \in Client, cl[c].pc = "forward" PROVE cl[c].op \in Op
        BY <2>1, <4>1, ClientAssumption DEF TInv, WritesOwn, Writing
      <4>2. QED
        BY <4>1 DEF Pending, At
    <3>3. QED
      BY <2>1, <2>2, <3>1, <3>2
  <2>4. QED
    BY <2>2, <2>3, PrefixFacts DEF Value
<1>2. QED
  BY <1>1, InvariantOfCopies, PTL

\* Until the machine is spoilt no handler runs into an empty queue, a machine that
\* is gone or an index that was never set (replica_handler.cpp:332, 493, 499).
THEOREM HandlersReturn == EverywhereCopied => (Spec => []HandlersSurvive)
<1>1. KeptInv => HandlersSurvive
  BY DEF KeptInv, HandlersSurvive
<1>2. QED
  BY <1>1, InvariantOfCopies, PTL

-----------------------------------------------------------------------------
(* The log that the copies are of. *)

\* s is what t was at some time.
Starts(s, t) == \E n \in 0 .. Len(t) : s = SubSeq(t, 1, n)

\* The log holds at most one operation more than was acknowledged, the one that is
\* being forwarded, if the leader lives, and every copy is what it was at some
\* time, also a copy of a replica that has exited.
Logged ==
    /\ Log = acked \/ \E op \in Op : Log = Append(acked, op)
    /\ \A r \in Replica : Starts(copy[r], acked) \/ copy[r] = Log
    /\ Up(Leader) /\ Log # acked =>
           \E c \in Client : cl[c].pc = "forward" /\ Log = Append(acked, cl[c].op)

\* A read knows of nothing that is not in the log, and once the queue was free of
\* writes, every copy left has what the log had when the read began.
UpToDate(f) ==
    /\ f.pc = "drain" => f.since <= Len(Log)
    /\ f.pc \in {"survey", "copy", "fetch"} =>
           \A r \in Replica : Up(r) => f.since <= Len(copy[r])

LogInv == ~spoilt => Logged /\ \A c \in Client : UpToDate(cl[c])

\* Parts of a sequence from its beginning.
LEMMA StartsFacts ==
    ASSUME NEW S, NEW t \in Seq(S), NEW e \in S
    PROVE  /\ Starts(t, t) /\ Len(t) \in Nat
           /\ Append(t, e) \in Seq(S) /\ Len(Append(t, e)) = Len(t) + 1
           /\ \A s : Starts(s, t) => /\ Starts(s, Append(t, e))
                                     /\ Len(s) \in Nat /\ Len(s) <= Len(t)
<1>1. /\ Len(t) \in Nat /\ Append(t, e) \in Seq(S)
      /\ Len(Append(t, e)) = Len(t) + 1 /\ Len(t) \in 0 .. Len(t)
  OBVIOUS
<1>2. Starts(t, t)
  BY <1>1, BeginningFacts DEF Starts
<1>3. ASSUME NEW s, Starts(s, t)
      PROVE  Starts(s, Append(t, e)) /\ Len(s) \in Nat /\ Len(s) <= Len(t)
  <2>1. PICK n \in 0 .. Len(t) : s = SubSeq(t, 1, n)
    BY <1>3 DEF Starts
  <2>2. Len(s) = n /\ s = SubSeq(Append(t, e), 1, n)
    BY <2>1, BeginningFacts
  <2>3. n \in 0 .. Len(Append(t, e))
    BY <1>1
  <2>4. QED
    BY <1>1, <2>2, <2>3 DEF Starts
<1>4. QED
  BY <1>1, <1>2, <1>3

\* While no copy changes, the log does not.
LEMMA LogStays == ASSUME UNCHANGED <<copy, acked>> PROVE Log' = Log
BY DEF Log, Unacknowledged

\* The log after a step, by the copies that are longer than what is acknowledged.
LEMMA LogNext ==
    ASSUME NEW s
    PROVE  /\ (\A r \in Replica : ~(Len(copy'[r]) > Len(acked'))) => Log' = acked'
           /\ /\ \E r \in Replica : Len(copy'[r]) > Len(acked')
              /\ \A r \in Replica : Len(copy'[r]) > Len(acked') => copy'[r] = s
              => Log' = s
<1>1. (\A r \in Replica : ~(Len(copy'[r]) > Len(acked'))) => Log' = acked'
  BY DEF Log, Unacknowledged
<1>2. ASSUME \E r \in Replica : Len(copy'[r]) > Len(acked'),
             \A r \in Replica : Len(copy'[r]) > Len(acked') => copy'[r] = s
      PROVE  Log' = s
  <2>1. Unacknowledged' = {s}
    BY <1>2 DEF Unacknowledged
  <2>2. QED
    BY <2>1 DEF Log
<1>3. QED
  BY <1>1, <1>2

\* What a writer at work knows of the log.
LEMMA WriterLog ==
    ASSUME WritesDiffer, TInv, EntriesKept, KeptInv, LogInv, ~spoilt,
           NEW c \in Client, cl[c].pc = "forward"
    PROVE  /\ cl[c].op \in Op /\ Append(acked, cl[c].op) \in Seq(Op)
           /\ acked \in Seq(Op) /\ Len(acked) \in Nat
           /\ Len(Append(acked, cl[c].op)) = Len(acked) + 1
           /\ Log = acked \/ Log = Append(acked, cl[c].op)
           /\ \A r \in Replica : \/ copy[r] = Append(acked, cl[c].op)
                                 \/ Starts(copy[r], acked) /\ Len(copy[r]) <= Len(acked)
<1>1. /\ cl[c].op \in Op /\ Up(Leader)
      /\ \A d \in Client : cl[d].pc = "forward" => d = c
  BY WriterFacts
<1>2. acked \in Seq(Op)
  BY TInvParts DEF RestOK, Value
<1>3. /\ Append(acked, cl[c].op) \in Seq(Op) /\ Len(acked) \in Nat
      /\ Len(Append(acked, cl[c].op)) = Len(acked) + 1
      /\ Starts(acked, acked)
      /\ \A s : Starts(s, acked) => Len(s) <= Len(acked)
  BY <1>1, <1>2, StartsFacts
<1>4. Log = acked \/ Log = Append(acked, cl[c].op)
  BY <1>1 DEF LogInv, Logged
<1>5. \A r \in Replica : Starts(copy[r], acked) \/ copy[r] = Log
  BY DEF LogInv, Logged
<1>6. QED
  BY <1>1, <1>2, <1>3, <1>4, <1>5

\* A writer goes on to the next replica.
LEMMA ForwardGoes ==
    ASSUME TInv, NEW c \in Client, Forward(c)
    PROVE  /\ cl[c].pc = "forward"
           /\ \E g : /\ cl' = [cl EXCEPT ![c] = g]
                     /\ g.pc = "forward" /\ g.op = cl[c].op
<1> DEFINE g == [cl[c] EXCEPT !.i = @ + 1]
<1>1. cl[c] \in Calling /\ cl \in [Client -> Calling] /\ cl[c].pc = "forward"
  BY CallShape, TInvParts DEF Forward, At
<1>2. cl' = [cl EXCEPT ![c] = g]
  BY <1>1 DEF Forward
<1>3. g.pc = "forward" /\ g.op = cl[c].op
  BY <1>1 DEF Calling
<1> HIDE DEF g
<1>4. QED
  BY <1>1, <1>2, <1>3

\* A write that comes to one more copy is put at the end of the log, if it is not
\* there yet.
LEMMA ForwardLog ==
    ASSUME WritesDiffer, TInv, EntriesKept, KeptInv, LogInv, ~spoilt,
           NEW c \in Client, Forward(c)
    PROVE  /\ UNCHANGED <<status, acked, spoilt>>
           /\ Log' = Log \/ (Log = acked /\ Log' = Append(acked, cl[c].op))
           /\ Log' = acked \/ Log' = Append(acked, cl[c].op)
           /\ \A r \in Replica : \/ copy'[r] = copy[r]
                                 \/ /\ copy'[r] = Append(acked, cl[c].op)
                                    /\ Log' = copy'[r]
                                    /\ Len(copy[r]) <= Len(copy'[r])
<1> DEFINE op == cl[c].op
           t == Append(acked, op)
           i == cl[c].i
<1>1. /\ cl[c].pc = "forward" /\ i # N /\ UNCHANGED <<status, acked, spoilt>>
      /\ copy' = IF i # Leader /\ Up(i) /\ Has(i)
                 THEN [copy EXCEPT ![i] = Append(@, op)] ELSE copy
  BY DEF Forward, Forwarded, At
<1>2. /\ op \in Op /\ t \in Seq(Op) /\ Len(acked) \in Nat /\ Len(t) = Len(acked) + 1
      /\ Log = acked \/ Log = t
      /\ \A r \in Replica : \/ copy[r] = t
                            \/ Starts(copy[r], acked) /\ Len(copy[r]) <= Len(acked)
  BY <1>1, WriterLog
<1>3. \A r \in Replica \ {Leader} : Up(r) => copy[r] = IF r < i THEN t ELSE acked
  BY <1>1, WriterFacts
<1>4. i \in Replica /\ copy \in [Replica -> Value] /\ ~(i < i)
  <2>1. i \in Nat /\ i <= N
    BY CallShape
  <2> HIDE DEF i
  <2>2. i \in Replica
    BY <1>1, <2>1, NAssumption DEF Replica
  <2>3. QED
    BY <2>1, <2>2, TInvParts DEF RestOK
<1> HIDE DEF op, t, i
<1>5. CASE ~(i # Leader /\ Up(i) /\ Has(i))
  <2>1. copy' = copy /\ Log' = Log
    BY <1>1, <1>5, LogStays
  <2>2. QED
    BY <1>1, <1>2, <2>1 DEF op, t
<1>6. CASE i # Leader /\ Up(i) /\ Has(i)
  <2>1. copy[i] = acked
    BY <1>3, <1>4, <1>6
  <2>2. copy'[i] = t /\ \A r \in Replica : r # i => copy'[r] = copy[r]
    BY <1>1, <1>4, <1>6, <2>1 DEF t
  <2>3. Log' = t
    <3>1. Len(copy'[i]) > Len(acked')
      BY <1>1, <1>2, <2>2
    <3>2. ASSUME NEW r \in Replica, Len(copy'[r]) > Len(acked') PROVE copy'[r] = t
      <4>1. CASE r = i
        BY <2>2, <4>1
      <4>2. CASE r # i
        <5>1. copy'[r] = copy[r] /\ ~(Len(copy[r]) <= Len(acked))
          <6>1. copy'[r] = copy[r] /\ acked' = acked
            BY <1>1, <2>2, <4>2
          <6>2. Len(copy[r]) \in Nat
            BY <1>4 DEF Value
          <6>3. QED
            BY <1>2, <3>2, <6>1, <6>2
        <5>2. QED
          BY <1>2, <5>1
      <4>3. QED
        BY <4>1, <4>2
    <3>3. QED
      BY <1>4, <3>1, <3>2, LogNext
  <2>4. Len(copy[i]) <= Len(copy'[i])
    BY <1>2, <2>1, <2>2
  <2>5. QED
    BY <1>1, <1>2, <2>2, <2>3, <2>4 DEF op, t
<1>7. QED
  BY <1>5, <1>6

\* The write has come to the leader: the log is what is acknowledged.
LEMMA AppliedLog ==
    ASSUME WritesDiffer, TInv, EntriesKept, KeptInv, LogInv, ~spoilt,
           NEW c \in Client, Applied(c)
    PROVE  /\ UNCHANGED <<status, spoilt>> /\ Return(c)
           /\ acked' = Append(acked, cl[c].op) /\ Log' = acked'
           /\ \A r \in Replica : /\ Starts(copy'[r], acked')
                                 /\ Len(copy[r]) <= Len(copy'[r])
<1> DEFINE op == cl[c].op
           t == Append(acked, op)
<1>1. cl[c].pc = "forward" /\ UNCHANGED spoilt
  BY DEF Applied, At
<1>2. /\ op \in Op /\ t \in Seq(Op) /\ Len(acked) \in Nat /\ Len(t) = Len(acked) + 1
      /\ acked \in Seq(Op)
      /\ \A r \in Replica : \/ copy[r] = t
                            \/ Starts(copy[r], acked) /\ Len(copy[r]) <= Len(acked)
  BY <1>1, WriterLog
<1>3. holders = Replica /\ queue # <<>> /\ copy[Leader] = acked /\ Leader \in Replica
  BY <1>1, WriterFacts, NAssumption
<1>4. /\ copy' = [copy EXCEPT ![Leader] = Append(@, op)] /\ acked' = t
      /\ Return(c) /\ UNCHANGED status
  BY <1>3 DEF Applied, Has
<1>5. copy \in [Replica -> Value]
  BY TInvParts DEF RestOK
<1>6. /\ Starts(t, t)
      /\ \A s : Starts(s, acked) => Starts(s, t)
  <2>1. \A s : Starts(s, acked) => Starts(s, t)
    BY <1>2, StartsFacts
  <2> HIDE DEF t
  <2>2. Starts(t, t)
    BY <1>2, StartsFacts
  <2>3. QED
    BY <2>1, <2>2
<1>7. copy'[Leader] = t /\ \A r \in Replica : r # Leader => copy'[r] = copy[r]
  BY <1>3, <1>4, <1>5
<1> HIDE DEF op, t
<1>8. ASSUME NEW r \in Replica
      PROVE  /\ Starts(copy'[r], t) /\ Len(copy[r]) <= Len(copy'[r])
             /\ ~(Len(copy'[r]) > Len(t))
  <2>1. CASE r = Leader
    BY <1>2, <1>3, <1>6, <1>7, <2>1
  <2>2. CASE r # Leader
    <3>1. copy'[r] = copy[r] /\ Len(copy[r]) \in Nat
      BY <1>5, <1>7, <2>2 DEF Value
    <3>2. QED
      BY <1>2, <1>6, <3>1
  <2>3. QED
    BY <2>1, <2>2
<1>9. Log' = acked'
  BY <1>4, <1>8, LogNext
<1>10. QED
  BY <1>1, <1>4, <1>8, <1>9 DEF op, t

\* A call that has asked nothing of the machine.
Silent(f) == f.pc \in {"idle", "gone"} \/ (f.pc = "scan" /\ f.where = NoOne)

\* A call that returns is silent.
LEMMA ReturnSilent ==
    ASSUME TInv, NEW c \in Client, Return(c)
    PROVE  \E g : cl' = [cl EXCEPT ![c] = g] /\ Silent(g)
<1>1. cl' = [cl EXCEPT ![c] = Idle(cl[c].calls)]
  BY TInvParts DEF Return
<1>2. Idle(cl[c].calls).pc = "idle"
  BY DEF Idle
<1>3. QED
  BY <1>1, <1>2 DEF Silent

\* While copies are placed the calls are silent, and a copy that is placed is empty,
\* as the place was.
LEMMA PlaceSilent ==
    ASSUME TInv, KeptInv, ~spoilt, NEW c \in Client, Place(c)
    PROVE  /\ UNCHANGED <<status, copy, acked, spoilt>> /\ Silent(cl[c])
           /\ \E g : cl' = [cl EXCEPT ![c] = g] /\ Silent(g)
<1> DEFINE f == cl[c]
           r == f.pick
           pre == f.preexisting /\ f.count > 0
<1>1. f.pc = "scan" /\ UNCHANGED <<status, acked, spoilt>>
  BY DEF Place, At
<1>2. /\ f \in Calling /\ r \in 0 .. N
      /\ holders \subseteq Replica /\ copy \in [Replica -> Value]
      /\ cl \in [Client -> Calling]
  BY CallShape, TInvParts DEF RestOK
<1>3. /\ Placing(f, holders)
      /\ made => holders = Replica
      /\ ~made => \A p \in Replica : copy[p] = <<>>
  BY <1>1 DEF KeptInv, Regular, CopiesFit
<1>4. f.where = NoOne /\ f.value = <<>>
  BY <1>3 DEF Placing
<1>5. CreateReturns(c, pre) => Return(c)
  BY <1>4 DEF CreateReturns
<1> HIDE DEF pre
<1>6. \/ Return(c) /\ UNCHANGED copy
      \/ /\ r # NoOne
         /\ copy' = IF Has(r) THEN copy ELSE [copy EXCEPT ![r] = f.value]
         /\ \/ Return(c)
            \/ cl' = [cl EXCEPT ![c] = [Scan(f) EXCEPT !.j = @ + 1, !.preexisting = pre]]
  BY <1>5 DEF Place, pre, machines
<1>7. copy' = copy
  <2>1. CASE r # NoOne /\ copy' = IF Has(r) THEN copy ELSE [copy EXCEPT ![r] = f.value]
    <3>1. r \in Replica
      BY <1>2, <2>1, ReplicaFacts
    <3>2. Has(r) \/ copy[r] = <<>>
      BY <1>3, <3>1 DEF Has
    <3>3. QED
      BY <1>2, <1>4, <2>1, <3>1, <3>2
  <2>2. QED
    BY <1>6, <2>1
<1>8. ASSUME cl' = [cl EXCEPT ![c] = [Scan(f) EXCEPT !.j = @ + 1, !.preexisting = pre]]
      PROVE  \E g : cl' = [cl EXCEPT ![c] = g] /\ Silent(g)
  <2> DEFINE s == Scan(f)
             g == [s EXCEPT !.j = @ + 1, !.preexisting = pre]
  <2>1. s \in Calling /\ s.pc = "scan" /\ s.where = NoOne
    BY <1>2, <1>4, ScanFacts
  <2>2. cl' = [cl EXCEPT ![c] = g]
    BY <1>8
  <2> HIDE DEF s
  <2>3. g.pc = "scan" /\ g.where = NoOne
    BY <2>1 DEF Calling
  <2> HIDE DEF g
  <2>4. QED
    BY <2>2, <2>3 DEF Silent
<1>9. QED
  BY <1>1, <1>4, <1>6, <1>7, <1>8, ReturnSilent DEF Silent

\* The same of a create() that begins or asks another replica.
LEMMA CreateSilent ==
    ASSUME TInv, KeptInv, ~spoilt, NEW c \in Client, Create(c) \/ ScanReplica(c)
    PROVE  /\ UNCHANGED <<status, copy, acked, spoilt>> /\ Silent(cl[c])
           /\ \E g : cl' = [cl EXCEPT ![c] = g] /\ Silent(g)
<1>1. CASE Create(c)
  <2> DEFINE b == Begin(c, "scan")
             g == Scan(b)
  <2>1. cl[c].calls # <<>> /\ cl[c].pc = "idle"
    BY <1>1 DEF Create, Calls, At
  <2>2. b \in Calling /\ b.where = NoOne
    BY <2>1, BeginFacts
  <2>3. cl' = [cl EXCEPT ![c] = g] /\ UNCHANGED <<status, copy, acked, spoilt>>
    BY <1>1 DEF Create, machines
  <2> HIDE DEF b
  <2>4. g.pc = "scan" /\ g.where = NoOne
    BY <2>2, ScanFacts
  <2> HIDE DEF g
  <2>5. QED
    BY <2>1, <2>3, <2>4 DEF Silent
<1>2. CASE ScanReplica(c)
  <2> DEFINE f == cl[c]
             n == [f EXCEPT !.i = @ + 1]
             m == [n EXCEPT !.count = @ + 1]
             p(r) == [n EXCEPT !.pick = r]
  <2>1. f.pc = "scan" /\ UNCHANGED <<status, copy, acked, spoilt>>
    BY <1>2 DEF ScanReplica, At, machines
  <2>2. \/ cl' = [cl EXCEPT ![c] = n]
        \/ cl' = [cl EXCEPT ![c] = m]
        \/ \E r : cl' = [cl EXCEPT ![c] = p(r)]
    BY <1>2 DEF ScanReplica
  <2>3. f \in Calling /\ f.where = NoOne
    BY <2>1, CallShape DEF KeptInv, Regular, Placing
  <2> HIDE DEF f
  <2>4. /\ n.pc = "scan" /\ n.where = NoOne /\ m.pc = "scan" /\ m.where = NoOne
        /\ \A r : p(r).pc = "scan" /\ p(r).where = NoOne
    BY <2>1, <2>3 DEF Calling
  <2> HIDE DEF n, m, p
  <2>5. QED
    BY <2>1, <2>2, <2>3, <2>4 DEF Silent, f
<1>3. QED
  BY <1>1, <1>2

\* apply() has queued its operation, or returns because there is no machine.
LEMMA ApplyAsks ==
    ASSUME TInv, NEW c \in Client, Apply(c), ~spoilt'
    PROVE  /\ UNCHANGED <<status, copy, acked, spoilt>> /\ cl[c].pc = "idle"
           /\ \E g : /\ cl' = [cl EXCEPT ![c] = g]
                     /\ Silent(g) \/ (g.pc = "await" /\ g.op \in Op)
<1>1. cl[c].pc = "idle" /\ cl[c].calls # <<>> /\ UNCHANGED <<status, copy, acked, spoilt>>
  BY ApplySpoils DEF Apply, Calls, At, machines
<1>2. CASE cl' = [cl EXCEPT ![c] = Begin(c, "idle")]
  <2>1. Begin(c, "idle").pc = "idle"
    BY <1>1, BeginFacts
  <2>2. QED
    BY <1>1, <1>2, <2>1 DEF Silent
<1>3. ASSUME NEW op \in MayWrite[c],
             cl' = [cl EXCEPT ![c] = [Begin(c, "await") EXCEPT !.op = op]]
      PROVE  \E g : cl' = [cl EXCEPT ![c] = g] /\ g.pc = "await" /\ g.op \in Op
  <2> DEFINE b == Begin(c, "await")
             g == [b EXCEPT !.op = op]
  <2>1. b \in Calling /\ b.pc = "await"
    BY <1>1, BeginFacts
  <2>2. cl' = [cl EXCEPT ![c] = g]
    BY <1>3
  <2> HIDE DEF b
  <2>3. g.pc = "await" /\ g.op = op /\ op \in Op
    BY <2>1, ClientAssumption DEF Calling
  <2> HIDE DEF g
  <2>4. QED
    BY <2>2, <2>3
<1>4. QED
  BY <1>1, <1>2, <1>3 DEF Apply

\* remove() ends what is said of the machine, or finds none.
LEMMA RemoveSilent ==
    ASSUME TInv, NEW c \in Client, RemoveMachine(c), ~spoilt'
    PROVE  /\ UNCHANGED <<status, copy, acked, spoilt>> /\ Silent(cl[c])
           /\ \E g : cl' = [cl EXCEPT ![c] = g] /\ Silent(g)
<1>1. cl[c].pc = "idle" /\ cl[c].calls # <<>>
  BY DEF RemoveMachine, Calls, At
<1>2. /\ cl' = [cl EXCEPT ![c] = Begin(c, "idle")]
      /\ UNCHANGED <<status, copy, acked, spoilt>>
  BY DEF RemoveMachine, machines
<1>3. Begin(c, "idle").pc = "idle"
  BY <1>1, BeginFacts
<1>4. QED
  BY <1>1, <1>2, <1>3 DEF Silent

\* The turn of a writer comes: it is not turned away, since its entry is queued.
LEMMA AwaitGoes ==
    ASSUME TInv, EntriesKept, ~spoilt, NEW c \in Client, Await(c)
    PROVE  /\ UNCHANGED <<status, copy, acked, spoilt>>
           /\ cl[c].pc = "await" /\ cl[c].op \in Op
           /\ \E g : /\ cl' = [cl EXCEPT ![c] = g]
                     /\ g.pc = "forward" /\ g.op = cl[c].op
<1>1. cl[c].pc = "await" /\ UNCHANGED <<copy, acked, spoilt>>
  BY DEF Await, At, machines
<1>2. /\ Up(Leader) /\ cl[c] \in Calling /\ cl \in [Client -> Calling]
      /\ queue \in Seq(Entries)
  BY <1>1, LeaderWorks, CallShape, TInvParts DEF RestOK
<1>3. queue # <<>>
  <2>1. Contains(queue, Write(cl[c].op))
    BY <1>1, <1>2, ServedParts DEF Served, EntryOf, Writing
  <2>2. QED
    BY <2>1 DEF Contains
<1>4. UNCHANGED status /\ cl' = [cl EXCEPT ![c].pc = "forward"]
  BY <1>3 DEF Await
<1> DEFINE g == [cl[c] EXCEPT !.pc = "forward"]
<1>5. cl' = [cl EXCEPT ![c] = g] /\ g.pc = "forward" /\ g.op = cl[c].op
  BY <1>2, <1>4 DEF Calling
<1> HIDE DEF g
<1>6. cl[c].op \in Op
  BY <1>1, TInvParts, ClientAssumption DEF WritesOwn, Writing
<1>7. QED
  BY <1>1, <1>4, <1>5, <1>6

-----------------------------------------------------------------------------
(* What a read knows stays true. *)

\* Logs and copies only get longer while fewer replicas are up.
Longer ==
    /\ Log \in Value /\ Log' \in Value /\ Len(Log) <= Len(Log')
    /\ \A r \in Replica : Up(r)' => Up(r) /\ Len(copy[r]) <= Len(copy'[r])

\* What f read of the log is still there.
LEMMA UpToDateStays ==
    ASSUME TInv, TInv', Longer, NEW f, f.since \in Nat, UpToDate(f)
    PROVE  UpToDate(f)'
<1>1. Len(Log) \in Nat /\ Len(Log') \in Nat
  BY DEF Longer, Value
<1>2. copy \in [Replica -> Value] /\ copy' \in [Replica -> Value]
  BY TInvParts DEF RestOK, TInv, TypeOK
<1>3. \A r \in Replica : Len(copy[r]) \in Nat /\ Len(copy'[r]) \in Nat
  BY <1>2 DEF Value
<1>4. f.pc = "drain" => f.since <= Len(Log')
  BY <1>1 DEF UpToDate, Longer
<1>5. f.pc \in {"survey", "copy", "fetch"} =>
          \A r \in Replica : Up(r)' => f.since <= Len(copy'[r])
  BY <1>3 DEF UpToDate, Longer
<1>6. QED
  BY <1>4, <1>5 DEF UpToDate

\* A step after which every call is what it was, or knows enough, keeps the
\* invariant.
LEMMA LogGoes ==
    ASSUME TInv, TInv', LogInv, ~spoilt, Logged', Longer,
           \A d \in Client : \/ cl'[d] = cl[d] \/ UpToDate(cl'[d])
    PROVE  LogInv'
<1>1. ASSUME NEW d \in Client PROVE UpToDate(cl[d])'
  <2>1. PICK f : f = cl'[d]
    OBVIOUS
  <2>2. f \in Calling
    BY <2>1, TInvParts DEF TInv, TypeOK, Calling
  <2>3. f.since \in Nat
    BY <2>2 DEF Calling
  <2>4. UpToDate(f)
    BY <2>1 DEF LogInv
  <2>5. UpToDate(f)'
    BY <2>3, <2>4, UpToDateStays
  <2>6. QED
    BY <2>1, <2>5 DEF UpToDate
<1>2. QED
  BY <1>1 DEF LogInv

\* While the copies stay, what is said of the log does, if a writer goes on.
LEMMA LoggedStays ==
    ASSUME Logged, UNCHANGED <<copy, acked>>, Up(Leader)' => Up(Leader),
           \A d \in Client : cl[d].pc = "forward" /\ Up(Leader)' =>
               cl'[d].pc = "forward" /\ cl'[d].op = cl[d].op
    PROVE  Logged'
<1>1. Log' = Log
  BY LogStays
<1>2. QED
  BY <1>1 DEF Logged

\* The log is as long as it was, while the copies stay.
LEMMA LongerStays ==
    ASSUME TInv, UNCHANGED <<copy, acked>>, \A r \in Replica : Up(r)' => Up(r)
    PROVE  Longer
<1>1. Log' = Log /\ Log \in Value /\ Len(Log) \in Nat
  BY LogStays, LogType
<1>2. \A r \in Replica : Len(copy[r]) \in Nat
  BY TInvParts DEF RestOK, Value
<1>3. QED
  BY <1>1, <1>2 DEF Longer

\* A call goes on that writes nothing and knows enough.
LEMMA LogCall ==
    ASSUME TInv, TInv', LogInv, ~spoilt, UNCHANGED <<status, copy, acked>>,
           NEW c \in Client, NEW g, cl' = [cl EXCEPT ![c] = g],
           cl[c].pc = "forward" => g.pc = "forward" /\ g.op = cl[c].op,
           UpToDate(g)
    PROVE  LogInv'
<1>1. cl \in [Client -> Calling] /\ Leader \in Replica
  BY TInvParts, NAssumption
<1>2. \A d \in Client : cl'[d] = IF d = c THEN g ELSE cl[d]
  BY <1>1
<1>3. \A r \in Replica : Up(r)' => Up(r)
  BY DEF Up
<1>4. Longer
  BY <1>3, LongerStays
<1>5. Logged'
  <2>1. \A d \in Client : cl[d].pc = "forward" =>
            cl'[d].pc = "forward" /\ cl'[d].op = cl[d].op
    BY <1>2
  <2>2. QED
    BY <1>1, <1>3, <2>1, LoggedStays DEF LogInv
<1>6. \A d \in Client : cl'[d] = cl[d] \/ UpToDate(cl'[d])
  BY <1>2
<1>7. QED
  BY <1>4, <1>5, <1>6, LogGoes

\* A call that is silent or writes has read nothing.
LEMMA SilentKnows ==
    ASSUME NEW g, Silent(g) \/ g.pc \in {"await", "forward", "notify"}
    PROVE  UpToDate(g)
BY DEF Silent, UpToDate

\* A read goes on: when the queue is free of writes every copy left is the log.
LEMMA ReadLogged ==
    ASSUME TInv, EntriesKept, KeptInv, TInv', LogInv, ~spoilt, NEW c \in Client,
           \/ Drain(c) \/ Survey(c) \/ Surveyed(c) \/ Copy(c) \/ Prepared(c)
           \/ Fetch(c) \/ Notify(c) \/ Install(c) \/ RemoveElsewhere(c)
    PROVE  LogInv'
<1>1. /\ UNCHANGED <<status, copy, acked>>
      /\ cl[c].pc \in {"drain", "survey", "copy", "fetch", "notify"} /\ made = TRUE
  BY ReadMoves DEF machines
<1>2. CASE Return(c)
  <2>1. PICK g : cl' = [cl EXCEPT ![c] = g] /\ Silent(g)
    BY <1>2, ReturnSilent
  <2>2. QED
    BY <1>1, <2>1, SilentKnows, LogCall
<1>3. ASSUME NEW g, cl' = [cl EXCEPT ![c] = g], UpToDate(g) PROVE LogInv'
  BY <1>1, <1>3, LogCall
<1>4. ASSUME NEW g, cl[c].pc = "drain", Drained, Up(Leader),
             g.pc = "survey", g.since = cl[c].since
      PROVE  UpToDate(g)
  <2>1. queue \in Seq(Entries)
    BY TInvParts DEF RestOK
  <2>2. ASSUME NEW d \in Client, cl[d].pc = "forward" PROVE FALSE
    <3>1. Contains(queue, Write(cl[d].op))
      BY <1>4, <2>1, <2>2, ServedParts DEF Served, EntryOf, Writing
    <3>2. Write(cl[d].op) \in ToSet(queue)
      BY <2>1, <3>1, ToSetFacts
    <3>3. Write(cl[d].op).kind = "w"
      BY DEF Write
    <3>4. QED
      BY <1>4, <3>2, <3>3 DEF Drained
  <2>3. Log = acked
    BY <1>4, <2>2 DEF LogInv, Logged
  <2>4. \A r \in Replica : Up(r) => copy[r] = acked
    BY <1>1, <1>4, <2>2 DEF KeptInv, CopiesFit, Forwarding, At
  <2>5. cl[c].since <= Len(Log)
    BY <1>4 DEF LogInv, UpToDate
  <2>6. QED
    BY <1>4, <2>3, <2>4, <2>5 DEF UpToDate
<1>5. ASSUME NEW g, cl[c].pc \in {"survey", "copy"}, g.pc \in {"survey", "copy", "fetch"},
             g.since = cl[c].since
      PROVE  UpToDate(g)
  BY <1>5 DEF LogInv, UpToDate
<1>6. ASSUME NEW g, g.pc = "notify" PROVE UpToDate(g)
  BY <1>6, SilentKnows
<1>7. CASE ~Return(c)
  <2>1. PICK g : /\ cl' = [cl EXCEPT ![c] = g]
                 /\ \/ /\ cl[c].pc = "drain" /\ Drained /\ Up(Leader)
                       /\ g.pc = "survey" /\ g.since = cl[c].since
                    \/ /\ cl[c].pc \in {"survey", "copy"}
                       /\ g.pc \in {"survey", "copy", "fetch"}
                       /\ g.since = cl[c].since
                    \/ g.pc = "notify"
    BY <1>7, ReadMoves
  <2>2. UpToDate(g)
    BY <1>4, <1>5, <1>6, <2>1
  <2>3. QED
    BY <1>3, <2>1, <2>2
<1>8. QED
  BY <1>2, <1>7

\* A write comes to one more copy, or to the leader.
LEMMA ForwardLogged ==
    ASSUME WritesDiffer, TInv, EntriesKept, KeptInv, TInv', LogInv, ~spoilt,
           NEW c \in Client, Forward(c)
    PROVE  LogInv'
<1> DEFINE t == Append(acked, cl[c].op)
<1>1. cl[c].pc = "forward"
  BY DEF Forward, At
<1>2. /\ UNCHANGED <<status, acked, spoilt>>
      /\ Log' = acked \/ Log' = t
      /\ Log' = Log \/ (Log = acked /\ Log' = t)
      /\ \A r \in Replica : \/ copy'[r] = copy[r]
                            \/ /\ copy'[r] = t /\ Log' = copy'[r]
                               /\ Len(copy[r]) <= Len(copy'[r])
  BY ForwardLog
<1>3. /\ cl[c].op \in Op /\ t \in Seq(Op) /\ acked \in Seq(Op) /\ Len(acked) \in Nat
      /\ Len(t) = Len(acked) + 1
      /\ \A r \in Replica : copy[r] = t \/ Starts(copy[r], acked)
  BY <1>1, WriterLog
<1>4. /\ cl \in [Client -> Calling] /\ cl[c] \in Calling /\ copy \in [Replica -> Value]
      /\ Log \in Value /\ Len(Log) \in Nat
  BY CallShape, TInvParts, LogType DEF RestOK
<1>5. PICK g : cl' = [cl EXCEPT ![c] = g] /\ g.pc = "forward" /\ g.op = cl[c].op
  BY ForwardGoes
<1>6. \A d \in Client : cl'[d] = IF d = c THEN g ELSE cl[d]
  BY <1>4, <1>5
<1> HIDE DEF t
<1>7. Longer
  <2>1. Log' \in Value /\ Len(Log) <= Len(Log')
    BY <1>2, <1>3, <1>4 DEF Value
  <2>2. \A r \in Replica : Up(r)' => Up(r)
    BY <1>2 DEF Up
  <2>3. \A r \in Replica : Len(copy[r]) \in Nat
    BY <1>4 DEF Value
  <2>4. \A r \in Replica : Len(copy[r]) <= Len(copy'[r])
    BY <1>2, <2>3
  <2>5. QED
    BY <1>4, <2>1, <2>2, <2>4 DEF Longer
<1>8. Logged'
  <2>1. \A r \in Replica : Starts(copy'[r], acked) \/ copy'[r] = Log'
    <3>1. ASSUME NEW r \in Replica, copy'[r] = copy[r], ~Starts(copy[r], acked)
          PROVE  copy[r] = Log'
      <4>1. copy[r] = t /\ copy[r] = Log
        BY <1>3, <3>1 DEF LogInv, Logged
      <4>2. t # acked
        BY <1>3
      <4>3. QED
        BY <1>2, <4>1, <4>2
    <3>2. QED
      BY <1>2, <3>1
  <2>2. cl'[c].pc = "forward" /\ t = Append(acked, cl'[c].op)
    BY <1>5, <1>6 DEF t
  <2>4. acked' = acked /\ (Log' = acked' \/ Log' = t)
    BY <1>2
  <2>5. \E op \in Op : t = Append(acked', op)
    BY <1>2, <1>3 DEF t
  <2>6. Log' # acked' =>
            \E d \in Client : cl'[d].pc = "forward" /\ Log' = Append(acked', cl'[d].op)
    BY <2>2, <2>4
  <2>7. \A r \in Replica : Starts(copy[r], acked)' \/ copy'[r] = Log'
    BY <1>2, <2>1 DEF Starts
  <2>8. QED
    BY <2>4, <2>5, <2>6, <2>7 DEF Logged
<1>9. \A d \in Client : cl'[d] = cl[d] \/ UpToDate(cl'[d])
  BY <1>5, <1>6, SilentKnows
<1>10. QED
  BY <1>7, <1>8, <1>9, LogGoes

\* When the leader has applied the write, every copy is what was acknowledged at
\* some time.
LEMMA AppliedLogged ==
    ASSUME WritesDiffer, TInv, EntriesKept, KeptInv, TInv', LogInv, ~spoilt,
           NEW c \in Client, Applied(c)
    PROVE  LogInv'
<1>1. cl[c].pc = "forward"
  BY DEF Applied, At
<1>2. /\ UNCHANGED <<status, spoilt>> /\ Return(c)
      /\ acked' = Append(acked, cl[c].op) /\ Log' = acked'
      /\ \A r \in Replica : /\ Starts(copy'[r], acked')
                            /\ Len(copy[r]) <= Len(copy'[r])
  BY AppliedLog
<1>3. /\ Append(acked, cl[c].op) \in Seq(Op) /\ Len(acked) \in Nat
      /\ Len(Append(acked, cl[c].op)) = Len(acked) + 1
      /\ Log = acked \/ Log = Append(acked, cl[c].op)
  BY <1>1, WriterLog
<1>4. PICK g : cl' = [cl EXCEPT ![c] = g] /\ Silent(g)
  BY <1>2, ReturnSilent
<1>5. \A d \in Client : cl'[d] = IF d = c THEN g ELSE cl[d]
  BY <1>4, TInvParts
<1>6. Longer
  <2>1. Log \in Value /\ Log' \in Value /\ Len(Log) <= Len(Log')
    BY <1>2, <1>3, LogType DEF Value
  <2>2. \A r \in Replica : Up(r)' => Up(r)
    BY <1>2 DEF Up
  <2>3. QED
    BY <1>2, <2>1, <2>2 DEF Longer
<1>7. Logged'
  <2>1. \A r \in Replica : Starts(copy[r], acked)'
    BY <1>2 DEF Starts
  <2>2. QED
    BY <1>2, <2>1 DEF Logged
<1>8. \A d \in Client : cl'[d] = cl[d] \/ UpToDate(cl'[d])
  BY <1>4, <1>5, SilentKnows
<1>9. QED
  BY <1>6, <1>7, <1>8, LogGoes

\* When a process exits the calls that ran there are over, and a write that the
\* leader was forwarding stays in the log if some copy has it.
LEMMA ExitLogged ==
    ASSUME TInv, TInv', LogInv, ~spoilt, NEW r \in Replica, Exit(r)
    PROVE  LogInv'
<1>1. /\ UNCHANGED <<copy, acked>>
      /\ status' = [status EXCEPT ![r] = "exited"]
      /\ cl' = [d \in Client |-> IF RunsAt(d, r) THEN Idle(cl[d].calls) ELSE cl[d]]
  BY DEF Exit, Ends, machines
<1>2. status \in [Replica -> {"up", "exited", "aborted"}] /\ Leader \in Replica
  BY TInvParts, NAssumption DEF RestOK
<1>3. \A p \in Replica : Up(p)' => Up(p) /\ p # r
  BY <1>1, <1>2 DEF Up
<1>4. \A d \in Client : Silent(Idle(cl[d].calls))
  BY DEF Idle, Silent
<1>5. \A d \in Client : cl'[d] = cl[d] \/ UpToDate(cl'[d])
  <2>1. \A d \in Client : cl'[d] = cl[d] \/ cl'[d] = Idle(cl[d].calls)
    BY <1>1
  <2>2. \A d \in Client : UpToDate(Idle(cl[d].calls))
    BY <1>4, SilentKnows
  <2>3. QED
    BY <2>1, <2>2
<1>6. Logged'
  <2>1. \A d \in Client : cl[d].pc = "forward" /\ Up(Leader)' => cl'[d] = cl[d]
    BY <1>1, <1>2, <1>3 DEF RunsAt, At
  <2>2. QED
    BY <1>1, <1>2, <1>3, <2>1, LoggedStays DEF LogInv
<1>7. Longer
  BY <1>1, <1>3, LongerStays
<1>8. QED
  BY <1>5, <1>6, <1>7, LogGoes

\* Every step keeps what is said of the log.
LEMMA LogInvNext ==
    ASSUME WritesDiffer, TInv, EntriesKept, KeptInv, LogInv, [Next]_vars
    PROVE  LogInv'
<1>1. SUFFICES ASSUME ~spoilt, ~spoilt' PROVE LogInv'
  <2>1. spoilt => spoilt'
    BY SpoiltStays
  <2>2. QED
    BY <2>1 DEF LogInv
<1>2. TInv'
  BY TInvNext
<1>3. ASSUME NEW c \in Client, NEW g, cl' = [cl EXCEPT ![c] = g], Silent(cl[c]),
             Silent(g) \/ g.pc = "await", UNCHANGED <<status, copy, acked>>
      PROVE  LogInv'
  <2>1. cl[c].pc # "forward"
    BY <1>3 DEF Silent
  <2>2. UpToDate(g)
    BY <1>3, SilentKnows
  <2>3. QED
    BY <1>1, <1>2, <1>3, <2>1, <2>2, LogCall
<1>4. ASSUME NEW c \in Client, Create(c) \/ ScanReplica(c) \/ Place(c) \/ RemoveMachine(c)
      PROVE  LogInv'
  BY <1>1, <1>3, <1>4, CreateSilent, PlaceSilent, RemoveSilent
<1>5. ASSUME NEW c \in Client, Apply(c) PROVE LogInv'
  <2>1. /\ UNCHANGED <<status, copy, acked>> /\ Silent(cl[c])
        /\ \E g : cl' = [cl EXCEPT ![c] = g] /\ (Silent(g) \/ g.pc = "await")
    BY <1>1, <1>5, ApplyAsks DEF Silent
  <2>2. QED
    BY <1>3, <2>1
<1>6. ASSUME NEW c \in Client, Read(c) PROVE LogInv'
  <2>1. cl[c].pc = "idle" /\ UNCHANGED <<status, copy, acked>>
    BY <1>6, ReadGoes DEF machines
  <2>2. PICK g : cl' = [cl EXCEPT ![c] = g] /\ g.pc = "drain" /\ g.since = Len(Log)
    BY <1>6, ReadGoes
  <2>3. UpToDate(g)
    BY <2>2, LogType DEF UpToDate
  <2>4. QED
    BY <1>1, <1>2, <2>1, <2>2, <2>3, LogCall
<1>7. ASSUME NEW c \in Client, Await(c) PROVE LogInv'
  <2>1. cl[c].pc = "await" /\ UNCHANGED <<status, copy, acked>>
    BY <1>1, <1>7, AwaitGoes
  <2>2. PICK g : cl' = [cl EXCEPT ![c] = g] /\ g.pc = "forward" /\ g.op = cl[c].op
    BY <1>1, <1>7, AwaitGoes
  <2>3. UpToDate(g)
    BY <2>2, SilentKnows
  <2>4. QED
    BY <1>1, <1>2, <2>1, <2>2, <2>3, LogCall
<1>8. ASSUME NEW c \in Client, Forward(c) \/ Applied(c) PROVE LogInv'
  BY <1>1, <1>2, <1>8, ForwardLogged, AppliedLogged
<1>9. ASSUME NEW c \in Client,
             \/ Drain(c) \/ Survey(c) \/ Surveyed(c) \/ Copy(c) \/ Prepared(c)
             \/ Fetch(c) \/ Notify(c) \/ Install(c) \/ RemoveElsewhere(c)
      PROVE  LogInv'
  BY <1>1, <1>2, <1>9, ReadLogged
<1>10. ASSUME NEW c \in Client, Leave(c) PROVE LogInv'
  <2> DEFINE g == [Idle(<<>>) EXCEPT !.pc = "gone"]
  <2>1. /\ cl' = [cl EXCEPT ![c] = g] /\ cl[c].pc = "fetch"
        /\ UNCHANGED <<status, copy, acked>>
    BY <1>10 DEF Leave, At, machines
  <2>2. g.pc = "gone"
    BY DEF Idle
  <2> HIDE DEF g
  <2>3. UpToDate(g)
    BY <2>2, SilentKnows DEF Silent
  <2>4. QED
    BY <1>1, <1>2, <2>1, <2>3, LogCall
<1>11. ASSUME NEW r \in Replica, Exit(r) PROVE LogInv'
  BY <1>1, <1>2, <1>11, ExitLogged
<1>12. CASE UNCHANGED vars
  <2>1. Log' = Log
    BY <1>12, LogStays DEF vars, machines
  <2>2. QED
    BY <1>12, <2>1 DEF vars, machines, LogInv, Logged, UpToDate, Up, Starts
<1>13. QED
  BY <1>4, <1>5, <1>6, <1>7, <1>8, <1>9, <1>10, <1>11, <1>12 DEF Next, Step

\* At first the log is empty.
LEMMA LogInvInit == Init => LogInv
<1> SUFFICES ASSUME Init PROVE LogInv
  OBVIOUS
<1>1. acked = <<>> /\ \A r \in Replica : copy[r] = <<>>
  BY DEF Init
<1>2. Log = acked
  <2>1. \A r \in Replica : ~(Len(copy[r]) > Len(acked))
    BY <1>1
  <2>2. QED
    BY <2>1 DEF Log, Unacknowledged
<1>3. \A c \in Client : cl[c] = Idle(Program[c]) /\ Idle(Program[c]).pc = "idle"
  BY DEF Init, Idle
<1>4. QED
  BY <1>1, <1>2, <1>3 DEF LogInv, Logged, UpToDate

\* The inductive invariant with the log.
THEOREM InvariantOfLog ==
    EverywhereCopied =>
        (Spec => [](TInv /\ EntriesKept /\ WritesDiffer /\ KeptInv /\ LogInv))
<1> SUFFICES ASSUME EverywhereCopied
             PROVE  Spec => [](TInv /\ EntriesKept /\ WritesDiffer /\ KeptInv /\ LogInv)
  OBVIOUS
<1>1. Init => LogInv
  BY LogInvInit
<1>2. TInv /\ EntriesKept /\ WritesDiffer /\ KeptInv /\ LogInv /\ [Next]_vars =>
          LogInv'
  BY LogInvNext
<1>3. QED
  BY <1>1, <1>2, InvariantOfCopies, PTL DEF Spec

-----------------------------------------------------------------------------
(* The store implements the log. *)

\* What a call has asked, by where it stands.
LEMMA AskedFacts ==
    ASSUME NEW f
    PROVE  /\ Silent(f) => Asked(f) = SharedMachine!Nothing
           /\ f.pc \in {"await", "forward"} => Asked(f) = SharedMachine!Writes(f.op)
           /\ f.pc \in {"drain", "survey", "copy", "fetch"} =>
                  Asked(f) = SharedMachine!Reads(f.since)
           /\ f.pc = "notify" => Asked(f) = SharedMachine!Answer(f.value)
BY DEF Silent, Asked, SharedMachine!Nothing, SharedMachine!Writes, SharedMachine!Reads,
       SharedMachine!Answer

\* What the calls have asked, when that of c goes on.
LEMMA RequestsNext ==
    ASSUME TInv, ~spoilt, ~spoilt', NEW c \in Client, NEW g, cl' = [cl EXCEPT ![c] = g]
    PROVE  /\ Requests[c] = Asked(cl[c])
           /\ Requests' = [Requests EXCEPT ![c] = Asked(g)]
<1>1. \A d \in Client : cl'[d] = IF d = c THEN g ELSE cl[d]
  BY TInvParts
<1>2. Requests = [d \in Client |-> Asked(cl[d])] /\ Requests' = [d \in Client |-> Asked(cl'[d])]
  BY DEF Requests, Asked
<1>3. QED
  BY <1>1, <1>2

\* A call ends.
LEMMA EndMaps ==
    ASSUME TInv, ~spoilt, NEW c \in Client, NEW g, cl' = [cl EXCEPT ![c] = g],
           Silent(g), UNCHANGED <<copy, acked, spoilt>>
    PROVE  SharedMachine!Next
<1>1. Log' = Log /\ acked' = acked
  BY LogStays
<1>2. Requests' = [Requests EXCEPT ![c] = Asked(g)]
  BY RequestsNext
<1>3. Asked(g) = SharedMachine!Nothing
  BY AskedFacts
<1>4. Requests = [d \in Client |-> Asked(cl[d])]
  BY DEF Requests
<1>5. Requests' = [d \in Client |-> IF d \in {c} THEN SharedMachine!Nothing ELSE Requests[d]]
  BY <1>2, <1>3, <1>4
<1>6. SharedMachine!End({c})
  BY <1>1, <1>5 DEF SharedMachine!End
<1>7. QED
  BY <1>6 DEF SharedMachine!Next

\* A call goes on that has asked the same.
LEMMA SameMaps ==
    ASSUME TInv, ~spoilt, NEW c \in Client, NEW g, cl' = [cl EXCEPT ![c] = g],
           Asked(g) = Asked(cl[c]), UNCHANGED <<copy, acked, spoilt>>
    PROVE  UNCHANGED SharedMachine!state
<1>1. Log' = Log /\ acked' = acked
  BY LogStays
<1>2. Requests' = [Requests EXCEPT ![c] = Requests[c]]
  BY RequestsNext
<1>3. Requests' = Requests
  BY <1>2 DEF Requests
<1>4. QED
  BY <1>1, <1>3 DEF SharedMachine!state

\* A call asks something of the machine.
LEMMA AskMaps ==
    ASSUME TInv, ~spoilt, NEW c \in Client, NEW g, cl' = [cl EXCEPT ![c] = g],
           cl[c].pc = "idle", UNCHANGED <<copy, acked, spoilt>>,
           \/ g.pc = "await" /\ g.op \in Op
           \/ g.pc = "drain" /\ g.since = Len(Log)
    PROVE  SharedMachine!Next
<1>1. Log' = Log /\ acked' = acked
  BY LogStays
<1>2. Requests[c] = SharedMachine!Nothing
  BY RequestsNext, AskedFacts DEF Silent
<1>3. SharedMachine!Ask(c, Asked(g))
  BY <1>1, <1>2, RequestsNext DEF SharedMachine!Ask
<1>4. CASE g.pc = "await" /\ g.op \in Op
  <2>1. SharedMachine!Ask(c, SharedMachine!Writes(g.op))
    BY <1>3, <1>4, AskedFacts
  <2>2. QED
    BY <1>4, <2>1 DEF SharedMachine!Next
<1>5. CASE g.pc = "drain" /\ g.since = Len(Log)
  <2>1. SharedMachine!Ask(c, SharedMachine!Reads(Len(Log)))
    BY <1>3, <1>5, AskedFacts
  <2>2. QED
    BY <2>1 DEF SharedMachine!Next
<1>6. QED
  BY <1>4, <1>5

\* What a read finds in a copy is the log as it was since the read began.
LEMMA FetchMaps ==
    ASSUME TInv, LogInv, ~spoilt, NEW c \in Client, NEW g,
           cl' = [cl EXCEPT ![c] = g], UNCHANGED <<copy, acked, spoilt>>,
           cl[c].pc = "fetch", g.pc = "notify",
           NEW r \in Replica, Up(r), g.value = copy[r]
    PROVE  SharedMachine!Next
<1> DEFINE n == Len(copy[r])
<1>1. Log' = Log /\ acked' = acked
  BY LogStays
<1>2. /\ copy[r] \in Seq(Op) /\ acked \in Seq(Op) /\ n \in Nat
      /\ Log \in Seq(Op) /\ Len(Log) \in Nat /\ cl[c].since \in Nat
  BY TInvParts, LogType, CallShape DEF RestOK, Value, Calling
<1>3. cl[c].since <= n
  BY DEF LogInv, UpToDate
<1>4. n \in 0 .. Len(Log) /\ copy[r] = SubSeq(Log, 1, n)
  <2>1. Starts(copy[r], Log)
    <3>1. CASE copy[r] = Log
      <4>1. Len(Log) \in 0 .. Len(Log) /\ SubSeq(Log, 1, Len(Log)) = Log
        BY <1>2
      <4>2. QED
        BY <3>1, <4>1 DEF Starts
    <3>2. CASE Starts(copy[r], acked) /\ Log = acked
      BY <3>2
    <3>3. ASSUME Starts(copy[r], acked), NEW op \in Op, Log = Append(acked, op)
          PROVE  Starts(copy[r], Log)
      BY <1>2, <3>3, StartsFacts
    <3>4. QED
      BY <3>1, <3>2, <3>3 DEF LogInv, Logged
  <2>2. PICK m \in 0 .. Len(Log) : copy[r] = SubSeq(Log, 1, m)
    BY <2>1 DEF Starts
  <2>3. Len(SubSeq(Log, 1, m)) = m
    BY <1>2, <2>2
  <2>4. QED
    BY <2>2, <2>3
<1> HIDE DEF n
<1>5. /\ Requests[c] = SharedMachine!Reads(cl[c].since)
      /\ cl[c].since \in 0 .. n
  <2>1. Asked(cl[c]) = SharedMachine!Reads(cl[c].since)
    BY AskedFacts
  <2>2. Requests[c] = Asked(cl[c])
    BY RequestsNext
  <2>3. QED
    BY <1>2, <1>3, <2>1, <2>2
<1>6. Requests' = [Requests EXCEPT ![c] = SharedMachine!Answer(SubSeq(Log, 1, n))]
  <2>1. Asked(g) = SharedMachine!Answer(SubSeq(Log, 1, n))
    BY <1>4, AskedFacts
  <2>2. Requests' = [Requests EXCEPT ![c] = Asked(g)]
    BY RequestsNext
  <2>3. QED
    BY <2>1, <2>2
<1>7. SharedMachine!ReadLog(c, n)
  BY <1>1, <1>5, <1>6 DEF SharedMachine!ReadLog
<1>8. QED
  BY <1>4, <1>7 DEF SharedMachine!Next

\* A write is performed when it comes to the first copy.
LEMMA ForwardMaps ==
    ASSUME WritesDiffer, TInv, EntriesKept, KeptInv, LogInv, ~spoilt,
           NEW c \in Client, Forward(c)
    PROVE  SharedMachine!Next \/ UNCHANGED SharedMachine!state
<1> DEFINE op == cl[c].op
<1>1. UNCHANGED <<acked, spoilt>>
  BY ForwardLog
<1>2. Log' = Log \/ (Log = acked /\ Log' = Append(acked, op))
  BY ForwardLog
<1>3. PICK g : cl' = [cl EXCEPT ![c] = g] /\ g.pc = "forward" /\ g.op = op
  BY ForwardGoes
<1>4. cl[c].pc = "forward" /\ op \in Op
  BY ForwardGoes, WriterLog
<1>5. Asked(cl[c]) = SharedMachine!Writes(op)
  BY <1>4, AskedFacts
<1> HIDE DEF op
<1>6. Asked(g) = SharedMachine!Writes(op)
  BY <1>3, AskedFacts
<1>7. Requests[c] = SharedMachine!Writes(op) /\ Requests' = Requests
  <2>1. Requests[c] = Asked(cl[c]) /\ Requests' = [Requests EXCEPT ![c] = Asked(g)]
    BY <1>1, <1>3, RequestsNext
  <2>2. Requests' = [Requests EXCEPT ![c] = Requests[c]]
    BY <1>5, <1>6, <2>1
  <2>3. QED
    BY <1>5, <2>1, <2>2 DEF Requests
<1>8. CASE Log' = Log
  BY <1>1, <1>7, <1>8 DEF SharedMachine!state
<1>9. CASE Log = acked /\ Log' = Append(acked, op)
  <2>1. SharedMachine!Perform(c, op)
    BY <1>1, <1>7, <1>9 DEF SharedMachine!Perform
  <2>2. QED
    BY <1>4, <2>1 DEF SharedMachine!Next
<1>10. QED
  BY <1>2, <1>8, <1>9

\* A write that returns has been performed.
LEMMA AppliedMaps ==
    ASSUME WritesDiffer, TInv, EntriesKept, KeptInv, LogInv, ~spoilt,
           NEW c \in Client, Applied(c)
    PROVE  SharedMachine!Next
<1> DEFINE op == cl[c].op
           t == Append(acked, op)
<1>1. cl[c].pc = "forward" /\ UNCHANGED spoilt
  BY DEF Applied, At
<1>2. Return(c) /\ acked' = t /\ Log' = t
  BY AppliedLog
<1>3. /\ op \in Op /\ Len(acked) \in Nat /\ Len(t) = Len(acked) + 1
      /\ Log = acked \/ Log = t
      /\ acked \in Seq(Op)
  BY <1>1, WriterLog
<1>4. t[Len(acked) + 1] = op
  BY <1>3
<1>5. PICK g : cl' = [cl EXCEPT ![c] = g] /\ Silent(g)
  BY <1>2, ReturnSilent
<1>6. Asked(cl[c]) = SharedMachine!Writes(op) /\ Asked(g) = SharedMachine!Nothing
  BY <1>1, <1>5, AskedFacts
<1>7. Requests[c] = Asked(cl[c]) /\ Requests' = [Requests EXCEPT ![c] = Asked(g)]
  BY <1>1, <1>5, RequestsNext
<1>8. /\ Requests[c] = SharedMachine!Writes(op)
      /\ Requests' = [Requests EXCEPT ![c] = SharedMachine!Nothing]
  BY <1>6, <1>7
<1>9. Log' \in {Log, Append(Log, op)}
  BY <1>2, <1>3
<1> HIDE DEF op, t
<1>10. SharedMachine!Acknowledge(c, op)
  BY <1>1, <1>2, <1>3, <1>4, <1>8, <1>9 DEF SharedMachine!Acknowledge
<1>11. QED
  BY <1>3, <1>10 DEF SharedMachine!Next

\* A read goes on, is answered, or is over.
LEMMA ReadMaps ==
    ASSUME TInv, KeptInv, LogInv, ~spoilt, NEW c \in Client,
           \/ Drain(c) \/ Survey(c) \/ Surveyed(c) \/ Copy(c) \/ Prepared(c)
           \/ Fetch(c) \/ Notify(c) \/ Install(c) \/ RemoveElsewhere(c)
    PROVE  SharedMachine!Next \/ UNCHANGED SharedMachine!state
<1>1. UNCHANGED <<copy, acked, spoilt>>
  BY ReadMoves DEF machines
<1>2. CASE Return(c)
  <2>1. PICK g : cl' = [cl EXCEPT ![c] = g] /\ Silent(g)
    BY <1>2, ReturnSilent
  <2>2. QED
    BY <1>1, <2>1, EndMaps
<1>3. CASE ~Return(c)
  <2>1. PICK g : /\ cl' = [cl EXCEPT ![c] = g]
                 /\ \/ /\ cl[c].pc \in {"drain", "survey", "copy"}
                       /\ g.pc \in {"survey", "copy", "fetch"}
                       /\ g.since = cl[c].since
                    \/ /\ cl[c].pc = "fetch" /\ g.pc = "notify"
                       /\ \E r \in Replica : Up(r) /\ g.value = copy[r]
    BY <1>3, ReadMoves
  <2>2. CASE /\ cl[c].pc \in {"drain", "survey", "copy"}
             /\ g.pc \in {"survey", "copy", "fetch"} /\ g.since = cl[c].since
    <3>1. Asked(cl[c]) = SharedMachine!Reads(cl[c].since)
      BY <2>2, AskedFacts
    <3>2. Asked(g) = SharedMachine!Reads(cl[c].since)
      BY <2>2, AskedFacts
    <3>3. QED
      BY <1>1, <2>1, <3>1, <3>2, SameMaps
  <2>3. ASSUME cl[c].pc = "fetch", g.pc = "notify",
               NEW r \in Replica, Up(r), g.value = copy[r]
        PROVE  SharedMachine!Next
    BY <1>1, <2>1, <2>3, FetchMaps
  <2>4. QED
    BY <2>1, <2>2, <2>3
<1>4. QED
  BY <1>2, <1>3

\* The calls that ran at a process that exits are over.
LEMMA ExitMaps ==
    ASSUME TInv, ~spoilt, NEW r \in Replica, Exit(r)
    PROVE  SharedMachine!Next
<1> DEFINE D == {d \in Client : RunsAt(d, r)}
<1>1. /\ UNCHANGED <<copy, acked, spoilt>>
      /\ cl' = [d \in Client |-> IF RunsAt(d, r) THEN Idle(cl[d].calls) ELSE cl[d]]
  BY DEF Exit, Ends, machines
<1>2. Log' = Log
  BY <1>1, LogStays
<1>3. \A d \in Client : Asked(Idle(cl[d].calls)) = SharedMachine!Nothing
  <2>1. \A d \in Client : Silent(Idle(cl[d].calls))
    BY DEF Idle, Silent
  <2>2. QED
    BY <2>1, AskedFacts
<1>4. /\ Requests = [d \in Client |-> Asked(cl[d])]
      /\ Requests' = [d \in Client |-> Asked(cl'[d])]
  BY <1>1 DEF Requests, Asked
<1>5. \A d \in Client : cl'[d] = IF d \in D THEN Idle(cl[d].calls) ELSE cl[d]
  BY <1>1
<1> HIDE DEF D
<1>6. Requests' = [d \in Client |-> IF d \in D THEN SharedMachine!Nothing ELSE Requests[d]]
  BY <1>3, <1>4, <1>5
<1>7. SharedMachine!End(D)
  BY <1>1, <1>2, <1>6 DEF SharedMachine!End
<1>8. D \in SUBSET Client
  BY DEF D
<1>9. QED
  BY <1>7, <1>8 DEF SharedMachine!Next

\* A step that spoils the machine ends the log.
LEMMA SpoilMaps ==
    ASSUME TInv', ~spoilt, spoilt'
    PROVE  SharedMachine!Next
<1>1. spoilt' = TRUE
  BY DEF TInv, TypeOK
<1>2. Requests' = [d \in Client |-> SharedMachine!Nothing]
  BY DEF Requests, SharedMachine!Nothing
<1>3. SharedMachine!Spoil
  BY <1>1, <1>2 DEF SharedMachine!Spoil
<1>4. QED
  BY <1>3 DEF SharedMachine!Next

\* remove() ends the log, or finds none.
LEMMA RemoveMaps ==
    ASSUME TInv, TInv', ~spoilt, NEW c \in Client, RemoveMachine(c)
    PROVE  SharedMachine!Next
<1>1. CASE spoilt'
  BY <1>1, SpoilMaps
<1>2. CASE ~spoilt'
  <2>1. UNCHANGED <<copy, acked, spoilt>>
    BY <1>2, RemoveSilent
  <2>2. PICK g : cl' = [cl EXCEPT ![c] = g] /\ Silent(g)
    BY <1>2, RemoveSilent
  <2>3. QED
    BY <2>1, <2>2, EndMaps
<1>3. QED
  BY <1>1, <1>2
\* Nothing is promised of a machine that is spoilt.
LEMMA RemovedMaps ==
    ASSUME TInv, spoilt, [Next]_vars PROVE UNCHANGED SharedMachine!state
<1>1. spoilt = TRUE
  BY TInvParts DEF RestOK
<1>2. spoilt' = spoilt
  BY <1>1 DEF Next, Step, Create, ScanReplica, Place, Apply, Await, Forward, Applied,
              Read, Drain, Survey, Surveyed, Copy, Install, Prepared, Fetch, Notify,
              RemoveMachine, RemoveElsewhere, Exit, Leave, vars
<1>3. Requests' = Requests
  BY <1>1, <1>2 DEF Requests
<1>4. QED
  BY <1>1, <1>2, <1>3 DEF SharedMachine!state

\* A front end that ends between the calls of a read leaves it.
LEMMA LeaveMaps ==
    ASSUME TInv, ~spoilt, NEW c \in Client, Leave(c) PROVE SharedMachine!Next
<1> DEFINE g == [Idle(<<>>) EXCEPT !.pc = "gone"]
<1>1. cl' = [cl EXCEPT ![c] = g] /\ UNCHANGED <<copy, acked, spoilt>>
  BY DEF Leave, machines
<1>2. Silent(g)
  BY DEF Idle, Silent
<1> HIDE DEF g
<1>3. QED
  BY <1>1, <1>2, EndMaps

\* Every step of the store is a step of the log, or none.
LEMMA StepMaps ==
    ASSUME WritesDiffer, TInv, EntriesKept, KeptInv, LogInv, [Next]_vars
    PROVE  [SharedMachine!Next]_SharedMachine!state
<1>1. CASE spoilt
  BY <1>1, RemovedMaps
<1>2. TInv'
  BY TInvNext
<1>3. CASE ~spoilt /\ spoilt'
  BY <1>2, <1>3, SpoilMaps
<1>4. CASE ~spoilt /\ ~spoilt'
  <2>1. ASSUME NEW c \in Client, Create(c) \/ ScanReplica(c) PROVE SharedMachine!Next
    <3>1. UNCHANGED <<copy, acked, spoilt>>
      BY <1>4, <2>1, CreateSilent
    <3>2. PICK g : cl' = [cl EXCEPT ![c] = g] /\ Silent(g)
      BY <1>4, <2>1, CreateSilent
    <3>3. QED
      BY <1>4, <3>1, <3>2, EndMaps
  <2>2. ASSUME NEW c \in Client, Place(c) PROVE SharedMachine!Next
    <3>1. UNCHANGED <<copy, acked, spoilt>>
      BY <1>4, <2>2, PlaceSilent
    <3>2. PICK g : cl' = [cl EXCEPT ![c] = g] /\ Silent(g)
      BY <1>4, <2>2, PlaceSilent
    <3>3. QED
      BY <1>4, <3>1, <3>2, EndMaps
  <2>3. ASSUME NEW c \in Client, Apply(c), ~spoilt' PROVE SharedMachine!Next
    <3>1. UNCHANGED <<copy, acked, spoilt>> /\ cl[c].pc = "idle"
      BY <2>3, ApplyAsks
    <3>2. PICK g : /\ cl' = [cl EXCEPT ![c] = g]
                   /\ Silent(g) \/ (g.pc = "await" /\ g.op \in Op)
      BY <2>3, ApplyAsks
    <3>3. CASE Silent(g)
      BY <1>4, <3>1, <3>2, <3>3, EndMaps
    <3>4. CASE g.pc = "await" /\ g.op \in Op
      BY <1>4, <3>1, <3>2, <3>4, AskMaps
    <3>5. QED
      BY <3>2, <3>3, <3>4
  <2>4. ASSUME NEW c \in Client, Read(c) PROVE SharedMachine!Next
    <3>1. UNCHANGED <<copy, acked, spoilt>> /\ cl[c].pc = "idle"
      BY <2>4, ReadGoes DEF machines
    <3>2. PICK g : cl' = [cl EXCEPT ![c] = g] /\ g.pc = "drain" /\ g.since = Len(Log)
      BY <2>4, ReadGoes
    <3>3. QED
      BY <1>4, <3>1, <3>2, AskMaps
  <2>5. ASSUME NEW c \in Client, Await(c) PROVE UNCHANGED SharedMachine!state
    <3>1. UNCHANGED <<copy, acked, spoilt>> /\ cl[c].pc = "await"
      BY <1>4, <2>5, AwaitGoes
    <3>2. PICK g : cl' = [cl EXCEPT ![c] = g] /\ g.pc = "forward" /\ g.op = cl[c].op
      BY <1>4, <2>5, AwaitGoes
    <3>3. Asked(cl[c]) = SharedMachine!Writes(cl[c].op)
      BY <3>1, AskedFacts
    <3>4. Asked(g) = SharedMachine!Writes(cl[c].op)
      BY <3>2, AskedFacts
    <3>5. QED
      BY <1>4, <3>1, <3>2, <3>3, <3>4, SameMaps
  <2>6. ASSUME NEW c \in Client, Forward(c) \/ Applied(c)
        PROVE  SharedMachine!Next \/ UNCHANGED SharedMachine!state
    BY <1>4, <2>6, ForwardMaps, AppliedMaps
  <2>7. ASSUME NEW c \in Client,
               \/ Drain(c) \/ Survey(c) \/ Surveyed(c) \/ Copy(c) \/ Prepared(c)
               \/ Fetch(c) \/ Notify(c) \/ Install(c) \/ RemoveElsewhere(c)
        PROVE  SharedMachine!Next \/ UNCHANGED SharedMachine!state
    BY <1>4, <2>7, ReadMaps
  <2>8. ASSUME NEW c \in Client, RemoveMachine(c) \/ Leave(c) PROVE SharedMachine!Next
    BY <1>4, <1>2, <2>8, RemoveMaps, LeaveMaps
  <2>9. ASSUME NEW r \in Replica, Exit(r) PROVE SharedMachine!Next
    BY <1>4, <2>9, ExitMaps
  <2>10. CASE UNCHANGED vars
    <3>1. Log' = Log /\ UNCHANGED <<cl, acked, spoilt>>
      BY <2>10, LogStays DEF vars, machines
    <3>2. Requests' = Requests
      BY <3>1 DEF Requests, Asked
    <3>3. QED
      BY <3>1, <3>2 DEF SharedMachine!state
  <2>11. QED
    BY <2>1, <2>2, <2>3, <2>4, <2>5, <2>6, <2>7, <2>8, <2>9, <2>10, <1>4 DEF Next, Step
<1>5. QED
  BY <1>1, <1>3, <1>4

\* The log is empty at first, and nobody has asked for anything.
LEMMA InitMaps == Init => SharedMachine!Init
<1> SUFFICES ASSUME Init PROVE SharedMachine!Init
  OBVIOUS
<1>1. spoilt = FALSE /\ acked = <<>>
  BY DEF Init
<1>2. Log = <<>>
  <2>1. \A r \in Replica : ~(Len(copy[r]) > Len(acked))
    BY DEF Init
  <2>2. QED
    BY <1>1, <2>1, LogCases
<1>3. Requests = [c \in Client |-> SharedMachine!Nothing]
  <2>1. \A c \in Client : cl[c] = Idle(Program[c]) /\ Silent(Idle(Program[c]))
    BY DEF Init, Idle, Silent
  <2>2. \A c \in Client : Asked(cl[c]) = SharedMachine!Nothing
    BY <2>1, AskedFacts
  <2>3. QED
    BY <1>1, <2>2 DEF Requests
<1>4. QED
  BY <1>1, <1>2, <1>3 DEF SharedMachine!Init

\* The store is linearizable, for any number of front ends, operations and replicas
\* that all get a copy, and whoever exits: the machine is one log.  An apply() puts
\* its operation at the end, and a getState() returns the log as it was at some
\* moment between prepareGetState() and the answer (replica_handler.cpp,
\* frontend.cpp).  Until it is removed, or two front ends have the same write
\* waiting at once.
THEOREM StoreImplementsSharedLog == EverywhereCopied => (Spec => ImplementsSharedLog)
<1> SUFFICES ASSUME EverywhereCopied PROVE Spec => ImplementsSharedLog
  OBVIOUS
<1>1. Init => SharedMachine!Init
  BY InitMaps
<1>2. TInv /\ EntriesKept /\ WritesDiffer /\ KeptInv /\ LogInv /\ [Next]_vars =>
          [SharedMachine!Next]_SharedMachine!state
  BY StepMaps
<1>3. QED
  BY <1>1, <1>2, InvariantOfLog, PTL DEF Spec, ImplementsSharedLog, SharedMachine!Spec
=============================================================================
