---------------------------- MODULE ReplicaStore ----------------------------
(***************************************************************************)
(* The store of MP2 (replica_handler.cpp) and its use by front ends        *)
(* (frontend.cpp): create(), apply(), getState() and remove() of a state   *)
(* machine that is copied to MIN_REPLICAS replicas, ordered by the request *)
(* queue of the leader.                                                    *)
(*                                                                         *)
(* One machine is modelled; the number of others, which only steers where  *)
(* a copy is put and read, is arbitrary.  Its state is the sequence of the *)
(* operations applied to it.  The leader is elected and known to all (see  *)
(* Election) and nobody replaces it.  A step is one call to a replica, or  *)
(* what a handler does between two calls or waits.  A front end makes one  *)
(* call at a time, so the handlers that work for it share one record.      *)
(* Calls from the leader to another replica take turns on one connection,  *)
(* so the queue of another replica is empty whenever a write arrives.      *)
(***************************************************************************)
EXTENDS Naturals, Sequences, SequencesExt, FiniteSets

CONSTANTS
    N,             \* numreplicas; the replicas are 0 .. N - 1
    Leader,        \* the leader that was elected
    MinReplicas,   \* MIN_REPLICAS
    Client,        \* the front ends
    Op,            \* operations of the machine
    MayWrite,      \* MayWrite[c]: the operations that c applies
    Program,       \* bound: Program[c], the calls c makes, in this order
    Mortal         \* bound: the replicas that may exit

Replica == 0 .. N - 1
Kind == {"create", "apply", "read", "remove"}

ASSUME NAssumption == N \in Nat \ {0} /\ Leader \in Replica
ASSUME MinReplicasAssumption == MinReplicas \in Nat \ {0}
ASSUME ClientAssumption == /\ MayWrite \in [Client -> SUBSET Op]
                           /\ Program \in [Client -> Seq(Kind)]
                           /\ Mortal \subseteq Replica

NoOne == N
None == "none"     \* no operation
Value == Seq(Op)

VARIABLES
    status,    \* status[r]: the process of r runs, has exited or was killed
    holders,   \* the replicas with name in machines
    copy,      \* copy[r]: the state of machines[name] at a holder r
    queue,     \* requestQueue[name] of the leader
    cl,        \* cl[c]: the call that front end c makes and where it stands;
               \* history: since, the length of the Log when a read began
    made,      \* a create() has returned: front ends use the machine
    acked,     \* history: the operations whose apply() has returned
    lost,      \* history: the front ends that left an entry of theirs queued
    spoilt     \* history: a remove() has begun, or two front ends had one and the
               \* same write waiting, which the queue cannot tell apart

machines == <<holders, copy>>
vars == <<status, machines, queue, cl, made, acked, lost, spoilt>>

Write(op) == [kind |-> "w", op |-> op]

\* Mutant: the entry is written before a replica has been picked.
ReadingNobody(r, c) == [kind |-> "r", at |-> NoOne, by |-> c]

Reading(r, c) == [kind |-> "r", at |-> r, by |-> c]

Idle(calls) ==
    [pc |-> "idle", calls |-> calls, op |-> None, i |-> 0, j |-> 0,
     count |-> 0, pick |-> NoOne, preexisting |-> TRUE, where |-> NoOne,
     lacking |-> <<>>, found |-> 0, k |-> 1, value |-> <<>>, since |-> 0]

\* History: the operations applied, which are those acknowledged and perhaps one
\* more, that has come to some copy, even one of a replica that has exited.
Unacknowledged == {copy[r] : r \in {p \in Replica : Len(copy[p]) > Len(acked)}}
Log == IF Unacknowledged = {} THEN acked ELSE CHOOSE s \in Unacknowledged : TRUE

Up(r) == status[r] = "up"
Has(r) == r \in holders
At(c, pc) == cl[c].pc = pc

\* The call of c is over, or has thrown.
Return(c) == cl' = [cl EXCEPT ![c] = Idle(@.calls)]

\* What runs for c runs in the process of r.
RunsAt(c, r) ==
    CASE At(c, "idle") \/ At(c, "fetch") \/ At(c, "gone") -> FALSE
      [] At(c, "install") \/ At(c, "notify") -> r = cl[c].where
      [] OTHER -> r = Leader

\* The process of r ends, and with it the calls that run there and those of D.
Ends(r, how, D) ==
    LET ended == D \cup {c \in Client : RunsAt(c, r)}
    IN  /\ status' = [status EXCEPT ![r] = how]
        /\ cl' = [c \in Client |-> IF c \in ended THEN Idle(cl[c].calls) ELSE cl[c]]
        /\ lost' = lost \cup {c \in ended : At(c, "notify")}

\* A handler of r, working for c, uses a null pointer.
Aborts(r, c) == Ends(r, "aborted", {c})

\* c makes its next call.
Calls(c, kind) ==
    /\ At(c, "idle") /\ Up(Leader)
    /\ cl[c].calls # <<>> /\ Head(cl[c].calls) = kind
    /\ kind # "create" => made

Begin(c, pc) == [Idle(Tail(cl[c].calls)) EXCEPT !.pc = pc]

-----------------------------------------------------------------------------
(* create() *)

Scan(f) == [f EXCEPT !.pc = "scan", !.i = 0, !.count = 0, !.pick = NoOne]

Create(c) ==
    /\ Calls(c, "create")
    /\ cl' = [cl EXCEPT ![c] = Scan(Begin(c, "scan"))]
    /\ UNCHANGED <<status, machines, queue, made, acked, lost, spoilt>>

\* Counts the copies and looks for a replica without one that holds few machines.
ScanReplica(c) ==
    LET f == cl[c]
        next == [f EXCEPT !.i = @ + 1]
    IN  /\ At(c, "scan") /\ f.i < N
        /\ \/ ~Up(f.i) /\ cl' = [cl EXCEPT ![c] = next]
           \/ /\ Up(f.i) /\ Has(f.i)
              /\ cl' = [cl EXCEPT ![c] = [next EXCEPT !.count = @ + 1]]
           \/ /\ Up(f.i) /\ ~Has(f.i)
              /\ \E r \in {f.i, f.pick} \ {NoOne} :
                     cl' = [cl EXCEPT ![c] = [next EXCEPT !.pick = r]]
        /\ UNCHANGED <<status, machines, queue, made, acked, lost, spoilt>>

\* The handler returns, to the front end or to the makeCopy() that called it.
\* "Leader throws an exception if the state previously existed anywhere."
CreateReturns(c, preexisting) ==
    LET from == cl[c].where
    IN  IF from # NoOne /\ Up(from) /\ ~preexisting
        THEN cl' = [cl EXCEPT ![c].pc = "copy", ![c].k = @ + 1] /\ UNCHANGED made
        ELSE Return(c) /\ made' = (made \/ (from = NoOne /\ ~preexisting))

\* One more copy, or enough, or nobody left to put it on (replicas[-1] throws).
Place(c) ==
    LET f == cl[c]
        r == f.pick
        preexisting == f.preexisting /\ f.count > 0
    IN  /\ At(c, "scan") /\ f.i = N
        /\ \/ /\ f.count >= MinReplicas
              /\ CreateReturns(c, preexisting)
              /\ UNCHANGED machines
           \/ /\ f.count < MinReplicas
              /\ \/ r = NoOne
                 \/ r # NoOne /\ r # Leader /\ (~Up(r) \/ Has(r))
              /\ Return(c)
              /\ UNCHANGED <<machines, made>>
           \/ /\ f.count < MinReplicas /\ r # NoOne
              /\ r = Leader \/ (Up(r) /\ ~Has(r))
              /\ holders' = holders \cup {r}
              /\ copy' = IF Has(r) THEN copy ELSE [copy EXCEPT ![r] = f.value]
              /\ IF f.j + 1 = MinReplicas
                 THEN CreateReturns(c, preexisting)
                 ELSE /\ cl' = [cl EXCEPT ![c] = [Scan(f) EXCEPT
                             !.j = @ + 1, !.preexisting = preexisting]]
                      /\ UNCHANGED made
        /\ UNCHANGED <<status, queue, acked, lost, spoilt>>

-----------------------------------------------------------------------------
(* apply() *)

\* d waits for its own op to come to the copies.
Applies(d, op) == (At(d, "await") \/ At(d, "forward")) /\ cl[d].op = op

Apply(c) ==
    /\ Calls(c, "apply")
    /\ \/ /\ ~Has(Leader)
          /\ cl' = [cl EXCEPT ![c] = Begin(c, "idle")]
          /\ UNCHANGED <<queue, spoilt>>
       \/ /\ Has(Leader)
          /\ \E op \in MayWrite[c] :
                 /\ queue' = Append(queue, Write(op))
                 /\ cl' = [cl EXCEPT ![c] = [Begin(c, "await") EXCEPT !.op = op]]
                 /\ spoilt' = (spoilt \/ \E d \in Client : Applies(d, op))
    /\ UNCHANGED <<status, machines, made, acked, lost>>

\* Mutant: it is enough that the write is queued.
AtHeadAnywhere(c) == Write(cl[c].op) \in ToSet(queue)

\* The entry is recognised by its value.
AtHead(c) == queue # <<>> /\ Head(queue) = Write(cl[c].op)

\* If remove() has erased the queue, the handler reads element 0 of an empty
\* vector, which is a null pointer.
Await(c) ==
    /\ At(c, "await")
    /\ \/ /\ AtHead(c)
          /\ cl' = [cl EXCEPT ![c].pc = "forward"]
          /\ UNCHANGED <<status, lost>>
       \/ queue = <<>> /\ Aborts(Leader, c)
    /\ UNCHANGED <<machines, queue, made, acked, spoilt>>

\* Mutant: the loop stops at the first replica.
ForwardedToOne(c) == cl[c].i >= 1

Forwarded(c) == cl[c].i = N

\* apply() at another replica; its failures are ignored.
Forward(c) ==
    LET r == cl[c].i
    IN  /\ At(c, "forward") /\ ~Forwarded(c)
        /\ copy' = IF r # Leader /\ Up(r) /\ Has(r)
                   THEN [copy EXCEPT ![r] = Append(@, cl[c].op)] ELSE copy
        /\ cl' = [cl EXCEPT ![c].i = @ + 1]
        /\ UNCHANGED <<status, holders, queue, made, acked, lost, spoilt>>

\* Mutants: another entry is erased; all are.
DequeueLast(q) == Front(q)
DequeueAll(q) == <<>>

Dequeue(q) == Tail(q)

\* The leader applies the operation and erases the first entry, each of which is
\* fatal if remove() has erased the machine or the queue.
Applied(c) ==
    /\ At(c, "forward") /\ Forwarded(c)
    /\ \/ /\ Has(Leader) /\ queue # <<>>
          /\ copy' = [copy EXCEPT ![Leader] = Append(@, cl[c].op)]
          /\ queue' = Dequeue(queue)
          /\ acked' = Append(acked, cl[c].op)
          /\ Return(c)
          /\ UNCHANGED <<status, holders, lost>>
       \/ /\ ~Has(Leader) \/ queue = <<>>
          /\ Aborts(Leader, c)
          /\ UNCHANGED <<machines, queue, acked>>
    /\ UNCHANGED <<made, spoilt>>

-----------------------------------------------------------------------------
(* getState(): prepareGetState() at the leader, then getState() at the replica
   it names. *)

Read(c) ==
    /\ Calls(c, "read")
    /\ cl' = [cl EXCEPT ![c] = [Begin(c, "drain") EXCEPT !.since = Len(Log)]]
    /\ UNCHANGED <<status, machines, queue, made, acked, lost, spoilt>>

\* Mutant: the first entry is not looked at.
DrainedButFirst == \A i \in 2 .. Len(queue) : queue[i].kind # "w"

Drained == \A e \in ToSet(queue) : e.kind # "w"

\* "Block until queue does not have any writes for this state."
Drain(c) ==
    /\ At(c, "drain") /\ Drained
    /\ cl' = [cl EXCEPT ![c].pc = "survey"]
    /\ UNCHANGED <<status, machines, queue, made, acked, lost, spoilt>>

\* Counts the copies, picks one of them by load, and notes who lacks one.
Survey(c) ==
    LET f == cl[c]
        next == [f EXCEPT !.i = @ + 1]
    IN  /\ At(c, "survey") /\ f.i < N
        /\ \/ ~Up(f.i) /\ cl' = [cl EXCEPT ![c] = next]
           \/ /\ Up(f.i) /\ Has(f.i)
              /\ \E r \in {f.i, f.where} \ {NoOne} :
                     cl' = [cl EXCEPT ![c] =
                         [next EXCEPT !.where = r, !.found = @ + 1]]
           \/ /\ Up(f.i) /\ ~Has(f.i)
              /\ cl' = [cl EXCEPT ![c] =
                     [next EXCEPT !.lacking = Append(@, f.i)]]
        /\ UNCHANGED <<status, machines, queue, made, acked, lost, spoilt>>

Surveyed(c) ==
    /\ At(c, "survey") /\ cl[c].i = N
    /\ IF cl[c].found = 0 THEN Return(c) ELSE cl' = [cl EXCEPT ![c].pc = "copy"]
    /\ UNCHANGED <<status, machines, queue, made, acked, lost, spoilt>>

\* The index mmi of the replica to copy to.  The loop that sets it asks replica
\* number k - 1, not the k-th that lacks a copy; if that one is dead, or enough
\* copies were found, mmi is not initialised.
MmiIsSet(f) == f.found < MinReplicas /\ f.k - 1 \in Replica /\ Up(f.k - 1)

Target(f) == IF MmiIsSet(f) THEN {f.lacking[f.k]} ELSE ToSet(f.lacking)

\* makeCopy() at the replica picked: reads its own copy (a null pointer, if it
\* has been removed).  A stray mmi is fatal, or makes the call throw.
Copy(c) ==
    LET f == cl[c]
    IN  /\ At(c, "copy") /\ f.k <= Len(f.lacking)
        /\ \/ /\ Up(f.where) /\ Has(f.where)
              /\ \E r \in Target(f) :
                     cl' = [cl EXCEPT ![c].pc = "install", ![c].pick = r,
                                      ![c].value = copy[f.where]]
              /\ UNCHANGED <<status, lost>>
           \/ /\ ~Up(f.where) \/ ~MmiIsSet(f)
              /\ Return(c)
              /\ UNCHANGED <<status, lost>>
           \/ ~MmiIsSet(f) /\ Aborts(Leader, c)
           \/ /\ Up(f.where) /\ ~Has(f.where)
              /\ Aborts(f.where, c)
        /\ UNCHANGED <<machines, queue, made, acked, spoilt>>

\* create() at the target; the leader runs its own form of it.
Install(c) ==
    LET f == cl[c]
        r == f.pick
    IN  /\ At(c, "install")
        /\ \/ /\ ~Up(r) \/ (r # Leader /\ Has(r))
              /\ Return(c)
              /\ UNCHANGED machines
           \/ /\ r # Leader /\ Up(r) /\ ~Has(r)
              /\ holders' = holders \cup {r}
              /\ copy' = [copy EXCEPT ![r] = f.value]
              /\ IF Up(Leader)
                 THEN cl' = [cl EXCEPT ![c].pc = "copy", ![c].k = @ + 1]
                 ELSE Return(c)
           \/ /\ r = Leader /\ Up(r)
              /\ cl' = [cl EXCEPT ![c] =
                     [Scan(f) EXCEPT !.j = 0, !.preexisting = TRUE]]
              /\ UNCHANGED machines
        /\ UNCHANGED <<status, queue, made, acked, lost, spoilt>>

\* "Queue the read request", and tell the front end where to read.
Prepared(c) ==
    /\ At(c, "copy") /\ cl[c].k > Len(cl[c].lacking)
    /\ queue' = Append(queue, Reading(cl[c].where, c))
    /\ cl' = [cl EXCEPT ![c].pc = "fetch"]
    /\ UNCHANGED <<status, machines, made, acked, lost, spoilt>>

\* getState() at the replica named; if it throws, nobody notifies the leader.
Fetch(c) ==
    LET r == cl[c].where
    IN  /\ At(c, "fetch")
        /\ \/ /\ Up(r) /\ Has(r)
              /\ cl' = [cl EXCEPT ![c].pc = "notify", ![c].value = copy[r]]
              /\ UNCHANGED lost
           \/ /\ ~Up(r) \/ ~Has(r)
              /\ Return(c)
              /\ lost' = lost \cup {c}
        /\ UNCHANGED <<status, machines, queue, made, acked, spoilt>>

\* Mutants: the entry of any reader is removed; none is.
WithoutAnyReader(q, e) ==
    LET n == SelectInSeq(q, LAMBDA x : x.kind = "r")
    IN  IF n = 0 THEN q ELSE RemoveAt(q, n)
WithoutNothing(q, e) == q

Without(q, e) == RemoveFirst(q, e)

\* notifyFinishedReading() at the leader.
Notify(c) ==
    /\ At(c, "notify")
    /\ queue' = IF Up(Leader) THEN Without(queue, Reading(cl[c].where, c)) ELSE queue
    /\ Return(c)
    /\ UNCHANGED <<status, machines, made, acked, lost, spoilt>>

-----------------------------------------------------------------------------
(* remove() *)

RemoveMachine(c) ==
    /\ Calls(c, "remove")
    /\ \/ /\ ~Has(Leader)
          /\ cl' = [cl EXCEPT ![c] = Begin(c, "idle")]
          /\ UNCHANGED <<machines, queue, spoilt>>
       \/ /\ Has(Leader)
          /\ holders' = holders \ {Leader}
          /\ copy' = [copy EXCEPT ![Leader] = <<>>]
          /\ queue' = <<>>
          /\ spoilt' = TRUE
          /\ cl' = [cl EXCEPT ![c] = Begin(c, "unmake")]
    /\ UNCHANGED <<status, made, acked, lost>>

RemoveElsewhere(c) ==
    LET r == cl[c].i
    IN  /\ At(c, "unmake") /\ r < N
        /\ IF r # Leader /\ Up(r)
           THEN holders' = holders \ {r} /\ copy' = [copy EXCEPT ![r] = <<>>]
           ELSE UNCHANGED machines
        /\ IF r + 1 = N THEN Return(c) ELSE cl' = [cl EXCEPT ![c].i = @ + 1]
        /\ UNCHANGED <<status, queue, made, acked, lost, spoilt>>

-----------------------------------------------------------------------------
\* exit()
Exit(r) ==
    /\ Up(r) /\ r \in Mortal
    /\ Ends(r, "exited", {})
    /\ UNCHANGED <<machines, queue, made, acked, spoilt>>

\* A front end ends between the two calls of a read.
Leave(c) ==
    /\ At(c, "fetch")
    /\ cl' = [cl EXCEPT ![c] = [Idle(<<>>) EXCEPT !.pc = "gone"]]
    /\ lost' = lost \cup {c}
    /\ UNCHANGED <<status, machines, queue, made, acked, spoilt>>

Init ==
    /\ status = [r \in Replica |-> "up"]
    /\ holders = {}
    /\ copy = [r \in Replica |-> <<>>]
    /\ queue = <<>>
    /\ cl = [c \in Client |-> Idle(Program[c])]
    /\ made = FALSE
    /\ acked = <<>>
    /\ lost = {}
    /\ spoilt = FALSE

Step(c) ==
    \/ ScanReplica(c) \/ Place(c)
    \/ Await(c) \/ Forward(c) \/ Applied(c)
    \/ Drain(c) \/ Survey(c) \/ Surveyed(c) \/ Copy(c) \/ Install(c)
    \/ Prepared(c) \/ Fetch(c) \/ Notify(c)
    \/ RemoveElsewhere(c)

Next ==
    \/ \E c \in Client :
           \/ Create(c) \/ Apply(c) \/ Read(c) \/ RemoveMachine(c)
           \/ Step(c)
           \/ Leave(c)
    \/ \E r \in Replica : Exit(r)

Spec == Init /\ [][Next]_vars

\* Handlers run and calls are delivered; nobody has to call, to exit or to leave.
FairSpec == Spec /\ \A c \in Client : WF_vars(Step(c))

-----------------------------------------------------------------------------
(* Properties. *)

TypeOK ==
    /\ status \in [Replica -> {"up", "exited", "aborted"}]
    /\ holders \subseteq Replica
    /\ copy \in [Replica -> Value]
    /\ queue \in Seq([kind : {"w"}, op : Op]
                   \cup [kind : {"r"}, at : Replica, by : Client])
    /\ cl \in [Client ->
           [pc : {"idle", "scan", "await", "forward", "drain", "survey", "copy",
                  "install", "fetch", "notify", "unmake", "gone"},
            calls : Seq(Kind), op : Op \cup {None}, i : 0 .. N,
            j : 0 .. MinReplicas, count : 0 .. N, pick : 0 .. N,
            preexisting : BOOLEAN, where : 0 .. N, lacking : Seq(Replica),
            found : 0 .. N, k : 1 .. N + 1, value : Value, since : Nat]]
    /\ made \in BOOLEAN
    /\ acked \in Value
    /\ lost \subseteq Client
    /\ spoilt \in BOOLEAN

\* The entry that c has in the queue of the leader.
Entry(c) ==
    CASE At(c, "await") \/ At(c, "forward") -> {Write(cl[c].op)}
      [] At(c, "fetch") \/ At(c, "notify") -> {Reading(cl[c].where, c)}
      [] OTHER -> {}

\* Whatever the others do, short of a remove() or of the same write at the same
\* time, the entry of a call stays in the queue until the call removes it, and a
\* writer that is at work stays first: it erases begin() without looking
\* (replica_handler.cpp:493, 499-505).
EntriesKept ==
    Up(Leader) /\ ~spoilt =>
        \A c \in Client : /\ Entry(c) \subseteq ToSet(queue)
                          /\ At(c, "forward") => AtHead(c)

\* The operation on its way to the copies, if there is one.
Pending == {cl[c].op : c \in {d \in Client : At(d, "forward")}}

\* Until the machine is spoilt all copies agree but for one operation, the one that
\* is being forwarded; and when the leader has died over it, for the last one.
CopiesInStep ==
    ~spoilt /\ made =>
        LET holding == {r \in holders : Up(r)}
            Ahead(p, r) == \E op \in IF Up(Leader) THEN Pending ELSE Op :
                               copy[p] = Append(copy[r], op)
        IN  \A p, r \in holding :
                copy[p] = copy[r] \/ Ahead(p, r) \/ Ahead(r, p)

\* Until the machine is spoilt, an operation that was acknowledged is in every
\* copy that is left, in the order of the acknowledgements, whoever has exited.
AckedSurvive ==
    ~spoilt => \A r \in holders : Up(r) => IsPrefix(acked, copy[r])

\* Until the machine is spoilt no handler runs into an empty queue, a machine that is gone
\* or an index that was never set: a replica ends only by exit().
HandlersSurvive == ~spoilt => \A r \in Replica : status[r] # "aborted"

\* What the call f has asked of the machine, or has been answered.
Asked(f) ==
    CASE f.pc \in {"await", "forward"} -> [kind |-> "write", op |-> f.op]
      [] \/ f.pc \in {"drain", "survey", "copy", "install", "fetch"}
         \/ f.pc = "scan" /\ f.where # NoOne -> [kind |-> "read", since |-> f.since]
      [] f.pc = "notify" -> [kind |-> "answer", value |-> f.value]
      [] OTHER -> [kind |-> "none"]

Requests == [c \in Client |-> IF spoilt THEN [kind |-> "none"] ELSE Asked(cl[c])]

SharedMachine == INSTANCE SharedLog WITH
    log <- IF spoilt THEN <<>> ELSE Log,
    done <- IF spoilt THEN 0 ELSE Len(acked),
    call <- Requests,
    void <- spoilt

\* The copies, the queue and the two calls of a read together are one log that
\* is written and read in turn: what a read returns was the state of the machine
\* at some moment of the read, whichever copy it comes from, even if the leader
\* has exited over a write that some of the copies lack.  (Until it is spoilt.)
ImplementsSharedLog == SharedMachine!Spec

\* While nobody has left an entry behind, and the machine is not spoilt, every call
\* returns: writers and readers wait for each other in turn.
RequestsReturn ==
    \A c \in Client :
        ~At(c, "idle") ~> \/ At(c, "idle")
                         \/ lost # {} \/ spoilt

=============================================================================
