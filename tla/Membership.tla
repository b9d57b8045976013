----------------------------- MODULE Membership -----------------------------
(***************************************************************************)
(* How the processes of MP1 find each other (unicast.cc:28-186) and when   *)
(* they fix the group (initIfNecessary(), mcast.cc:99-113).                *)
(*                                                                         *)
(* The main thread of a process appends its id to the group file, reads    *)
(* the file, and greets everyone in it with an empty datagram, while its   *)
(* receive thread adds whoever greets it.  The first multicast, or the     *)
(* first datagram of another process, builds globalState from the members  *)
(* known at that moment; nobody is added to it later.  Both threads may    *)
(* find globalState to be NULL at the same time: the test, the             *)
(* construction and the timers are three steps.                            *)
(*                                                                         *)
(* The id of a process is the port that the system gives it; the group     *)
(* file may hold ids of earlier runs, which may be given out again.        *)
(* Heartbeats meet the same checks as multicasts and are left out, and so  *)
(* is what receive() does once it knows the sender: see Rmcast.            *)
(***************************************************************************)
EXTENDS Naturals, Sequences, FiniteSets, SequencesExt

CONSTANTS
    Proc,         \* the processes that may start
    Old,          \* the group file when the first one starts
    Chunk,        \* ids that one read() of the file may return
    MaxCasts      \* bound: MaxCasts[p] multicasts of p

ASSUME ChunkAssumption == Chunk \in Nat \ {0}
ASSUME MaxCastsAssumption == MaxCasts \in [Proc -> Nat]
ASSUME OldAssumption == Old \in Seq(ToSet(Old))

VARIABLES
    file,         \* the group file
    pc,           \* pc[p]: where the main thread of p is
    offset,       \* offset[p]: how much of the file it has read
    chunk,        \* chunk[p]: what it has still to add of the last read
    more,         \* more[p]: the last read filled the buffer
    members,      \* members[p]: mcast_members
    greeted,      \* greeted[p]: how many of them the greeting loop is past
    inbox,        \* inbox[p]: datagrams in the socket buffer, <<kind, sender>>
    delayed,      \* data in the queue of its sender, <<sender, to>>
    init,         \* init[p][t]: where thread t is in initIfNecessary()
    external,     \* external[p]: keys of externalNodes, or NoState
    timers,       \* timers[p]: heartbeat # NULL
    seq,          \* seq[p]: node.sequenceNumber
    casts,        \* casts[p]: the numbers p has multicast
    died,         \* died[p]: why p died
    early,        \* history: p's whose group grew after they fixed it
    both          \* history: p's whose threads built globalState at once

startup == <<file, pc, offset, chunk, more, members, greeted>>
mcast == <<init, external, timers, seq, casts, died, early, both>>
vars == <<startup, inbox, delayed, mcast>>

NoState == {"none"}

ASSUME IdAssumption == "none" \notin Proc \cup ToSet(Old)

Thread == {"chat", "receive"}
Start == {"down", "append", "read", "add", "greet", "chat"}

Runs(p) == pc[p] # "down" /\ died[p] = "no"
Main(p, at) == Runs(p) /\ pc[p] = at

-----------------------------------------------------------------------------
(* unicast_init() *)

\* The socket is bound and the receive thread started.
Bind(p) ==
    /\ pc[p] = "down"
    /\ pc' = [pc EXCEPT ![p] = "append"]
    /\ UNCHANGED <<file, offset, chunk, more, members, greeted, inbox, delayed,
                   mcast>>

\* Mutant: without O_APPEND.
WriteInFront(ids, p) == <<p>> \o Tail(ids)

Write(ids, p) == Append(ids, p)

AppendSelf(p) ==
    /\ Main(p, "append")
    /\ file' = Write(file, p)
    /\ pc' = [pc EXCEPT ![p] = "read"]
    /\ UNCHANGED <<offset, chunk, more, members, greeted, inbox, delayed, mcast>>

\* Mutant: read() is taken to fill the buffer.
NextOffsetFull(p, new) == offset[p] + Chunk

NextOffset(p, new) == offset[p] + Len(new)

Read(p) ==
    LET new == SubSeq(file, offset[p] + 1, Min({offset[p] + Chunk, Len(file)}))
    IN  /\ Main(p, "read")
        /\ chunk' = [chunk EXCEPT ![p] = new]
        /\ offset' = [offset EXCEPT ![p] = NextOffset(p, new)]
        /\ more' = [more EXCEPT ![p] = Len(new) = Chunk]
        /\ pc' = [pc EXCEPT ![p] = "add"]
        /\ UNCHANGED <<file, members, greeted, inbox, delayed, mcast>>

\* Mutant: whoever comes is added.
NewMemberAlways(p, id) == Append(members[p], id)

\* new_member(): the search and the addition hold member_lock.
NewMember(p, id) ==
    IF Contains(members[p], id) THEN members[p] ELSE Append(members[p], id)

Add(p) ==
    /\ Main(p, "add") /\ chunk[p] # <<>>
    /\ members' = [members EXCEPT ![p] = NewMember(p, Head(chunk[p]))]
    /\ chunk' = [chunk EXCEPT ![p] = Tail(@)]
    /\ UNCHANGED <<file, pc, offset, more, greeted, inbox, delayed, mcast>>

\* Read on after a full buffer; else go and greet, which takes member_lock.
EndOfChunk(p) ==
    /\ Main(p, "add") /\ chunk[p] = <<>>
    /\ pc' = [pc EXCEPT ![p] = IF more[p] THEN "read" ELSE "greet"]
    /\ UNCHANGED <<file, offset, chunk, more, members, greeted, inbox, delayed,
                   mcast>>

\* A datagram reaches a process whose socket is bound.
Send(boxes, q, d) ==
    IF q \in Proc /\ Runs(q) THEN [boxes EXCEPT ![q] = Append(@, d)] ELSE boxes

\* Mutant: greet only those that come after us in the list.
GreetLaterOnes(p, q) ==
    inbox' = IF p \in ToSet(SubSeq(members[p], 1, greeted[p]))
             THEN Send(inbox, q, <<"hello", p>>) ELSE inbox

\* The greeting is not delayed: it is not sent through usend().
Greeting(p, q) == inbox' = IF q = p THEN inbox ELSE Send(inbox, q, <<"hello", p>>)

Greet(p) ==
    /\ Main(p, "greet") /\ greeted[p] < Len(members[p])
    /\ Greeting(p, members[p][greeted[p] + 1])
    /\ greeted' = [greeted EXCEPT ![p] = @ + 1]
    /\ UNCHANGED <<file, pc, offset, chunk, more, members, delayed, mcast>>

StartChat(p) ==
    /\ Main(p, "greet") /\ greeted[p] = Len(members[p])
    /\ pc' = [pc EXCEPT ![p] = "chat"]
    /\ UNCHANGED <<file, offset, chunk, more, members, greeted, inbox, delayed,
                   mcast>>

-----------------------------------------------------------------------------
(* initIfNecessary(), by the chat thread in multicast() or by the receive    *)
(* thread in receive().                                                      *)

\* The group does not grow any more, as far as p can tell.
GroupFixed(p) ==
    /\ \A q \in Proc : pc[q] = "chat"
    /\ \A i \in DOMAIN inbox[p] : inbox[p][i][1] # "hello"

At(p, t, step) == Runs(p) /\ init[p][t] = step

\* Is the thread about to multicast, or to receive data?
Calls(p, t) ==
    /\ Runs(p)
    /\ IF t = "chat" THEN pc[p] = "chat" /\ Len(casts[p]) < MaxCasts[p]
       ELSE inbox[p] # <<>> /\ Head(inbox[p])[1] = "data"

\* Mutant: initialise on every call.
NecessaryAlways(p) == TRUE

Necessary(p) == external[p] = NoState

Check(p, t) ==
    /\ At(p, t, "out") /\ Calls(p, t)
    /\ init' = [init EXCEPT ![p][t] = IF Necessary(p) THEN "create" ELSE "done"]
    /\ both' = IF Necessary(p) /\ \E u \in Thread : init[p][u] = "create"
               THEN both \cup {p} ELSE both
    /\ UNCHANGED <<startup, inbox, delayed, external, timers, seq, casts, died,
                   early>>

\* globalState = new GlobalState(...): the members of this moment, number 0.
Create(p, t) ==
    /\ At(p, t, "create")
    /\ external' = [external EXCEPT ![p] = ToSet(members[p]) \ {p}]
    /\ seq' = [seq EXCEPT ![p] = 0]
    /\ init' = [init EXCEPT ![p][t] = "arm"]
    /\ early' = IF GroupFixed(p) THEN early ELSE early \cup {p}
    /\ UNCHANGED <<startup, inbox, delayed, timers, casts, died, both>>

\* heartbeat = new Heartbeat(...); heartbeat->arm()
Arm(p, t) ==
    /\ At(p, t, "arm")
    /\ timers' = [timers EXCEPT ![p] = TRUE]
    /\ init' = [init EXCEPT ![p][t] = "done"]
    /\ UNCHANGED <<startup, inbox, delayed, external, seq, casts, died, early,
                   both>>

\* The rest of multicast(): the next number, a datagram for every member.
Multicast(p) ==
    /\ At(p, "chat", "done")
    /\ seq' = [seq EXCEPT ![p] = @ + 1]
    /\ casts' = [casts EXCEPT ![p] = Append(@, seq'[p])]
    /\ delayed' = delayed \cup {<<p, q>> : q \in external[p]}
    /\ init' = [init EXCEPT ![p]["chat"] = "out"]
    /\ UNCHANGED <<startup, inbox, external, timers, died, early, both>>

\* catch_alarm() sends what is due.
Deliver(d) ==
    /\ d \in delayed
    /\ delayed' = delayed \ {d}
    /\ inbox' = Send(inbox, d[2], <<"data", d[1]>>)
    /\ UNCHANGED <<startup, mcast>>

-----------------------------------------------------------------------------
(* receive_thread_main() *)

\* The main thread holds member_lock while it greets.
ReceiveHello(p) ==
    /\ Runs(p) /\ init[p]["receive"] = "out" /\ pc[p] # "greet"
    /\ inbox[p] # <<>> /\ Head(inbox[p])[1] = "hello"
    /\ members' = [members EXCEPT ![p] = NewMember(p, Head(inbox[p])[2])]
    /\ inbox' = [inbox EXCEPT ![p] = Tail(@)]
    /\ UNCHANGED <<file, pc, offset, chunk, more, greeted, delayed, mcast>>

\* receive(): the first datagram of a known sender makes its timestamp grow and
\* resets its timer; for an unknown one messageOrigin is NULL.
ReceiveData(p) ==
    /\ At(p, "receive", "done")
    /\ LET q == Head(inbox[p])[2] IN
       died' = [died EXCEPT ![p] = IF q \notin external[p] THEN "unknown sender"
                                   ELSE IF ~timers[p] THEN "no timers" ELSE @]
    /\ inbox' = [inbox EXCEPT ![p] = Tail(@)]
    /\ init' = [init EXCEPT ![p]["receive"] = "out"]
    /\ UNCHANGED <<startup, delayed, external, timers, seq, casts, early, both>>

-----------------------------------------------------------------------------
Init ==
    /\ file = Old
    /\ pc = [p \in Proc |-> "down"]
    /\ offset = [p \in Proc |-> 0]
    /\ chunk = [p \in Proc |-> <<>>]
    /\ more = [p \in Proc |-> FALSE]
    /\ members = [p \in Proc |-> <<>>]
    /\ greeted = [p \in Proc |-> 0]
    /\ inbox = [p \in Proc |-> <<>>]
    /\ delayed = {}
    /\ init = [p \in Proc |-> [t \in Thread |-> "out"]]
    /\ external = [p \in Proc |-> NoState]
    /\ timers = [p \in Proc |-> FALSE]
    /\ seq = [p \in Proc |-> 0]
    /\ casts = [p \in Proc |-> <<>>]
    /\ died = [p \in Proc |-> "no"]
    /\ early = {}
    /\ both = {}

MainStep(p) ==
    AppendSelf(p) \/ Read(p) \/ Add(p) \/ EndOfChunk(p) \/ Greet(p) \/ StartChat(p)

Initialise(p, t) == Create(p, t) \/ Arm(p, t)

ReceiveStep(p) ==
    ReceiveHello(p) \/ Check(p, "receive") \/ Initialise(p, "receive")
    \/ ReceiveData(p)

Next ==
    \/ \E p \in Proc : \/ Bind(p) \/ MainStep(p) \/ ReceiveStep(p)
                       \/ Check(p, "chat") \/ Initialise(p, "chat") \/ Multicast(p)
    \/ \E d \in delayed : Deliver(d)

Spec == Init /\ [][Next]_vars

\* The threads run; nobody has to start a process or to say anything.
FairSpec ==
    Spec /\ \A p \in Proc : WF_vars(MainStep(p)) /\ WF_vars(ReceiveStep(p))

-----------------------------------------------------------------------------
(* Properties. *)

Ids == Proc \cup ToSet(Old)

\* Every variable keeps its shape, and nobody has read more than there is.
TypeOK ==
    /\ file \in Seq(Ids)
    /\ pc \in [Proc -> Start]
    /\ {offset, greeted, seq} \subseteq [Proc -> Nat]
    /\ {chunk, members} \subseteq [Proc -> Seq(Ids)]
    /\ {more, timers} \subseteq [Proc -> BOOLEAN]
    /\ inbox \in [Proc -> Seq({"hello", "data"} \X Proc)]
    /\ delayed \subseteq Proc \X Ids
    /\ init \in [Proc -> [Thread -> {"out", "create", "arm", "done"}]]
    /\ external \in [Proc -> (SUBSET Ids) \cup {NoState}]
    /\ casts \in [Proc -> Seq(Nat)]
    /\ died \in [Proc -> {"no", "unknown sender", "no timers"}]
    /\ early \cup both \subseteq Proc
    /\ \A p \in Proc : /\ offset[p] <= Len(file)
                       /\ greeted[p] <= Len(members[p])
                       /\ Len(casts[p]) <= MaxCasts[p]

\* Two threads add members, and ids are in the file, in greetings and in what
\* earlier runs have left: still nobody is a member twice.
MembersDistinct ==
    \A p \in Proc : Cardinality(ToSet(members[p])) = Len(members[p])

\* Of two processes that are through with unicast_init(), each knows the other or
\* finds its greeting in the socket buffer, in whatever order they wrote, read and
\* greeted: one of them has read what the other had written.
MutualKnowledge ==
    \A p, q \in Proc :
        pc[p] = "chat" /\ pc[q] = "chat" /\ died[p] = "no" =>
            Contains(members[p], q) \/ Contains(inbox[p], <<"hello", q>>)

\* mcast.cc:63 "Assumes that the group membership will not grow during runtime":
\* if nobody is starting up or unheard of when p builds globalState, its group is
\* complete.
GroupComplete ==
    \A p \in Proc \ early :
        external[p] # NoState => Proc \ {p} \subseteq external[p]

\* A process dies of a null pointer only if it fixed its group too early, or
\* receives the first datagram while the chat thread creates the timers.
DiesOnlyEarly ==
    \A p \in Proc :
        /\ died[p] = "unknown sender" => p \in early
        /\ died[p] = "no timers" => init[p]["chat"] = "arm"

\* No number is used for two multicasts, unless both threads found globalState
\* to be NULL: the second one replaces the state the first one was using.
NumbersFresh ==
    \A p \in Proc \ both : Cardinality(ToSet(casts[p])) = Len(casts[p])

\* Everyone gets to know everyone who is through with unicast_init().
EventuallyKnown ==
    \A p, q \in Proc :
        pc[p] = "chat" /\ pc[q] = "chat" ~>
            Contains(members[p], q) \/ died[p] # "no"
=============================================================================
