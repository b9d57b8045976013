------------------------------- MODULE Rmcast -------------------------------
(***************************************************************************)
(* The reliable multicast of MP1 (mcast.cc over state/, message/ and       *)
(* heartbeat/).  Every process runs three threads on one shared state:     *)
(*                                                                         *)
(*   - the chat thread calls multicast(): MulticastBegin, MulticastStore   *)
(*     and one MulticastSend per destination;                              *)
(*   - the receive thread calls receive(): one Receive step per datagram;  *)
(*   - the heartbeat thread calls heartbeat_send(): HeartbeatSnapshot,     *)
(*     then HeartbeatSend, which reads the sequence number again.          *)
(*                                                                         *)
(* The threads take no lock, so their steps interleave.  Timers expire at  *)
(* any moment (Suspect): the model has no clock, and the vector timestamp, *)
(* whose only effect on this code is to reset those timers, is left out.   *)
(* Membership is the fixed set Proc, as mcast.cc:63 assumes.               *)
(***************************************************************************)
EXTENDS Naturals, FiniteSets

CONSTANTS
    Proc,         \* the members of the group
    MaxSeq,       \* bound: the largest sequence number
    MaxCasts,     \* bound: messages that p multicasts
    MaxBeats,     \* bound: heartbeats of p in flight on one link
    MaxFault      \* bound: how often each kind of fault happens

Fault == {"crash", "lose", "suspect"}

ASSUME MaxSeqAssumption == MaxSeq \in Nat
ASSUME MaxCastsAssumption == MaxCasts \in [Proc -> 0 .. MaxSeq]
ASSUME MaxBeatsAssumption == MaxBeats \in [Proc -> Nat]
ASSUME MaxFaultAssumption == MaxFault \in [Fault -> Nat]

VARIABLES
    armed,        \* armed[p]: initIfNecessary has run at p
    status,       \* status[p]: "up", "crashed" or "aborted" (failed assert)
    seq,          \* seq[p]: node.sequenceNumber
    last,         \* last[p][s]: messages of s that p has delivered
    ackList,      \* ackList[p][q][s]: externalNodes[q]->deliveryAckList[s] at p
    failed,       \* failed[p]: node.failedNodes
    store,        \* store[p]: messageStore
    stamped,      \* stamped[p]: multicast() has taken a number, not yet stored
    toSend,       \* toSend[p]: destinations multicast() has still to unicast to
    beat,         \* beat[p]: acknowledgements heartbeat_send() has collected
    net,          \* datagrams in flight, <<destination, message>>
    faults        \* faults[f]: how often fault f has happened

vars == <<armed, status, seq, last, ackList, failed, store, stamped, toSend,
          beat, net, faults>>

-----------------------------------------------------------------------------
Seqs == 0 .. MaxSeq
Acks == [Proc -> Seqs]

\* A message as encode() lays it out.  The text is abstracted to what receive()
\* reads from it: a RETRANSREQUEST names the process whose message is wanted;
\* the text of any other message stands for its sender.
Message == [type : {"MESSAGE", "RETRANSREQUEST", "HEARTBEAT"},
            sender : Proc, seq : Seqs, body : Proc, acks : Acks,
            failed : SUBSET Proc]

NoBeat == [collected |-> FALSE, acks |-> [s \in Proc |-> 0]]

Init ==
    /\ armed = [p \in Proc |-> FALSE]
    /\ status = [p \in Proc |-> "up"]
    /\ seq = [p \in Proc |-> 0]
    /\ last = [p \in Proc |-> [s \in Proc |-> 0]]
    /\ ackList = [p \in Proc |-> [q \in Proc |-> [s \in Proc |-> 0]]]
    /\ failed = [p \in Proc |-> {}]
    /\ store = [p \in Proc |-> {}]
    /\ stamped = [p \in Proc |-> FALSE]
    /\ toSend = [p \in Proc |-> {}]
    /\ beat = [p \in Proc |-> NoBeat]
    /\ net = {}
    /\ faults = [f \in Fault |-> 0]

External(p) == Proc \ {p}

\* Mutant: acknowledge what is received, delivered or not.
PopulateReceived(p) ==
    [s \in Proc |-> IF s = p THEN seq[p]
                    ELSE last[p][s] + Cardinality({m \in store[p] :
                             m.sender = s /\ m.seq > last[p][s]})]

\* What p tells others it has delivered.  Its own entry is the sequence number,
\* which multicast() raises before it delivers to itself.
PopulateAcknowledgements(p) == [last[p] EXCEPT ![p] = seq[p]]

NewMessage(p, type, n, body, acks, fl) ==
    [type |-> type, sender |-> p, seq |-> n, body |-> body, acks |-> acks,
     failed |-> fl]

\* Mutant: no silence towards the suspected.
UnicastAlways(dests, fl, m) ==
    {<<q, m>> : q \in {d \in dests : status[d] = "up"}}

\* unicast() stays silent towards a process that is believed to have failed; a
\* datagram to a process that is gone, or is going, reaches no one.
Unicast(dests, fl, m) ==
    {<<q, m>> : q \in {d \in dests \ fl : status[d] = "up"}}
NotTo(p, dgrams) == {x \in dgrams : x[1] # p}

\* getMessage(): the stored copies of message n of s.
GetMessage(st, s, n) == {m \in st : m.sender = s /\ m.seq = n}

-----------------------------------------------------------------------------
(* The chat thread. *)

\* The timestamp and the sequence number come before everything else.
MulticastBegin(p) ==
    /\ status[p] = "up" /\ ~stamped[p] /\ toSend[p] = {}
    /\ seq[p] < MaxCasts[p]
    /\ armed' = [armed EXCEPT ![p] = TRUE]
    /\ seq' = [seq EXCEPT ![p] = @ + 1]
    /\ stamped' = [stamped EXCEPT ![p] = TRUE]
    /\ UNCHANGED <<status, last, ackList, failed, store, toSend, beat, net,
                   faults>>

\* Mutant: multicast_deliver() is forgotten.
MulticastStoreUndelivered(p) ==
    /\ status[p] = "up" /\ stamped[p]
    /\ store' = [store EXCEPT ![p] = @ \cup
           {NewMessage(p, "MESSAGE", seq[p], p, PopulateAcknowledgements(p),
                       failed[p])}]
    /\ stamped' = [stamped EXCEPT ![p] = FALSE]
    /\ toSend' = [toSend EXCEPT ![p] = External(p)]
    /\ UNCHANGED <<armed, status, seq, last, ackList, failed, beat, net, faults>>

\* Build the message, deliver it to ourselves, keep it for retransmission.
MulticastStore(p) ==
    /\ status[p] = "up" /\ stamped[p]
    /\ store' = [store EXCEPT ![p] = @ \cup
           {NewMessage(p, "MESSAGE", seq[p], p, PopulateAcknowledgements(p),
                       failed[p])}]
    /\ last' = [last EXCEPT ![p][p] = @ + 1]
    /\ stamped' = [stamped EXCEPT ![p] = FALSE]
    /\ toSend' = [toSend EXCEPT ![p] = External(p)]
    /\ UNCHANGED <<armed, status, seq, ackList, failed, beat, net, faults>>

\* One turn of the unicast loop.  The message is the one in the store: it is
\* never freed before the loop ends (MulticastNotFreed).
MulticastSend(p, q) ==
    /\ status[p] = "up" /\ q \in toSend[p]
    /\ \E m \in GetMessage(store[p], p, seq[p]) :
           net' = net \cup Unicast({q}, failed[p], m)
    /\ toSend' = [toSend EXCEPT ![p] = @ \ {q}]
    /\ UNCHANGED <<armed, status, seq, last, ackList, failed, store, stamped,
                   beat, faults>>

-----------------------------------------------------------------------------
(* The heartbeat thread. *)

HeartbeatsInFlight(p, q) ==
    Cardinality({x \in net : x[1] = q /\ x[2].sender = p
                                      /\ x[2].type = "HEARTBEAT"})

HeartbeatSnapshot(p) ==
    /\ status[p] = "up" /\ armed[p] /\ ~beat[p].collected
    /\ \A q \in External(p) : HeartbeatsInFlight(p, q) < MaxBeats[p]
    /\ beat' = [beat EXCEPT ![p] =
           [collected |-> TRUE, acks |-> PopulateAcknowledgements(p)]]
    /\ UNCHANGED <<armed, status, seq, last, ackList, failed, store, stamped,
                   toSend, net, faults>>

\* The sequence number is read now, after the acknowledgements.
HeartbeatSend(p) ==
    /\ status[p] = "up" /\ beat[p].collected
    /\ net' = net \cup Unicast(External(p), failed[p],
           NewMessage(p, "HEARTBEAT", seq[p], p, beat[p].acks, failed[p]))
    /\ beat' = [beat EXCEPT ![p] = NoBeat]
    /\ UNCHANGED <<armed, status, seq, last, ackList, failed, store, stamped,
                   toSend, faults>>

-----------------------------------------------------------------------------
(* The receive thread. *)

\* Mutants: believe whatever arrived last; add instead of taking the maximum.
OverwriteDeliveryAckList(old, acks) == acks
AddDeliveryAckList(old, acks) == [s \in Proc |-> old[s] + acks[s]]

\* Pointwise maximum of what we knew and what the sender now says.
UpdateDeliveryAckList(old, acks) ==
    [s \in Proc |-> IF acks[s] > old[s] THEN acks[s] ELSE old[s]]

\* Mutants: also request m itself; ask only those beyond m; ask everybody.
MissingInclusive(m, n) == n + 1 .. m.seq
DeliveredNodesBeyond(p, al, m) == {q \in External(p) : al[q][m.sender] > m.seq}
DeliveredNodesAll(p, al, m) == External(p)

\* The sequence numbers retransmissionRequests(m, n) finds missing, and the
\* processes it believes to have them: the ones that delivered m itself.
Missing(m, n) == n + 1 .. m.seq - 1
DeliveredNodes(p, al, m) == {q \in External(p) : al[q][m.sender] >= m.seq}

\* The assertion "This should at least contain the original sender".
AssertFails(p, al, m) ==
    Missing(m, last[p][m.sender]) # {} /\ DeliveredNodes(p, al, m) = {}

RetransmissionRequests(p, al, fl, m) ==
    UNION {Unicast(DeliveredNodes(p, al, m), fl,
               NewMessage(p, "RETRANSREQUEST", i, m.sender,
                          PopulateAcknowledgements(p), fl))
           : i \in Missing(m, last[p][m.sender])}

\* Does st hold messages lo..hi of s?
Holds(st, s, lo, hi) == \A n \in lo .. hi : GetMessage(st, s, n) # {}

\* processUndelivered() goes once over the undelivered messages, in the order of
\* their ADDRESSES (the sort compares pointers), and delivers a message when it
\* is the next one of its sender.  So a sender whose next message is stored gets
\* at least that one delivered, and how far the run behind it gets is chance.
\* The result is the set of the delivery counts that p can end with.
ProcessUndelivered(p, st) ==
    {l \in Acks : \A s \in Proc :
        IF s # p /\ Holds(st, s, last[p][s] + 1, last[p][s] + 1)
        THEN l[s] > last[p][s] /\ Holds(st, s, last[p][s] + 1, l[s])
        ELSE l[s] = last[p][s]}

\* Mutant: one other member that has delivered it is enough.
DeletableBySome(p, al, l, st) ==
    {m \in st : /\ m.sender = p \/ m.seq <= l[m.sender]
                /\ \E q \in External(p) : m.seq <= al[q][m.sender]}

\* What cleanMessageStore() may delete: our own messages and the ones we have
\* delivered, once every other member says that it has delivered them.
Deletable(p, al, l, st) ==
    {m \in st : /\ m.sender = p \/ m.seq <= l[m.sender]
                /\ \A q \in External(p) : m.seq <= al[q][m.sender]}

\* It erases an element and then increments the iterator to it, which is
\* undefined: the loop may miss any of the elements that follow the first one it
\* erases.  (It may also bring the process down: that is Receive, then Crash.)
CleanMessageStore(p, al, l, st) ==
    LET all == Deletable(p, al, l, st)
    IN  {st \ gone : gone \in {d \in SUBSET all : d = {} => all = {}}}

\* A message that asks for a retransmission: serve it from the store.
ReceiveRetransRequest(p, m, fl, rest) ==
    /\ m.type = "RETRANSREQUEST"
    /\ IF GetMessage(store[p], m.body, m.seq) = {}
       THEN net' = rest
       ELSE \E x \in GetMessage(store[p], m.body, m.seq) :
                net' = rest \cup Unicast({m.sender}, fl, x)
    /\ UNCHANGED <<status, last, store>>

\* A duplicate is one that was delivered or that sits in the store.
Duplicate(p, m) ==
    m.seq <= last[p][m.sender] \/ GetMessage(store[p], m.sender, m.seq) # {}

ReceiveDuplicate(p, m, rest) ==
    /\ m.type = "MESSAGE" /\ Duplicate(p, m)
    /\ net' = rest
    /\ UNCHANGED <<status, last, store>>

\* A new message: store it, ask for what is missing before it, deliver what can
\* be delivered, clean up.
ReceiveMessage(p, m, al, fl, rest) ==
    /\ m.type = "MESSAGE" /\ ~Duplicate(p, m)
    /\ ~AssertFails(p, al, m)
    /\ net' = rest \cup RetransmissionRequests(p, al, fl, m)
    /\ \E l \in ProcessUndelivered(p, store[p] \cup {m}) :
           /\ last' = [last EXCEPT ![p] = l]
           /\ \E st \in CleanMessageStore(p, al, l, store[p] \cup {m}) :
                  store' = [store EXCEPT ![p] = st]
    /\ UNCHANGED status

\* Mutant: a heartbeat only resets the timeout, as in the design document.
ReceiveHeartbeatSilently(p, m, al, fl, rest) ==
    /\ m.type = "HEARTBEAT"
    /\ net' = rest
    /\ UNCHANGED <<status, last, store>>

ReceiveHeartbeat(p, m, al, fl, rest) ==
    /\ m.type = "HEARTBEAT"
    /\ ~AssertFails(p, al, m)
    /\ net' = rest \cup RetransmissionRequests(p, al, fl, m)
    /\ UNCHANGED <<status, last, store>>

\* The assertion fails: abort() ends the process before any request is sent.
ReceiveAbort(p, m, al, rest) ==
    /\ m.type = "HEARTBEAT" \/ (m.type = "MESSAGE" /\ ~Duplicate(p, m))
    /\ AssertFails(p, al, m)
    /\ status' = [status EXCEPT ![p] = "aborted"]
    /\ net' = NotTo(p, rest)
    /\ UNCHANGED <<last, store>>

Receive(p, m) ==
    /\ status[p] = "up" /\ <<p, m>> \in net
    /\ LET al == [ackList[p] EXCEPT ![m.sender] =
                     UpdateDeliveryAckList(@, m.acks)]
           fl == failed[p] \cup m.failed
           rest == net \ {<<p, m>>}
       IN  /\ ackList' = [ackList EXCEPT ![p] = al]
           /\ failed' = [failed EXCEPT ![p] = fl]
           /\ \/ ReceiveRetransRequest(p, m, fl, rest)
              \/ ReceiveDuplicate(p, m, rest)
              \/ ReceiveMessage(p, m, al, fl, rest)
              \/ ReceiveHeartbeat(p, m, al, fl, rest)
              \/ ReceiveAbort(p, m, al, rest)
    /\ armed' = [armed EXCEPT ![p] = TRUE]
    /\ UNCHANGED <<seq, stamped, toSend, beat, faults>>

-----------------------------------------------------------------------------
(* The environment: each fault happens at most MaxFault times. *)

Happens(f) ==
    /\ faults[f] < MaxFault[f]
    /\ faults' = [faults EXCEPT ![f] = @ + 1]

\* The failure timer of q fires at p: heartbeat_failure().
Suspect(p, q) ==
    /\ status[p] = "up" /\ armed[p] /\ q \in External(p) \ failed[p]
    /\ Happens("suspect")
    /\ failed' = [failed EXCEPT ![p] = @ \cup {q}]
    /\ UNCHANGED <<armed, status, seq, last, ackList, store, stamped, toSend,
                   beat, net>>

\* usend() drops one datagram in five.
Lose(x) ==
    /\ x \in net
    /\ Happens("lose")
    /\ net' = net \ {x}
    /\ UNCHANGED <<armed, status, seq, last, ackList, failed, store, stamped,
                   toSend, beat>>

Crash(p) ==
    /\ status[p] = "up"
    /\ Happens("crash")
    /\ status' = [status EXCEPT ![p] = "crashed"]
    /\ net' = NotTo(p, net)
    /\ UNCHANGED <<armed, seq, last, ackList, failed, store, stamped, toSend,
                   beat>>

Next ==
    \/ \E p \in Proc :
           \/ MulticastBegin(p)
           \/ MulticastStore(p)
           \/ \E q \in Proc : MulticastSend(p, q)
           \/ HeartbeatSnapshot(p)
           \/ HeartbeatSend(p)
           \/ \E q \in Proc : Suspect(p, q)
           \/ Crash(p)
    \/ \E x \in net : Receive(x[1], x[2]) \/ Lose(x)

Spec == Init /\ [][Next]_vars

Arrives(p, s, type, n) ==
    \E x \in net : /\ x[1] = p /\ x[2].sender = s
                   /\ x[2].type = type /\ x[2].seq = n
                   /\ Receive(p, x[2])

\* multicast() returns, the heartbeat thread never stops, and a datagram that is
\* not lost is delivered within MAXDELAY and read by the receive loop.  Nobody
\* has to multicast, and no fault has to happen.
Fairness ==
    \A p \in Proc :
        /\ WF_vars(MulticastStore(p))
        /\ WF_vars(HeartbeatSnapshot(p))
        /\ WF_vars(HeartbeatSend(p))
        /\ \A q \in External(p) :
               /\ WF_vars(MulticastSend(p, q))
               /\ \A n \in Seqs :
                      /\ WF_vars(Arrives(p, q, "MESSAGE", n))
                      /\ WF_vars(Arrives(p, q, "RETRANSREQUEST", n))
                      /\ WF_vars(Arrives(p, q, "HEARTBEAT", n))

FairSpec == Spec /\ Fairness

-----------------------------------------------------------------------------
(* Properties. *)

\* Every variable keeps the shape the handlers assume.
TypeOK ==
    /\ armed \in [Proc -> BOOLEAN]
    /\ status \in [Proc -> {"up", "crashed", "aborted"}]
    /\ seq \in [Proc -> Seqs]
    /\ last \in [Proc -> Acks]
    /\ ackList \in [Proc -> [Proc -> Acks]]
    /\ failed \in [Proc -> SUBSET Proc]
    /\ store \in [Proc -> SUBSET Message]
    /\ stamped \in [Proc -> BOOLEAN]
    /\ toSend \in [Proc -> SUBSET Proc]
    /\ beat \in [Proc -> [collected : BOOLEAN, acks : Acks]]
    /\ net \in SUBSET (Proc \X Message)
    /\ faults \in [Fault -> Nat]

\* What q may truthfully acknowledge: deliveries, and its own numbers as soon as
\* multicast() has taken them.
Known(q, s) == IF q = s THEN seq[q] ELSE last[q][s]

\* Nobody is believed to have delivered more than it has: neither in what p
\* remembers of q nor in what a datagram says of its sender.  On this rests
\* every decision of cleanMessageStore() and of retransmissionRequests(), with
\* datagrams reordered, heartbeats half built and processes dead.
AcksSound ==
    /\ \A p, s \in Proc : \A q \in External(p) :
           ackList[p][q][s] <= Known(q, s)
    /\ \A x \in net : \A s \in Proc :
           x[2].acks[s] <= Known(x[2].sender, s)

\* Retention: a message that p has delivered (or multicast) and that some other
\* member has still to deliver is in the store of p, whatever p has cleaned, so
\* that the message survives its sender (mcast.cc:145-151, 233-283).
Retention ==
    \A p, s \in Proc : \A n \in 1 .. last[p][s] :
        (\E r \in External(p) : Known(r, s) < n)
            => GetMessage(store[p], s, n) # {}

\* A retransmission request in flight can be served: the process asked still has
\* the message, unless the one who asks has got it by another way meanwhile.
RequestsServable ==
    \A x \in net : x[2].type = "RETRANSREQUEST" =>
        \/ GetMessage(store[x[1]], x[2].body, x[2].seq) # {}
        \/ x[2].seq <= last[x[2].sender][x[2].body]

\* The receive thread never frees the message that the chat thread is in the
\* middle of sending (mcast.cc:154-159 against 278-279).
MulticastNotFreed ==
    \A p \in Proc : toSend[p] # {} => GetMessage(store[p], p, seq[p]) # {}

\* Nobody ever hears that it is suspected: who believes that p has failed, or
\* repeats a message that says so, does not send to p.  (So an expelled process
\* carries on alone; the check "if someone else thinks you are failed" of the
\* design document could never fire.)
SuspicionStaysHidden ==
    /\ \A p \in Proc : p \notin failed[p]
    /\ \A x \in net : x[1] \notin x[2].failed

\* The group implements the multicast service of ReliableMulticast: deliveries
\* in order, once, and only of what a living process has multicast, although
\* datagrams carry copies of copies and are repeated, and processes die halfway.
Service == INSTANCE ReliableMulticast
               WITH got <- last, alive <- {p \in Proc : status[p] = "up"}
ImplementsService == Service!Spec

\* The assertion of mcast.cc:204 can fail only on a heartbeat that was built in
\* two halves: a MESSAGE always carries its own acknowledgement.
AbortsOnlyOnTornHeartbeat ==
    [][\A p \in Proc : status[p] = "up" /\ status'[p] = "aborted" =>
           \E x \in net \ net' :
               /\ x[1] = p /\ x[2].type = "HEARTBEAT"
               /\ x[2].acks[x[2].sender] < x[2].seq]_vars

\* A datagram that arrives late or twice never takes back what is known: no
\* delivery count, acknowledgement or suspicion is ever undone.
KnowledgeOnlyGrows ==
    [][\A p, q \in Proc :
           /\ last[p][q] <= last'[p][q]
           /\ \A s \in Proc : ackList[p][q][s] <= ackList'[p][q][s]
           /\ failed[p] \subseteq failed'[p]]_vars

\* designDocument.tex:84 and mcast.cc:318: a message is delivered only after the
\* messages that its sender had delivered when it sent it.  Stated over the
\* delivered messages that are still stored.
CausalOrder ==
    \A p \in Proc : \A m \in store[p] : \A s \in External(p) :
        m.seq <= last[p][m.sender] /\ s # m.sender => m.acks[s] <= last[p][s]

\* designDocument.tex:106: "If a message is delivered to one process, it is
\* delivered to all" - to all that live on and do not suspect one another.
Trust(p, q) ==
    /\ status[p] = "up" /\ status[q] = "up"
    /\ p \notin failed[q] /\ q \notin failed[p]

Agreement ==
    \A p, q, s \in Proc : \A n \in 1 .. MaxSeq :
        last[p][s] >= n ~> (last[q][s] >= n \/ ~Trust(p, q))

\* What the retransmissions do guarantee: a message that is not the last one of
\* its sender reaches every member, whatever is lost or reordered on the way,
\* because the sender's heartbeats announce it and the sender serves it.
EarlierMessagesArrive ==
    \A q, s \in Proc : \A n \in 1 .. MaxSeq :
        seq[s] > n ~> \/ n <= last[q][s]
                      \/ GetMessage(store[q], s, n) # {}
                      \/ ~Trust(q, s)
=============================================================================
