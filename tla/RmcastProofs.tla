---------------------------- MODULE RmcastProofs ----------------------------
(***************************************************************************)
(* Theorems about Rmcast, for every group, every bound and every number of *)
(* faults.                                                                 *)
(*                                                                         *)
(* The argument: delivery counts and sequence numbers only grow, so what a *)
(* message truthfully said when it was built stays true however late it    *)
(* arrives (SoundGrows).  Hence what p believes of q is at most what q has *)
(* done (AcksSound), a message is erased only when every member has        *)
(* delivered it (Retention), and whoever is asked for a message still has  *)
(* it (RequestsServable).                                                  *)
(***************************************************************************)
EXTENDS Rmcast, TLAPS

\* A process has delivered all of its own messages, but the one that
\* multicast() has numbered and not yet built.
SelfCount ==
    \A p \in Proc : seq[p] = IF stamped[p] THEN last[p][p] + 1 ELSE last[p][p]

TypeInv == TypeOK /\ SelfCount

\* What a message says is true of its sender now.
Sound(m) ==
    /\ \A s \in Proc : m.acks[s] <= Known(m.sender, s)
    /\ m.type = "MESSAGE" =>
           m.seq <= last[m.sender][m.sender] /\ m.seq <= m.acks[m.sender]
    /\ m.type = "HEARTBEAT" => m.seq <= seq[m.sender]
    /\ m.type = "RETRANSREQUEST" =>
           /\ m.sender # m.body
           /\ m.seq \in 1 .. seq[m.body] - 1

\* A datagram goes to a process other than its sender, which has delivered what
\* it is asked for and which the datagram does not call failed.
DatagramSound(x) ==
    /\ Sound(x[2])
    /\ x[1] # x[2].sender
    /\ x[1] \notin x[2].failed
    /\ x[2].type = "RETRANSREQUEST" => x[2].seq <= last[x[1]][x[2].body]

NetSound == \A x \in net : DatagramSound(x)

\* A stored message is a true MESSAGE, and its suspicions are shared.
KeptSound(p, m) == Sound(m) /\ m.type = "MESSAGE" /\ m.failed \subseteq failed[p]

StoreSound == \A p \in Proc : \A m \in store[p] : KeptSound(p, m)

AckListSound ==
    \A p, s \in Proc : \A q \in External(p) : ackList[p][q][s] <= Known(q, s)

BeatSound == \A p, s \in Proc : beat[p].acks[s] <= Known(p, s)

\* Nobody has delivered more messages of s than s itself.
LastSound == \A p, s \in Proc : last[p][s] <= last[s][s]

NoSelfSuspicion == \A p \in Proc : p \notin failed[p]

\* A destination that multicast() has not reached yet knows nothing of the
\* message that is being sent.
Unreached ==
    \A p \in Proc : \A q \in toSend[p] :
        /\ q # p /\ ~stamped[p]
        /\ last[q][p] < seq[p]
        /\ \A x \in net : x[1] = q /\ x[2].type = "MESSAGE" /\ x[2].sender = p
                              => x[2].seq < seq[p]
        /\ \A m \in store[q] : m.sender = p => m.seq < seq[p]

IInv ==
    /\ TypeInv
    /\ NetSound
    /\ StoreSound
    /\ AckListSound
    /\ BeatSound
    /\ LastSound
    /\ NoSelfSuspicion
    /\ Retention
    /\ Unreached

-----------------------------------------------------------------------------
(* Types. *)

\* What p acknowledges is a vector of sequence numbers, and it is what p knows.
LEMMA PopulateAcknowledgementsIsKnown ==
    ASSUME TypeOK, NEW p \in Proc
    PROVE  /\ PopulateAcknowledgements(p) \in Acks
           /\ \A s \in Proc : PopulateAcknowledgements(p)[s] = Known(p, s)
BY DEF TypeOK, PopulateAcknowledgements, Acks, Known

\* A message built by NewMessage from values of the right types is a Message.
LEMMA NewMessageType ==
    ASSUME NEW p \in Proc, NEW n \in Seqs, NEW b \in Proc, NEW acks \in Acks,
           NEW fl \in SUBSET Proc,
           NEW t \in {"MESSAGE", "RETRANSREQUEST", "HEARTBEAT"}
    PROVE  NewMessage(p, t, n, b, acks, fl) \in Message
BY DEF NewMessage, Message

\* The acknowledgements of q are merged without leaving the type.
LEMMA UpdateDeliveryAckListType ==
    ASSUME NEW old \in Acks, NEW acks \in Acks
    PROVE  UpdateDeliveryAckList(old, acks) \in Acks
BY DEF UpdateDeliveryAckList, Acks

\* Every request is a well-formed message to a process other than p that is up
\* and that p does not call failed.
LEMMA RetransmissionRequestsType ==
    ASSUME TypeOK, NEW p \in Proc, NEW al \in [Proc -> Acks],
           NEW fl \in SUBSET Proc, NEW m \in Message,
           NEW x \in RetransmissionRequests(p, al, fl, m)
    PROVE  \E q \in DeliveredNodes(p, al, m) \ fl :
           \E i \in Missing(m, last[p][m.sender]) :
               /\ x = <<q, NewMessage(p, "RETRANSREQUEST", i, m.sender,
                                      PopulateAcknowledgements(p), fl)>>
               /\ q \in Proc
               /\ i \in Seqs
               /\ x \in Proc \X Message
<1>1. PICK i \in Missing(m, last[p][m.sender]) :
          x \in Unicast(DeliveredNodes(p, al, m), fl,
                        NewMessage(p, "RETRANSREQUEST", i, m.sender,
                                   PopulateAcknowledgements(p), fl))
  BY DEF RetransmissionRequests
<1>2. PICK q \in DeliveredNodes(p, al, m) \ fl :
          x = <<q, NewMessage(p, "RETRANSREQUEST", i, m.sender,
                              PopulateAcknowledgements(p), fl)>>
  BY <1>1 DEF Unicast
<1>3. q \in Proc
  BY DEF DeliveredNodes, External
<1>4. i \in Seqs /\ m.sender \in Proc
  BY MaxSeqAssumption
     DEF Missing, TypeOK, Acks, Seqs, Message
<1>5. NewMessage(p, "RETRANSREQUEST", i, m.sender,
                 PopulateAcknowledgements(p), fl) \in Message
  BY <1>4, PopulateAcknowledgementsIsKnown, NewMessageType
<1>6. QED
  BY <1>2, <1>3, <1>4, <1>5

\* The type invariant holds before any thread has taken a step.
LEMMA TypeInit == Init => TypeInv
BY MaxSeqAssumption, MaxFaultAssumption
   DEF Init, TypeInv, TypeOK, SelfCount, Acks, Seqs, NoBeat

\* The datagrams unicast() emits.
LEMMA UnicastType ==
    ASSUME NEW D \in SUBSET Proc, NEW fl, NEW m \in Message
    PROVE  Unicast(D, fl, m) \subseteq Proc \X Message
BY DEF Unicast

\* The part of receive() that depends on the kind of message keeps the types of
\* what it writes, and leaves the own delivery count of p alone.
LEMMA ReceiveKindType ==
    ASSUME TypeOK, NEW p \in Proc, NEW m \in Message,
           NEW al \in [Proc -> Acks], NEW fl \in SUBSET Proc,
           NEW rest \in SUBSET (Proc \X Message),
           \/ ReceiveRetransRequest(p, m, fl, rest)
           \/ ReceiveDuplicate(p, m, rest)
           \/ ReceiveMessage(p, m, al, fl, rest)
           \/ ReceiveHeartbeat(p, m, al, fl, rest)
           \/ ReceiveAbort(p, m, al, rest)
    PROVE  /\ status' \in [Proc -> {"up", "crashed", "aborted"}]
           /\ last' \in [Proc -> Acks]
           /\ store' \in [Proc -> SUBSET Message]
           /\ net' \in SUBSET (Proc \X Message)
           /\ \A q \in Proc : last'[q][q] = last[q][q]
<1>1. RetransmissionRequests(p, al, fl, m) \subseteq Proc \X Message
  BY RetransmissionRequestsType
<1>2. CASE ReceiveRetransRequest(p, m, fl, rest)
  <2>1. CASE GetMessage(store[p], m.body, m.seq) = {}
    BY <1>2, <2>1 DEF ReceiveRetransRequest, TypeOK
  <2>2. CASE GetMessage(store[p], m.body, m.seq) # {}
    <3>1. PICK x \in GetMessage(store[p], m.body, m.seq) :
              net' = rest \cup Unicast({m.sender}, fl, x)
      BY <1>2, <2>2 DEF ReceiveRetransRequest
    <3>2. x \in Message /\ {m.sender} \in SUBSET Proc
      BY DEF GetMessage, TypeOK, Message
    <3>3. Unicast({m.sender}, fl, x) \subseteq Proc \X Message
      BY <3>2, UnicastType
    <3>4. QED
      BY <1>2, <3>1, <3>3 DEF ReceiveRetransRequest, TypeOK
  <2>3. QED
    BY <2>1, <2>2
<1>3. CASE ReceiveDuplicate(p, m, rest)
  BY <1>3 DEF ReceiveDuplicate, TypeOK
<1>4. CASE ReceiveMessage(p, m, al, fl, rest)
  <2>1. PICK l \in ProcessUndelivered(p, store[p] \cup {m}) :
            /\ last' = [last EXCEPT ![p] = l]
            /\ \E st \in CleanMessageStore(p, al, l, store[p] \cup {m}) :
                   store' = [store EXCEPT ![p] = st]
    BY <1>4 DEF ReceiveMessage
  <2>2. PICK st \in CleanMessageStore(p, al, l, store[p] \cup {m}) :
            store' = [store EXCEPT ![p] = st]
    BY <2>1
  <2>3. st \subseteq store[p] \cup {m}
    BY DEF CleanMessageStore
  <2>4. l \in Acks /\ l[p] = last[p][p]
    BY DEF ProcessUndelivered
  <2>5. /\ last' \in [Proc -> Acks]
        /\ \A q \in Proc : last'[q][q] = last[q][q]
    BY <2>1, <2>4 DEF TypeOK
  <2>6. store' \in [Proc -> SUBSET Message]
    BY <2>2, <2>3 DEF TypeOK
  <2>7. QED
    BY <1>1, <1>4, <2>5, <2>6 DEF ReceiveMessage, TypeOK
<1>5. CASE ReceiveHeartbeat(p, m, al, fl, rest)
  BY <1>1, <1>5 DEF ReceiveHeartbeat, TypeOK
<1>6. CASE ReceiveAbort(p, m, al, rest)
  BY <1>6 DEF ReceiveAbort, NotTo, TypeOK
<1>7. QED
  BY <1>2, <1>3, <1>4, <1>5, <1>6

\* The local names of Receive, and what it does before it looks at the kind.
MergedAcks(p, m) ==
    [ackList[p] EXCEPT ![m.sender] = UpdateDeliveryAckList(@, m.acks)]
MergedFailed(p, m) == failed[p] \cup m.failed
RestOfNet(p, m) == net \ {<<p, m>>}

ReceiveKind(p, m, al, fl, rest) ==
    \/ ReceiveRetransRequest(p, m, fl, rest)
    \/ ReceiveDuplicate(p, m, rest)
    \/ ReceiveMessage(p, m, al, fl, rest)
    \/ ReceiveHeartbeat(p, m, al, fl, rest)
    \/ ReceiveAbort(p, m, al, rest)

\* Receive(p, m) with its LET written out.
LEMMA ReceiveUnfolded ==
    ASSUME NEW p, NEW m, Receive(p, m)
    PROVE  /\ status[p] = "up" /\ <<p, m>> \in net
           /\ ackList' = [ackList EXCEPT ![p] = MergedAcks(p, m)]
           /\ failed' = [failed EXCEPT ![p] = MergedFailed(p, m)]
           /\ ReceiveKind(p, m, MergedAcks(p, m), MergedFailed(p, m),
                          RestOfNet(p, m))
           /\ armed' = [armed EXCEPT ![p] = TRUE]
           /\ UNCHANGED <<seq, stamped, toSend, beat, faults>>
BY DEF Receive, MergedAcks, MergedFailed, RestOfNet, ReceiveKind

\* The acknowledgement lists and the failed set that receive() merges
\* from a datagram keep their types.
LEMMA MergedType ==
    ASSUME TypeOK, NEW p \in Proc, NEW m \in Message
    PROVE  /\ MergedAcks(p, m) \in [Proc -> Acks]
           /\ MergedFailed(p, m) \in SUBSET Proc
           /\ RestOfNet(p, m) \in SUBSET (Proc \X Message)
<1>1. /\ ackList[p] \in [Proc -> Acks] /\ m.sender \in Proc
      /\ m.acks \in Acks /\ m.failed \in SUBSET Proc
  BY DEF TypeOK, Message
<1>2. UpdateDeliveryAckList(ackList[p][m.sender], m.acks) \in Acks
  BY <1>1, UpdateDeliveryAckListType
<1>3. QED
  BY <1>1, <1>2 DEF MergedAcks, MergedFailed, RestOfNet, TypeOK

\* No step of any thread or fault breaks the type invariant.
LEMMA TypeStep == TypeInv /\ [Next]_vars => TypeInv'
<1> SUFFICES ASSUME TypeInv, [Next]_vars
             PROVE  TypeInv'
  OBVIOUS
<1>0. TypeOK /\ SelfCount
  BY DEF TypeInv
<1>1. ASSUME NEW p \in Proc, MulticastBegin(p)
      PROVE  TypeInv'
  <2>1. seq[p] + 1 \in Seqs
    <3>1. MaxCasts[p] \in 0 .. MaxSeq /\ MaxSeq \in Nat
      BY MaxSeqAssumption, MaxCastsAssumption
    <3>2. seq[p] \in 0 .. MaxSeq
      BY <1>0 DEF TypeOK, Seqs
    <3>3. seq[p] < MaxCasts[p]
      BY <1>1 DEF MulticastBegin
    <3>4. QED
      BY <3>1, <3>2, <3>3 DEF Seqs
  <2>2. TypeOK'
    BY <1>0, <1>1, <2>1 DEF MulticastBegin, TypeOK
  <2>3. SelfCount'
    BY <1>0, <1>1 DEF MulticastBegin, TypeOK, SelfCount, Acks, Seqs
  <2>4. QED
    BY <2>2, <2>3 DEF TypeInv
<1>2. ASSUME NEW p \in Proc, MulticastStore(p)
      PROVE  TypeInv'
  <2>1. last[p][p] + 1 = seq[p]
    BY <1>0, <1>2 DEF MulticastStore, SelfCount
  <2>2. NewMessage(p, "MESSAGE", seq[p], p, PopulateAcknowledgements(p),
                   failed[p]) \in Message
    <3>1. seq[p] \in Seqs /\ failed[p] \in SUBSET Proc
      BY <1>0 DEF TypeOK
    <3>2. PopulateAcknowledgements(p) \in Acks
      BY <1>0, PopulateAcknowledgementsIsKnown
    <3>3. QED
      BY <3>1, <3>2, NewMessageType
  <2>3. store' \in [Proc -> SUBSET Message]
    BY <1>0, <1>2, <2>2 DEF MulticastStore, TypeOK
  <2>4. last' \in [Proc -> Acks] /\ last'[p][p] = seq[p]
        /\ \A q \in Proc : q # p => last'[q] = last[q]
    BY <1>0, <1>2, <2>1 DEF MulticastStore, TypeOK, Acks
  <2>5. TypeOK'
    BY <1>0, <1>2, <2>3, <2>4 DEF MulticastStore, TypeOK, External
  <2>6. SelfCount'
    BY <1>0, <1>2, <2>4 DEF MulticastStore, TypeOK, SelfCount
  <2>7. QED
    BY <2>5, <2>6 DEF TypeInv
<1>3. ASSUME NEW p \in Proc, NEW q \in Proc, MulticastSend(p, q)
      PROVE  TypeInv'
  <2>1. PICK m \in GetMessage(store[p], p, seq[p]) :
            net' = net \cup Unicast({q}, failed[p], m)
    BY <1>3 DEF MulticastSend
  <2>2. m \in Message
    BY <1>0 DEF GetMessage, TypeOK
  <2>3. net' \in SUBSET (Proc \X Message)
    BY <1>0, <2>1, <2>2, UnicastType DEF TypeOK
  <2>4. QED
    BY <1>0, <1>3, <2>3 DEF MulticastSend, TypeInv, TypeOK, SelfCount
<1>4. ASSUME NEW p \in Proc, HeartbeatSnapshot(p)
      PROVE  TypeInv'
  <2>1. PopulateAcknowledgements(p) \in Acks
    BY <1>0, PopulateAcknowledgementsIsKnown
  <2>2. QED
    BY <1>0, <1>4, <2>1 DEF HeartbeatSnapshot, TypeInv, TypeOK, SelfCount
<1>5. ASSUME NEW p \in Proc, HeartbeatSend(p)
      PROVE  TypeInv'
  <2>1. NewMessage(p, "HEARTBEAT", seq[p], p, beat[p].acks, failed[p])
            \in Message
    BY <1>0, NewMessageType DEF TypeOK
  <2>2. net' \in SUBSET (Proc \X Message)
    BY <1>0, <1>5, <2>1, UnicastType DEF HeartbeatSend, TypeOK, External
  <2>3. NoBeat \in [collected : BOOLEAN, acks : Acks]
    BY MaxSeqAssumption DEF NoBeat, Acks, Seqs
  <2>4. QED
    BY <1>0, <1>5, <2>2, <2>3 DEF HeartbeatSend, TypeInv, TypeOK, SelfCount
<1>6. ASSUME NEW p \in Proc, NEW q \in Proc, Suspect(p, q)
      PROVE  TypeInv'
  BY <1>0, <1>6, MaxFaultAssumption
     DEF Suspect, Happens, TypeInv, TypeOK, SelfCount, Fault
<1>7. ASSUME NEW p \in Proc, Crash(p)
      PROVE  TypeInv'
  BY <1>0, <1>7, MaxFaultAssumption
     DEF Crash, Happens, NotTo, TypeInv, TypeOK, SelfCount, Fault
<1>8. ASSUME NEW p \in Proc, NEW m \in Message, Receive(p, m)
      PROVE  TypeInv'
  <2>1. /\ MergedAcks(p, m) \in [Proc -> Acks]
        /\ MergedFailed(p, m) \in SUBSET Proc
        /\ RestOfNet(p, m) \in SUBSET (Proc \X Message)
        /\ ReceiveKind(p, m, MergedAcks(p, m), MergedFailed(p, m),
                       RestOfNet(p, m))
    BY <1>0, <1>8, MergedType, ReceiveUnfolded
  <2>2. /\ status' \in [Proc -> {"up", "crashed", "aborted"}]
        /\ last' \in [Proc -> Acks]
        /\ store' \in [Proc -> SUBSET Message]
        /\ net' \in SUBSET (Proc \X Message)
        /\ \A q \in Proc : last'[q][q] = last[q][q]
    BY <1>0, <2>1, ReceiveKindType DEF ReceiveKind
  <2>3. /\ ackList' \in [Proc -> [Proc -> Acks]]
        /\ failed' \in [Proc -> SUBSET Proc]
        /\ armed' \in [Proc -> BOOLEAN]
    <3>1. /\ ackList' = [ackList EXCEPT ![p] = MergedAcks(p, m)]
          /\ failed' = [failed EXCEPT ![p] = MergedFailed(p, m)]
          /\ armed' = [armed EXCEPT ![p] = TRUE]
      BY <1>8, ReceiveUnfolded
    <3>2. QED
      BY <1>0, <2>1, <3>1 DEF TypeOK
  <2>4. UNCHANGED <<seq, stamped, toSend, beat, faults>>
    BY <1>8, ReceiveUnfolded
  <2>5. TypeOK'
    BY <1>0, <2>2, <2>3, <2>4 DEF TypeOK
  <2>6. SelfCount'
    BY <1>0, <2>2, <2>4 DEF SelfCount
  <2>7. QED
    BY <2>5, <2>6 DEF TypeInv
<1>9. ASSUME NEW x \in net, Lose(x)
      PROVE  TypeInv'
  BY <1>0, <1>9, MaxFaultAssumption
     DEF Lose, Happens, TypeInv, TypeOK, SelfCount, Fault
<1>10. CASE UNCHANGED vars
  BY <1>0, <1>10 DEF vars, TypeInv, TypeOK, SelfCount
<1>11. \A x \in net : x[1] \in Proc /\ x[2] \in Message
  BY <1>0 DEF TypeOK
<1>12. QED
  BY <1>1, <1>2, <1>3, <1>4, <1>5, <1>6, <1>7, <1>8, <1>9, <1>10, <1>11
     DEF Next

\* Every variable keeps its shape, and a sequence number is ahead of the own
\* deliveries by exactly the message being built.
THEOREM TypeCorrect == Spec => []TypeOK
<1>1. TypeInv => TypeOK
  BY DEF TypeInv
<1>2. QED
  BY <1>1, TypeInit, TypeStep, PTL DEF Spec

-----------------------------------------------------------------------------
(* Growth. *)

Grows ==
    /\ \A p \in Proc : seq[p] <= seq'[p] /\ failed[p] \subseteq failed'[p]
    /\ \A p, q \in Proc : last[p][q] <= last'[p][q]
    /\ \A p, q, s \in Proc : ackList[p][q][s] <= ackList'[p][q][s]

\* updateDeliveryAckList() (state.cc) never lowers an entry.
LEMMA UpdateDeliveryAckListGrows ==
    ASSUME NEW old \in Acks, NEW acks \in Acks, NEW s \in Proc
    PROVE  old[s] <= UpdateDeliveryAckList(old, acks)[s]
BY MaxSeqAssumption DEF UpdateDeliveryAckList, Acks, Seqs

\* Whatever kind of datagram receive() handles, the delivery counts grow, and only
\* those of the process that receives.
LEMMA ReceiveKindGrows ==
    ASSUME TypeOK, NEW p \in Proc, NEW m \in Message, NEW al, NEW fl, NEW rest,
           ReceiveKind(p, m, al, fl, rest), NEW q \in Proc, NEW s \in Proc
    PROVE  last[q][s] <= last'[q][s]
<1>1. last[q][s] \in Nat
  BY MaxSeqAssumption DEF TypeOK, Acks, Seqs
<1>2. CASE ReceiveMessage(p, m, al, fl, rest)
  <2>1. PICK l \in ProcessUndelivered(p, store[p] \cup {m}) :
            last' = [last EXCEPT ![p] = l]
    BY <1>2 DEF ReceiveMessage
  <2>2. l[s] \in Nat /\ last[p][s] \in Nat
    BY MaxSeqAssumption DEF ProcessUndelivered, TypeOK, Acks, Seqs
  <2>3. l[s] > last[p][s] \/ l[s] = last[p][s]
    BY DEF ProcessUndelivered
  <2>4. CASE q = p
    <3>1. last'[q][s] = l[s]
      BY <2>1, <2>4 DEF TypeOK
    <3>2. QED
      BY <2>2, <2>3, <2>4, <3>1
  <2>5. CASE q # p
    <3>1. last'[q][s] = last[q][s]
      BY <2>1, <2>5 DEF TypeOK
    <3>2. QED
      BY <1>1, <3>1
  <2>6. QED
    BY <2>4, <2>5
<1>3. CASE UNCHANGED last
  BY <1>1, <1>3
<1>4. QED
  BY <1>2, <1>3 DEF ReceiveKind, ReceiveRetransRequest, ReceiveDuplicate,
                    ReceiveHeartbeat, ReceiveAbort

\* Sequence numbers, delivery counts, acknowledgements and suspicions grow in
\* every step.
LEMMA StepGrows ==
    ASSUME TypeInv, TypeInv', [Next]_vars
    PROVE  Grows
<1>0. /\ TypeOK /\ SelfCount
      /\ \A p, s \in Proc : seq[p] \in Nat /\ last[p][s] \in Nat
      /\ \A p, q, s \in Proc : ackList[p][q][s] \in Nat
  BY MaxSeqAssumption DEF TypeInv, TypeOK, Acks, Seqs
<1>1. ASSUME NEW p \in Proc, MulticastBegin(p)
      PROVE  Grows
  BY <1>0, <1>1 DEF MulticastBegin, Grows, TypeOK
<1>2. ASSUME NEW p \in Proc, MulticastStore(p)
      PROVE  Grows
  <2>1. UNCHANGED <<seq, ackList, failed>>
    BY <1>2 DEF MulticastStore
  <2>2. \A q, s \in Proc : last'[q][s] =
            IF q = p /\ s = p THEN last[q][s] + 1 ELSE last[q][s]
    BY <1>0, <1>2 DEF MulticastStore, TypeOK, Acks
  <2>3. \A q, s \in Proc : last[q][s] <= last'[q][s]
    BY <1>0, <2>2
  <2>4. QED
    BY <1>0, <2>1, <2>3 DEF Grows
<1>3. ASSUME NEW p \in Proc, NEW q \in Proc, Suspect(p, q)
      PROVE  Grows
  BY <1>0, <1>3 DEF Suspect, Grows, TypeOK
<1>4. ASSUME NEW p \in Proc, NEW m \in Message, Receive(p, m)
      PROVE  Grows
  <2>1. /\ ackList' = [ackList EXCEPT ![p] = MergedAcks(p, m)]
        /\ failed' = [failed EXCEPT ![p] = MergedFailed(p, m)]
        /\ UNCHANGED seq
        /\ ReceiveKind(p, m, MergedAcks(p, m), MergedFailed(p, m),
                       RestOfNet(p, m))
    BY <1>4, ReceiveUnfolded
  <2>2. \A q, s \in Proc : last[q][s] <= last'[q][s]
    BY <1>0, <2>1, ReceiveKindGrows
  <2>3. \A q \in Proc : failed[q] \subseteq failed'[q]
    BY <1>0, <2>1 DEF MergedFailed, TypeOK
  <2>4. ASSUME NEW q \in Proc, NEW s \in Proc
        PROVE  ackList[p][q][s] <= MergedAcks(p, m)[q][s]
    <3>1. ackList[p] \in [Proc -> Acks] /\ m.acks \in Acks /\ m.sender \in Proc
      BY <1>0 DEF TypeOK, Message
    <3>2. ackList[p][m.sender][s] <=
              UpdateDeliveryAckList(ackList[p][m.sender], m.acks)[s]
      BY <3>1, UpdateDeliveryAckListGrows
    <3>3. QED
      BY <1>0, <3>1, <3>2 DEF MergedAcks
  <2>5. \A r, q, s \in Proc : ackList[r][q][s] <= ackList'[r][q][s]
    BY <1>0, <2>1, <2>4 DEF TypeOK
  <2>6. QED
    BY <1>0, <2>1, <2>2, <2>3, <2>5 DEF Grows
<1>5. CASE UNCHANGED <<seq, last, ackList, failed>>
  BY <1>0, <1>5 DEF Grows
<1>6. \A x \in net : x[1] \in Proc /\ x[2] \in Message
  BY <1>0 DEF TypeOK
<1>7. QED
  BY <1>1, <1>2, <1>3, <1>4, <1>5, <1>6
     DEF Next, MulticastSend, HeartbeatSnapshot, HeartbeatSend, Crash, Lose, vars

\* A late, repeated or reordered datagram never takes knowledge back.
THEOREM KnowledgeGrows == Spec => KnowledgeOnlyGrows
<1>1. TypeInv /\ TypeInv' /\ [Next]_vars =>
          [\A p, q \in Proc :
               /\ last[p][q] <= last'[p][q]
               /\ \A s \in Proc : ackList[p][q][s] <= ackList'[p][q][s]
               /\ failed[p] \subseteq failed'[p]]_vars
  BY StepGrows DEF Grows
<1>2. QED
  BY <1>1, TypeInit, TypeStep, PTL DEF Spec, KnowledgeOnlyGrows

\* What a process may truthfully acknowledge grows.
LEMMA KnownGrows ==
    ASSUME TypeOK, TypeOK', Grows, NEW q \in Proc, NEW s \in Proc
    PROVE  /\ Known(q, s) \in Nat /\ Known(q, s)' \in Nat
           /\ Known(q, s) <= Known(q, s)'
BY MaxSeqAssumption DEF TypeOK, Grows, Known, Acks, Seqs

\* What was true of the sender when a message was built remains true.
LEMMA SoundGrows ==
    ASSUME TypeOK, TypeOK', Grows, NEW m \in Message, Sound(m)
    PROVE  Sound(m)'
<1>1. /\ m.sender \in Proc /\ m.body \in Proc /\ m.seq \in Nat
      /\ \A s \in Proc : m.acks[s] \in Nat
  BY MaxSeqAssumption DEF Message, Acks, Seqs
<1>2. \A s \in Proc : m.acks[s] <= Known(m.sender, s)'
  BY <1>1, KnownGrows DEF Sound
<1>3. \A q \in Proc : /\ seq[q] \in Nat /\ seq'[q] \in Nat /\ seq[q] <= seq'[q]
                      /\ last[q][q] \in Nat /\ last'[q][q] \in Nat
                      /\ last[q][q] <= last'[q][q]
  BY MaxSeqAssumption DEF TypeOK, Grows, Acks, Seqs
<1>4. m.type = "MESSAGE" => m.seq <= last'[m.sender][m.sender]
  BY <1>1, <1>3 DEF Sound
<1>5. m.type = "HEARTBEAT" => m.seq <= seq'[m.sender]
  BY <1>1, <1>3 DEF Sound
<1>6. m.type = "RETRANSREQUEST" => m.seq \in 1 .. seq'[m.body] - 1
  BY <1>1, <1>3 DEF Sound
<1>7. QED
  BY <1>2, <1>4, <1>5, <1>6 DEF Sound

\* A datagram that is true stays true, however late it arrives.
LEMMA DatagramGrows ==
    ASSUME TypeOK, TypeOK', Grows, NEW x \in Proc \X Message, DatagramSound(x)
    PROVE  DatagramSound(x)'
<1>1. x[1] \in Proc /\ x[2] \in Message /\ x[2].body \in Proc /\ x[2].seq \in Nat
  BY MaxSeqAssumption DEF Message, Seqs
<1>2. Sound(x[2])'
  BY <1>1, SoundGrows DEF DatagramSound
<1>3. /\ last[x[1]][x[2].body] \in Nat /\ last'[x[1]][x[2].body] \in Nat
      /\ last[x[1]][x[2].body] <= last'[x[1]][x[2].body]
  BY <1>1, MaxSeqAssumption DEF TypeOK, Grows, Acks, Seqs
<1>4. QED
  BY <1>1, <1>2, <1>3 DEF DatagramSound

\* A stored message that is true stays true.
LEMMA KeptGrows ==
    ASSUME TypeOK, TypeOK', Grows, NEW p \in Proc, NEW m \in Message,
           KeptSound(p, m)
    PROVE  KeptSound(p, m)'
BY SoundGrows DEF KeptSound, Grows

-----------------------------------------------------------------------------
(* The inductive invariant, action by action. *)

\* The inductive invariant holds before any thread has taken a step.
LEMMA IInvInit == Init => IInv
<1> SUFFICES ASSUME Init
             PROVE  IInv
  OBVIOUS
<1>1. TypeInv
  BY TypeInit
<1>2. NetSound /\ StoreSound /\ NoSelfSuspicion /\ Unreached
  BY DEF Init, NetSound, StoreSound, NoSelfSuspicion, Unreached
<1>3. AckListSound /\ BeatSound /\ LastSound
  BY DEF Init, AckListSound, BeatSound, LastSound, Known, External, NoBeat
<1>4. Retention
  BY DEF Init, Retention
<1>5. QED
  BY <1>1, <1>2, <1>3, <1>4 DEF IInv

\* What held before a step of everything that was there holds after it.
LEMMA CarryOver ==
    ASSUME IInv, TypeInv', Grows
    PROVE  /\ \A x \in net : DatagramSound(x)'
           /\ \A p \in Proc : \A m \in store[p] : KeptSound(p, m)'
           /\ \A p, s \in Proc : \A q \in External(p) :
                  ackList[p][q][s] <= Known(q, s)'
           /\ \A p, s \in Proc : beat[p].acks[s] <= Known(p, s)'
<1>0. TypeOK /\ TypeOK'
  BY DEF IInv, TypeInv
<1>1. \A x \in net : DatagramSound(x)'
  BY <1>0, DatagramGrows DEF IInv, NetSound, TypeOK
<1>2. \A p \in Proc : \A m \in store[p] : KeptSound(p, m)'
  BY <1>0, KeptGrows DEF IInv, StoreSound, TypeOK
<1>3. \A p, q, s \in Proc : ackList[p][q][s] \in Nat /\ beat[p].acks[s] \in Nat
  BY <1>0, MaxSeqAssumption DEF TypeOK, Acks, Seqs
<1>4. \A p, s \in Proc : \A q \in External(p) :
          ackList[p][q][s] <= Known(q, s)'
  BY <1>0, <1>3, KnownGrows DEF IInv, AckListSound, External
<1>5. \A p, s \in Proc : beat[p].acks[s] <= Known(p, s)'
  BY <1>0, <1>3, KnownGrows DEF IInv, BeatSound
<1>6. QED
  BY <1>1, <1>2, <1>4, <1>5

\* Retention outlives every step that delivers nothing and erases nothing.
LEMMA RetentionCarriesOver ==
    ASSUME IInv, TypeInv', Grows, UNCHANGED <<last, store>>
    PROVE  Retention'
<1>0. TypeOK /\ TypeOK' /\ Retention
  BY DEF IInv, TypeInv
<1> SUFFICES ASSUME NEW p \in Proc, NEW s \in Proc, NEW n \in 1 .. last'[p][s],
                    NEW r \in External(p), Known(r, s)' < n
             PROVE  GetMessage(store'[p], s, n) # {}
  BY DEF Retention, GetMessage
<1>1. Known(r, s) < n
  BY <1>0, KnownGrows DEF External
<1>2. n \in 1 .. last[p][s]
  OBVIOUS
<1>3. QED
  BY <1>0, <1>1, <1>2 DEF Retention, GetMessage

\* Taking a sequence number in multicast() preserves the inductive invariant.
LEMMA IInvMulticastBegin ==
    ASSUME IInv, TypeInv', Grows, NEW p \in Proc, MulticastBegin(p)
    PROVE  IInv'
<1>0. TypeOK /\ TypeOK'
  BY DEF IInv, TypeInv
<1>1. UNCHANGED <<last, ackList, failed, store, toSend, beat, net>>
  BY DEF MulticastBegin
<1>2. NetSound' /\ StoreSound' /\ AckListSound' /\ BeatSound'
  BY <1>1, CarryOver DEF NetSound, StoreSound, AckListSound, BeatSound
<1>3. LastSound' /\ NoSelfSuspicion'
  BY <1>1 DEF IInv, LastSound, NoSelfSuspicion
<1>4. Retention'
  BY <1>1, RetentionCarriesOver
<1>5. \A q \in Proc : q # p => seq'[q] = seq[q] /\ stamped'[q] = stamped[q]
  BY <1>0 DEF MulticastBegin, TypeOK
<1>6. toSend[p] = {}
  BY DEF MulticastBegin
<1>7. Unreached'
  BY <1>1, <1>5, <1>6 DEF IInv, Unreached
<1>8. QED
  BY <1>2, <1>3, <1>4, <1>7 DEF IInv

\* Building, delivering and storing one's own message preserves it.
LEMMA IInvMulticastStore ==
    ASSUME IInv, TypeInv', Grows, NEW p \in Proc, MulticastStore(p)
    PROVE  IInv'
<1>0. TypeOK /\ TypeOK' /\ SelfCount
  BY DEF IInv, TypeInv
<1>a. PICK new : new = NewMessage(p, "MESSAGE", seq[p], p,
                                  PopulateAcknowledgements(p), failed[p])
  OBVIOUS
<1>1. UNCHANGED <<seq, ackList, failed, beat, net>>
  BY DEF MulticastStore
<1>2. /\ store'[p] = store[p] \cup {new}
      /\ \A q \in Proc : q # p => store'[q] = store[q]
  BY <1>0, <1>a DEF MulticastStore, TypeOK
<1>3. /\ last'[p][p] = seq[p] /\ last[p][p] + 1 = seq[p]
      /\ \A q, s \in Proc : q # p \/ s # p => last'[q][s] = last[q][s]
  BY <1>0 DEF MulticastStore, TypeOK, Acks, SelfCount
<1>4. \A q, s \in Proc : /\ last[q][s] \in Nat /\ last'[q][s] \in Nat
                         /\ seq[q] \in Nat
  BY <1>0, MaxSeqAssumption DEF TypeOK, Acks, Seqs
<1>5. \A q, s \in Proc : Known(q, s)' = Known(q, s)
  BY <1>1, <1>3 DEF Known
<1>6. /\ new.type = "MESSAGE" /\ new.sender = p /\ new.seq = seq[p]
      /\ new.acks = PopulateAcknowledgements(p) /\ new.failed = failed[p]
  BY <1>a DEF NewMessage
<1>7. KeptSound(p, new)'
  <2>1. \A s \in Proc : new.acks[s] = Known(p, s)'
    BY <1>0, <1>5, <1>6, PopulateAcknowledgementsIsKnown
  <2>2. Known(p, p)' = seq[p]
    BY <1>1 DEF Known
  <2>3. \A s \in Proc : Known(p, s)' \in Nat
    BY <1>1, <1>4 DEF Known
  <2>4. Sound(new)'
    BY <1>1, <1>3, <1>4, <1>6, <2>1, <2>2, <2>3 DEF Sound
  <2>5. QED
    BY <1>1, <1>6, <2>4 DEF KeptSound
<1>8. StoreSound'
  BY <1>2, <1>7, CarryOver DEF StoreSound
<1>9. NetSound' /\ AckListSound' /\ BeatSound'
  BY <1>1, CarryOver DEF NetSound, AckListSound, BeatSound
<1>10. NoSelfSuspicion'
  BY <1>1 DEF IInv, NoSelfSuspicion
<1>11. LastSound'
  <2>1. \A q, s \in Proc : last[q][s] <= last[s][s]
    BY DEF IInv, LastSound
  <2>2. \A q, s \in Proc : last'[q][s] <= last'[s][s]
    BY <1>3, <1>4, <2>1
  <2>3. QED
    BY <2>2 DEF LastSound
<1>12. Retention'
  <2> SUFFICES ASSUME NEW q \in Proc, NEW s \in Proc,
                      NEW n \in 1 .. last'[q][s],
                      NEW r \in External(q), Known(r, s)' < n
               PROVE  GetMessage(store'[q], s, n) # {}
    BY DEF Retention, GetMessage
  <2>1. CASE n \in 1 .. last[q][s]
    <3>1. GetMessage(store[q], s, n) # {}
      BY <1>5, <2>1 DEF IInv, Retention, External
    <3>2. store[q] \subseteq store'[q]
      BY <1>2
    <3>3. QED
      BY <3>1, <3>2 DEF GetMessage
  <2>2. CASE n \notin 1 .. last[q][s]
    <3>1. q = p /\ s = p /\ n = seq[p]
      BY <1>3, <1>4, <2>2
    <3>2. QED
      BY <1>2, <1>6, <3>1 DEF GetMessage
  <2>3. QED
    BY <2>1, <2>2
<1>13. Unreached'
  <2> SUFFICES ASSUME NEW r \in Proc, NEW q \in toSend'[r]
               PROVE  /\ q # r /\ ~stamped'[r]
                      /\ last'[q][r] < seq'[r]
                      /\ \A x \in net' : x[1] = q /\ x[2].type = "MESSAGE"
                                             /\ x[2].sender = r
                                             => x[2].seq < seq'[r]
                      /\ \A m \in store'[q] : m.sender = r => m.seq < seq'[r]
    BY DEF Unreached
  <2>0. q \in Proc
    BY <1>0 DEF TypeOK
  <2>1. CASE r = p
    <3>1. q # p /\ ~stamped'[p]
      BY <1>0, <2>1 DEF MulticastStore, External, TypeOK
    <3>2. last'[q][p] < seq[p]
      <4>1. last[q][p] <= last[p][p]
        BY <2>0 DEF IInv, LastSound
      <4>2. QED
        BY <1>3, <1>4, <2>0, <3>1, <4>1
    <3>3. ASSUME NEW x \in net, x[2].type = "MESSAGE", x[2].sender = p
          PROVE  x[2].seq < seq[p]
      <4>1. x[2].seq <= last[p][p]
        BY <3>3 DEF IInv, NetSound, DatagramSound, Sound
      <4>2. x[2].seq \in Nat
        BY <1>0, MaxSeqAssumption DEF TypeOK, Message, Seqs
      <4>3. QED
        BY <1>3, <1>4, <4>1, <4>2
    <3>4. ASSUME NEW m \in store[q], m.sender = p
          PROVE  m.seq < seq[p]
      <4>1. m.seq <= last[p][p]
        BY <2>0, <3>4 DEF IInv, StoreSound, KeptSound, Sound
      <4>2. m.seq \in Nat
        BY <1>0, <2>0, MaxSeqAssumption DEF TypeOK, Message, Seqs
      <4>3. QED
        BY <1>3, <1>4, <4>1, <4>2
    <3>5. store'[q] = store[q]
      BY <1>2, <2>0, <3>1
    <3>6. QED
      BY <1>1, <2>1, <3>1, <3>2, <3>3, <3>4, <3>5
  <2>2. CASE r # p
    <3>1. q \in toSend[r] /\ stamped'[r] = stamped[r]
      BY <1>0, <2>2 DEF MulticastStore, TypeOK
    <3>2. \A m \in store'[q] : m.sender = r => m \in store[q]
      BY <1>2, <1>6, <2>0, <2>2
    <3>3. last'[q][r] = last[q][r]
      BY <1>3, <2>0, <2>2
    <3>4. QED
      BY <1>1, <3>1, <3>2, <3>3 DEF IInv, Unreached
  <2>3. QED
    BY <2>1, <2>2
<1>14. QED
  BY <1>8, <1>9, <1>10, <1>11, <1>12, <1>13 DEF IInv

\* Steps that only put datagrams in flight, or only take them out.
LEMMA IInvNetStep ==
    ASSUME IInv, TypeInv', Grows,
           UNCHANGED <<seq, last, ackList, failed, store, stamped>>,
           BeatSound',
           \A p \in Proc : toSend'[p] \subseteq toSend[p],
           \A x \in net' \ net :
               /\ DatagramSound(x)
               /\ x[2].type = "MESSAGE" =>
                      /\ x[1] \notin toSend'[x[2].sender]
    PROVE  IInv'
<1>0. TypeOK /\ TypeOK'
  BY DEF IInv, TypeInv
<1>1. NetSound'
  <2>1. \A x \in net' \ net : DatagramSound(x)'
    BY <1>0, DatagramGrows DEF TypeOK
  <2>2. QED
    BY <2>1, CarryOver DEF NetSound
<1>2. StoreSound' /\ AckListSound'
  BY CarryOver DEF StoreSound, AckListSound
<1>3. LastSound' /\ NoSelfSuspicion'
  BY DEF IInv, LastSound, NoSelfSuspicion
<1>4. Retention'
  BY RetentionCarriesOver
<1>5. Unreached'
  BY DEF IInv, Unreached
<1>6. QED
  BY <1>1, <1>2, <1>3, <1>4, <1>5 DEF IInv

\* One turn of the unicast loop of multicast() preserves it.
LEMMA IInvMulticastSend ==
    ASSUME IInv, TypeInv', Grows, NEW p \in Proc, NEW q \in Proc,
           MulticastSend(p, q)
    PROVE  IInv'
<1>0. TypeOK
  BY DEF IInv, TypeInv
<1>1. UNCHANGED <<seq, last, ackList, failed, store, stamped, beat>>
  BY DEF MulticastSend
<1>2. BeatSound'
  BY <1>1, CarryOver DEF BeatSound
<1>3. /\ toSend'[p] = toSend[p] \ {q} /\ q # p
      /\ \A r \in Proc : toSend'[r] \subseteq toSend[r]
  BY <1>0 DEF MulticastSend, TypeOK, IInv, Unreached
<1>4. PICK m \in GetMessage(store[p], p, seq[p]) :
          net' = net \cup Unicast({q}, failed[p], m)
  BY DEF MulticastSend
<1>5. m \in store[p] /\ m.sender = p
  BY DEF GetMessage
<1>6. KeptSound(p, m)
  BY <1>5 DEF IInv, StoreSound
<1>7. ASSUME NEW x \in net' \ net
      PROVE  DatagramSound(x) /\ x[1] \notin toSend'[x[2].sender]
  <2>1. x = <<q, m>> /\ q \notin failed[p]
    BY <1>4, <1>7 DEF Unicast
  <2>2. QED
    BY <1>3, <1>5, <1>6, <2>1 DEF DatagramSound, KeptSound
<1>8. QED
  BY <1>1, <1>2, <1>3, <1>7, IInvNetStep

\* Sending a heartbeat preserves it, torn or not.
LEMMA IInvHeartbeatSend ==
    ASSUME IInv, TypeInv', Grows, NEW p \in Proc, HeartbeatSend(p)
    PROVE  IInv'
<1>0. TypeOK /\ TypeOK'
  BY DEF IInv, TypeInv
<1>1. UNCHANGED <<seq, last, ackList, failed, store, stamped, toSend>>
  BY DEF HeartbeatSend
<1>2. BeatSound'
  <2>1. \A q, s \in Proc : Known(q, s)' \in Nat
    BY <1>0, MaxSeqAssumption DEF Known, TypeOK, Acks, Seqs
  <2>2. beat'[p] = NoBeat /\ \A q \in Proc : q # p => beat'[q] = beat[q]
    BY <1>0 DEF HeartbeatSend, TypeOK
  <2>3. QED
    BY <2>1, <2>2, CarryOver DEF BeatSound, NoBeat
<1>3. PICK m : m = NewMessage(p, "HEARTBEAT", seq[p], p, beat[p].acks, failed[p])
  OBVIOUS
<1>4. /\ m.type = "HEARTBEAT" /\ m.sender = p /\ m.seq = seq[p]
      /\ m.acks = beat[p].acks /\ m.failed = failed[p]
  BY <1>3 DEF NewMessage
<1>5. Sound(m)
  <2>1. seq[p] <= seq[p]
    BY <1>0, MaxSeqAssumption DEF TypeOK, Seqs
  <2>2. QED
    BY <1>4, <2>1 DEF Sound, IInv, BeatSound
<1>6. ASSUME NEW x \in net' \ net
      PROVE  DatagramSound(x) /\ x[2].type # "MESSAGE"
  <2>1. PICK q \in External(p) \ failed[p] : x = <<q, m>>
    BY <1>3, <1>6 DEF HeartbeatSend, Unicast
  <2>2. QED
    BY <1>4, <1>5, <2>1 DEF DatagramSound, External
<1>7. QED
  BY <1>1, <1>2, <1>6, IInvNetStep

\* Collecting the acknowledgements of a heartbeat preserves it.
LEMMA IInvHeartbeatSnapshot ==
    ASSUME IInv, TypeInv', Grows, NEW p \in Proc, HeartbeatSnapshot(p)
    PROVE  IInv'
<1>0. TypeOK /\ TypeOK'
  BY DEF IInv, TypeInv
<1>1. UNCHANGED <<seq, last, ackList, failed, store, stamped, toSend, net>>
  BY DEF HeartbeatSnapshot
<1>2. BeatSound'
  <2>1. \A s \in Proc : /\ Known(p, s)' \in Nat
                        /\ PopulateAcknowledgements(p)[s] = Known(p, s)'
    BY <1>0, <1>1, PopulateAcknowledgementsIsKnown, MaxSeqAssumption
       DEF Known, TypeOK, Acks, Seqs
  <2>2. /\ beat'[p].acks = PopulateAcknowledgements(p)
        /\ \A q \in Proc : q # p => beat'[q] = beat[q]
    BY <1>0 DEF HeartbeatSnapshot, TypeOK
  <2>3. QED
    BY <2>1, <2>2, CarryOver DEF BeatSound
<1>3. QED
  BY <1>1, <1>2, IInvNetStep

\* A false or true suspicion preserves it.
LEMMA IInvSuspect ==
    ASSUME IInv, TypeInv', Grows, NEW p \in Proc, NEW q \in Proc, Suspect(p, q)
    PROVE  IInv'
<1>0. TypeOK
  BY DEF IInv, TypeInv
<1>1. UNCHANGED <<seq, last, ackList, store, stamped, toSend, beat, net>>
  BY DEF Suspect
<1>2. NetSound' /\ StoreSound' /\ AckListSound' /\ BeatSound'
  BY <1>1, CarryOver DEF NetSound, StoreSound, AckListSound, BeatSound
<1>3. NoSelfSuspicion'
  BY <1>0 DEF Suspect, External, TypeOK, IInv, NoSelfSuspicion
<1>4. LastSound' /\ Unreached'
  BY <1>1 DEF IInv, LastSound, Unreached
<1>5. Retention'
  BY <1>1, RetentionCarriesOver
<1>6. QED
  BY <1>2, <1>3, <1>4, <1>5 DEF IInv

\* After the merge, what p believes of the others is still within the truth.
LEMMA MergedSound ==
    ASSUME TypeOK, AckListSound, NEW p \in Proc, NEW m \in Message, Sound(m)
    PROVE  \A s \in Proc : \A q \in External(p) :
               MergedAcks(p, m)[q][s] <= Known(q, s)
<1> SUFFICES ASSUME NEW s \in Proc, NEW q \in External(p)
             PROVE  MergedAcks(p, m)[q][s] <= Known(q, s)
  OBVIOUS
<1>1. /\ ackList[p] \in [Proc -> Acks] /\ m.acks \in Acks
      /\ m.sender \in Proc /\ q \in Proc
  BY DEF TypeOK, Message, External
<1>2. CASE q = m.sender
  <2>1. MergedAcks(p, m)[q] = UpdateDeliveryAckList(ackList[p][q], m.acks)
    BY <1>1, <1>2 DEF MergedAcks
  <2>2. MergedAcks(p, m)[q][s] \in {ackList[p][q][s], m.acks[s]}
    BY <2>1 DEF UpdateDeliveryAckList
  <2>3. QED
    BY <1>2, <2>2 DEF AckListSound, Sound
<1>3. CASE q # m.sender
  <2>1. MergedAcks(p, m)[q] = ackList[p][q]
    BY <1>1, <1>3 DEF MergedAcks
  <2>2. QED
    BY <2>1 DEF AckListSound
<1>4. QED
  BY <1>2, <1>3

\* A process is only asked for a message that it has delivered.
LEMMA RequestSound ==
    ASSUME TypeInv, NEW p \in Proc, NEW m \in Message, NEW al \in [Proc -> Acks],
           NEW fl \in SUBSET Proc,
           Sound(m), m.type \in {"MESSAGE", "HEARTBEAT"}, p # m.sender,
           \A s \in Proc : \A q \in External(p) : al[q][s] <= Known(q, s),
           NEW x \in RetransmissionRequests(p, al, fl, m)
    PROVE  DatagramSound(x) /\ x[2].type = "RETRANSREQUEST"
<1>0. TypeOK /\ SelfCount
  BY DEF TypeInv
<1>1. PICK q \in DeliveredNodes(p, al, m) \ fl,
           i \in Missing(m, last[p][m.sender]) :
          /\ x = <<q, NewMessage(p, "RETRANSREQUEST", i, m.sender,
                                 PopulateAcknowledgements(p), fl)>>
          /\ q \in Proc /\ i \in Seqs
  BY <1>0, RetransmissionRequestsType
<1>2. q \in External(p) /\ q # p /\ al[q][m.sender] >= m.seq
  BY DEF DeliveredNodes, External
<1>3. m.sender \in Proc /\ m.seq \in Nat /\ m.acks \in Acks
  BY MaxSeqAssumption DEF Message, Seqs
<1>4. \A r, s \in Proc : /\ last[r][s] \in Nat /\ seq[r] \in Nat
                         /\ al[r][s] \in Nat /\ Known(r, s) \in Nat
  BY <1>0, MaxSeqAssumption DEF TypeOK, Acks, Seqs, Known
<1>5. i \in Nat /\ last[p][m.sender] + 1 <= i /\ i <= m.seq - 1
  BY <1>1, <1>3, <1>4, MaxSeqAssumption DEF Missing, Seqs
<1>6. m.seq <= seq[m.sender]
  <2>1. CASE m.type = "HEARTBEAT"
    BY <2>1 DEF Sound
  <2>2. CASE m.type = "MESSAGE"
    <3>1. m.seq <= last[m.sender][m.sender]
      BY <2>2 DEF Sound
    <3>2. last[m.sender][m.sender] <= seq[m.sender]
      BY <1>0, <1>3, <1>4 DEF SelfCount
    <3>3. QED
      BY <1>3, <1>4, <3>1, <3>2
  <2>3. QED
    BY <2>1, <2>2
<1>7. m.seq <= Known(q, m.sender)
  BY <1>1, <1>2, <1>3, <1>4
<1>8. i <= last[q][m.sender]
  <2>1. CASE q = m.sender
    <3>1. seq[q] <= last[q][q] + 1
      BY <1>0, <1>1, <1>4 DEF SelfCount
    <3>2. QED
      BY <1>1, <1>3, <1>4, <1>5, <1>6, <2>1, <3>1
  <2>2. CASE q # m.sender
    BY <1>1, <1>3, <1>4, <1>5, <1>7, <2>2 DEF Known
  <2>3. QED
    BY <2>1, <2>2
<1>9. /\ x[1] = q /\ x[2].type = "RETRANSREQUEST" /\ x[2].sender = p
      /\ x[2].seq = i /\ x[2].body = m.sender
      /\ x[2].acks = PopulateAcknowledgements(p) /\ x[2].failed = fl
  BY <1>1 DEF NewMessage
<1>10. \A s \in Proc : x[2].acks[s] <= Known(p, s)
  BY <1>0, <1>4, <1>9, PopulateAcknowledgementsIsKnown
<1>11. i \in 1 .. seq[m.sender] - 1
  BY <1>3, <1>4, <1>5, <1>6
<1>12. Sound(x[2])
  BY <1>9, <1>10, <1>11 DEF Sound
<1>13. QED
  BY <1>1, <1>2, <1>8, <1>9, <1>12 DEF DatagramSound

\* The datagrams after receive(): the old ones, requests, and at most the
\* message that m asked for, to the process that asked.
LEMMA ReceiveNet ==
    ASSUME IInv, NEW p \in Proc, NEW m \in Message,
           DatagramSound(<<p, m>>), NEW fl, fl = MergedFailed(p, m),
           NEW al, al = MergedAcks(p, m), NEW rest, rest \subseteq net,
           ReceiveKind(p, m, al, fl, rest), NEW x \in net' \ net
    PROVE  /\ DatagramSound(x)
           /\ x[2].type = "MESSAGE" =>
                  /\ m.type = "RETRANSREQUEST"
                  /\ x[2].sender = m.body /\ x[2].seq = m.seq
<1>0. TypeOK /\ TypeInv /\ Sound(m) /\ p # m.sender
  BY DEF IInv, TypeInv, DatagramSound
<1>1. al \in [Proc -> Acks] /\ fl \in SUBSET Proc
  BY <1>0, MergedType
<1>2. \A s \in Proc : \A q \in External(p) : al[q][s] <= Known(q, s)
  BY <1>0, MergedSound DEF IInv
<1>3. CASE /\ m.type \in {"MESSAGE", "HEARTBEAT"}
           /\ net' = rest \cup RetransmissionRequests(p, al, fl, m)
  <2>1. x \in RetransmissionRequests(p, al, fl, m)
    BY <1>3
  <2>2. DatagramSound(x) /\ x[2].type = "RETRANSREQUEST"
    BY <1>0, <1>1, <1>2, <1>3, <2>1, RequestSound
  <2>3. QED
    BY <2>2
<1>4. CASE ReceiveRetransRequest(p, m, fl, rest)
  <2>1. PICK y \in GetMessage(store[p], m.body, m.seq) :
            net' = rest \cup Unicast({m.sender}, fl, y)
    BY <1>4 DEF ReceiveRetransRequest
  <2>2. x = <<m.sender, y>> /\ m.sender \notin fl
    BY <2>1 DEF Unicast
  <2>3. y \in store[p] /\ y.sender = m.body /\ y.seq = m.seq
    BY DEF GetMessage
  <2>4. KeptSound(p, y)
    BY <2>3 DEF IInv, StoreSound
  <2>5. m.type = "RETRANSREQUEST" /\ m.sender # m.body
    BY <1>0, <1>4 DEF ReceiveRetransRequest, Sound
  <2>6. QED
    BY <2>2, <2>3, <2>4, <2>5 DEF DatagramSound, KeptSound, MergedFailed
<1>5. CASE net' \subseteq rest
  BY <1>5
<1>6. QED
  BY <1>3, <1>4, <1>5
     DEF ReceiveKind, ReceiveDuplicate, ReceiveMessage, ReceiveHeartbeat,
         ReceiveAbort, NotTo

\* What ReceiveMessage does to the store and to the delivery counts: it delivers
\* only what is stored, and erases only what everybody acknowledges.
LEMMA ReceiveMessageEffect ==
    ASSUME TypeOK, NEW p \in Proc, NEW m \in Message, NEW al, NEW fl, NEW rest,
           ReceiveMessage(p, m, al, fl, rest)
    PROVE  /\ m.type = "MESSAGE"
           /\ store'[p] \subseteq store[p] \cup {m}
           /\ \A q \in Proc \ {p} : store'[q] = store[q] /\ last'[q] = last[q]
           /\ \A s \in Proc : \A n \in Nat :
                  last[p][s] < n /\ n <= last'[p][s] =>
                      /\ s # p
                      /\ GetMessage(store[p] \cup {m}, s, n) # {}
           /\ \A y \in (store[p] \cup {m}) \ store'[p] : \A q \in External(p) :
                  y.seq <= al[q][y.sender]
<1>1. PICK l \in ProcessUndelivered(p, store[p] \cup {m}) :
          /\ last' = [last EXCEPT ![p] = l]
          /\ \E st \in CleanMessageStore(p, al, l, store[p] \cup {m}) :
                 store' = [store EXCEPT ![p] = st]
  BY DEF ReceiveMessage
<1>2. PICK st \in CleanMessageStore(p, al, l, store[p] \cup {m}) :
          store' = [store EXCEPT ![p] = st]
  BY <1>1
<1>3. store'[p] = st /\ last'[p] = l
  BY <1>1, <1>2 DEF TypeOK
<1>4. \A q \in Proc \ {p} : store'[q] = store[q] /\ last'[q] = last[q]
  BY <1>1, <1>2 DEF TypeOK
<1>5. PICK gone \in SUBSET Deletable(p, al, l, store[p] \cup {m}) :
          st = (store[p] \cup {m}) \ gone
  BY DEF CleanMessageStore
<1>6. \A y \in gone : \A q \in External(p) : y.seq <= al[q][y.sender]
  BY <1>5 DEF Deletable
<1>7. ASSUME NEW s \in Proc, NEW n \in Nat, last[p][s] < n, n <= l[s]
      PROVE  s # p /\ GetMessage(store[p] \cup {m}, s, n) # {}
  <2>1. last[p][s] \in Nat /\ l[s] \in Nat
    BY MaxSeqAssumption DEF ProcessUndelivered, TypeOK, Acks, Seqs
  <2>2. l[s] # last[p][s]
    BY <1>7, <2>1
  <2>3. s # p /\ Holds(store[p] \cup {m}, s, last[p][s] + 1, l[s])
    BY <2>2 DEF ProcessUndelivered
  <2>4. n \in last[p][s] + 1 .. l[s]
    BY <1>7, <2>1
  <2>5. QED
    BY <2>3, <2>4 DEF Holds
<1>8. m.type = "MESSAGE"
  BY DEF ReceiveMessage
<1>9. QED
  BY <1>3, <1>4, <1>5, <1>6, <1>7, <1>8

\* A message that everybody but p acknowledges is known to everybody but p; so
\* what p erases nobody else lacks, and what p has just delivered was stored.
LEMMA RetentionAfterReceiveMessage ==
    ASSUME IInv, TypeInv', Grows, NEW p \in Proc, NEW m \in Message,
           NEW al \in [Proc -> Acks], NEW fl, NEW rest,
           \A s \in Proc : \A q \in External(p) : al[q][s] <= Known(q, s),
           ReceiveMessage(p, m, al, fl, rest)
    PROVE  Retention'
<1>0. TypeOK /\ TypeOK' /\ Retention
  BY DEF IInv, TypeInv
<1> SUFFICES ASSUME NEW q \in Proc, NEW s \in Proc, NEW n \in 1 .. last'[q][s],
                    NEW r \in External(q), Known(r, s)' < n
             PROVE  GetMessage(store'[q], s, n) # {}
  BY DEF Retention, GetMessage
<1>1. r \in Proc /\ /\ Known(r, s) \in Nat /\ Known(r, s)' \in Nat
                    /\ Known(r, s) <= Known(r, s)'
  BY <1>0, KnownGrows DEF External
<1>2. /\ n \in Nat /\ n >= 1 /\ last[q][s] \in Nat /\ last'[q][s] \in Nat
      /\ n <= last'[q][s]
  BY <1>0, MaxSeqAssumption DEF TypeOK, Acks, Seqs
<1>3. Known(r, s) < n
  BY <1>1, <1>2
<1>4. n <= last[q][s] => GetMessage(store[q], s, n) # {}
  BY <1>0, <1>2, <1>3 DEF Retention
<1>a. \A t \in Proc \ {p} : store'[t] = store[t] /\ last'[t] = last[t]
  BY <1>0, ReceiveMessageEffect
<1>b. \A t \in Proc : \A k \in Nat : last[p][t] < k /\ k <= last'[p][t] =>
          t # p /\ GetMessage(store[p] \cup {m}, t, k) # {}
  BY <1>0, ReceiveMessageEffect
<1>5. CASE q # p
  <2>1. store'[q] = store[q] /\ last'[q] = last[q]
    BY <1>a, <1>5
  <2>2. n <= last[q][s]
    BY <1>2, <2>1
  <2>3. QED
    BY <1>4, <2>1, <2>2
<1>6. CASE q = p
  <2>1. GetMessage(store[p] \cup {m}, s, n) # {}
    <3>1. CASE n <= last[p][s]
      BY <1>4, <1>6, <3>1 DEF GetMessage
    <3>2. CASE ~(n <= last[p][s])
      <4>1. last[p][s] < n /\ n <= last'[p][s]
        BY <1>2, <1>6, <3>2
      <4>2. QED
        BY <1>2, <1>b, <4>1
    <3>3. QED
      BY <3>1, <3>2
  <2>2. PICK y \in store[p] \cup {m} : y.sender = s /\ y.seq = n
    BY <2>1 DEF GetMessage
  <2>3. r \in External(p) /\ al[r][s] \in Nat /\ al[r][s] <= Known(r, s)
    BY <1>1, <1>6, MaxSeqAssumption DEF Acks, Seqs
  <2>4. ~(n <= al[r][s])
    BY <1>1, <1>2, <1>3, <2>3
  <2>5. y \in store'[p]
    BY <1>0, <2>2, <2>3, <2>4, ReceiveMessageEffect
  <2>6. QED
    BY <1>6, <2>2, <2>5 DEF GetMessage
<1>7. QED
  BY <1>5, <1>6

\* Receiving a datagram of any kind preserves it.
LEMMA IInvReceive ==
    ASSUME IInv, TypeInv', Grows, NEW p \in Proc, NEW m \in Message,
           Receive(p, m)
    PROVE  IInv'
<1>0. TypeOK /\ TypeOK' /\ TypeInv
  BY DEF IInv, TypeInv
<1>1. PICK al : al = MergedAcks(p, m)
  OBVIOUS
<1>2. PICK fl : fl = MergedFailed(p, m)
  OBVIOUS
<1>3. PICK rest : rest = RestOfNet(p, m)
  OBVIOUS
<1>4. /\ <<p, m>> \in net
      /\ ackList' = [ackList EXCEPT ![p] = al]
      /\ failed' = [failed EXCEPT ![p] = fl]
      /\ ReceiveKind(p, m, al, fl, rest)
      /\ UNCHANGED <<seq, stamped, toSend, beat>>
  BY <1>1, <1>2, <1>3, ReceiveUnfolded
<1>5. /\ DatagramSound(<<p, m>>) /\ Sound(m)
      /\ p # m.sender /\ p \notin m.failed
  BY <1>4 DEF IInv, NetSound, DatagramSound
<1>6. /\ al \in [Proc -> Acks] /\ fl \in SUBSET Proc
      /\ \A s \in Proc : \A q \in External(p) : al[q][s] <= Known(q, s)
  BY <1>0, <1>1, <1>2, <1>5, MergedType, MergedSound DEF IInv
<1>7. AckListSound'
  <2>1. \A s \in Proc : \A q \in External(p) : al[q][s] <= Known(q, s)'
    <3>1. \A q, s \in Proc : al[q][s] \in Nat
      BY <1>6, MaxSeqAssumption DEF Acks, Seqs
    <3>2. QED
      BY <1>0, <1>6, <3>1, KnownGrows DEF External
  <2>2. ackList'[p] = al /\ \A q \in Proc \ {p} : ackList'[q] = ackList[q]
    BY <1>0, <1>4 DEF TypeOK
  <2>3. QED
    BY <2>1, <2>2, CarryOver DEF AckListSound
<1>8. NoSelfSuspicion'
  <2>1. p \notin fl
    BY <1>2, <1>5 DEF MergedFailed, IInv, NoSelfSuspicion
  <2>2. QED
    BY <1>0, <1>4, <2>1 DEF TypeOK, IInv, NoSelfSuspicion
<1>9. BeatSound'
  BY <1>4, CarryOver DEF BeatSound
<1>10. \A x \in net' \ net :
           /\ DatagramSound(x)
           /\ x[2].type = "MESSAGE" =>
                  /\ m.type = "RETRANSREQUEST"
                  /\ x[2].sender = m.body /\ x[2].seq = m.seq
  <2>1. rest \subseteq net
    BY <1>3 DEF RestOfNet
  <2>2. QED
    BY <1>1, <1>2, <1>4, <1>5, <2>1, ReceiveNet
<1>11. NetSound'
  <2>1. \A x \in net' \ net : DatagramSound(x)'
    BY <1>0, <1>10, DatagramGrows DEF TypeOK
  <2>2. QED
    BY <2>1, CarryOver DEF NetSound
<1>12. CASE ReceiveMessage(p, m, al, fl, rest)
  <2>1. /\ m.type = "MESSAGE"
        /\ store'[p] \subseteq store[p] \cup {m}
    BY <1>0, <1>12, ReceiveMessageEffect
  <2>2. \A q \in Proc \ {p} : store'[q] = store[q] /\ last'[q] = last[q]
    BY <1>0, <1>12, ReceiveMessageEffect
  <2>3. \A s \in Proc : \A n \in Nat :
            last[p][s] < n /\ n <= last'[p][s] =>
                s # p /\ GetMessage(store[p] \cup {m}, s, n) # {}
    BY <1>0, <1>12, ReceiveMessageEffect
  <2>4. \A q, s \in Proc : /\ last[q][s] \in Nat /\ last'[q][s] \in Nat
                           /\ last[q][s] <= last'[q][s] /\ seq[q] \in Nat
    BY <1>0, MaxSeqAssumption DEF TypeOK, Acks, Seqs, Grows
  <2>5. StoreSound'
    <3>1. KeptSound(p, m)'
      <4>1. Sound(m)'
        BY <1>0, <1>5, SoundGrows
      <4>2. m.failed \subseteq failed'[p]
        BY <1>0, <1>2, <1>4 DEF TypeOK, MergedFailed
      <4>3. QED
        BY <2>1, <4>1, <4>2 DEF KeptSound
    <3>2. QED
      BY <2>1, <2>2, <3>1, CarryOver DEF StoreSound
  <2>6. \A y \in store[p] \cup {m} : y.seq <= last[y.sender][y.sender]
    BY <1>5, <2>1 DEF IInv, StoreSound, KeptSound, Sound
  <2>7. LastSound'
    <3> SUFFICES ASSUME NEW q \in Proc, NEW s \in Proc
                 PROVE  last'[q][s] <= last'[s][s]
      BY DEF LastSound
    <3>1. last[q][s] <= last[s][s]
      BY DEF IInv, LastSound
    <3>2. CASE last'[q][s] = last[q][s]
      BY <2>4, <3>1, <3>2
    <3>3. CASE last'[q][s] # last[q][s]
      <4>1. q = p /\ last[p][s] < last'[p][s]
        BY <2>2, <2>4, <3>3
      <4>2. PICK y \in store[p] \cup {m} : y.sender = s /\ y.seq = last'[p][s]
        BY <2>3, <2>4, <4>1 DEF GetMessage
      <4>3. QED
        BY <2>4, <2>6, <4>1, <4>2
    <3>4. QED
      BY <3>2, <3>3
  <2>8. Retention'
    BY <1>6, <1>12, RetentionAfterReceiveMessage
  <2>9. Unreached'
    <3> SUFFICES ASSUME NEW r \in Proc, NEW q \in toSend[r]
                 PROVE  /\ q # r /\ ~stamped[r]
                        /\ last'[q][r] < seq[r]
                        /\ \A x \in net' : x[1] = q /\ x[2].type = "MESSAGE"
                                               /\ x[2].sender = r
                                               => x[2].seq < seq[r]
                        /\ \A y \in store'[q] : y.sender = r => y.seq < seq[r]
      BY <1>4 DEF Unreached
    <3>0. q \in Proc
      BY <1>0 DEF TypeOK
    <3>1. /\ q # r /\ ~stamped[r] /\ last[q][r] < seq[r]
          /\ \A x \in net : x[1] = q /\ x[2].type = "MESSAGE"
                                /\ x[2].sender = r => x[2].seq < seq[r]
          /\ \A y \in store[q] : y.sender = r => y.seq < seq[r]
      BY DEF IInv, Unreached
    <3>2. \A x \in net' : x[1] = q /\ x[2].type = "MESSAGE"
                              /\ x[2].sender = r => x[2].seq < seq[r]
      BY <1>10, <2>1, <3>1
    <3>3. CASE q # p
      BY <2>2, <3>0, <3>1, <3>2, <3>3
    <3>4. CASE q = p
      <4>1. \A y \in store[p] \cup {m} : y.sender = r => y.seq < seq[r]
        BY <1>4, <2>1, <3>1, <3>4
      <4>2. last'[p][r] < seq[r]
        <5>1. CASE last'[p][r] = last[p][r]
          BY <3>1, <3>4, <5>1
        <5>2. CASE last'[p][r] # last[p][r]
          <6>1. last[p][r] < last'[p][r]
            BY <2>4, <5>2
          <6>2. PICK n \in Nat : n = last'[p][r]
            BY <2>4
          <6>3. n <= last'[p][r]
            BY <6>2
          <6>4. GetMessage(store[p] \cup {m}, r, n) # {}
            BY <2>3, <6>1, <6>2, <6>3
          <6>5. PICK y \in store[p] \cup {m} : y.sender = r /\ y.seq = n
            BY <6>4 DEF GetMessage
          <6>6. QED
            BY <4>1, <6>2, <6>5
        <5>3. QED
          BY <5>1, <5>2
      <4>3. QED
        BY <2>1, <3>1, <3>2, <3>4, <4>1, <4>2
    <3>5. QED
      BY <3>3, <3>4
  <2>10. QED
    BY <1>7, <1>8, <1>9, <1>11, <2>5, <2>7, <2>8, <2>9 DEF IInv
<1>13. CASE UNCHANGED <<last, store>>
  <2>1. StoreSound'
    BY <1>13, CarryOver DEF StoreSound
  <2>2. LastSound'
    BY <1>13 DEF IInv, LastSound
  <2>3. Retention'
    BY <1>13, RetentionCarriesOver
  <2>4. Unreached'
    <3>1. ASSUME NEW r \in Proc, NEW x \in net' \ net,
                 x[2].type = "MESSAGE", x[2].sender = r
          PROVE  x[2].seq < seq[r]
      <4>1. m.seq \in 1 .. seq[r] - 1 /\ x[2].seq = m.seq
        BY <1>5, <1>10, <3>1 DEF Sound
      <4>2. seq[r] \in Nat
        BY <1>0, MaxSeqAssumption DEF TypeOK, Seqs
      <4>3. QED
        BY <4>1, <4>2
    <3>2. QED
      BY <1>4, <1>13, <3>1 DEF IInv, Unreached
  <2>5. QED
    BY <1>7, <1>8, <1>9, <1>11, <2>1, <2>2, <2>3, <2>4 DEF IInv
<1>14. QED
  BY <1>4, <1>12, <1>13
     DEF ReceiveKind, ReceiveRetransRequest, ReceiveDuplicate,
         ReceiveHeartbeat, ReceiveAbort

\* Every step preserves the inductive invariant: one case per action of Next.
LEMMA IInvStep == IInv /\ TypeInv' /\ [Next]_vars => IInv'
<1> SUFFICES ASSUME IInv, TypeInv', [Next]_vars
             PROVE  IInv'
  OBVIOUS
<1>0. TypeOK /\ TypeOK' /\ Grows
  BY StepGrows DEF IInv, TypeInv
<1>1. \A x \in net : x[1] \in Proc /\ x[2] \in Message
  BY <1>0 DEF TypeOK
<1>2. ASSUME UNCHANGED <<seq, last, ackList, failed, store, stamped, toSend,
                         beat>>,
             net' \subseteq net
      PROVE  IInv'
  <2>1. BeatSound'
    BY <1>0, <1>2, CarryOver DEF BeatSound
  <2>2. QED
    BY <1>0, <1>2, <2>1, IInvNetStep
<1>3. ASSUME NEW p \in Proc, Crash(p)
      PROVE  IInv'
  BY <1>2, <1>3 DEF Crash, NotTo
<1>4. ASSUME NEW x \in net, Lose(x)
      PROVE  IInv'
  BY <1>2, <1>4 DEF Lose
<1>5. CASE UNCHANGED vars
  BY <1>2, <1>5 DEF vars
<1>6. QED
  BY <1>0, <1>1, <1>3, <1>4, <1>5, IInvMulticastBegin, IInvMulticastStore,
     IInvMulticastSend, IInvHeartbeatSnapshot, IInvHeartbeatSend, IInvSuspect,
     IInvReceive
     DEF Next

\* The inductive invariant holds in every reachable state.
THEOREM Invariant == Spec => []IInv
<1>1. IInv => TypeInv
  BY DEF IInv
<1>2. QED
  BY <1>1, IInvInit, IInvStep, TypeStep, PTL DEF Spec

-----------------------------------------------------------------------------
(* What follows from it. *)

\* Nobody is believed to have delivered more than it has.
THEOREM AcknowledgementsAreSound == Spec => []AcksSound
<1>1. IInv => AcksSound
  BY DEF IInv, AckListSound, NetSound, DatagramSound, Sound, AcksSound
<1>2. QED
  BY <1>1, Invariant, PTL

\* Whoever has delivered a message keeps it while anybody still lacks it.
THEOREM MessagesAreRetained == Spec => []Retention
<1>1. IInv => Retention
  BY DEF IInv
<1>2. QED
  BY <1>1, Invariant, PTL

\* A process that is asked for a message has it, or the asker has it by now.
THEOREM RequestsAreServable == Spec => []RequestsServable
<1>1. ASSUME IInv
      PROVE  RequestsServable
  <2> SUFFICES ASSUME NEW x \in net, x[2].type = "RETRANSREQUEST",
                      ~(x[2].seq <= last[x[2].sender][x[2].body])
               PROVE  GetMessage(store[x[1]], x[2].body, x[2].seq) # {}
    BY DEF RequestsServable
  <2>1. /\ x[1] \in Proc /\ x[2].sender \in Proc /\ x[2].body \in Proc
        /\ \A p, s \in Proc : last[p][s] \in Nat /\ seq[p] \in Nat
    BY <1>1, MaxSeqAssumption
       DEF IInv, TypeInv, TypeOK, Message, Acks, Seqs
  <2>2. DatagramSound(x)
    BY <1>1 DEF IInv, NetSound
  <2>3. /\ x[2].sender # x[1] /\ x[2].sender # x[2].body
        /\ x[2].seq \in 1 .. seq[x[2].body] - 1
        /\ x[2].seq <= last[x[1]][x[2].body]
    BY <2>2 DEF DatagramSound, Sound
  <2>4. Known(x[2].sender, x[2].body) < x[2].seq
    BY <2>1, <2>3 DEF Known
  <2>5. x[2].seq \in 1 .. last[x[1]][x[2].body]
    BY <2>1, <2>3
  <2>6. x[2].sender \in External(x[1])
    BY <2>1, <2>3 DEF External
  <2>7. QED
    BY <1>1, <2>1, <2>4, <2>5, <2>6 DEF IInv, Retention
<1>2. QED
  BY <1>1, Invariant, PTL

\* The chat thread never sends a message that the receive thread has freed.
THEOREM NoUseAfterFree == Spec => []MulticastNotFreed
<1>1. ASSUME IInv
      PROVE  MulticastNotFreed
  <2> SUFFICES ASSUME NEW p \in Proc, NEW q \in toSend[p]
               PROVE  GetMessage(store[p], p, seq[p]) # {}
    BY DEF MulticastNotFreed
  <2>1. q \in Proc /\ seq[p] \in Nat /\ last[q][p] \in Nat
    BY <1>1, MaxSeqAssumption DEF IInv, TypeInv, TypeOK, Acks, Seqs
  <2>2. q # p /\ ~stamped[p] /\ last[q][p] < seq[p]
    BY <1>1 DEF IInv, Unreached
  <2>3. seq[p] = last[p][p]
    BY <1>1, <2>2 DEF IInv, TypeInv, SelfCount
  <2>4. seq[p] \in 1 .. last[p][p] /\ q \in External(p) /\ Known(q, p) < seq[p]
    BY <2>1, <2>2, <2>3 DEF External, Known
  <2>5. QED
    BY <1>1, <2>4 DEF IInv, Retention
<1>2. QED
  BY <1>1, Invariant, PTL

\* Nobody ever hears that it is suspected.
THEOREM SuspicionIsNeverHeard == Spec => []SuspicionStaysHidden
<1>1. IInv => SuspicionStaysHidden
  BY DEF IInv, NetSound, DatagramSound, NoSelfSuspicion, SuspicionStaysHidden
<1>2. QED
  BY <1>1, Invariant, PTL

\* The assertion never fails on a MESSAGE, nor on a heartbeat whose two halves
\* agree.
LEMMA AbortStep ==
    ASSUME IInv, [Next]_vars, NEW p \in Proc,
           status[p] = "up", status'[p] = "aborted"
    PROVE  \E x \in net \ net' : /\ x[1] = p /\ x[2].type = "HEARTBEAT"
                                 /\ x[2].acks[x[2].sender] < x[2].seq
<1>0. TypeOK
  BY DEF IInv, TypeInv
<1>1. PICK m \in Message : Receive(p, m)
  <2>1. ASSUME NEW q \in Proc, Crash(q)
        PROVE  status'[p] # "aborted"
    BY <1>0, <2>1 DEF Crash, TypeOK
  <2>2. ASSUME NEW x \in net, Receive(x[1], x[2]), x[1] # p
        PROVE  status'[p] = status[p]
    <3>1. x[1] \in Proc
      BY <1>0 DEF TypeOK
    <3>2. PICK q \in Proc : q = x[1]
      BY <3>1
    <3>3. \/ status' = status
          \/ status' = [status EXCEPT ![q] = "aborted"]
      BY <2>2, <3>2, ReceiveUnfolded
         DEF ReceiveKind, ReceiveRetransRequest, ReceiveDuplicate,
             ReceiveMessage, ReceiveHeartbeat, ReceiveAbort
    <3>4. QED
      BY <1>0, <2>2, <3>2, <3>3 DEF TypeOK
  <2>3. ~UNCHANGED status
    OBVIOUS
  <2>4. PICK x \in net : Receive(x[1], x[2]) /\ x[1] = p
    BY <2>1, <2>2, <2>3
       DEF Next, MulticastBegin, MulticastStore, MulticastSend,
           HeartbeatSnapshot, HeartbeatSend, Suspect, Lose, vars
  <2>5. QED
    BY <1>0, <2>4 DEF TypeOK
<1>2. PICK al : al = MergedAcks(p, m)
  OBVIOUS
<1>3. /\ <<p, m>> \in net
      /\ ReceiveKind(p, m, al, MergedFailed(p, m), RestOfNet(p, m))
  BY <1>1, <1>2, ReceiveUnfolded
<1>4. ReceiveAbort(p, m, al, RestOfNet(p, m))
  BY <1>3 DEF ReceiveKind, ReceiveRetransRequest, ReceiveDuplicate,
              ReceiveMessage, ReceiveHeartbeat
<1>5. Sound(m) /\ p # m.sender
  BY <1>3 DEF IInv, NetSound, DatagramSound
<1>6. /\ m.sender \in External(p) /\ m.sender \in Proc /\ m.acks \in Acks
      /\ ackList[p] \in [Proc -> Acks]
      /\ m.seq \in Nat /\ m.acks[m.sender] \in Nat
  BY <1>0, <1>5, MaxSeqAssumption DEF Message, External, Acks, Seqs, TypeOK
<1>7. al[m.sender] = UpdateDeliveryAckList(ackList[p][m.sender], m.acks)
  BY <1>2, <1>6 DEF MergedAcks
<1>8. /\ al[m.sender][m.sender] \in Nat
      /\ m.acks[m.sender] <= al[m.sender][m.sender]
  BY <1>6, <1>7, MaxSeqAssumption DEF UpdateDeliveryAckList, Acks, Seqs
<1>9. ~(al[m.sender][m.sender] >= m.seq)
  BY <1>4, <1>6 DEF ReceiveAbort, AssertFails, DeliveredNodes
<1>10. m.acks[m.sender] < m.seq
  BY <1>6, <1>8, <1>9
<1>11. m.type = "HEARTBEAT"
  BY <1>4, <1>5, <1>6, <1>10 DEF ReceiveAbort, Sound
<1>12. <<p, m>> \notin net'
  BY <1>4 DEF ReceiveAbort, NotTo, RestOfNet
<1>13. QED
  BY <1>3, <1>10, <1>11, <1>12

\* A process aborts only on a heartbeat whose own acknowledgement is behind its
\* sequence number (mcast.cc:27-33 against 204).
THEOREM OnlyTornHeartbeatsAbort == Spec => AbortsOnlyOnTornHeartbeat
<1>1. IInv /\ [Next]_vars =>
          [\A p \in Proc : status[p] = "up" /\ status'[p] = "aborted" =>
               \E x \in net \ net' :
                   /\ x[1] = p /\ x[2].type = "HEARTBEAT"
                   /\ x[2].acks[x[2].sender] < x[2].seq]_vars
  BY AbortStep
<1>2. QED
  BY <1>1, Invariant, PTL DEF Spec, AbortsOnlyOnTornHeartbeat

-----------------------------------------------------------------------------
(* Refinement: Rmcast implements ReliableMulticast. *)

Alive == {p \in Proc : status[p] = "up"}

\* A process that crashes or aborts is a process that stops.
LEMMA ServiceStop ==
    ASSUME TypeOK, NEW p \in Proc, NEW how \in {"crashed", "aborted"},
           status' = [status EXCEPT ![p] = how], UNCHANGED last
    PROVE  Service!Next
<1>1. Alive' = Alive \ {p}
  BY DEF TypeOK, Alive
<1>2. Service!Stop(p)
  BY <1>1 DEF Service!Stop, Alive
<1>3. QED
  BY <1>2 DEF Service!Next

\* A datagram that makes p deliver is a delivery of the service: nothing is
\* delivered that its sender has not, and own messages are not touched.
LEMMA ServiceDeliver ==
    ASSUME IInv, IInv', Grows, NEW p \in Proc, NEW m \in Message, NEW al, NEW fl,
           NEW rest, status[p] = "up", ReceiveMessage(p, m, al, fl, rest)
    PROVE  Service!Next
<1>0. TypeOK /\ TypeOK' /\ LastSound'
  BY DEF IInv, TypeInv
<1>1. PICK l \in ProcessUndelivered(p, store[p] \cup {m}) :
          last' = [last EXCEPT ![p] = l]
  BY DEF ReceiveMessage
<1>2. last'[p] = l
  BY <1>0, <1>1 DEF TypeOK
<1>3. l[p] = last[p][p]
  BY DEF ProcessUndelivered
<1>4. ASSUME NEW s \in Proc
      PROVE  last[p][s] <= last'[p][s] /\ last'[p][s] <= last[s][s]
  <2>1. last'[p][s] <= last'[s][s]
    BY <1>0 DEF LastSound
  <2>2. last'[s][s] = last[s][s]
    BY <1>0, <1>1, <1>2, <1>3 DEF TypeOK
  <2>3. QED
    BY <2>1, <2>2 DEF Grows
<1>5. UNCHANGED status
  BY DEF ReceiveMessage
<1>6. p \in Alive /\ UNCHANGED Alive
  BY <1>5 DEF Alive
<1>7. Service!Deliver(p)
  BY <1>1, <1>2, <1>3, <1>4, <1>6 DEF Service!Deliver, Alive
<1>8. QED
  BY <1>7 DEF Service!Next

\* Every step of the threads is a step of the service or changes nothing of it.
LEMMA ServiceStep ==
    IInv /\ IInv' /\ [Next]_vars => [Service!Next]_Service!service
<1> SUFFICES ASSUME IInv, IInv', [Next]_vars
             PROVE  [Service!Next]_Service!service
  OBVIOUS
<1>0. TypeOK /\ Grows
  BY StepGrows DEF IInv, TypeInv
<1>1. ASSUME UNCHANGED <<last, status>>
      PROVE  UNCHANGED Service!service
  BY <1>1 DEF Service!service
<1>2. ASSUME NEW p \in Proc, MulticastStore(p)
      PROVE  Service!Next
  <2>1. Service!Cast(p)
    BY <1>2 DEF MulticastStore, Service!Cast
  <2>2. QED
    BY <2>1 DEF Service!Next
<1>3. ASSUME NEW p \in Proc, Crash(p)
      PROVE  Service!Next
  BY <1>0, <1>3, ServiceStop DEF Crash
<1>4. ASSUME NEW p \in Proc, NEW m \in Message, Receive(p, m)
      PROVE  Service!Next \/ UNCHANGED <<last, status>>
  <2>1. ReceiveKind(p, m, MergedAcks(p, m), MergedFailed(p, m), RestOfNet(p, m))
    BY <1>4, ReceiveUnfolded
  <2>2. CASE ReceiveMessage(p, m, MergedAcks(p, m), MergedFailed(p, m),
                            RestOfNet(p, m))
    BY <1>0, <1>4, <2>2, ServiceDeliver DEF Receive
  <2>3. CASE ReceiveAbort(p, m, MergedAcks(p, m), RestOfNet(p, m))
    BY <1>0, <2>3, ServiceStop DEF ReceiveAbort
  <2>4. QED
    BY <2>1, <2>2, <2>3
       DEF ReceiveKind, ReceiveRetransRequest, ReceiveDuplicate, ReceiveHeartbeat
<1>5. \A x \in net : x[1] \in Proc /\ x[2] \in Message
  BY <1>0 DEF TypeOK
<1>6. QED
  BY <1>1, <1>2, <1>3, <1>4, <1>5
     DEF Next, MulticastBegin, MulticastSend, HeartbeatSnapshot, HeartbeatSend,
         Suspect, Lose, vars

\* The detailed multicast implements the service, for every group and any number
\* of losses, crashes and false suspicions.
THEOREM RmcastImplementsService == Spec => ImplementsService
<1>1. Init => Service!Init
  BY DEF Init, Service!Init
<1>2. QED
  BY <1>1, Invariant, ServiceStep, PTL DEF Spec, ImplementsService, Service!Spec
=============================================================================
