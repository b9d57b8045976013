--------------------------- MODULE MembershipProofs ---------------------------
(***************************************************************************)
(* Theorems about Membership, for every set of processes, every group file *)
(* left by earlier runs and every size of the read buffer.                 *)
(*                                                                         *)
(* The argument for MutualKnowledge: the file only grows, and whoever has  *)
(* written its id reads on until it is past it (OwnIdRead).  Of two that   *)
(* are through, the one whose id comes later has read the other's          *)
(* (ReadIsKept), and has greeted it; the greeting is in the socket buffer  *)
(* or was taken from it, unless the other was not there yet, and then it   *)
(* reads what was in the file before it came (GreetingArrives).            *)
(***************************************************************************)
EXTENDS Membership, SequenceFacts

\* A thread is in initIfNecessary() for the sake of a call.
CallsUnderWay ==
    \A p \in Proc :
        /\ init[p]["chat"] # "out" => Len(casts[p]) < MaxCasts[p]
        /\ init[p]["receive"] # "out" =>
               inbox[p] # <<>> /\ Head(inbox[p])[1] = "data"

\* No member is entered twice.
NoRepetition == \A p \in Proc : Distinct(members[p])

\* Nobody is external to itself, or sends data to itself.
NoSelf ==
    /\ \A p \in Proc : p \notin external[p]
    /\ \A d \in delayed : d[1] # d[2]
    /\ \A p \in Proc : ~Contains(inbox[p], <<"data", p>>)

\* Whoever is past the construction has a state; without timers, somebody is
\* about to create them.
Initialised ==
    \A p \in Proc :
        /\ \A t \in Thread : init[p][t] \in {"arm", "done"} => external[p] # NoState
        /\ external[p] # NoState /\ ~timers[p] =>
               \E t \in Thread : init[p][t] = "arm"

\* Unless both threads met there, one thread builds the state, and numbers are
\* given out afterwards, in order.
BuiltOnce ==
    \A p \in Proc \ both :
        /\ \A t \in Thread : init[p][t] = "create" =>
               /\ external[p] = NoState
               /\ \A u \in Thread : init[p][u] = "create" => u = t
        /\ external[p] = NoState => casts[p] = <<>>
        /\ \A i \in 1 .. Len(casts[p]) : casts[p][i] <= seq[p]
        /\ Distinct(casts[p])

\* p has seen the end of the file.
Finished(p) ==
    \/ pc[p] \in {"greet", "chat"}
    \/ pc[p] = "add" /\ ~more[p]

\* q is in the file, at a place that p reads before it is finished.
WillRead(p, q) ==
    \E i \in 1 .. Len(file) : file[i] = q /\ (Finished(p) => i <= offset[p])

\* Whoever has written its id reads it.
OwnIdRead == \A p \in Proc : pc[p] \notin {"down", "append"} => WillRead(p, p)

\* What was read is with the members, or still to be added; and with those that
\* are greeted, once that is over.
ReadIsKept ==
    \A p \in Proc :
        /\ pc[p] # "add" => chunk[p] = <<>>
        /\ \A i \in 1 .. offset[p] :
               IF pc[p] = "chat"
               THEN \E j \in 1 .. greeted[p] : members[p][j] = file[i]
               ELSE Contains(members[p], file[i]) \/ Contains(chunk[p], file[i])

\* Whoever q has greeted knows q, has the greeting before it, or was not there
\* yet and finds q in the file.
GreetingArrives ==
    \A p, q \in Proc :
        \A j \in 1 .. greeted[q] :
            p # q /\ members[q][j] = p /\ died[p] = "no" =>
                \/ Contains(members[p], q)
                \/ Contains(inbox[p], <<"hello", q>>)
                \/ WillRead(p, q)

IInv ==
    /\ TypeOK
    /\ CallsUnderWay
    /\ NoRepetition
    /\ NoSelf
    /\ Initialised
    /\ BuiltOnce
    /\ OwnIdRead
    /\ ReadIsKept
    /\ GreetingArrives
    /\ GroupComplete
    /\ DiesOnlyEarly

-----------------------------------------------------------------------------
(* The operators. *)

\* The kinds of datagrams.
Datagrams == {"hello", "data"} \X Proc

\* The shapes of the variables of one process.
LEMMA TypeOfProcess ==
    ASSUME TypeOK, NEW p \in Proc
    PROVE  /\ file \in Seq(Ids) /\ Len(file) \in Nat
           /\ offset[p] \in Nat /\ offset[p] <= Len(file)
           /\ chunk[p] \in Seq(Ids)
           /\ members[p] \in Seq(Ids) /\ Len(members[p]) \in Nat
           /\ greeted[p] \in Nat /\ greeted[p] <= Len(members[p])
           /\ inbox[p] \in Seq(Datagrams)
           /\ casts[p] \in Seq(Nat) /\ Len(casts[p]) \in Nat
           /\ seq[p] \in Nat
           /\ MaxCasts[p] \in Nat /\ Len(casts[p]) <= MaxCasts[p]
           /\ p \in Ids
<1>1. file \in Seq(Ids) /\ Len(file) \in Nat
  <2>1. file \in Seq(Ids)
    BY DEF TypeOK
  <2>2. QED
    BY <2>1
<1>2. offset[p] \in Nat /\ greeted[p] \in Nat /\ seq[p] \in Nat
  BY DEF TypeOK
<1>3. offset[p] <= Len(file) /\ greeted[p] <= Len(members[p]) /\ Len(casts[p]) <= MaxCasts[p]
  BY DEF TypeOK
<1>4. chunk[p] \in Seq(Ids) /\ members[p] \in Seq(Ids)
  BY DEF TypeOK
<1>5. inbox[p] \in Seq(Datagrams)
  BY DEF TypeOK, Datagrams
<1>6. casts[p] \in Seq(Nat)
  BY DEF TypeOK
<1>7. Len(members[p]) \in Nat /\ Len(casts[p]) \in Nat
  BY <1>4, <1>6
<1>8. MaxCasts[p] \in Nat /\ p \in Ids
  BY MaxCastsAssumption DEF Ids
<1>9. QED
  BY <1>1, <1>2, <1>3, <1>4, <1>5, <1>6, <1>7, <1>8

\* A datagram is at the end of the buffer of q, if q runs; no buffer loses any.
LEMMA SendFacts ==
    ASSUME NEW boxes \in [Proc -> Seq(Datagrams)], NEW q, NEW d \in Datagrams
    PROVE  /\ Send(boxes, q, d) \in [Proc -> Seq(Datagrams)]
           /\ \A p \in Proc : \A x :
                  Contains(Send(boxes, q, d)[p], x) <=>
                      \/ Contains(boxes[p], x)
                      \/ p = q /\ Runs(q) /\ x = d
           /\ \A p \in Proc : boxes[p] # <<>> =>
                  /\ Send(boxes, q, d)[p] # <<>>
                  /\ Head(Send(boxes, q, d)[p]) = Head(boxes[p])
<1>1. CASE q \in Proc /\ Runs(q)
  <2>1. Send(boxes, q, d) = [boxes EXCEPT ![q] = Append(boxes[q], d)]
    BY <1>1 DEF Send
  <2>2. Append(boxes[q], d) \in Seq(Datagrams)
    BY <1>1, AppendFacts
  <2>3. \A p \in Proc : p # q => Send(boxes, q, d)[p] = boxes[p]
    BY <2>1
  <2>4. Send(boxes, q, d)[q] = Append(boxes[q], d)
    BY <1>1, <2>1
  <2>5. \A x : Contains(Append(boxes[q], d), x) <=> Contains(boxes[q], x) \/ x = d
    BY <1>1, AppendContains
  <2>6. boxes[q] # <<>> => /\ Append(boxes[q], d) # <<>>
                           /\ Head(Append(boxes[q], d)) = Head(boxes[q])
    BY <1>1
  <2>7. QED
    BY <1>1, <2>1, <2>2, <2>3, <2>4, <2>5, <2>6
<1>2. CASE ~(q \in Proc /\ Runs(q))
  BY <1>2 DEF Send
<1>3. QED
  BY <1>1, <1>2

\* new_member(): the others keep their places, and the id is there, once.
LEMMA NewMemberFacts ==
    ASSUME NEW p \in Proc, members[p] \in Seq(Ids), NEW id \in Ids
    PROVE  /\ NewMember(p, id) \in Seq(Ids)
           /\ Len(members[p]) \in Nat
           /\ Len(members[p]) <= Len(NewMember(p, id))
           /\ \A j \in 1 .. Len(members[p]) : NewMember(p, id)[j] = members[p][j]
           /\ \A x : Contains(NewMember(p, id), x) <=> Contains(members[p], x) \/ x = id
           /\ Distinct(members[p]) => Distinct(NewMember(p, id))
<1>1. Len(members[p]) \in Nat
  OBVIOUS
<1>2. CASE Contains(members[p], id)
  BY <1>1, <1>2 DEF NewMember
<1>3. CASE ~Contains(members[p], id)
  <2>1. NewMember(p, id) = Append(members[p], id)
    BY <1>3 DEF NewMember
  <2>2. \A x : Contains(Append(members[p], id), x) <=> Contains(members[p], x) \/ x = id
    BY AppendContains
  <2>3. Distinct(members[p]) => Distinct(Append(members[p], id))
    BY <1>3, AppendDistinct
  <2>4. QED
    BY <1>1, <2>1, <2>2, <2>3, AppendFacts
<1>4. QED
  BY <1>2, <1>3

\* read() returns what follows in the file, up to a full buffer or to the end.
LEMMA ReadFacts ==
    ASSUME TypeOK, NEW p \in Proc, NEW new,
           new = SubSeq(file, offset[p] + 1, Min({offset[p] + Chunk, Len(file)}))
    PROVE  /\ new \in Seq(Ids)
           /\ Len(new) \in Nat
           /\ NextOffset(p, new) \in Nat
           /\ offset[p] <= NextOffset(p, new) /\ NextOffset(p, new) <= Len(file)
           /\ Len(new) # Chunk => NextOffset(p, new) = Len(file)
           /\ \A i \in offset[p] + 1 .. NextOffset(p, new) : Contains(new, file[i])
<1>1. /\ file \in Seq(Ids) /\ Len(file) \in Nat /\ offset[p] \in Nat
      /\ offset[p] <= Len(file) /\ Chunk \in Nat \ {0}
  BY ChunkAssumption, TypeOfProcess
<1>2. offset[p] + Chunk \in Int /\ Len(file) \in Int
  BY <1>1
<1>3. Min({offset[p] + Chunk, Len(file)})
      = IF offset[p] + Chunk <= Len(file) THEN offset[p] + Chunk ELSE Len(file)
  BY <1>2, MinOfTwo, Zenon
<1>4. PICK n \in Nat :
          /\ n = Min({offset[p] + Chunk, Len(file)})
          /\ offset[p] <= n /\ n <= Len(file) /\ (n - offset[p] # Chunk => n = Len(file))
  <2> DEFINE n == IF offset[p] + Chunk <= Len(file) THEN offset[p] + Chunk ELSE Len(file)
  <2>1. /\ n \in Nat
        /\ offset[p] <= n /\ n <= Len(file) /\ (n - offset[p] # Chunk => n = Len(file))
    BY <1>1
  <2>2. n = Min({offset[p] + Chunk, Len(file)})
    BY <1>3
  <2> HIDE DEF n
  <2>3. QED
    BY <2>1, <2>2
<1>5. new = SubSeq(file, offset[p] + 1, n)
  BY <1>4
<1>6. /\ new \in Seq(Ids)
      /\ Len(new) = n - offset[p]
      /\ \A i \in offset[p] + 1 .. n : Contains(new, file[i])
  <2>1. /\ SubSeq(file, offset[p] + 1, n) \in Seq(Ids)
        /\ Len(SubSeq(file, offset[p] + 1, n)) = n - offset[p]
        /\ \A i \in offset[p] + 1 .. n : Contains(SubSeq(file, offset[p] + 1, n), file[i])
    <3> DEFINE off == offset[p]
    <3>1. file \in Seq(Ids) /\ off \in Nat /\ off <= n /\ n <= Len(file)
      BY <1>1, <1>4
    <3> HIDE DEF off
    <3>2. /\ SubSeq(file, off + 1, n) \in Seq(Ids)
          /\ Len(SubSeq(file, off + 1, n)) = n - off
          /\ \A i \in off + 1 .. n : Contains(SubSeq(file, off + 1, n), file[i])
      BY <3>1, PartFacts
    <3>3. QED
      BY <3>2 DEF off
  <2>2. QED
    BY <1>5, <2>1, Zenon
<1>7. offset[p] + (n - offset[p]) = n /\ n - offset[p] \in Nat
  BY <1>1, <1>4
<1>8. NextOffset(p, new) = n
  BY <1>6, <1>7 DEF NextOffset
<1>9. QED
  BY <1>4, <1>6, <1>7, <1>8
-----------------------------------------------------------------------------
(* Types. *)

\* What the handlers find at the head of a socket buffer.
LEMMA HeadFacts ==
    ASSUME TypeOK, NEW p \in Proc, inbox[p] # <<>>
    PROVE  /\ Head(inbox[p]) \in Datagrams
           /\ Head(inbox[p])[2] \in Proc
           /\ Tail(inbox[p]) \in Seq(Datagrams)
<1>1. inbox[p] \in Seq(Datagrams)
  BY TypeOfProcess
<1>2. Head(inbox[p]) \in Datagrams /\ Tail(inbox[p]) \in Seq(Datagrams)
  BY <1>1, TailFacts
<1>3. QED
  BY <1>2 DEF Datagrams

\* Each thread that is in initIfNecessary() is there for a call: nobody else
\* takes the datagram, or uses up the multicasts.
LEMMA CallsUnderWayInit == Init => CallsUnderWay
BY DEF Init, CallsUnderWay, Thread

\* The initial state has the shapes.
LEMMA TypeInit == Init => TypeOK
<1> SUFFICES ASSUME Init PROVE TypeOK
  OBVIOUS
<1>1. Old \in Seq(Ids)
  <2>1. ToSet(Old) \subseteq Ids
    BY DEF Ids
  <2>2. QED
    BY <2>1, OldAssumption
<1>2. \A p \in Proc : MaxCasts[p] \in Nat
  BY MaxCastsAssumption
<1>3. Len(Old) \in Nat
  BY <1>1
<1>4. external \in [Proc -> (SUBSET Ids) \cup {NoState}]
  BY DEF Init
<1>5. init \in [Proc -> [Thread -> {"out", "create", "arm", "done"}]]
  BY DEF Init
<1>6. \A p \in Proc : Len(casts[p]) = 0 /\ Len(members[p]) = 0
  BY DEF Init
<1>7. \A p \in Proc : /\ offset[p] <= Len(file)
                      /\ greeted[p] <= Len(members[p])
                      /\ Len(casts[p]) <= MaxCasts[p]
  BY <1>2, <1>3, <1>6 DEF Init
<1>8. /\ {offset, greeted, seq} \subseteq [Proc -> Nat]
      /\ {chunk, members} \subseteq [Proc -> Seq(Ids)]
      /\ {more, timers} \subseteq [Proc -> BOOLEAN]
      /\ pc \in [Proc -> Start]
      /\ died \in [Proc -> {"no", "unknown sender", "no timers"}]
  BY DEF Init, Start
<1>9. /\ inbox \in [Proc -> Seq({"hello", "data"} \X Proc)]
      /\ casts \in [Proc -> Seq(Nat)]
  BY DEF Init
<1>10. delayed \subseteq Proc \X Ids /\ early \cup both \subseteq Proc /\ file \in Seq(Ids)
  BY <1>1 DEF Init
<1>11. QED
  BY <1>4, <1>5, <1>7, <1>8, <1>9, <1>10 DEF TypeOK

\* The steps of unicast_init() keep the shapes.
LEMMA TypeMain ==
    ASSUME TypeOK, NEW p \in Proc, Bind(p) \/ MainStep(p)
    PROVE  TypeOK'
<1> USE DEF startup, mcast
<1>0. \A q \in Proc :
        /\ file \in Seq(Ids) /\ Len(file) \in Nat
        /\ offset[q] \in Nat /\ offset[q] <= Len(file)
        /\ members[q] \in Seq(Ids) /\ Len(members[q]) \in Nat
        /\ greeted[q] \in Nat /\ greeted[q] <= Len(members[q])
        /\ chunk[q] \in Seq(Ids) /\ q \in Ids
  BY TypeOfProcess
<1>1. CASE Bind(p)
  BY <1>1 DEF Bind, TypeOK, Start
<1>2. CASE AppendSelf(p)
  <2>1. file' = Append(file, p) /\ file' \in Seq(Ids) /\ Len(file') = Len(file) + 1
    BY <1>0, <1>2, AppendFacts DEF AppendSelf, Write
  <2>2. \A q \in Proc : offset'[q] <= Len(file')
    BY <1>0, <1>2, <2>1 DEF AppendSelf
  <2>3. pc' \in [Proc -> Start]
    BY <1>2 DEF AppendSelf, TypeOK, Start
  <2>4. QED
    BY <1>2, <2>1, <2>2, <2>3 DEF AppendSelf, TypeOK
<1>3. CASE Read(p)
  <2> DEFINE new == SubSeq(file, offset[p] + 1, Min({offset[p] + Chunk, Len(file)}))
  <2>1. new \in Seq(Ids) /\ NextOffset(p, new) \in Nat /\ NextOffset(p, new) <= Len(file)
    BY ReadFacts
  <2>2. /\ chunk' = [chunk EXCEPT ![p] = new]
        /\ offset' = [offset EXCEPT ![p] = NextOffset(p, new)]
        /\ more' = [more EXCEPT ![p] = Len(new) = Chunk]
        /\ pc' = [pc EXCEPT ![p] = "add"]
        /\ UNCHANGED <<file, members, greeted, inbox, delayed, mcast>>
    BY <1>3 DEF Read
  <2> HIDE DEF new
  <2>3. chunk' \in [Proc -> Seq(Ids)] /\ offset' \in [Proc -> Nat]
        /\ more' \in [Proc -> BOOLEAN] /\ pc' \in [Proc -> Start]
    BY <2>1, <2>2 DEF TypeOK, Start
  <2>4. \A q \in Proc : offset'[q] <= Len(file')
    BY <1>0, <2>1, <2>2 DEF TypeOK
  <2>5. \A q \in Proc : greeted'[q] <= Len(members'[q]) /\ Len(casts'[q]) <= MaxCasts[q]
    BY <2>2 DEF TypeOK
  <2>6. UNCHANGED <<file, members, greeted, inbox, delayed, mcast>>
    BY <2>2
  <2>7. /\ {offset', greeted', seq'} \subseteq [Proc -> Nat]
        /\ {chunk', members'} \subseteq [Proc -> Seq(Ids)]
        /\ {more', timers'} \subseteq [Proc -> BOOLEAN]
    BY <2>3, <2>6 DEF TypeOK
  <2>8. QED
    BY <2>3, <2>4, <2>5, <2>6, <2>7 DEF TypeOK
<1>4. CASE Add(p)
  <2>1. Head(chunk[p]) \in Ids /\ Tail(chunk[p]) \in Seq(Ids)
    BY <1>0, <1>4, TailFacts DEF Add
  <2>2. /\ NewMember(p, Head(chunk[p])) \in Seq(Ids)
        /\ Len(members[p]) <= Len(NewMember(p, Head(chunk[p])))
    BY <1>0, <2>1, NewMemberFacts
  <2>3. chunk' \in [Proc -> Seq(Ids)] /\ members' \in [Proc -> Seq(Ids)]
    BY <1>4, <2>1, <2>2 DEF Add, TypeOK
  <2>4. \A q \in Proc : greeted'[q] <= Len(members'[q])
    <3>1. Len(NewMember(p, Head(chunk[p]))) \in Nat
      BY <2>2
    <3>2. greeted[p] <= Len(NewMember(p, Head(chunk[p])))
      BY <1>0, <2>2, <3>1
    <3>3. QED
      BY <1>0, <1>4, <3>2 DEF Add, TypeOK
  <2>5. QED
    BY <1>4, <2>3, <2>4 DEF Add, TypeOK
<1>5. CASE EndOfChunk(p)
  BY <1>5 DEF EndOfChunk, TypeOK, Start
<1>6. CASE Greet(p)
  <2> DEFINE q == members[p][greeted[p] + 1]
  <2>1. <<"hello", p>> \in Datagrams
    BY DEF Datagrams
  <2>2. inbox \in [Proc -> Seq(Datagrams)]
    BY DEF TypeOK, Datagrams
  <2>3. inbox' = inbox \/ inbox' = Send(inbox, q, <<"hello", p>>)
    BY <1>6 DEF Greet, Greeting
  <2> HIDE DEF q
  <2>4. inbox' \in [Proc -> Seq(Datagrams)]
    BY <2>1, <2>2, <2>3, SendFacts
  <2>5. /\ greeted' = [greeted EXCEPT ![p] = greeted[p] + 1]
        /\ greeted \in [Proc -> Nat]
        /\ members' = members /\ greeted[p] < Len(members[p])
    BY <1>6 DEF Greet, TypeOK
  <2>6. greeted' \in [Proc -> Nat]
    BY <2>5
  <2>7. \A r \in Proc : greeted'[r] <= Len(members'[r])
    <3>1. greeted[p] + 1 <= Len(members[p])
      BY <1>0, <2>5
    <3>2. QED
      BY <1>0, <2>5, <3>1
  <2>8. QED
    BY <1>6, <2>4, <2>6, <2>7 DEF Greet, TypeOK, Datagrams
<1>7. CASE StartChat(p)
  BY <1>7 DEF StartChat, TypeOK, Start
<1>8. QED
  BY <1>1, <1>2, <1>3, <1>4, <1>5, <1>6, <1>7 DEF MainStep

\* The steps of initIfNecessary() keep the shapes.
LEMMA TypeInitialise ==
    ASSUME TypeOK, NEW p \in Proc, NEW t \in Thread, Check(p, t) \/ Initialise(p, t)
    PROVE  TypeOK'
<1> USE DEF startup, mcast
<1>1. CASE Check(p, t)
  <2>1. init' \in [Proc -> [Thread -> {"out", "create", "arm", "done"}]]
    BY <1>1 DEF Check, TypeOK
  <2>2. early' \cup both' \subseteq Proc
    BY <1>1 DEF Check, TypeOK
  <2>3. QED
    BY <1>1, <2>1, <2>2 DEF Check, TypeOK
<1>2. CASE Create(p, t)
  <2>1. init' \in [Proc -> [Thread -> {"out", "create", "arm", "done"}]]
    BY <1>2 DEF Create, TypeOK
  <2>2. early' \cup both' \subseteq Proc
    BY <1>2 DEF Create, TypeOK
  <2>3. ToSet(members[p]) \subseteq Ids
    BY TypeOfProcess, ToSetFacts
  <2>4. external' \in [Proc -> (SUBSET Ids) \cup {NoState}]
    BY <1>2, <2>3 DEF Create, TypeOK
  <2>5. seq' \in [Proc -> Nat]
    BY <1>2 DEF Create, TypeOK
  <2>6. UNCHANGED <<startup, inbox, delayed, timers, casts, died>>
    BY <1>2 DEF Create
  <2>7. {offset', greeted', seq'} \subseteq [Proc -> Nat]
    BY <2>5, <2>6 DEF TypeOK
  <2>8. QED
    BY <2>1, <2>2, <2>4, <2>6, <2>7 DEF TypeOK
<1>3. CASE Arm(p, t)
  <2>1. init' \in [Proc -> [Thread -> {"out", "create", "arm", "done"}]]
    BY <1>3 DEF Arm, TypeOK
  <2>2. timers' \in [Proc -> BOOLEAN]
    BY <1>3 DEF Arm, TypeOK
  <2>3. QED
    BY <1>3, <2>1, <2>2 DEF Arm, TypeOK
<1>4. QED
  BY <1>1, <1>2, <1>3 DEF Initialise

\* The other steps keep the shapes.
LEMMA TypeMessages ==
    ASSUME TypeOK, CallsUnderWay, Initialised, NEW p \in Proc,
           Multicast(p) \/ ReceiveHello(p) \/ ReceiveData(p)
    PROVE  TypeOK'
<1> USE DEF startup, mcast
<1>1. CASE Multicast(p)
  <2>1. init[p]["chat"] = "done"
    BY <1>1 DEF Multicast, At
  <2>2. external[p] \subseteq Ids /\ Len(casts[p]) < MaxCasts[p]
    BY <2>1 DEF Initialised, CallsUnderWay, TypeOK, Thread
  <2>3. seq' = [seq EXCEPT ![p] = seq[p] + 1] /\ seq \in [Proc -> Nat]
    BY <1>1 DEF Multicast, TypeOK
  <2>4. seq' \in [Proc -> Nat] /\ seq'[p] \in Nat
    BY <2>3
  <2>5. Append(casts[p], seq'[p]) \in Seq(Nat)
        /\ Len(Append(casts[p], seq'[p])) = Len(casts[p]) + 1
    BY <2>4, TypeOfProcess, AppendFacts
  <2>6. casts' \in [Proc -> Seq(Nat)]
    BY <1>1, <2>5 DEF Multicast, TypeOK
  <2>7. Len(casts[p]) + 1 <= MaxCasts[p]
    BY <2>2, TypeOfProcess
  <2>8. \A q \in Proc : Len(casts'[q]) <= MaxCasts[q]
    BY <1>1, <2>5, <2>7 DEF Multicast, TypeOK
  <2>9. delayed' \subseteq Proc \X Ids
    <3>1. delayed \subseteq Proc \X Ids
      BY DEF TypeOK
    <3>2. delayed' = delayed \cup {<<p, q>> : q \in external[p]}
      BY <1>1 DEF Multicast
    <3>3. QED
      BY <2>2, <3>1, <3>2
  <2>10. init' \in [Proc -> [Thread -> {"out", "create", "arm", "done"}]]
    BY <1>1 DEF Multicast, TypeOK, Thread
  <2>11. UNCHANGED <<startup, inbox, external, timers, died, early, both>>
    BY <1>1 DEF Multicast
  <2>12. {offset', greeted', seq'} \subseteq [Proc -> Nat]
    BY <2>4, <2>11 DEF TypeOK
  <2>13. \A q \in Proc : offset'[q] <= Len(file') /\ greeted'[q] <= Len(members'[q])
    BY <2>11 DEF TypeOK
  <2>14. QED
    BY <2>6, <2>8, <2>9, <2>10, <2>11, <2>12, <2>13 DEF TypeOK
<1>2. CASE ReceiveHello(p)
  <2> DEFINE id == Head(inbox[p])[2]
  <2>1. id \in Ids /\ Tail(inbox[p]) \in Seq(Datagrams)
    BY <1>2, HeadFacts DEF ReceiveHello, Ids
  <2>2. members' = [members EXCEPT ![p] = NewMember(p, id)]
    BY <1>2 DEF ReceiveHello
  <2> HIDE DEF id
  <2>3. members[p] \in Seq(Ids) /\ greeted[p] \in Nat /\ greeted[p] <= Len(members[p])
    BY TypeOfProcess
  <2>4. /\ NewMember(p, id) \in Seq(Ids) /\ Len(members[p]) \in Nat
        /\ Len(members[p]) <= Len(NewMember(p, id))
    BY <2>1, <2>3, NewMemberFacts
  <2>5. members' \in [Proc -> Seq(Ids)]
    BY <2>2, <2>4 DEF TypeOK
  <2>6. greeted[p] <= Len(NewMember(p, id))
    BY <2>3, <2>4
  <2>7. greeted' = greeted
    BY <1>2 DEF ReceiveHello
  <2>8. \A q \in Proc : greeted'[q] <= Len(members'[q])
    BY <2>2, <2>6, <2>7 DEF TypeOK
  <2>9. inbox' \in [Proc -> Seq(Datagrams)]
    BY <1>2, <2>1 DEF ReceiveHello, TypeOK, Datagrams
  <2>10. QED
    BY <1>2, <2>5, <2>8, <2>9 DEF ReceiveHello, TypeOK, Datagrams
<1>3. CASE ReceiveData(p)
  <2>1. inbox[p] # <<>>
    BY <1>3 DEF ReceiveData, At, CallsUnderWay
  <2>2. Tail(inbox[p]) \in Seq(Datagrams)
    BY <2>1, HeadFacts
  <2>3. inbox' \in [Proc -> Seq(Datagrams)]
    BY <1>3, <2>2 DEF ReceiveData, TypeOK, Datagrams
  <2>4. died' \in [Proc -> {"no", "unknown sender", "no timers"}]
    BY <1>3 DEF ReceiveData, TypeOK
  <2>5. init' \in [Proc -> [Thread -> {"out", "create", "arm", "done"}]]
    BY <1>3 DEF ReceiveData, TypeOK, Thread
  <2>6. QED
    BY <1>3, <2>3, <2>4, <2>5 DEF ReceiveData, TypeOK, Datagrams
<1>4. QED
  BY <1>1, <1>2, <1>3

\* A delivery keeps the shapes.
LEMMA TypeDeliver ==
    ASSUME TypeOK, NEW d \in delayed, Deliver(d)
    PROVE  TypeOK'
<1> USE DEF startup, mcast
<1> DEFINE e == <<"data", d[1]>>
           q == d[2]
<1>1. e \in Datagrams /\ inbox \in [Proc -> Seq(Datagrams)]
  BY DEF TypeOK, Datagrams
<1>2. inbox' = Send(inbox, q, e)
  BY DEF Deliver
<1> HIDE DEF e, q
<1>3. inbox' \in [Proc -> Seq(Datagrams)]
  BY <1>1, <1>2, SendFacts
<1>4. QED
  BY <1>3 DEF Deliver, TypeOK, Datagrams

\* Every step keeps the shapes.
LEMMA TypeStep ==
    ASSUME TypeOK, CallsUnderWay, Initialised, [Next]_vars
    PROVE  TypeOK'
<1>1. ASSUME NEW p \in Proc, Bind(p) \/ MainStep(p) PROVE TypeOK'
  BY <1>1, TypeMain
<1>2. ASSUME NEW p \in Proc, NEW t \in Thread, Check(p, t) \/ Initialise(p, t)
      PROVE  TypeOK'
  BY <1>2, TypeInitialise
<1>3. ASSUME NEW p \in Proc, Multicast(p) \/ ReceiveHello(p) \/ ReceiveData(p)
      PROVE  TypeOK'
  BY <1>3, TypeMessages
<1>4. ASSUME NEW d \in delayed, Deliver(d) PROVE TypeOK'
  BY <1>4, TypeDeliver
<1>5. CASE UNCHANGED vars
  <2>1. /\ file' = file /\ pc' = pc /\ offset' = offset /\ greeted' = greeted
        /\ seq' = seq /\ chunk' = chunk /\ members' = members /\ more' = more
        /\ timers' = timers /\ inbox' = inbox /\ delayed' = delayed /\ init' = init
        /\ external' = external /\ casts' = casts /\ died' = died
        /\ early' = early /\ both' = both
    BY <1>5 DEF vars, startup, mcast
  <2>2. QED
    BY <2>1, Zenon DEF TypeOK
<1>6. QED
  BY <1>1, <1>2, <1>3, <1>4, <1>5 DEF Next, ReceiveStep, Thread
-----------------------------------------------------------------------------
(* What the steps change. *)

\* What happens to a socket buffer: a greeting or a delivery adds to it, the
\* receive thread takes the head.
LEMMA BoxStep ==
    ASSUME TypeOK, NEW q \in Proc, [Next]_vars
    PROVE  \/ inbox'[q] = inbox[q]
           \/ \E p \in Proc : /\ Greet(p) /\ p # q
                              /\ inbox'[q] = Append(inbox[q], <<"hello", p>>)
           \/ \E d \in delayed : /\ Deliver(d) /\ d[2] = q
                                 /\ inbox'[q] = Append(inbox[q], <<"data", d[1]>>)
           \/ /\ ReceiveHello(q) \/ ReceiveData(q)
              /\ inbox'[q] = Tail(inbox[q])
<1> USE DEF startup, mcast
<1>0. inbox \in [Proc -> Seq({"hello", "data"} \X Proc)]
  BY DEF TypeOK
<1>1. ASSUME NEW p \in Proc, Bind(p) \/ MainStep(p), ~Greet(p) PROVE inbox' = inbox
  BY <1>1 DEF Bind, MainStep, AppendSelf, Read, Add, EndOfChunk, StartChat
<1>2. ASSUME NEW p \in Proc, Greet(p)
      PROVE  inbox'[q] = inbox[q] \/ (p # q /\ inbox'[q] = Append(inbox[q], <<"hello", p>>))
  <2> DEFINE r == members[p][greeted[p] + 1]
  <2>1. IF r = p THEN inbox' = inbox ELSE inbox' = Send(inbox, r, <<"hello", p>>)
    BY <1>2 DEF Greet, Greeting
  <2> HIDE DEF r
  <2>2. QED
    BY <1>0, <2>1 DEF Send
<1>3. ASSUME NEW p \in Proc, NEW t \in Thread, Check(p, t) \/ Initialise(p, t) \/ Multicast(p)
      PROVE  inbox' = inbox
  BY <1>3 DEF Check, Initialise, Create, Arm, Multicast
<1>4. ASSUME NEW p \in Proc, ReceiveHello(p) \/ ReceiveData(p)
      PROVE  inbox' = [inbox EXCEPT ![p] = Tail(inbox[p])]
  BY <1>4 DEF ReceiveHello, ReceiveData
<1>5. ASSUME NEW d \in delayed, Deliver(d)
      PROVE  \/ inbox'[q] = inbox[q]
             \/ d[2] = q /\ inbox'[q] = Append(inbox[q], <<"data", d[1]>>)
  BY <1>0, <1>5 DEF Deliver, Send
<1>6. CASE \E p \in Proc : Bind(p) \/ MainStep(p)
  BY <1>1, <1>2, <1>6
<1>7. CASE \E p \in Proc : \E t \in Thread : Check(p, t) \/ Initialise(p, t) \/ Multicast(p)
  BY <1>3, <1>7
<1>8. CASE \E p \in Proc : ReceiveHello(p) \/ ReceiveData(p)
  BY <1>0, <1>4, <1>8
<1>9. CASE \E d \in delayed : Deliver(d)
  BY <1>5, <1>9
<1>10. CASE UNCHANGED vars
  BY <1>10 DEF vars
<1>11. QED
  BY <1>6, <1>7, <1>8, <1>9, <1>10 DEF Next, ReceiveStep, Thread

\* unicast_init(), greetings and deliveries leave the state of mcast.cc alone.
LEMMA QuietSteps ==
    /\ \A p \in Proc : Bind(p) \/ MainStep(p) \/ ReceiveHello(p) =>
           UNCHANGED mcast /\ delayed' = delayed
    /\ \A d \in delayed : Deliver(d) => UNCHANGED mcast /\ UNCHANGED startup
BY DEF Bind, MainStep, AppendSelf, Read, Add, EndOfChunk, Greet, StartChat,
       ReceiveHello, Deliver

\* The cases of a step, for what concerns the state of mcast.cc.
LEMMA Cases ==
    ASSUME [Next]_vars
    PROVE  \/ UNCHANGED mcast
           \/ \E p \in Proc : \E t \in Thread : Check(p, t) \/ Create(p, t) \/ Arm(p, t)
           \/ \E p \in Proc : Multicast(p) \/ ReceiveData(p)
BY QuietSteps DEF Next, vars, ReceiveStep, Initialise, Thread

\* The other threads stay where they are.
OthersStay(p, t) ==
    \A q \in Proc, u \in Thread : q # p \/ u # t => init'[q][u] = init[q][u]

\* Where the steps of initIfNecessary() and of its callers take a thread.
LEMMA ThreadMoves ==
    ASSUME TypeOK, NEW p \in Proc, NEW t \in Thread
    PROVE  /\ Check(p, t) => /\ init'[p][t] = IF Necessary(p) THEN "create" ELSE "done"
                             /\ OthersStay(p, t)
           /\ Create(p, t) => init'[p][t] = "arm" /\ OthersStay(p, t)
           /\ Arm(p, t) => init'[p][t] = "done" /\ OthersStay(p, t)
           /\ Multicast(p) => init'[p]["chat"] = "out" /\ OthersStay(p, "chat")
           /\ ReceiveData(p) => init'[p]["receive"] = "out" /\ OthersStay(p, "receive")
<1>1. ASSUME NEW u \in Thread, NEW v, init' = [init EXCEPT ![p][u] = v]
      PROVE  init'[p][u] = v /\ OthersStay(p, u)
  BY <1>1 DEF TypeOK, OthersStay
<1>2. ASSUME Check(p, t)
      PROVE  /\ init'[p][t] = IF Necessary(p) THEN "create" ELSE "done"
             /\ OthersStay(p, t)
  <2> DEFINE v == IF Necessary(p) THEN "create" ELSE "done"
  <2>1. init' = [init EXCEPT ![p][t] = v]
    BY <1>2 DEF Check
  <2> HIDE DEF v
  <2>2. init'[p][t] = v /\ OthersStay(p, t)
    BY <1>1, <2>1
  <2>3. init'[p][t] = IF Necessary(p) THEN "create" ELSE "done"
    BY <2>2 DEF v
  <2>4. QED
    BY <2>2, <2>3
<1>3. Create(p, t) => init' = [init EXCEPT ![p][t] = "arm"]
  BY DEF Create
<1>4. Arm(p, t) => init' = [init EXCEPT ![p][t] = "done"]
  BY DEF Arm
<1>5. Multicast(p) => init' = [init EXCEPT ![p]["chat"] = "out"]
  BY DEF Multicast
<1>6. ReceiveData(p) => init' = [init EXCEPT ![p]["receive"] = "out"]
  BY DEF ReceiveData
<1>7. "chat" \in Thread /\ "receive" \in Thread
  BY DEF Thread
<1>8. Create(p, t) => init'[p][t] = "arm" /\ OthersStay(p, t)
  BY <1>1, <1>3
<1>9. Arm(p, t) => init'[p][t] = "done" /\ OthersStay(p, t)
  BY <1>1, <1>4
<1>10. Multicast(p) => init'[p]["chat"] = "out" /\ OthersStay(p, "chat")
  BY <1>1, <1>5, <1>7
<1>11. ReceiveData(p) => init'[p]["receive"] = "out" /\ OthersStay(p, "receive")
  BY <1>1, <1>6, <1>7
<1>12. QED
  BY <1>2, <1>8, <1>9, <1>10, <1>11

-----------------------------------------------------------------------------
(* The construction of globalState. *)

\* A thread in initIfNecessary() keeps the call it is there for.
LEMMA CallsUnderWayStep ==
    ASSUME TypeOK, CallsUnderWay, [Next]_vars
    PROVE  CallsUnderWay'
<1> SUFFICES ASSUME NEW q \in Proc
             PROVE  /\ init'[q]["chat"] # "out" => Len(casts'[q]) < MaxCasts[q]
                    /\ init'[q]["receive"] # "out" =>
                           inbox'[q] # <<>> /\ Head(inbox'[q])[1] = "data"
  BY DEF CallsUnderWay
<1>0. /\ init[q]["chat"] # "out" => Len(casts[q]) < MaxCasts[q]
      /\ init[q]["receive"] # "out" => inbox[q] # <<>> /\ Head(inbox[q])[1] = "data"
  BY DEF CallsUnderWay
<1>1. inbox[q] # <<>> /\ ~ReceiveHello(q) /\ ~ReceiveData(q) =>
          inbox'[q] # <<>> /\ Head(inbox'[q]) = Head(inbox[q])
  <2>1. inbox[q] \in Seq(Datagrams)
    BY TypeOfProcess
  <2>2. \A e : inbox[q] # <<>> => /\ Append(inbox[q], e) # <<>>
                                  /\ Head(Append(inbox[q], e)) = Head(inbox[q])
    BY <2>1
  <2>3. QED
    BY <2>2, BoxStep
<1>2. CASE UNCHANGED mcast
  <2>1. init' = init /\ casts' = casts
    BY <1>2 DEF mcast
  <2>2. init[q]["receive"] # "out" => ~ReceiveHello(q)
    BY DEF ReceiveHello
  <2>3. ReceiveData(q) => init[q]["receive"] = "done" /\ init'[q]["receive"] = "out"
    BY ThreadMoves DEF OthersStay, ReceiveData, At, Thread
  <2>4. ~ReceiveData(q)
    BY <2>1, <2>3
  <2>5. QED
    BY <1>0, <1>1, <2>1, <2>2, <2>4
<1>3. ASSUME NEW p \in Proc, NEW t \in Thread, Check(p, t) \/ Create(p, t) \/ Arm(p, t)
      PROVE  /\ init'[q]["chat"] # "out" => Len(casts'[q]) < MaxCasts[q]
             /\ init'[q]["receive"] # "out" =>
                    inbox'[q] # <<>> /\ Head(inbox'[q])[1] = "data"
  <2>1. casts' = casts /\ inbox' = inbox
    BY <1>3 DEF Check, Create, Arm, mcast
  <2>2. \A u \in Thread : q # p \/ u # t => init'[q][u] = init[q][u]
    BY <1>3, ThreadMoves DEF OthersStay
  <2>3. CASE Check(p, t)
    BY <1>0, <2>1, <2>2, <2>3 DEF Check, Calls, Thread
  <2>4. CASE Create(p, t) \/ Arm(p, t)
    BY <1>0, <2>1, <2>2, <2>4 DEF Create, Arm, At, Thread
  <2>5. QED
    BY <1>3, <2>3, <2>4
<1>4. ASSUME NEW p \in Proc, Multicast(p)
      PROVE  /\ init'[q]["chat"] # "out" => Len(casts'[q]) < MaxCasts[q]
             /\ init'[q]["receive"] # "out" =>
                    inbox'[q] # <<>> /\ Head(inbox'[q])[1] = "data"
  <2>1. inbox' = inbox /\ (q # p => casts'[q] = casts[q])
    BY <1>4 DEF Multicast, TypeOK
  <2>2. /\ init'[p]["chat"] = "out"
        /\ \A u \in Thread : q # p \/ u # "chat" => init'[q][u] = init[q][u]
    BY <1>4, ThreadMoves DEF OthersStay, Thread
  <2>3. QED
    BY <1>0, <2>1, <2>2 DEF Thread
<1>5. ASSUME NEW p \in Proc, ReceiveData(p)
      PROVE  /\ init'[q]["chat"] # "out" => Len(casts'[q]) < MaxCasts[q]
             /\ init'[q]["receive"] # "out" =>
                    inbox'[q] # <<>> /\ Head(inbox'[q])[1] = "data"
  <2>1. casts' = casts /\ (q # p => inbox'[q] = inbox[q])
    BY <1>5 DEF ReceiveData, TypeOK
  <2>2. /\ init'[p]["receive"] = "out"
        /\ \A u \in Thread : q # p \/ u # "receive" => init'[q][u] = init[q][u]
    BY <1>5, ThreadMoves DEF OthersStay, Thread
  <2>3. QED
    BY <1>0, <2>1, <2>2 DEF Thread
<1>6. QED
  BY <1>2, <1>3, <1>4, <1>5, Cases
\* The state that is built is a set of ids, not NoState.
LEMMA CreateFacts ==
    ASSUME TypeOK, NEW p \in Proc, NEW t \in Thread, Create(p, t)
    PROVE  /\ external'[p] = ToSet(members[p]) \ {p}
           /\ external'[p] # NoState
           /\ seq'[p] = 0
           /\ \A q \in Proc : q # p => external'[q] = external[q] /\ seq'[q] = seq[q]
<1>1. ToSet(members[p]) \subseteq Ids
  BY TypeOfProcess, ToSetFacts
<1>2. "none" \notin Ids
  BY IdAssumption DEF Ids
<1>3. /\ external'[p] = ToSet(members[p]) \ {p}
      /\ seq'[p] = 0
      /\ \A q \in Proc : q # p => external'[q] = external[q] /\ seq'[q] = seq[q]
  BY DEF Create, TypeOK
<1>4. QED
  BY <1>1, <1>2, <1>3 DEF NoState

\* A state stays, and so do the timers, and a thread that is to create them.
LEMMA InitialisedStep ==
    ASSUME TypeOK, Initialised, [Next]_vars
    PROVE  Initialised'
<1> DEFINE Good(q) ==
             /\ \A u \in Thread : init[q][u] \in {"arm", "done"} => external[q] # NoState
             /\ external[q] # NoState /\ ~timers[q] => \E u \in Thread : init[q][u] = "arm"
<1>0. \A q \in Proc : Good(q)
  BY DEF Initialised
<1>1. SUFFICES ASSUME NEW q \in Proc PROVE Good(q)'
  BY DEF Initialised
<1>2. CASE UNCHANGED mcast
  BY <1>0, <1>2 DEF mcast
<1>3. ASSUME NEW p \in Proc, NEW t \in Thread, Check(p, t) \/ Create(p, t) \/ Arm(p, t)
      PROVE  Good(q)'
  <2>1. CASE Check(p, t)
    <3>1. external' = external /\ timers' = timers /\ init[p][t] = "out"
      BY <2>1 DEF Check, At
    <3>2. /\ init'[p][t] = IF Necessary(p) THEN "create" ELSE "done"
          /\ \A u \in Thread : q # p \/ u # t => init'[q][u] = init[q][u]
      BY <2>1, ThreadMoves DEF OthersStay
    <3>3. QED
      BY <1>0, <3>1, <3>2 DEF Necessary
  <2>2. CASE Create(p, t)
    <3>1. timers' = timers /\ init'[p][t] = "arm"
      BY <2>2, ThreadMoves DEF Create
    <3>2. \A u \in Thread : q # p \/ u # t => init'[q][u] = init[q][u]
      BY <2>2, ThreadMoves DEF OthersStay
    <3>3. external'[p] # NoState /\ (q # p => external'[q] = external[q])
      BY <2>2, CreateFacts
    <3>4. QED
      BY <1>0, <3>1, <3>2, <3>3
  <2>3. CASE Arm(p, t)
    <3>1. external' = external /\ init[p][t] = "arm" /\ init'[p][t] = "done"
      BY <2>3, ThreadMoves DEF Arm, At
    <3>2. \A u \in Thread : q # p \/ u # t => init'[q][u] = init[q][u]
      BY <2>3, ThreadMoves DEF OthersStay
    <3>3. timers'[p] /\ (q # p => timers'[q] = timers[q])
      BY <2>3 DEF Arm, TypeOK
    <3>4. QED
      BY <1>0, <3>1, <3>2, <3>3
  <2>4. QED
    BY <1>3, <2>1, <2>2, <2>3
<1>4. ASSUME NEW p \in Proc, NEW t \in Thread, init[p][t] = "done",
             init'[p][t] = "out", OthersStay(p, t), external' = external, timers' = timers
      PROVE  Good(q)'
  BY <1>0, <1>4 DEF OthersStay
<1>5. ASSUME NEW p \in Proc, Multicast(p) \/ ReceiveData(p) PROVE Good(q)'
  <2>1. CASE Multicast(p)
    BY <1>4, <2>1, ThreadMoves DEF Multicast, At, Thread
  <2>2. CASE ReceiveData(p)
    BY <1>4, <2>2, ThreadMoves DEF ReceiveData, At, Thread
  <2>3. QED
    BY <1>5, <2>1, <2>2
<1>6. QED
  BY <1>2, <1>3, <1>4, <1>5, Cases

\* Unless both threads find globalState to be NULL, it is built once.
LEMMA BuiltOnceStep ==
    ASSUME TypeOK, Initialised, BuiltOnce, [Next]_vars
    PROVE  BuiltOnce'
<1> DEFINE Creates(q) ==
             \A u \in Thread : init[q][u] = "create" =>
                 /\ external[q] = NoState
                 /\ \A v \in Thread : init[q][v] = "create" => v = u
           Numbers(q) ==
             /\ external[q] = NoState => casts[q] = <<>>
             /\ \A i \in 1 .. Len(casts[q]) : casts[q][i] <= seq[q]
             /\ Distinct(casts[q])
<1>0. \A q \in Proc \ both : Creates(q) /\ Numbers(q)
  BY DEF BuiltOnce
<1>1. SUFFICES ASSUME NEW q \in Proc \ both' PROVE Creates(q)' /\ Numbers(q)'
  BY DEF BuiltOnce
<1>2. CASE UNCHANGED mcast
  <2>1. /\ init' = init /\ external' = external /\ seq' = seq /\ casts' = casts
        /\ both' = both
    BY <1>2 DEF mcast
  <2>2. QED
    BY <1>0, <2>1 DEF Distinct
<1>3. ASSUME NEW p \in Proc, NEW t \in Thread, Check(p, t)
      PROVE  Creates(q)' /\ Numbers(q)'
  <2>1. /\ external' = external /\ seq' = seq /\ casts' = casts
        /\ both' = IF Necessary(p) /\ \E u \in Thread : init[p][u] = "create"
                   THEN both \cup {p} ELSE both
    BY <1>3 DEF Check
  <2>2. /\ init'[p][t] = IF Necessary(p) THEN "create" ELSE "done"
        /\ \A u \in Thread : q # p \/ u # t => init'[q][u] = init[q][u]
    BY <1>3, ThreadMoves DEF OthersStay
  <2>3. q \notin both
    BY <2>1
  <2>4. Numbers(q)'
    BY <1>0, <2>1, <2>3 DEF Distinct
  <2>5. CASE q = p /\ Necessary(p)
    <3>1. \A u \in Thread : init[p][u] # "create"
      BY <2>1, <2>5
    <3>2. QED
      BY <2>1, <2>2, <2>4, <2>5, <3>1 DEF Necessary
  <2>6. CASE ~(q = p /\ Necessary(p))
    BY <1>0, <2>1, <2>2, <2>3, <2>4, <2>6
  <2>7. QED
    BY <2>5, <2>6
<1>4. ASSUME NEW p \in Proc, NEW t \in Thread, Create(p, t)
      PROVE  Creates(q)' /\ Numbers(q)'
  <2>1. init[p][t] = "create" /\ casts' = casts /\ both' = both
    BY <1>4 DEF Create, At
  <2>2. /\ init'[p][t] = "arm"
        /\ \A u \in Thread : q # p \/ u # t => init'[q][u] = init[q][u]
    BY <1>4, ThreadMoves DEF OthersStay
  <2>3. q # p => external'[q] = external[q] /\ seq'[q] = seq[q]
    BY <1>4, CreateFacts
  <2>4. CASE q = p
    <3>1. casts[q] = <<>> /\ \A u \in Thread : init[q][u] = "create" => u = t
      BY <1>0, <2>1, <2>4
    <3>2. Creates(q)'
      BY <2>2, <2>4, <3>1
    <3>3. Numbers(q)'
      BY <2>1, <3>1 DEF Distinct
    <3>4. QED
      BY <3>2, <3>3
  <2>5. CASE q # p
    BY <1>0, <2>1, <2>2, <2>3, <2>5 DEF Distinct
  <2>6. QED
    BY <2>4, <2>5
<1>5. ASSUME NEW p \in Proc, NEW t \in Thread, Arm(p, t)
      PROVE  Creates(q)' /\ Numbers(q)'
  <2>1. external' = external /\ seq' = seq /\ casts' = casts /\ both' = both
    BY <1>5 DEF Arm
  <2>2. /\ init'[p][t] = "done"
        /\ \A u \in Thread : q # p \/ u # t => init'[q][u] = init[q][u]
    BY <1>5, ThreadMoves DEF OthersStay
  <2>3. QED
    BY <1>0, <2>1, <2>2 DEF Distinct
<1>6. ASSUME NEW p \in Proc, Multicast(p) PROVE Creates(q)' /\ Numbers(q)'
  <2>1. /\ init[p]["chat"] = "done" /\ external' = external /\ both' = both
        /\ seq' = [seq EXCEPT ![p] = seq[p] + 1]
        /\ casts' = [casts EXCEPT ![p] = Append(casts[p], seq'[p])]
    BY <1>6 DEF Multicast, At
  <2>2. /\ init'[p]["chat"] = "out"
        /\ \A u \in Thread : q # p \/ u # "chat" => init'[q][u] = init[q][u]
    BY <1>6, ThreadMoves DEF OthersStay, Thread
  <2>3. Creates(q)'
    BY <1>0, <2>1, <2>2
  <2>4. CASE q = p
    <3>1. casts[p] \in Seq(Nat) /\ seq[p] \in Nat
      BY TypeOfProcess
    <3>2. external[q] # NoState
      BY <2>1, <2>4 DEF Initialised, Thread
    <3>3. casts'[q] = Append(casts[p], seq[p] + 1) /\ seq'[q] = seq[p] + 1
      BY <2>1, <2>4 DEF TypeOK
    <3>4. \A i \in 1 .. Len(casts[p]) : casts[p][i] <= seq[p] /\ casts[p][i] \in Nat
      BY <1>0, <2>1, <2>4, <3>1
    <3>5. ~Contains(casts[p], seq[p] + 1)
      BY <3>1, <3>4 DEF Contains
    <3>6. Distinct(casts'[q])
      BY <1>0, <2>1, <2>4, <3>1, <3>3, <3>5, AppendDistinct
    <3>7. \A i \in 1 .. Len(casts'[q]) : casts'[q][i] <= seq'[q]
      BY <3>1, <3>3, <3>4, AppendFacts
    <3>8. QED
      BY <2>1, <2>3, <3>2, <3>6, <3>7
  <2>5. CASE q # p
    <3>1. casts'[q] = casts[q] /\ seq'[q] = seq[q]
      BY <2>1, <2>5 DEF TypeOK
    <3>2. QED
      BY <1>0, <2>1, <2>3, <2>5, <3>1 DEF Distinct
  <2>6. QED
    BY <2>4, <2>5
<1>7. ASSUME NEW p \in Proc, ReceiveData(p) PROVE Creates(q)' /\ Numbers(q)'
  <2>1. external' = external /\ seq' = seq /\ casts' = casts /\ both' = both
    BY <1>7 DEF ReceiveData
  <2>2. /\ init'[p]["receive"] = "out"
        /\ \A u \in Thread : q # p \/ u # "receive" => init'[q][u] = init[q][u]
    BY <1>7, ThreadMoves DEF OthersStay, Thread
  <2>3. QED
    BY <1>0, <2>1, <2>2 DEF Distinct
<1>8. QED
  BY <1>2, <1>3, <1>4, <1>5, <1>6, <1>7, Cases
-----------------------------------------------------------------------------
(* The members and what was read. *)

\* Only new_member() changes the members of a process.
LEMMA MembersCases ==
    ASSUME TypeOK, NEW q \in Proc, [Next]_vars
    PROVE  \/ members'[q] = members[q]
           \/ \E id \in Ids : members'[q] = NewMember(q, id)
<1> USE DEF startup, mcast
<1>1. ASSUME NEW p \in Proc, Bind(p) \/ MainStep(p), ~Add(p) PROVE members' = members
  BY <1>1 DEF Bind, MainStep, AppendSelf, Read, EndOfChunk, Greet, StartChat
<1>2. ASSUME NEW p \in Proc, Add(p)
      PROVE  \E id \in Ids : members' = [members EXCEPT ![p] = NewMember(p, id)]
  <2>1. chunk[p] \in Seq(Ids) /\ chunk[p] # <<>>
    BY <1>2, TypeOfProcess DEF Add
  <2>2. Head(chunk[p]) \in Ids
    BY <2>1, TailFacts
  <2>3. QED
    BY <1>2, <2>2 DEF Add
<1>3. ASSUME NEW p \in Proc, ReceiveHello(p)
      PROVE  \E id \in Ids : members' = [members EXCEPT ![p] = NewMember(p, id)]
  <2>1. Head(inbox[p])[2] \in Ids
    BY <1>3, HeadFacts DEF ReceiveHello, Ids
  <2>2. QED
    BY <1>3, <2>1 DEF ReceiveHello
<1>4. ASSUME NEW p \in Proc, NEW t \in Thread,
             Check(p, t) \/ Initialise(p, t) \/ Multicast(p) \/ ReceiveData(p)
      PROVE  members' = members
  BY <1>4 DEF Check, Initialise, Create, Arm, Multicast, ReceiveData
<1>5. ASSUME NEW d \in delayed, Deliver(d) PROVE members' = members
  BY <1>5 DEF Deliver
<1>6. ASSUME NEW p \in Proc, NEW id \in Ids,
             members' = [members EXCEPT ![p] = NewMember(p, id)]
      PROVE  \/ members'[q] = members[q]
             \/ \E i \in Ids : members'[q] = NewMember(q, i)
  BY <1>6 DEF TypeOK
<1>7. CASE \E p \in Proc : Add(p) \/ ReceiveHello(p)
  BY <1>2, <1>3, <1>6, <1>7
<1>8. CASE UNCHANGED vars
  BY <1>8 DEF vars
<1>9. QED
  BY <1>1, <1>4, <1>5, <1>7, <1>8 DEF Next, ReceiveStep, MainStep, Thread

\* Members keep their places.
LEMMA MembersStep ==
    ASSUME TypeOK, NEW q \in Proc, [Next]_vars
    PROVE  /\ Len(members[q]) <= Len(members'[q])
           /\ \A j \in 1 .. Len(members[q]) : members'[q][j] = members[q][j]
           /\ \A x : Contains(members[q], x) => Contains(members'[q], x)
           /\ Distinct(members[q]) => Distinct(members'[q])
<1>1. members[q] \in Seq(Ids) /\ Len(members[q]) \in Nat
  BY TypeOfProcess
<1>2. CASE members'[q] = members[q]
  BY <1>1, <1>2
<1>3. ASSUME NEW id \in Ids, members'[q] = NewMember(q, id)
      PROVE  /\ Len(members[q]) <= Len(members'[q])
             /\ \A j \in 1 .. Len(members[q]) : members'[q][j] = members[q][j]
             /\ \A x : Contains(members[q], x) => Contains(members'[q], x)
             /\ Distinct(members[q]) => Distinct(members'[q])
  BY <1>1, <1>3, NewMemberFacts
<1>4. QED
  BY <1>2, <1>3, MembersCases

\* Nobody is entered twice.
LEMMA NoRepetitionStep ==
    ASSUME TypeOK, NoRepetition, [Next]_vars
    PROVE  NoRepetition'
BY MembersStep DEF NoRepetition

\* Nobody is external to itself, or sends data to itself.
LEMMA NoSelfStep ==
    ASSUME TypeOK, CallsUnderWay, NoSelf, [Next]_vars
    PROVE  NoSelf'
<1>1. \A q \in Proc : q \notin external'[q]
  <2>1. ASSUME NEW p \in Proc, NEW t \in Thread, Create(p, t)
        PROVE  \A q \in Proc : q \notin external'[q]
    BY <2>1, CreateFacts DEF NoSelf
  <2>2. ASSUME NEW p \in Proc, NEW t \in Thread,
               Check(p, t) \/ Arm(p, t) \/ Multicast(p) \/ ReceiveData(p)
        PROVE  external' = external
    BY <2>2 DEF Check, Arm, Multicast, ReceiveData
  <2>3. CASE UNCHANGED mcast
    BY <2>3 DEF mcast, NoSelf
  <2>4. QED
    BY <2>1, <2>2, <2>3, Cases DEF NoSelf, Thread
<1>2. \A d \in delayed' : d[1] # d[2]
  <2>1. ASSUME NEW p \in Proc, Multicast(p) PROVE \A d \in delayed' : d[1] # d[2]
    BY <2>1 DEF Multicast, NoSelf
  <2>2. ASSUME ~\E p \in Proc : Multicast(p) PROVE delayed' \subseteq delayed
    <3>1. ASSUME NEW p \in Proc, NEW t \in Thread,
                 Check(p, t) \/ Initialise(p, t) \/ ReceiveData(p)
          PROVE  delayed' = delayed
      BY <3>1 DEF Check, Initialise, Create, Arm, ReceiveData
    <3>2. ASSUME NEW d \in delayed, Deliver(d) PROVE delayed' \subseteq delayed
      BY <3>2 DEF Deliver
    <3>3. CASE UNCHANGED vars
      BY <3>3 DEF vars
    <3>4. QED
      BY <2>2, <3>1, <3>2, <3>3, QuietSteps DEF Next, ReceiveStep, Thread
  <2>3. QED
    BY <2>1, <2>2 DEF NoSelf
<1>3. ASSUME NEW q \in Proc PROVE ~Contains(inbox'[q], <<"data", q>>)
  <2>1. inbox[q] \in Seq(Datagrams) /\ ~Contains(inbox[q], <<"data", q>>)
    BY TypeOfProcess DEF NoSelf
  <2>2. ASSUME NEW p \in Proc, p # q, inbox'[q] = Append(inbox[q], <<"hello", p>>)
        PROVE  ~Contains(inbox'[q], <<"data", q>>)
    <3> DEFINE e == <<"hello", p>>
    <3>1. e \in Datagrams /\ e # <<"data", q>>
      BY DEF Datagrams
    <3> HIDE DEF e
    <3>2. QED
      BY <2>1, <2>2, <3>1, AppendContains DEF e
  <2>3. ASSUME NEW d \in delayed, d[2] = q, inbox'[q] = Append(inbox[q], <<"data", d[1]>>)
        PROVE  ~Contains(inbox'[q], <<"data", q>>)
    <3> DEFINE e == <<"data", d[1]>>
    <3>1. e \in Datagrams
      BY DEF Datagrams, TypeOK
    <3>2. e # <<"data", q>>
      BY <2>3 DEF NoSelf
    <3> HIDE DEF e
    <3>3. QED
      BY <2>1, <2>3, <3>1, <3>2, AppendContains DEF e
  <2>4. ASSUME ReceiveHello(q) \/ ReceiveData(q), inbox'[q] = Tail(inbox[q])
        PROVE  ~Contains(inbox'[q], <<"data", q>>)
    <3>1. inbox[q] # <<>>
      BY <2>4 DEF ReceiveHello, ReceiveData, At, CallsUnderWay
    <3>2. QED
      BY <2>1, <2>4, <3>1, TailContains
  <2>5. QED
    BY <2>1, <2>2, <2>3, <2>4, BoxStep
<1>4. QED
  BY <1>1, <1>2, <1>3 DEF NoSelf

\* The cases of a step, for what concerns unicast_init().
LEMMA StartupCases ==
    ASSUME [Next]_vars
    PROVE  \/ UNCHANGED startup
           \/ \E p \in Proc : Bind(p) \/ MainStep(p) \/ ReceiveHello(p)
<1>1. ASSUME NEW p \in Proc, NEW t \in Thread,
             Check(p, t) \/ Initialise(p, t) \/ Multicast(p) \/ ReceiveData(p)
      PROVE  UNCHANGED startup
  BY <1>1 DEF Check, Initialise, Create, Arm, Multicast, ReceiveData
<1>2. CASE UNCHANGED vars
  BY <1>2 DEF vars
<1>3. QED
  BY <1>1, <1>2, QuietSteps DEF Next, ReceiveStep, Thread
\* The file only grows, and the steps of others leave the reading of p alone.
LEMMA FileStep ==
    ASSUME TypeOK, [Next]_vars
    PROVE  /\ Len(file) \in Nat /\ Len(file') \in Nat /\ Len(file) <= Len(file')
           /\ \A i \in 1 .. Len(file) : file'[i] = file[i]
<1>0. file \in Seq(Ids) /\ Len(file) \in Nat
  <2>1. file \in Seq(Ids)
    BY DEF TypeOK
  <2>2. QED
    BY <2>1
<1>1. CASE file' = file
  BY <1>0, <1>1
<1>2. ASSUME NEW p \in Proc, file' = Append(file, p)
      PROVE  /\ Len(file') \in Nat /\ Len(file) <= Len(file')
             /\ \A i \in 1 .. Len(file) : file'[i] = file[i]
  <2>1. p \in Ids
    BY DEF Ids
  <2>2. QED
    BY <1>0, <1>2, <2>1, AppendFacts
<1>3. file' = file \/ \E p \in Proc : file' = Append(file, p)
  <2>1. ASSUME NEW p \in Proc, Bind(p) \/ MainStep(p) \/ ReceiveHello(p)
        PROVE  file' = file \/ file' = Append(file, p)
    BY <2>1 DEF Bind, MainStep, AppendSelf, Write, Read, Add, EndOfChunk, Greet,
                StartChat, ReceiveHello
  <2>2. CASE UNCHANGED startup
    BY <2>2 DEF startup
  <2>3. QED
    BY <2>1, <2>2, StartupCases
<1>4. QED
  BY <1>0, <1>1, <1>2, <1>3

\* The steps of unicast_init() and of the receive thread change what belongs to
\* their process only.
LEMMA OthersStartup ==
    ASSUME TypeOK, NEW p \in Proc, NEW q \in Proc, p # q,
           Bind(p) \/ MainStep(p) \/ ReceiveHello(p)
    PROVE  /\ pc'[q] = pc[q] /\ offset'[q] = offset[q] /\ chunk'[q] = chunk[q]
           /\ more'[q] = more[q] /\ greeted'[q] = greeted[q]
           /\ members'[q] = members[q]
BY DEF TypeOK, Bind, MainStep, AppendSelf, Read, Add, EndOfChunk, Greet,
       StartChat, ReceiveHello

\* What a process has read, it has read.
LEMMA OffsetStep ==
    ASSUME TypeOK, NEW q \in Proc, [Next]_vars
    PROVE  /\ offset[q] \in Nat /\ offset'[q] \in Nat /\ offset[q] <= offset'[q]
           /\ Finished(q)' => Finished(q) \/ offset'[q] = Len(file)
<1>0. offset[q] \in Nat
  BY TypeOfProcess
<1>1. CASE UNCHANGED startup
  BY <1>0, <1>1 DEF startup, Finished
<1>2. ASSUME NEW p \in Proc, p # q, Bind(p) \/ MainStep(p) \/ ReceiveHello(p)
      PROVE  offset'[q] = offset[q] /\ (Finished(q)' => Finished(q))
  BY <1>2, OthersStartup DEF Finished
<1>3. CASE Read(q)
  <2> DEFINE new == SubSeq(file, offset[q] + 1, Min({offset[q] + Chunk, Len(file)}))
  <2>1. /\ NextOffset(q, new) \in Nat
        /\ offset[q] <= NextOffset(q, new)
        /\ Len(new) # Chunk => NextOffset(q, new) = Len(file)
    BY ReadFacts
  <2>2. /\ offset' = [offset EXCEPT ![q] = NextOffset(q, new)]
        /\ more' = [more EXCEPT ![q] = Len(new) = Chunk]
        /\ pc' = [pc EXCEPT ![q] = "add"]
    BY <1>3 DEF Read
  <2> HIDE DEF new
  <2>3. offset'[q] = NextOffset(q, new)
    BY <2>2 DEF TypeOK
  <2>4. pc'[q] = "add" /\ more'[q] = (Len(new) = Chunk)
    BY <2>2 DEF TypeOK
  <2>5. QED
    BY <1>0, <2>1, <2>3, <2>4 DEF Finished
<1>4. ASSUME Bind(q) \/ AppendSelf(q) \/ Add(q) \/ EndOfChunk(q) \/ Greet(q)
             \/ StartChat(q) \/ ReceiveHello(q)
      PROVE  offset'[q] = offset[q] /\ (Finished(q)' => Finished(q))
  BY <1>4 DEF TypeOK, Bind, AppendSelf, Add, EndOfChunk, Greet, StartChat,
              ReceiveHello, Finished, Main
<1>5. QED
  BY <1>0, <1>1, <1>2, <1>3, <1>4, StartupCases DEF MainStep

\* What is to be read is read.
LEMMA WillReadStep ==
    ASSUME TypeOK, NEW p \in Proc, NEW q, WillRead(p, q), [Next]_vars
    PROVE  WillRead(p, q)'
<1>1. PICK i \in 1 .. Len(file) : file[i] = q /\ (Finished(p) => i <= offset[p])
  BY DEF WillRead
<1>2. i \in 1 .. Len(file') /\ file'[i] = q
  BY <1>1, FileStep
<1>3. Finished(p)' => i <= offset'[p]
  <2>1. CASE Finished(p)
    BY <1>1, <2>1, OffsetStep
  <2>2. CASE ~Finished(p)
    BY <1>1, <2>2, OffsetStep
  <2>3. QED
    BY <2>1, <2>2
<1>4. QED
  BY <1>2, <1>3 DEF WillRead

\* Whoever has written its id reads it.
LEMMA OwnIdReadStep ==
    ASSUME TypeOK, OwnIdRead, [Next]_vars
    PROVE  OwnIdRead'
<1> SUFFICES ASSUME NEW q \in Proc, pc'[q] \notin {"down", "append"}
             PROVE  WillRead(q, q)'
  BY DEF OwnIdRead
<1>1. CASE pc[q] \notin {"down", "append"}
  BY <1>1, WillReadStep DEF OwnIdRead
<1>2. CASE AppendSelf(q)
  <2>1. file \in Seq(Ids) /\ Len(file) \in Nat /\ q \in Ids
    BY TypeOfProcess
  <2>2. file' = Append(file, q)
    BY <1>2 DEF AppendSelf, Write
  <2>3. Len(file') \in 1 .. Len(file') /\ file'[Len(file')] = q
    BY <2>1, <2>2, AppendFacts
  <2>4. ~Finished(q)'
    BY <1>2 DEF AppendSelf, Finished, TypeOK
  <2>5. QED
    BY <2>3, <2>4 DEF WillRead
<1>3. ASSUME pc[q] \in {"down", "append"}, ~AppendSelf(q) PROVE FALSE
  <2>1. CASE UNCHANGED startup
    BY <1>3, <2>1 DEF startup
  <2>2. ASSUME NEW p \in Proc, p # q, Bind(p) \/ MainStep(p) \/ ReceiveHello(p)
        PROVE  FALSE
    BY <1>3, <2>2, OthersStartup
  <2>3. ASSUME Bind(q) \/ MainStep(q) \/ ReceiveHello(q) PROVE FALSE
    BY <1>3, <2>3 DEF TypeOK, Bind, MainStep, Read, Add, EndOfChunk, Greet, StartChat,
                      ReceiveHello, Main
  <2>4. QED
    BY <2>1, <2>2, <2>3, StartupCases
<1>4. QED
  BY <1>1, <1>2, <1>3
\* What was read reaches the members, and those that are greeted.
LEMMA ReadIsKeptStep ==
    ASSUME TypeOK, ReadIsKept, [Next]_vars
    PROVE  ReadIsKept'
<1> DEFINE Kept(q) ==
             /\ pc[q] # "add" => chunk[q] = <<>>
             /\ \A i \in 1 .. offset[q] :
                    IF pc[q] = "chat"
                    THEN \E j \in 1 .. greeted[q] : members[q][j] = file[i]
                    ELSE Contains(members[q], file[i]) \/ Contains(chunk[q], file[i])
<1> SUFFICES ASSUME NEW q \in Proc PROVE Kept(q)'
  BY DEF ReadIsKept
<1>0. Kept(q)
  BY DEF ReadIsKept
<1>1. /\ offset[q] \in Nat /\ offset[q] <= Len(file) /\ Len(file) \in Nat
      /\ members[q] \in Seq(Ids) /\ Len(members[q]) \in Nat
      /\ greeted[q] \in Nat /\ greeted[q] <= Len(members[q])
      /\ chunk[q] \in Seq(Ids)
  BY TypeOfProcess
<1>2. \A i \in 1 .. offset[q] : file'[i] = file[i]
  BY <1>1, FileStep
<1>3. \A j \in 1 .. greeted[q] : members'[q][j] = members[q][j]
  BY <1>1, MembersStep
<1>4. \A x : Contains(members[q], x) => Contains(members'[q], x)
  BY MembersStep
<1>5. ASSUME pc'[q] = pc[q], chunk'[q] = chunk[q], offset'[q] = offset[q],
             greeted'[q] = greeted[q]
      PROVE  Kept(q)'
  BY <1>0, <1>2, <1>3, <1>4, <1>5
<1>6. CASE UNCHANGED startup
  BY <1>5, <1>6 DEF startup
<1>7. ASSUME NEW p \in Proc, p # q, Bind(p) \/ MainStep(p) \/ ReceiveHello(p)
      PROVE  Kept(q)'
  BY <1>5, <1>7, OthersStartup
<1>8. CASE Bind(q) \/ AppendSelf(q)
  <2>1. /\ pc[q] \notin {"add", "chat"} /\ pc'[q] \notin {"add", "chat"}
        /\ chunk'[q] = chunk[q] /\ offset'[q] = offset[q]
    BY <1>8 DEF Bind, AppendSelf, Main, TypeOK
  <2>2. QED
    BY <1>0, <1>2, <1>4, <2>1
<1>9. CASE Read(q)
  <2> DEFINE new == SubSeq(file, offset[q] + 1, Min({offset[q] + Chunk, Len(file)}))
             n == NextOffset(q, new)
  <2>1. /\ n \in Nat /\ offset[q] <= n
        /\ \A i \in offset[q] + 1 .. n : Contains(new, file[i])
    BY ReadFacts
  <2>2. /\ Main(q, "read")
        /\ chunk' = [chunk EXCEPT ![q] = new]
        /\ offset' = [offset EXCEPT ![q] = n]
        /\ pc' = [pc EXCEPT ![q] = "add"]
        /\ file' = file /\ members' = members
    BY <1>9 DEF Read
  <2> HIDE DEF new, n
  <2>3. pc[q] = "read" /\ pc'[q] = "add" /\ chunk'[q] = new /\ offset'[q] = n
    BY <2>2 DEF Main, TypeOK
  <2>4. \A i \in 1 .. offset[q] : Contains(members[q], file[i])
    BY <1>0, <2>3 DEF Contains
  <2>5. ASSUME NEW i \in 1 .. n PROVE Contains(members[q], file[i]) \/ Contains(new, file[i])
    <3>1. i \in 1 .. offset[q] \/ i \in offset[q] + 1 .. n
      BY <1>1, <2>1
    <3>2. QED
      BY <2>1, <2>4, <3>1
  <2>6. QED
    BY <2>2, <2>3, <2>5
<1>10. CASE Add(q)
  <2>1. /\ pc[q] = "add" /\ pc'[q] = "add" /\ chunk[q] # <<>>
        /\ chunk'[q] = Tail(chunk[q]) /\ offset'[q] = offset[q]
        /\ members'[q] = NewMember(q, Head(chunk[q]))
    BY <1>10 DEF Add, Main, TypeOK
  <2>2. Head(chunk[q]) \in Ids
    BY <1>1, <2>1, TailFacts
  <2>3. Contains(members'[q], Head(chunk[q]))
    BY <1>1, <2>1, <2>2, NewMemberFacts
  <2>4. \A x : Contains(chunk[q], x) => x = Head(chunk[q]) \/ Contains(chunk'[q], x)
    BY <1>1, <2>1, TailContains
  <2>5. QED
    BY <1>0, <1>2, <1>4, <2>1, <2>3, <2>4
<1>11. CASE EndOfChunk(q) \/ Greet(q)
  <2>1. /\ chunk[q] = <<>> /\ chunk'[q] = chunk[q] /\ offset'[q] = offset[q]
        /\ pc[q] \in {"add", "greet"} /\ pc'[q] # "chat"
    BY <1>0, <1>11 DEF EndOfChunk, Greet, Main, TypeOK
  <2>2. QED
    BY <1>0, <1>2, <1>4, <2>1
<1>12. CASE StartChat(q)
  <2>1. /\ pc[q] = "greet" /\ pc'[q] = "chat" /\ greeted[q] = Len(members[q])
        /\ chunk'[q] = chunk[q] /\ offset'[q] = offset[q]
        /\ greeted'[q] = greeted[q] /\ members'[q] = members[q]
    BY <1>12 DEF StartChat, Main, TypeOK
  <2>2. chunk[q] = <<>>
    BY <1>0, <2>1
  <2>3. ASSUME NEW i \in 1 .. offset[q] PROVE \E j \in 1 .. greeted[q] : members[q][j] = file[i]
    <3>1. Contains(members[q], file[i])
      BY <1>0, <2>1, <2>2 DEF Contains
    <3>2. QED
      BY <2>1, <3>1 DEF Contains
  <2>4. QED
    BY <1>2, <2>1, <2>2, <2>3
<1>13. CASE ReceiveHello(q)
  BY <1>5, <1>13 DEF ReceiveHello
<1>14. QED
  BY <1>6, <1>7, <1>8, <1>9, <1>10, <1>11, <1>12, <1>13, StartupCases DEF MainStep

\* A greeting that has arrived is heard.
LEMMA HelloStep ==
    ASSUME TypeOK, CallsUnderWay, NEW p \in Proc, NEW q \in Proc, [Next]_vars,
           Contains(inbox[p], <<"hello", q>>)
    PROVE  Contains(members'[p], q) \/ Contains(inbox'[p], <<"hello", q>>)
<1> DEFINE e == <<"hello", q>>
<1>1. inbox[p] \in Seq(Datagrams)
  BY TypeOfProcess
<1>2. CASE inbox'[p] = inbox[p]
  BY <1>2
<1>3. ASSUME NEW r \in Proc, inbox'[p] = Append(inbox[p], <<"hello", r>>)
      PROVE  Contains(inbox'[p], e)
  <2> DEFINE d == <<"hello", r>>
  <2>1. d \in Datagrams
    BY DEF Datagrams
  <2> HIDE DEF d, e
  <2>2. QED
    BY <1>1, <1>3, <2>1, AppendContains DEF d, e
<1>4. ASSUME NEW r \in delayed, inbox'[p] = Append(inbox[p], <<"data", r[1]>>)
      PROVE  Contains(inbox'[p], e)
  <2> DEFINE d == <<"data", r[1]>>
  <2>1. d \in Datagrams
    BY DEF Datagrams, TypeOK
  <2> HIDE DEF d, e
  <2>2. QED
    BY <1>1, <1>4, <2>1, AppendContains DEF d, e
<1>5. ASSUME ReceiveHello(p), inbox'[p] = Tail(inbox[p])
      PROVE  Contains(members'[p], q) \/ Contains(inbox'[p], e)
  <2>1. inbox[p] # <<>>
    BY <1>5 DEF ReceiveHello
  <2>2. CASE Head(inbox[p]) = e
    <3>1. members'[p] = NewMember(p, q)
      <4>1. Head(inbox[p])[2] = q
        BY <2>2
      <4>2. members' = [members EXCEPT ![p] = NewMember(p, q)]
        BY <1>5, <4>1 DEF ReceiveHello
      <4>3. QED
        BY <4>2 DEF TypeOK
    <3>2. members[p] \in Seq(Ids) /\ q \in Ids
      BY TypeOfProcess
    <3>3. QED
      BY <3>1, <3>2, NewMemberFacts
  <2>3. CASE Head(inbox[p]) # e
    <3> HIDE DEF e
    <3>1. QED
      BY <1>1, <1>5, <2>1, <2>3, TailContains DEF e
  <2>4. QED
    BY <2>2, <2>3
<1>6. ASSUME ReceiveData(p), inbox'[p] = Tail(inbox[p]) PROVE Contains(inbox'[p], e)
  <2>1. inbox[p] # <<>> /\ Head(inbox[p])[1] = "data"
    BY <1>6 DEF ReceiveData, At, CallsUnderWay
  <2>2. Head(inbox[p]) # e
    BY <2>1
  <2> HIDE DEF e
  <2>3. QED
    BY <1>1, <1>6, <2>1, <2>2, TailContains DEF e
<1>7. QED
  BY <1>2, <1>3, <1>4, <1>5, <1>6, BoxStep

\* How far a process has come in greeting.
LEMMA GreetedCases ==
    ASSUME TypeOK, NEW q \in Proc, [Next]_vars
    PROVE  \/ greeted'[q] = greeted[q]
           \/ Greet(q) /\ greeted'[q] = greeted[q] + 1 /\ members'[q] = members[q]
<1>1. ASSUME NEW p \in Proc, p # q, Bind(p) \/ MainStep(p) \/ ReceiveHello(p)
      PROVE  greeted'[q] = greeted[q]
  BY <1>1, OthersStartup
<1>2. ASSUME Bind(q) \/ MainStep(q) \/ ReceiveHello(q), ~Greet(q)
      PROVE  greeted'[q] = greeted[q]
  BY <1>2 DEF Bind, MainStep, AppendSelf, Read, Add, EndOfChunk, StartChat, ReceiveHello
<1>3. ASSUME Greet(q) PROVE greeted'[q] = greeted[q] + 1 /\ members'[q] = members[q]
  BY <1>3 DEF Greet, TypeOK
<1>4. CASE UNCHANGED startup
  BY <1>4 DEF startup
<1>5. QED
  BY <1>1, <1>2, <1>3, <1>4, StartupCases

\* The dead stay dead.
LEMMA DiedStep ==
    ASSUME TypeOK, NEW p \in Proc, [Next]_vars, died[p] # "no"
    PROVE  died'[p] = died[p] /\ init'[p] = init[p]
<1>1. ASSUME NEW q \in Proc, NEW t \in Thread, Check(q, t) \/ Create(q, t) \/ Arm(q, t)
      PROVE  died'[p] = died[p] /\ init'[p] = init[p]
  BY <1>1 DEF Check, Create, Arm, At, Runs, TypeOK
<1>2. ASSUME NEW q \in Proc, Multicast(q) \/ ReceiveData(q)
      PROVE  died'[p] = died[p] /\ init'[p] = init[p]
  BY <1>2 DEF Multicast, ReceiveData, At, Runs, TypeOK
<1>3. CASE UNCHANGED mcast
  BY <1>3 DEF mcast
<1>4. QED
  BY <1>1, <1>2, <1>3, Cases

\* Whoever is greeted knows who greets, now or later.
LEMMA GreetingArrivesStep ==
    ASSUME TypeOK, CallsUnderWay, OwnIdRead, GreetingArrives, [Next]_vars
    PROVE  GreetingArrives'
<1> SUFFICES ASSUME NEW p \in Proc, NEW q \in Proc, NEW j \in 1 .. greeted'[q],
                    p # q, members'[q][j] = p, died'[p] = "no"
             PROVE  \/ Contains(members'[p], q)
                    \/ Contains(inbox'[p], <<"hello", q>>)
                    \/ WillRead(p, q)'
  BY DEF GreetingArrives
<1>1. died[p] = "no"
  BY DiedStep
<1>2. /\ greeted[q] \in Nat /\ greeted[q] <= Len(members[q]) /\ Len(members[q]) \in Nat
      /\ inbox[p] \in Seq(Datagrams)
  BY TypeOfProcess
<1>3. CASE j \in 1 .. greeted[q]
  <2>1. members[q][j] = p
    BY <1>2, <1>3, MembersStep
  <2>2. \/ Contains(members[p], q)
        \/ Contains(inbox[p], <<"hello", q>>)
        \/ WillRead(p, q)
    BY <1>1, <1>3, <2>1 DEF GreetingArrives
  <2>3. CASE Contains(members[p], q)
    BY <2>3, MembersStep
  <2>4. CASE Contains(inbox[p], <<"hello", q>>)
    BY <2>4, HelloStep
  <2>5. CASE WillRead(p, q)
    BY <2>5, WillReadStep
  <2>6. QED
    BY <2>2, <2>3, <2>4, <2>5
<1>4. CASE j \notin 1 .. greeted[q]
  <2>1. Greet(q) /\ greeted'[q] = greeted[q] + 1 /\ members'[q] = members[q]
    BY <1>4, GreetedCases
  <2>2. j = greeted[q] + 1
    BY <1>2, <1>4, <2>1
  <2>3. members[q][greeted[q] + 1] = p
    BY <2>1, <2>2
  <2>4. inbox' = Send(inbox, p, <<"hello", q>>)
    BY <2>1, <2>3 DEF Greet, Greeting
  <2>5. CASE Runs(p)
    <3> DEFINE e == <<"hello", q>>
    <3>1. e \in Datagrams /\ inbox \in [Proc -> Seq(Datagrams)]
      BY DEF Datagrams, TypeOK
    <3>2. inbox' = Send(inbox, p, e)
      BY <2>4
    <3> HIDE DEF e
    <3>3. inbox'[p] = Append(inbox[p], e)
      BY <2>5, <3>1, <3>2 DEF Send
    <3>4. Contains(inbox'[p], e)
      BY <1>2, <3>1, <3>3, AppendContains
    <3>5. QED
      BY <3>4 DEF e
  <2>6. CASE ~Runs(p)
    <3>1. pc[p] = "down" /\ ~Finished(p)
      BY <1>1, <2>6 DEF Runs, Finished
    <3>2. WillRead(q, q)
      BY <2>1 DEF Greet, Main, OwnIdRead
    <3>3. WillRead(p, q)
      BY <3>1, <3>2 DEF WillRead
    <3>4. QED
      BY <3>3, WillReadStep
  <2>7. QED
    BY <2>5, <2>6
<1>5. QED
  BY <1>3, <1>4
-----------------------------------------------------------------------------
(* What follows from the invariant. *)

\* Of two processes that are through with unicast_init(), the one whose id comes
\* later in the file has read the other's.
LEMMA Mutual ==
    ASSUME TypeOK, OwnIdRead, ReadIsKept, GreetingArrives
    PROVE  MutualKnowledge
<1> SUFFICES ASSUME NEW p \in Proc, NEW q \in Proc,
                    pc[p] = "chat", pc[q] = "chat", died[p] = "no"
             PROVE  Contains(members[p], q) \/ Contains(inbox[p], <<"hello", q>>)
  BY DEF MutualKnowledge
<1>1. \A r \in Proc : /\ offset[r] \in Nat /\ greeted[r] \in Nat
                      /\ members[r] \in Seq(Ids) /\ greeted[r] <= Len(members[r])
                      /\ Len(members[r]) \in Nat /\ Len(file) \in Nat
  BY TypeOfProcess
<1>2. ASSUME NEW r \in Proc, NEW x, pc[r] = "chat", WillRead(r, x)
      PROVE  \E i \in 1 .. offset[r] : file[i] = x
  BY <1>1, <1>2 DEF WillRead, Finished
<1>3. ASSUME NEW r \in Proc, pc[r] = "chat", NEW i \in 1 .. offset[r]
      PROVE  \E j \in 1 .. greeted[r] : members[r][j] = file[i]
  BY <1>3 DEF ReadIsKept
<1>4. ASSUME NEW i \in 1 .. offset[p], file[i] = q
      PROVE  Contains(members[p], q)
  <2>1. PICK j \in 1 .. greeted[p] : members[p][j] = q
    BY <1>3, <1>4
  <2>2. j \in 1 .. Len(members[p])
    BY <1>1, <2>1
  <2>3. QED
    BY <2>1, <2>2 DEF Contains
<1>5. PICK i \in 1 .. offset[p] : file[i] = p
  BY <1>2 DEF OwnIdRead
<1>6. PICK k \in 1 .. offset[q] : file[k] = q
  BY <1>2 DEF OwnIdRead
<1>7. CASE k <= i
  BY <1>1, <1>4, <1>5, <1>6, <1>7
<1>8. CASE i < k /\ p # q
  <2>1. i \in 1 .. offset[q]
    BY <1>1, <1>5, <1>6, <1>8
  <2>2. PICK j \in 1 .. greeted[q] : members[q][j] = p
    BY <1>3, <1>5, <2>1
  <2>3. \/ Contains(members[p], q)
        \/ Contains(inbox[p], <<"hello", q>>)
        \/ WillRead(p, q)
    BY <1>8, <2>2 DEF GreetingArrives
  <2>4. CASE WillRead(p, q)
    BY <1>2, <1>4, <2>4
  <2>5. QED
    BY <2>3, <2>4
<1>9. CASE p = q
  BY <1>4, <1>5, <1>9
<1>10. QED
  BY <1>1, <1>5, <1>6, <1>7, <1>8, <1>9

\* A group that is fixed when everybody is through, and heard of, is complete.
LEMMA GroupCompleteStep ==
    ASSUME TypeOK, MutualKnowledge, Initialised, GroupComplete, [Next]_vars
    PROVE  GroupComplete'
<1>1. ASSUME NEW p \in Proc, NEW t \in Thread, Create(p, t) PROVE GroupComplete'
  <2>1. /\ early' = IF GroupFixed(p) THEN early ELSE early \cup {p}
        /\ Runs(p)
    BY <1>1 DEF Create, At
  <2>2. /\ external'[p] = ToSet(members[p]) \ {p}
        /\ \A q \in Proc : q # p => external'[q] = external[q]
    BY <1>1, CreateFacts
  <2>3. ASSUME GroupFixed(p), NEW q \in Proc \ {p} PROVE q \in external'[p]
    <3>1. ~Contains(inbox[p], <<"hello", q>>)
      BY <2>3, TypeOfProcess DEF GroupFixed, Contains
    <3>2. Contains(members[p], q)
      BY <2>1, <2>3, <3>1 DEF MutualKnowledge, Runs, GroupFixed
    <3>3. q \in ToSet(members[p])
      BY <3>2, TypeOfProcess, ToSetFacts
    <3>4. QED
      BY <2>2, <3>3
  <2>4. QED
    BY <2>1, <2>2, <2>3 DEF GroupComplete
<1>2. ASSUME NEW p \in Proc, NEW t \in Thread,
             Check(p, t) \/ Arm(p, t) \/ Multicast(p) \/ ReceiveData(p)
      PROVE  external' = external /\ early' = early
  BY <1>2 DEF Check, Arm, Multicast, ReceiveData
<1>3. CASE UNCHANGED mcast
  BY <1>3 DEF mcast, GroupComplete
<1>4. CASE external' = external /\ early' = early
  BY <1>4 DEF GroupComplete
<1>5. QED
  BY <1>1, <1>2, <1>3, <1>4, Cases DEF Thread

\* Null pointers are met only by those that fixed their group too early, or
\* between the construction and the timers of the chat thread.
LEMMA DiesOnlyEarlyStep ==
    ASSUME TypeOK, CallsUnderWay, NoSelf, Initialised, GroupComplete, DiesOnlyEarly,
           [Next]_vars
    PROVE  DiesOnlyEarly'
<1> SUFFICES ASSUME NEW p \in Proc
             PROVE  /\ died'[p] = "unknown sender" => p \in early'
                    /\ died'[p] = "no timers" => init'[p]["chat"] = "arm"
  BY DEF DiesOnlyEarly
<1>1. early \subseteq early'
  <2>1. ASSUME NEW q \in Proc, NEW t \in Thread,
               Check(q, t) \/ Create(q, t) \/ Arm(q, t) \/ Multicast(q) \/ ReceiveData(q)
        PROVE  early \subseteq early'
    BY <2>1 DEF Check, Create, Arm, Multicast, ReceiveData
  <2>2. QED
    BY <2>1, Cases DEF mcast, Thread
<1>2. CASE died[p] # "no"
  <2>1. died'[p] = died[p] /\ init'[p] = init[p]
    BY <1>2, DiedStep
  <2>2. QED
    BY <1>1, <2>1 DEF DiesOnlyEarly
<1>3. CASE died[p] = "no" /\ died'[p] # "no"
  <2>1. ReceiveData(p)
    <3>1. ASSUME NEW q \in Proc, NEW t \in Thread,
                 Check(q, t) \/ Create(q, t) \/ Arm(q, t) \/ Multicast(q)
          PROVE  died' = died
      BY <3>1 DEF Check, Create, Arm, Multicast
    <3>2. ASSUME NEW q \in Proc, q # p, ReceiveData(q) PROVE died'[p] = died[p]
      BY <3>2 DEF ReceiveData, TypeOK
    <3>3. QED
      BY <1>3, <3>1, <3>2, Cases DEF mcast, Thread
  <2> DEFINE q == Head(inbox[p])[2]
  <2>2. inbox[p] # <<>> /\ Head(inbox[p])[1] = "data" /\ init[p]["receive"] = "done"
    BY <2>1 DEF ReceiveData, At, CallsUnderWay
  <2>3. q \in Proc /\ Head(inbox[p]) \in Datagrams
    BY <2>2, HeadFacts
  <2>4. external[p] # NoState
    BY <2>2 DEF Initialised, Thread
  <2>5. died'[p] = IF q \notin external[p] THEN "unknown sender"
                   ELSE IF ~timers[p] THEN "no timers" ELSE "no"
    BY <1>3, <2>1 DEF ReceiveData, TypeOK
  <2>6. q # p
    <3>1. Contains(inbox[p], Head(inbox[p]))
      BY <2>2, TypeOfProcess, TailContains
    <3>2. Head(inbox[p]) = <<"data", q>>
      BY <2>2, <2>3 DEF Datagrams
    <3> HIDE DEF q
    <3>3. QED
      BY <3>1, <3>2 DEF NoSelf
  <2> HIDE DEF q
  <2>7. CASE q \notin external[p]
    <3>1. p \in early
      BY <2>3, <2>4, <2>6, <2>7 DEF GroupComplete
    <3>2. QED
      BY <1>1, <2>5, <2>7, <3>1
  <2>8. CASE q \in external[p]
    <3>1. ~timers[p]
      BY <1>3, <2>5, <2>8
    <3>2. init[p]["chat"] = "arm"
      BY <2>2, <2>4, <3>1 DEF Initialised, Thread
    <3>3. init'[p]["chat"] = "arm"
      BY <2>1, <3>2 DEF ReceiveData, TypeOK, Thread
    <3>4. QED
      BY <2>5, <2>8, <3>1, <3>3
  <2>9. QED
    BY <2>7, <2>8
<1>4. CASE died'[p] = "no"
  BY <1>4
<1>5. QED
  BY <1>2, <1>3, <1>4

-----------------------------------------------------------------------------
(* The theorems. *)

\* The invariant holds initially.
LEMMA InvariantInit == Init => IInv
<1> SUFFICES ASSUME Init PROVE IInv
  OBVIOUS
<1>1. TypeOK
  BY TypeInit
<1>2. CallsUnderWay /\ Initialised /\ BuiltOnce
  BY DEF Init, CallsUnderWay, Initialised, BuiltOnce, Thread, Distinct
<1>3. NoRepetition
  BY DEF Init, NoRepetition, Distinct
<1>4. NoSelf
  <2>1. \A p \in Proc : p \notin NoState
    BY IdAssumption DEF NoState
  <2>2. QED
    BY <2>1 DEF Init, NoSelf, Contains
<1>5. OwnIdRead /\ ReadIsKept /\ GreetingArrives
  BY DEF Init, OwnIdRead, ReadIsKept, GreetingArrives
<1>6. GroupComplete /\ DiesOnlyEarly
  BY DEF Init, GroupComplete, DiesOnlyEarly
<1>7. QED
  BY <1>1, <1>2, <1>3, <1>4, <1>5, <1>6 DEF IInv

\* Every step keeps the invariant.
LEMMA InvariantStep == IInv /\ [Next]_vars => IInv'
<1> SUFFICES ASSUME IInv, [Next]_vars PROVE IInv'
  OBVIOUS
<1>1. TypeOK' /\ CallsUnderWay' /\ Initialised' /\ BuiltOnce'
  BY TypeStep, CallsUnderWayStep, InitialisedStep, BuiltOnceStep DEF IInv
<1>2. NoRepetition' /\ NoSelf' /\ OwnIdRead' /\ ReadIsKept' /\ GreetingArrives'
  BY NoRepetitionStep, NoSelfStep, OwnIdReadStep, ReadIsKeptStep, GreetingArrivesStep
     DEF IInv
<1>3. MutualKnowledge
  BY Mutual DEF IInv
<1>4. GroupComplete' /\ DiesOnlyEarly'
  BY <1>3, GroupCompleteStep, DiesOnlyEarlyStep DEF IInv
<1>5. QED
  BY <1>1, <1>2, <1>4 DEF IInv

\* The inductive invariant, of which the rest follows.
THEOREM Invariant == Spec => []IInv
<1>1. QED
  BY InvariantInit, InvariantStep, PTL DEF Spec

\* Every variable keeps its shape; no process reads past the end of the file.
THEOREM TypeCorrect == Spec => []TypeOK
<1>1. IInv => TypeOK
  BY DEF IInv
<1>2. QED
  BY <1>1, Invariant, PTL

\* new_member() enters nobody twice, whatever two threads find in the file and
\* in greetings (unicast.cc:28-48).
THEOREM MembersAreDistinct == Spec => []MembersDistinct
<1>1. ASSUME IInv PROVE MembersDistinct
  <2>1. \A p \in Proc : members[p] \in Seq(Ids) /\ Distinct(members[p])
    BY <1>1, TypeOfProcess DEF IInv, NoRepetition
  <2>2. QED
    BY <2>1, DistinctCount DEF MembersDistinct
<1>2. QED
  BY <1>1, Invariant, PTL

\* Two processes that are through with unicast_init() know each other, or have
\* the other's greeting before them (unicast.cc:103-186).
THEOREM KnowledgeIsMutual == Spec => []MutualKnowledge
<1>1. IInv => MutualKnowledge
  BY Mutual DEF IInv
<1>2. QED
  BY <1>1, Invariant, PTL

\* The group that globalState is built from is complete, unless somebody was
\* starting up or not heard of (mcast.cc:63, 99-113).
THEOREM GroupIsComplete == Spec => []GroupComplete
<1>1. IInv => GroupComplete
  BY DEF IInv
<1>2. QED
  BY <1>1, Invariant, PTL

\* The null pointers of receive() are met only by a process that fixed its group
\* too early, or before the chat thread has created the timers.
THEOREM DeathIsEarly == Spec => []DiesOnlyEarly
<1>1. IInv => DiesOnlyEarly
  BY DEF IInv
<1>2. QED
  BY <1>1, Invariant, PTL

\* No number is used for two multicasts, unless both threads of a process built
\* globalState (mcast.cc:99-113).
THEOREM NumbersAreFresh == Spec => []NumbersFresh
<1>1. ASSUME IInv PROVE NumbersFresh
  <2>1. \A p \in Proc \ both : casts[p] \in Seq(Nat) /\ Distinct(casts[p])
    BY <1>1, TypeOfProcess DEF IInv, BuiltOnce
  <2>2. QED
    BY <2>1, DistinctCount DEF NumbersFresh
<1>2. QED
  BY <1>1, Invariant, PTL
=============================================================================
