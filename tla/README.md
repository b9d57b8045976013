# TLA+ models of ECE428 MP1 and MP2

The repository holds two distributed programs. **MP1** (`src/MP1`) is a chat program over a
reliable, causally ordered multicast on lossy UDP. **MP2** (`src/MP2`) is a replicated state
machine store: replicas elect a leader, clients reach it through a front end. This directory
models their protocols in TLA+, checks them with TLC on small groups, and proves with TLAPS, for every value
of the constants that the stated hypotheses allow, the safety properties of all six components and the three refinements.

| module | what it is |
|---|---|
| `Rmcast` | MP1: `multicast()`, `receive()`, `heartbeat_send()` on three threads per process |
| `ReliableMulticast` | MP1, abstract: what is delivered, to whom, in which order |
| `RmcastProofs` | theorems about `Rmcast` and their proofs |
| `MCRmcast` | instances of `Rmcast` for TLC |
| `MembershipProofs`, `DelayQueueProofs`, `FailureDetectorProofs`, `ElectionProofs`, `ReplicaStoreProofs` | theorems about the module they are named after, and their proofs |
| `DetectionProofs` | theorems about `FailureDetector`: how long a failure stays unnoticed |
| `SequenceFacts` | lemmas on sequences that several proofs cite |
| `Membership` | MP1: `unicast_init()`, `new_member()`, `initIfNecessary()`: who knows whom, and when the group is fixed |
| `DelayQueue` | MP1: `usend()`, `insert_message()`, `catch_alarm()` and the one-shot timer |
| `FailureDetector` | MP1: vector timestamps, listen timers and heartbeats on a clock |
| `MCMembership`, `MCDelayQueue`, `MCFailureDetector` | their instances for TLC |
| `LeaderConsensus` | MP2, abstract: a group decides once |
| `Election` | MP2: `startLeaderElection()`, its RPC handlers, `getLeader()`, `findLeader()`; implements `LeaderConsensus` |
| `MCElection` | instances of `Election` for TLC |
| `SharedLog` | MP2, abstract: one log that is written and read in turn |
| `ReplicaStore` | MP2: `create()`, `apply()`, `prepareGetState()`, `makeCopy()`, `getState()`, `remove()` and the request queue; implements `SharedLog` |
| `MCReplicaStore` | instances of `ReplicaStore` for TLC |

Line numbers below are those of the source files at this commit; `mcast` is `src/MP1/mcast.cc`,
`rh` is `src/MP2/src/replica/replica_handler.cpp`.

## 1. Inventory

### MP1

**Reliable multicast** (`mcast.cc`, `state/`, `rmcast.h`). Per process: its sequence number, for
every other process an acknowledgement list and the number of the last message delivered
(`ExternalNode`), the list of failed processes, the message store, a vector timestamp. The chat
thread calls `multicast()` (number, build, deliver to self, store, unicast to each member). The
receive thread calls `receive()`: merge timestamp, acknowledgements and failures; then serve a
retransmission request, drop a duplicate, or store a new message, request what is missing before
it, deliver what has become deliverable (`processUndelivered`) and erase what everybody has
delivered (`cleanMessageStore`); a heartbeat only leads to requests. The heartbeat thread calls
`heartbeat_send()`. A timer signal calls `heartbeat_failure()`. *Hard*: four contexts on one
state and no lock; datagrams lost, reordered, repeated; false suspicion; a sender that dies in
the middle of its unicasts. *Correct when*: nobody is believed to have delivered what it has not;
a message survives while anyone lacks it; nothing is freed in use; every message reaches every
member, in causal order.

**Message header** (`message/`). A message with its type, sender, number, timestamp,
acknowledgement and failure lists, and its binary encoding. *Correct when*: decoding inverts
encoding.

**Vector timestamp** (`timestamp/`). `step`, and `update` with the difference that decides which timers
are reset; `compare`, which only the `operator<` of messages calls and the delivery does not use. *Hard*: two
threads step one entry. *Correct when*: every sign of life resets the timer of the right process, and
nobody has a larger entry for a process than that process itself.

**Heartbeat timers** (`heartbeat/`). One POSIX timer per peer and a thread that sends.
*Hard*: heartbeats carry the timestamp without a step, and dead processes' entries are passed on.
*Correct when*: a live process that is heard of is not declared failed; a dead one is, in bounded time.

**Delayed unicast** (`unicast.cc:188-290`). `usend()` drops one datagram in five, else inserts it
in a list ordered by delivery time; a `SIGALRM` handler sends what is due and re-arms the alarm.
*Hard*: the handler interrupts, or runs beside, an insertion; the alarm may be set to zero.
*Correct when*: every queued datagram is sent, in order of time, once.

**Membership** (`unicast.cc:28-186`). Each process appends its port to the group file, reads the
file, and sends an empty datagram to the members it found; whoever receives one adds the sender.
The group is fixed by the first multicast or data received. *Hard*: processes that start together; a
file with old ids; two threads that both find `globalState` to be NULL.
*Correct when*: any two processes end with each other in their lists, each once, and the
group that is fixed is complete.

**Chat** (`chat.cc`). Reads lines and calls `multicast()`; may exit after a number of messages.

**Variants and tests** (`nmcast.cc`, `mcast.old.cc`, `mcast_happy.cc`, `mcast_submitted.cc`,
`test.cc`). Not part of the program the Makefile builds.

### MP2

**Leader election** (`rh:27-235`). Per replica: `leader`, `electionInProgress`, and the Paxos
fields. `startLeaderElection()` counts the living, asks for promises, then for acceptances, then
informs. Any handler may start one. *Hard*: elections nest through RPC, run concurrently at one
replica and at several, and replicas exit in the middle. *Correct when*: one leader is decided;
it is alive; every call returns; a search for the leader ends.

**Request queue** (`rh:249-339, 440-524`). The leader keeps a queue of reads and writes per
machine. A write waits for the head of the queue, a read for the absence of writes; readers
report back when finished. *Correct when*: no read overlaps a write, nobody waits for ever.

**Replica store** (`rh:237-247, 341-438, 440-494, 526-552`). Machines by name, copied to
`MIN_REPLICAS` replicas by the leader, written on all, removed from all. *Correct when*: the copies
agree, and an acknowledged write survives an exit.

**Replica connections** (`replicas.cpp`). One cached Thrift client per peer, a server with a pool
of 15 threads.

**Front end** (`frontend.cpp`). Caches the leader, checks it before each operation, searches for a
new one.

**State machines, clients** (`model/`, `client/`). A string register, a balance; demonstrations.

**Vendored and generated** (`lib/`, `gen-cpp/`, `tutorial/`). Not modelled.

MP1's components share memory inside a process and exchange datagrams; MP2's call each other by
blocking RPC, except `inform()` and `exit()`, which are oneway.

## 2. Rmcast

State: `armed` (`initIfNecessary` has run), `status`, `seq`, `last` (deliveries per sender),
`ackList`, `failed`, `store`; the program counters of the threads `stamped`, `toSend`, `beat`; the
set `net` of datagrams in flight; `faults`, a fault counter for bounds.

| action | code |
|---|---|
| `MulticastBegin`, `MulticastStore`, `MulticastSend` | `multicast()`, cut where another thread can come between: after the number is taken, after the store, at each unicast |
| `HeartbeatSnapshot`, `HeartbeatSend` | `heartbeat_send()`, cut between collecting acknowledgements and reading the number |
| `Receive` | `receive()`, whole: one of five kinds of outcome |
| `Suspect` | the failure timer fires |
| `Lose`, `Crash` | a datagram is dropped, a process exits |

Abstractions, each on purpose:

- *Payload*. The text of a message is replaced by what `receive()` reads from it. Timestamps are
  left out: their only effect is to reset timers (`FailureDetector`), and timers may fire at any moment here.
- *Network*. A set: any order, any delay. A datagram to a process that is gone reaches no one. The
  delay queue is `DelayQueue`; losing is `Lose`.
- *Atomicity*. `receive()` is one step, because the conflicts that matter with the other threads are
  on the steps of those threads, which are cut. Operations of standard containers are atomic.
- *Sorting pointers* (`mcast:322`). The comparison is of addresses, so the order is any order.
  `ProcessUndelivered` is the set of all results that one pass can have.
- *Incrementing an erased iterator* (`mcast:278`). Undefined. The outcomes are: any non-empty part
  of the deletable messages is erased; or the process dies, which is `Receive` then `Crash`.
- *Membership* is fixed, as `initIfNecessary` assumes; `Membership` says when the assumption holds.

### Checks

| run | instance | shows |
|---|---|---|
| `rmcast_trio` | 3 processes, one sends two messages, another sends heartbeats, one fault of each kind | it implements `ReliableMulticast`; types; acknowledgements are true; a message is kept while a third process lacks it; requests can be served; nobody hears that it is suspected |
| `rmcast_arrival` | 2 processes, which send two messages and one, heartbeats of the first, one loss, fair | a message being sent is not freed; the assertion fails only on a torn heartbeat; nothing known is taken back; every message but the last of its sender arrives |
| `rmcast_causal` | 3 processes; violated | delivery is not causal |
| `rmcast_order` | 2 processes, no fault at all; violated | two messages that overtake each other: the second stays undelivered |

*Bounds.* Two processes are enough for the conflicts between the threads of one process; three
for acknowledgements of third parties and for retention. Two messages of one sender are
the least that make a gap. One heartbeat in flight per link is enough for it to be overtaken by, and to
overtake, messages. One fault of each kind is what each of the failures found needs at most, and the
proofs remove all these bounds for the safety properties.

*Fairness.* `multicast()` returns, the heartbeat thread is an endless loop (`heartbeat.cc:16`),
and a datagram that is not dropped is delivered within `MAXDELAY` and read. No fairness on
`MulticastBegin` and on faults. `EarlierMessagesArrive` needs only weak fairness.

### Findings

1. *Causal order* (`mcast:334`). Nothing on the way to delivery looks at the causal past.
   With three members, c delivers b's answer before a's question.
2. *One pass* (`mcast:322-340`, run `rmcast_order`). When a message and its predecessor are both
   stored, the pass may visit them in the wrong order; no later event of that sender, other than a new
   message, repeats it.

*Torn heartbeat* (`mcast:28,33,204`). A heartbeat built around a `multicast()` carries number n and
acknowledgement n-1. A receiver with a gap finds nobody who has n, and the assertion of line 204, "This should at
least contain the original sender", ends it. `AbortsOnlyOnTornHeartbeat` says that this is the only way to
fail it; that it does fail is the step `ReceiveAbort`, which the passing runs take.

Two more ways in which `Agreement` fails need a fault, and have no run of their own. *Last message*
(`mcast:189`): `i < getSequenceNumber()` leaves out the number the heartbeat announces, so a lost
newest message is not requested; the same bound is what keeps a message from being requested
while it is being sent, on which `MulticastNotFreed` rests. *Orphan* (`mcast:189`): gaps are looked for in
the messages of the datagram's sender only, so a message whose sender crashed between two
unicasts stays with those it reached.

### The abstract service

`ReliableMulticast` has two variables, the deliveries `got[p][s]` and the processes `alive`, and three
actions: a live process delivers its own new message (`Cast`); it delivers, in order, more of what others
have sent (`Deliver`); it stops. This is the Integrity of `designDocument.tex:93`, without the
Agreement of `:106`, which the code does not give (findings below). `Service` in `Rmcast` maps `got` to `last`, whose
own entry counts the deliveries to oneself, and `alive` to the processes that are up;
datagrams, acknowledgements, stores and threads are hidden. A message is thus delivered only after its
sender has stored it (`MulticastStore`, not `MulticastBegin`), and never twice.

### Proofs

`RmcastProofs` proves, for every `Proc`, every bound and every number of faults, each of the safety
and action properties that `rmcast_trio` and `rmcast_arrival` check:
`TypeCorrect`, `AcknowledgementsAreSound`, `MessagesAreRetained`, `RequestsAreServable`,
`NoUseAfterFree`, `SuspicionIsNeverHeard`, `KnowledgeGrows`, `OnlyTornHeartbeatsAbort`; and that
`Rmcast` implements `ReliableMulticast` (`RmcastImplementsService`). The only
assumptions are those on the constants.

None of the properties is inductive alone. The inductive invariant `IInv` (theorem `Invariant`)
says of every message, in flight or stored, that what it claims is true of its sender *now*
(`Sound`): its acknowledgements are at most what the sender has delivered, its number was
taken, a request asks only for messages that the one asked has delivered. The argument has two
halves. *Growth*: sequence numbers and deliveries never decrease (`StepGrows`), so a true claim stays
true however late it arrives (`SoundGrows`, `DatagramGrows`). *Use*: `receive()` takes maxima of
true claims, so `ackList` is below the truth (`AcksSound`); a message is erased only when all
acknowledge it, hence when all have it (`Retention`); a request goes to those who acknowledged,
and they still keep it because the one who asks has not delivered it (`RequestsServable`). The
conjunct `Unreached`, that a destination not yet reached knows nothing of the message, gives
`MulticastNotFreed`: the message cannot be acknowledged by all while the loop runs.
The type invariant includes that `seq[p]` is the number of own deliveries, plus one between
`MulticastBegin` and `MulticastStore`.

The refinement (`RmcastImplementsService`) uses the same invariant once: a delivery in `receive()` is a
`Deliver` because `LastSound`, a conjunct of `IInv`, bounds what is delivered of a sender by what the sender has
delivered to itself, and by `KnowledgeGrows`' lemmas deliveries only grow. The steps of `Rmcast` that
neither deliver nor end a process are stutters (`ServiceStep`).

Only model-checked: `EarlierMessagesArrive` (liveness).

## 3. Membership

A process runs two threads: `pc` is where the main thread is (append, read, add, greet, then chat), `init[p][t]` where
either thread is in `initIfNecessary()`. `file` is the group file, `inbox` the socket buffer, `delayed` the data that waits
in its sender's queue. A lock is a guard: the greeting loop holds `member_lock`, so `ReceiveHello` waits.

| action | code |
|---|---|
| `Bind`, `AppendSelf`, `Read`, `Add`, `EndOfChunk`, `Greet`, `StartChat` | `unicast_init()` (`unicast.cc:84-186`), one system call or member at a time |
| `ReceiveHello`, `ReceiveData` | the receive thread; the latter as far as the sender's `ExternalNode` (`mcast:344-381`) |
| `Check`, `Create`, `Arm` | `initIfNecessary()`: the test, the construction, the timers, by either thread |
| `Multicast`, `Deliver` | the rest of `multicast()`; the datagram arrives, later |

The name of a process is its port, so the group file may name ports of earlier runs which nobody has now, or which are
given out again. Greetings go round the delay queue and, on the loopback interface, are not lost.
`ReceiveData` ends the process where the code follows a null pointer: the sender has no `ExternalNode`
(`mcast:381`) or `heartbeat` is not yet set (`mcast:375`).

| run | instance | shows |
|---|---|---|
| `group_start` | 2 processes, the file holds a dead id and the id of one of them, a buffer of two ids, two multicasts of one process and one of the other, fair | types; nobody is a member twice; of any two processes each knows the other or will read its greeting; the group is complete if it is fixed after everybody is through; a process dies only of a group fixed too early or of timers that are being created; numbers are not used twice unless both threads build the state |

*Bounds.* Mutual knowledge is about pairs. The file has three ids or four for a buffer of two, so that it
is read in more than one piece; the write of the other process falls between the pieces. Two multicasts are the
least that can reuse a number. *Fairness.* Both threads run; nobody has to start, to speak or to send.

*Seen on the way.* The exceptions are real: `early`, `both` and the moment between lines 101 and
102 of `mcast.cc` are each reached, and without the exception the property is violated. A process whose first data arrives
before a third has greeted it drops dead when the third one speaks.

### Proofs

`MembershipProofs` proves every safety property of `group_start` for any group, any file that is there at the start, any
size of the buffer and any bounds: `TypeCorrect`, `MembersAreDistinct`, `KnowledgeIsMutual`, `GroupIsComplete`, `DeathIsEarly`,
`NumbersAreFresh`. Besides the shape of the constants it is assumed that the code's "no id" is not an id
(`IdAssumption`) and that the file holds ids (`OldAssumption`).

The inductive invariant `IInv` follows a process through `unicast_init()`. Its core is about the file, which only grows: a
process that has appended itself is in the file, behind everybody who was there before; what a process has read of the file
and not yet added is in its buffer, what it has added is in its list, and what it has greeted is a first part of that list. Of two processes
that are through, the one that appended first is read by the other, which therefore
greets it, and a greeting stays in the buffer of the socket until it is served: `MutualKnowledge`. `MembersDistinct` needs that both threads
add under the test of `new_member()`. `NumbersFresh` and `DiesOnlyEarly` need only what the two
threads may hold of a half-built state.

Only model-checked: `EventuallyKnown` (liveness).

## 4. DelayQueue

The list cell by cell. `thr[t]` is a `usend()` with its pointer `p`. The Makefile builds with `-g` and no optimisation, so every use
of `*p` is a load of its own, and so is a step: a turn of the loop of `insert_message()` is `Walk` (the null test), `Load` and
`Compare` (the node, then its time) and `Step` (`p = &(*p)->next`); `Link` and `Store` are the two assignments behind it, `Test`
and `Arm` the setting of the alarm. The handler runs beside them: `Fire`, then per datagram `HandlerSend`, `HandlerPop` (the load of
`head->next`), `HandlerUnlink` (the store to `head`) and `HandlerFree`, then `HandlerEnd` and `HandlerArm`. A clock in
fractions of a microsecond (`Frac`) makes the truncations of `setalarm()` visible.

What goes wrong between these steps is kept apart, since each is real and reached:

- `Misuse` (`corrupt`): a thread uses a node that was freed, or the null pointer that `*p` has become since it was tested. What
  follows is undefined, and nothing is said of it.
- `raced`: a store into a cell that somebody else relies on (`Contended`), another thread that inserts there or the handler that is
  taking the node of the cell off; one of the two is lost. Nothing is said of what follows.
- `skipped`: the thread has compared a node, the handler takes it off, and line 202 steps over the next one, which was not compared.
  Of the queue A, B and a new m between them in time, m comes to stand behind the later B. The list stays sound, its order does not.
- `stalled`: the alarm was set to zero, see below.

`Whole` excludes the first two.

| run | instance | shows |
|---|---|---|
| `queue_alarm` | 2 threads, 3 datagrams, delays 3 and 4, fair | types, and no negative wait; while the list is whole nothing settled is lost or sent twice, nothing reachable is freed, and the queue is sorted but for the `skipped`; no wakeup is lost but by an alarm of zero; what is queued is sent, unless the list breaks or the alarm was zero |

*Bounds.* Three datagrams: one in the list, one being inserted before, at or behind it, one due. Two delays let a later call
be due earlier. `Latency` bounds how late a signal is. `Tick` keeps a `usend()` shorter than its own delay, which is at
least half a second. *Fairness.* Threads, handler and clock run. Nobody has to call `usend()`.

*The alarm of zero* (`unicast.cc:257`). The cast binds to `head->delivery_time`, and the
difference is cast again by the call; on x86-64 both conversions of a time of day keep the low 32 bits, so the result is the
difference, rounded down. Within the last microsecond that is zero, and `setitimer()` with zero disarms: `stalled`. If
no datagram comes that is due earlier than all that are queued, nothing more is sent. The runs reach
it; the properties except it. A wait of one more microsecond would do.

*What the properties do not catch.* `corrupt`, `raced`, `skipped` and `stalled` are defects of the code that the run reaches and the
properties except: the three threads that send share the list with the handler and no lock. The properties say that nothing
else goes wrong, and that these are the only ways.

### Proofs

`DelayQueueProofs` proves every safety property of `queue_alarm` for any number of threads and datagrams, any delays of a
microsecond or more and any fraction of the clock: `TypeCorrect`, `AlarmIsKept`, `NothingIsLost`, `QueueIsSorted`.

`Queue`, the nodes that are reached from `head`, is the least set that holds `head` and what follows each of its nodes. That
definition, rather than a recursive one, is what can be reasoned about: what one assignment to `head` or to one `next` does to
the least closed set is said by four lemmas (`ReachedFirst`, `ReachedBehind`, `ReachedSame`, `ReachedRest`).
The inductive invariant is in two layers. `TInv` (theorem `Types`) holds in every state: the types, each node belongs to at most one
`usend()`, nothing is due whose `usend()` is still running, and the handler has read a clock of whole microseconds, so that
the wait it computes is not negative. `ListInv` (theorem `ListInvariant`) speaks of the states in which the list is whole: the
queue is what was stored and not taken off; each of its nodes has one predecessor, which is not later unless the node is `skipped`; what was sent is
what was taken off, and the node the handler is at; and the place where a thread stands fits what it inserts, in the same sense. The argument that needs the
clock is the last one. When the handler takes the first node out, a thread past its loop may stand at `head` with
`newmsg->next` set to that node. It cannot: that node is due and the new one, which comes before it, is not. `WakeupKept` is
inductive with `TInv`: a thread that stores at `head` is the one that finds its datagram first, and `Arm` or `HandlerArm` sets the alarm or is `stalled`.

Two assumptions carry these proofs and are visible in the model: a `usend()` ends before its datagram is due (`Tick`), and a node is allocated once.
Only model-checked: `EventuallySent` (liveness).

## 5. FailureDetector

Time is discrete, and a step of it (`Tick`) is possible only when nothing is overdue (`Urgent`). Per process: its
timestamp, the rest of each listen timer and of the heartbeat thread's sleep, `failedNodes`. `MulticastRead` and
`MulticastWrite` are the two halves of `step()` in the chat thread, between which the receive thread may step the same
entry; that `torn` step is lost. `Receive` is `step()`, `update()`, the resets and the merge of failures (`mcast:344-382`).
`HeartbeatSend` carries the timestamp as it is. `Expire` is the signal.

Multicast and heartbeat are sent to all destinations in one step, and the rest of what they carry is `Rmcast`.

| run | instance | shows |
|---|---|---|
| `detector` | 3 processes, timeout three times the interval as in `mcast:106`, delays up to an interval, two multicasts of one process, one crash, one lost datagram | types; a process that dies is suspected within the timeout after the last news of it can arrive; nobody who is up is suspected unless a datagram is lost or slow or a step overwritten; nobody has a larger entry for a process than itself |

*Bounds.* Three processes are the least where one passes on the timestamp of the dead. The first multicast starts everything;
the second falls on the instant of the first heartbeats, where the receive thread can step the entry twice, and a heartbeat
carry it away, between the two halves of a step. Processes crash, and datagrams are delayed, up to `LastFault`, which is before the first
heartbeats; a first multicast may be on its way until they are sent. After `LastFault` a datagram arrives in the instant in which it is sent. `LossAt` loses a first
multicast, so that a process is armed late, or a heartbeat of the second round, which carries the last news of the dead. `Horizon` is
later than the last crash plus `Relay` plus `Timeout`, so that every behaviour passes the deadline of
`DetectedInTime`; a behaviour without a crash ends at `Calm`, after every timer that was not reset would have expired. The
exceptions are reached: without `lost`, `Accurate` is violated, and without `torn`, `OwnEntryLeads`. `Relay` is an upper bound; what it adds for
a loss is not attained here, since the other path stays open.

*Slow datagrams.* A delay is `Quick` if twice an interval and a delay is less than the timeout: news of a process that only listens is
a datagram received, then a heartbeat. With an interval of 3 s and a timeout of 9 s (`mcast:106`) this is a delay below 1.5 s; the
code's delays are 0.5 to 10 s (`mp1.h:45-46`). So most datagrams of the program are slow, live processes are suspected without any loss, and
`designDocument.tex:115` makes no promise. `Accurate` says what is left: nobody who is up is suspected before a datagram has been slow (the
history variable `slow`), lost, or a step overwritten. The run, in seconds, has delays up to 3, so that `slow` is reached; that a
suspicion follows takes more and later ones (with `MaxDelay = 5` and `LastFault = 10`, and neither crash nor loss, TLC finds one). `Rmcast` lets a
timer fire at any time for this reason.
There is no liveness property: `DetectedInTime` is the stronger, bounded form.

`OwnEntryLeads` fails for a process with a `torn` step, hence its exception: another process then holds a larger entry, sends
it back, and `update()` reports that our own entry has grown; `reset()` finds no timer under the own id
(`heartbeat.cc:88`) and exits.

### Proofs

`FailureDetectorProofs` proves for any group, any periods and any faults: `TypeCorrect`, `OwnEntriesLead`, and, from the latter,
`NoOwnNews`: `receive()` never finds news of the process itself, unless it has torn a step. `IInv` (theorem `Invariant`) is `OwnEntryLeads`
with the types: a timestamp on the way was its sender's, entries only grow, and a step that would lower one tears.

`NobodyUpIsSuspected` is `Accurate`, for any `MaxDelay`. It is assumed that a heartbeat without delay comes in time
(`RatioAssumption == 2 * Interval < Timeout`, as in `mcast:106`). `Quick` is exact: with equality TLC finds a suspicion, of two processes
whose datagrams may be late at any time. The inductive invariant `TrustInv` (theorem `TrustInvariant`) is a chain of deadlines. A process that is up, and armed, sends its next heartbeat within `Interval`; a datagram arrives within
a `Quick` delay (`NetQuick`), whereupon the receiver's own entry is one that its next heartbeat, within another `Interval`, makes news to everybody
within another `Quick` delay. So of each listen timer something is left until the next link of such a chain, of which
one is always under way. It rests on `OwnEntryLeads`: the step of the receiver is news only because nobody has heard of it before.

`DetectionProofs` proves `EveryDeathIsDetected` (`DetectedInTime`) without a hypothesis on the periods, for any group, any
number of crashes and losses and any delay that the clock allows; the group must only be finite. The property is about time, and its
inductive invariant `DetectInv` (theorem `DetectInvariant`) is a bound on time for all news of a dead process q that is still passed on.
For each value that the entry of q can have, `Knows` is the set of those who need not be told it any more: the dead, and those who
have it. A process whose entry is smaller is told at most `Allowance(k, l)` after the death, if `k` know it and `l` datagrams
were lost: each hop adds one to `k` and costs a sleep and a datagram, each loss adds one to `l` and costs a sleep. Whoever is told is not among the
k, so k stays below the size of the group, and no listen timer is reset later than `Relay`. Losses are the difficulty: an invariant that
says "the news on the way is early enough" is broken when that datagram is lost and a later one of the same sender remains. `NewsComes` and
`NewsLeaves` therefore say it for every finite set `X` of the datagrams on the way, as if `X` were lost too; then a loss changes nothing.

## 6. Election

Replicas are `0 .. N - 1` and call each other. A record `thr[t]` stands for a call under way:
the replica it runs at, where its loop is, its counters, its caller, and the replica it waits for.
A call that only answers is part of the caller's step. A ping (`getBwUtilization`) at a replica
that knows no leader starts an election there, in a thread of its own, and the caller waits; so
elections nest. `Calls` lets a thread call only while the connection from its replica to the callee
is free: `Replicas::operator[]` gives all threads of a replica the same client object per peer, whose
server thread serves one call at a time. `informs` holds the oneway calls in flight.

`prepare()` and `accept()` test `highestProposalNumber` and then assign, without a lock, and calls of several proposers are served by several
threads of the pool (`replicas.cpp:123`). They are therefore records of their own in `served`, and a `Serve` is one step of one of them: the test,
each assignment, the reading of what was accepted. A proposer waits for the answer; one that has exited leaves the call behind, which is
served to its end.

| action | code |
|---|---|
| `Start`, `Ping`, `Propose` | flag, count of the living, proposal number (`rh:27-56`) |
| `Prepare`, `Prepared`, `Accept`, `Accepted` | the two rounds at the proposer (`rh:58-111`); the call is sent by `Send` |
| `Serve`: `Consider`, `Promise`, `Answer`, `AcceptNumber`, `AcceptValue` | `prepare()` and `accept()` at the callee, statement by statement (`rh:130-155`) |
| `Inform`, `Informed`, `ReceiveInform` | the result is sent and served (`rh:113-127, 157-169`) |
| `Assign`, `Reply` | `leader = startLeaderElection()`, return to the caller |
| `Search`, `Ask`, `Check` | `findLeader()` at a front end, `getLeader()` at a replica |
| `Crash` | a replica exits: its calls end, who waits for it gets an exception, calls it made go on |

The loops keep their odd bounds: `i` runs up to the number of *living* replicas, and stops at the
own number (`LoopEnds`). `highestProposalNumber` starts with any value of `Garbage`, since no
constructor sets it. `elected` is a history variable: the values for which line 111 was reached.

*Abstractions.* What stays one step: `proposalNumber += numReplicas`; the reading of `leader` and `electionInProgress` in one test
(`MustElect`; the flag is set later, by `Start`); and the setting of `electionInProgress` with the arrival of `prepare()` or `accept()`, which touches nothing
else. All replicas are up before the first call and none comes back. Two threads that
use one client object at the same time take turns; the replies they could get crossed are left out.
Handlers other than `getLeader` and the pings start elections in the same way and are not
actions here.

| run | instance | shows |
|---|---|---|
| `election_four` | 4 replicas, one front end that searches twice, replica 3 (the first to be elected) may exit at any moment, fair | types; the election implements `LeaderConsensus`; every call returns; a search ends unless a replica exits |
| `election_pair` | 3 replicas (the number in `src/MP2/config`), two front ends at once | one leader; only elected leaders are named |
| `election_promises` | the same, fair; violated | two `prepare()` overlap at one replica: a promise falls |
| `election_stuck` | 3 replicas, 2 exits; violated | no leader is ever found again |

*Bounds.* With 3 replicas only replica 2, with 4 only 3 (or 2, once 3 is dead) can collect a
majority, because one asks smaller numbers only; 5 is the least number with two candidates, which is
where agreement breaks. So `election_four` has four replicas, the least with an election after the exit of the first leader, and
`election_pair` three, where two front ends start elections at replicas 1 and 2 that ask replica 0 at the same time. `MaxThreads` is the
length of the chain of nested calls, which visits each replica once. `MaxProposal` lets each candidate win once with two
numbers per election, and once more after a refusal; at the bound numbers stop growing,
which only makes replicas refuse. `election_stuck` does not depend on it: no quorum answers.

*Fairness.* Threads are scheduled, calls delivered, and `findLeader()` repeats until it has found
somebody. Nobody has to search or to exit.

*What the properties do not catch.* `LeadersAreElected` and `DecidesOnce` let a replica forget its leader, by the -1 of `rh:189`, or never hear
of it; they do not say that the leader lives. `CallsReturn` and `SearchEndsIfAllLive` are checked for one front end, the latter as long as nobody
exits. A search may end with -1, when the replica asked has none and an election in progress.

### Findings

3. *No majority* (`rh:59-60`, run `election_stuck`). `break` where `continue` is meant. After one exit
   out of three the store is unusable, contrary to `client.cpp:35`.
4. *The word is broken* (`rh:134-135`, run `election_promises`). Replicas 1 and 2 prepare at replica 0 together, both pass the test,
   and the smaller number is assigned last: `highestProposalNumber` falls below a number that was promised, against the "unbreakable word"
   of `rh:81`. In the same way number and value of two accepted proposals can be mixed (`rh:150-151`). With the three replicas that are
   configured neither elects two leaders (`election_pair`, `DecidedOnce`), for a reason that has nothing to do with promises, see Proofs.

*Two leaders* (`rh:74`). The accepted value is adopted only if larger than one's own number, whichever proposal it
belongs to. Of five replicas (`N = 5`, two front ends), 3 is elected and then 4, and `AtMostOneElected` is violated, while
`design.pdf`, section 2, speaks of "a very basic version of Paxos". With the three replicas that are configured
only one can win, and `election_pair` shows `AtMostOneElected`.

Further consequences of the model, without a run: with two front ends the calls of two nested
elections can come to wait for each other on the shared connections, which is why `election_four` has
one; the value accepted for a leader that has exited is adopted again (`election_four` passes through it);
`highestProposalNumber` is not initialised (`replica_handler.h:75`), and with a large value no
proposal is ever promised, which is why the runs have 0 as the only `Garbage`; and the step of proposal numbers
is the number of replicas that answered, so that they need not be distinct (`rh:55-56`).

### Proofs

For any number of replicas, front ends and calls `ElectionProofs` proves `TypeCorrect` and `NamedLeadersAreElected` (`LeadersAreElected`).
The inductive invariant `IInv` (theorem `Invariant`) says of every call under way who called it, which
connection it holds, where in its loops it is and which replica it waits for, and that what is passed on as a leader was
elected. `ClientAssumption` keeps names of threads and of front ends apart. The proof found a defect of the model:
two arms of a CASE in `Crash` overlapped, for a caller that dies with the replica it waits for.

With at most three replicas, as `src/MP2/config` has it (`UpToThree == N <= 3`), it proves the rest of the
safety in `election_four` and `election_pair`: `DecidedOnce`, and `DecisionIsTakenOnce`, that the election
implements `LeaderConsensus`. The argument of `IInvThree` (theorem `InvariantForThree`) is not the one of Paxos. A candidate asks smaller
numbers only. Replica 0 asks nobody; the only vote that replica 1 can get is that of replica 0, which it has counted among the living
together with itself, and one of two is no majority. So only replica 2 is ever elected.
None of this relies on a promise being kept. The hypothesis cannot be dropped: with five replicas `AtMostOneElected` is false, see
above. With four it holds in the instance of `election_four`, where 3 or, after it, 2 can be elected; this is not proved.

Only model-checked: `SearchEndsIfAllLive` and `CallsReturn` (liveness).

## 7. ReplicaStore

One machine at a leader that everybody knows. Its state is the sequence of operations applied, so
that order and loss show; the number of other machines, by which `create()` and `prepareGetState()`
balance the load, is arbitrary, so the replica they pick is any that qualifies. A front end makes one
call at a time, and the record `cl[c]` follows that call through the handlers: `pc`, the loop counters,
the replica picked. A step is one RPC, or what a handler does between RPCs and waits. `queue` is
`requestQueue[name]` of the leader; the queues of the others are always empty when a write arrives, since
writes come from the leader only, over one connection.

| action | code |
|---|---|
| `Create`, `ScanReplica`, `Place` | `create()` at the leader (`rh:357-438`), with `create()` at the replica picked |
| `Apply`, `Await`, `Forward`, `Applied` | `apply()` (`rh:440-494`): queue, wait for the head, forward, apply, erase |
| `Read`, `Drain`, `Survey`, `Surveyed`, `Copy`, `Install`, `Prepared` | `prepareGetState()` with `makeCopy()` (`rh:237-339`) |
| `Fetch`, `Notify` | `getState()` at the replica named, `notifyFinishedReading()` (`rh:496-524`) |
| `RemoveMachine`, `RemoveElsewhere` | `remove()` (`rh:526-552`) |
| `Exit`, `Leave` | a replica exits; a front end ends between the two calls of a read |

`Ends` ends a process and the calls that run in it. `Aborts` is its use for undefined behaviour, and leaves
the `status` "aborted": element 0 of an empty vector and `machines[name]` of a machine that is gone
are null pointers, so the process ends. `mmi` is read uninitialised at `rh:332` when the loop above it asked a dead replica or ran zero times:
`Copy` then picks any replica that lacks a copy, or the call throws, or the leader ends.

| run | instance | shows |
|---|---|---|
| `store_calls` | 3 replicas (`MIN_REPLICAS` and `config`), leader 2 and replica 0 may exit, two front ends that create, write, read and remove | types; the queue keeps the entry of every call under way; the copies differ by at most the write under way; an acknowledged write is in every copy; no handler aborts; the store implements `SharedLog`; every call returns unless an entry was left behind; all of it until the machine is `spoilt` |

*Bounds.* One call of each kind from each of two front ends is what every pair of handlers needs
to meet, and two replicas that exit are as many as leave a copy. Of two operations one front end writes the first, the other
either. Both use the machine after some `create()` has returned, as `client.cpp` does.

*What the properties except.* Everything is stated until the machine is `spoilt`, a history variable that is set when a `remove()` begins,
which erases the queue under the calls that stand in it, and when two front ends have one and the same write waiting. The code knows
its queue entries by their value, so that both writers are at the head at once, forward side by side, and erase an entry each, perhaps a
third party's; without the exception TLC violates `CopiesInStep` and `EntriesKept`. An entry of a reader that ends, or whose replica exits, is
never erased and blocks all writes: `RequestsReturn` holds until the history variable `lost`
says so. *Fairness.* Handlers run and RPCs are delivered. `Drain` polls, and could be starved by an
endless series of writes; the bound on calls excludes it.

*Reads overlap writes* (`rh:267-337`). The design (`design.pdf`, section 4) queues a read and then waits until the writes
before it have finished; the code waits, asks every replica for its load, and then queues. A write queued in
between runs beside the read. What this cannot do is lose an acknowledged write: the read is of a copy,
and `AckedSurvive` speaks of every copy. Nor can it return a state that the machine did not have during the read:
`ImplementsSharedLog`.

### The abstract log

`SharedLog` is a machine without copies: `log` holds the operations applied, `done` says how many of them were acknowledged,
`call[c]` what `c` has asked or been answered. One write is performed at a time, the next when it has returned
(`Perform`, `Acknowledge`); a read that was asked when the log had `since` elements is answered with a prefix of it of at least
that length (`ReadLog`). As the log grows by one element at a time, such a prefix was the whole log at some moment of
the read, and a read that begins after another was answered cannot return less: calls are linearizable. A call
that fails (`End`) leaves open whether its operation is in the log.

`SharedMachine` in `ReplicaStore` maps `log` to `Log`: the operations acknowledged, and one more as soon as it has come to any copy, even
to that of a replica that has exited since. `done` is the length of `acked`. `Requests` follows from where each call stands. The
length of the log when a read begins is not in the program, and is kept in the history field `since`, which no guard reads.
A write is therefore performed at its first `Forward` to a copy, or, with all other replicas gone, when it is `Applied`. Copies, queue,
surveys and the exits of replicas are hidden; nothing is promised of a machine that is `spoilt`.

*Four replicas.* The repository configures as many replicas as `MIN_REPLICAS`, so nobody lacks a copy before
a `remove()`. With `N = 4` and `MinReplicas = 3` TLC finds, within seconds: at the first read `mmi` is never set
(`rh:322`), so the leader may end (`HandlersSurvive`) or copy anywhere; a
read that meets a write installs a copy of the old state, which misses an acknowledged operation
(`AckedSurvive`, `CopiesInStep`; `rh:332`); and a second `create()` does the same with the initial state before it
reports that the machine exists (`AckedSurvive`; `rh:399`), so that a read that finds this copy returns a state from before it
began (`ImplementsSharedLog`).

Observed on the way: `create()` throws after placing the copies when
fewer than three replicas live (`rh:404`); `makeCopy()` can bring back a machine that is being removed.

### Proofs

`ReplicaStoreProofs` proves `TypeCorrect` for any number of replicas and of copies, from an inductive invariant of the calls
under way, `TInv` (theorem `Invariant`). `QueueKeepsEntries` (`EntriesKept`) needs no more
than that either: the inductive invariant has `WritesDiffer`, that no two calls under way write the same operation until the machine is `spoilt`.
What front ends may write is not restricted; that two write the same, one after the other, is allowed and harmless.

`CopiesKeepStep`, `AcknowledgedSurvives`, `HandlersReturn` and `StoreImplementsSharedLog` have one hypothesis, `EverywhereCopied == N <= MinReplicas`: as many
replicas as copies, as `src/MP2/config` has it. With one replica more TLC violates all four, as said above.

The inductive invariant of the copies (`TInv /\ EntriesKept /\ WritesDiffer /\ KeptInv`, theorem `InvariantOfCopies`) turns on who is at the head of the queue.
Every copy that is up has applied the same operations, except for at most one more, that of the writer at the head, and only at the
replicas its loop has passed; if the leader has died, that one operation stays so for ever, because nobody
forwards after it. An operation is acknowledged when the loop is over, so it is in all of the copies. A `create()` places the initial state
everywhere before the first one returns, and nobody writes earlier.

For the refinement `LogInv` is added (theorem `InvariantOfLog`), which speaks of the copies of dead replicas too: every copy is the log as it
was at some time, and the log exceeds what is acknowledged only by the operation of the writer under way, while the leader lives (`Logged`). The heart
is `UpToDate`: when a read has seen the queue free of writes, no write is under way (by `EntriesKept` it would be queued), so every copy that
is up *is* the log; from then on copies only grow, and `since` is a lower bound of each of them, wherever the read is sent and
whatever is written beside it (`ReadLogged`, `FetchMaps`). This is why the overlap above does no harm, and why a leader that exits
over a half-forwarded write does none either: a read already sent off may miss that write, but no read can begin after it. Then
`StepMaps` maps each action to a step of the log or to a stutter.

Only model-checked: `RequestsReturn` (liveness).

## 8. Plan

Done: `Rmcast` with its proofs, `ReliableMulticast` and the proof that `Rmcast` implements it;
`Membership`, `DelayQueue`, `FailureDetector`, `LeaderConsensus`, `Election` and `ReplicaStore`, each with proofs of
the safety properties that its runs check; `SharedLog` and the proof that `ReplicaStore` implements it. What is left:

1. `Election` with four replicas.

Out of reach of the provers, and left to TLC: liveness under fairness (`EarlierMessagesArrive`, `EventuallyKnown`,
`EventuallySent`, `SearchEndsIfAllLive`, `CallsReturn`, `RequestsReturn`).

## 9. Not modelled

The encoding of messages (data, no control), terminal and option handling, the Thrift library and the
generated stubs beyond "a call answers, fails, or waits", the demonstration clients, the test
programs, and the variants of `mcast.cc` that are not built. Data races on standard containers
are undefined behaviour without a useful set of outcomes and are excluded, as said above.

Most of the source files by size are not part of the programs: the vendored test framework
(`src/MP2/lib/gtest-1.6.0`), Thrift's output (`src/MP2/gen-cpp`) and the tutorial. The parts of `mcast.cc`, `unicast.cc`,
`state/`, `timestamp/`, `heartbeat/`, `replica_handler.cpp` and `frontend.cpp` that keep state are all in a module.

Left out on purpose: the lock of `malloc()` under the handler's `free()`; signals that cut short `nanosleep()` or
`recvfrom()` (the latter is retried, the former only sends a heartbeat early); the buffer `encodeBuffer`
that three threads share, so that the bytes of two datagrams may mix; `initIfNecessary()` reading `mcast_members`
while `new_member()` reallocates it; heartbeats in `Membership`; replicas that are started again, which the cached
connections of the others never reach (`replicas.cpp:153`); the limit of 15 server threads.

## 10. Running

    tlc -config MCRmcast_trio.cfg MCRmcast.tla
    tlc -config MCMembership_group.cfg MCMembership.tla
    tlc -config MCDelayQueue_alarm.cfg MCDelayQueue.tla
    tlc -config MCFailureDetector_detect.cfg MCFailureDetector.tla
    tlc -config MCElection_four.cfg MCElection.tla
    tlc -config MCReplicaStore_calls.cfg MCReplicaStore.tla
    tlapm RmcastProofs.tla

and `tlapm` in the same way for `SequenceFacts`, `MembershipProofs`, `DelayQueueProofs`, `FailureDetectorProofs`, `DetectionProofs`,
`ElectionProofs` and `ReplicaStoreProofs`. The last two take four to six minutes each, the others about one.

Deadlock checking is off where a system may stop: when every bounded multicast, fault and
heartbeat, or every search, is done.
