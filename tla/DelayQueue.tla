----------------------------- MODULE DelayQueue -----------------------------
(***************************************************************************)
(* The delayed unicast of MP1 (unicast.cc:188-290).  usend() puts a        *)
(* datagram in a linked list that is sorted by delivery time; the handler  *)
(* of SIGALRM, catch_alarm(), sends what is due from the front and sets    *)
(* the alarm for the next one.                                             *)
(*                                                                         *)
(* The chat, the receive and the heartbeat thread call usend(), and the    *)
(* handler runs in whichever thread the kernel picks; the list has no      *)
(* lock.  The program is built without optimisation, so each use of *p and *)
(* of head is a load of its own; a step of a thread has one of them, and a *)
(* turn of the loop of insert_message() has four.  The handler is a thread *)
(* of its own here, as it is when the chat thread takes the signal while   *)
(* it waits for input; nobody changes head from its test to the pop, so    *)
(* that its loads of head in between are one.  What a thread does after it *)
(* has used a node that was freed, or a null pointer, is undefined, and    *)
(* the model says nothing of what follows.                                 *)
(*                                                                         *)
(* usend() drops one datagram in five before it touches any state; such a  *)
(* call is no step.                                                        *)
(***************************************************************************)
EXTENDS Naturals, FiniteSets

CONSTANTS
    Thread,       \* the threads that call usend()
    Calls,        \* bound: the number of calls of usend()
    Frac,         \* units of the clock in a microsecond
    Delay,        \* the delays rand() may give, in units
    MaxCall,      \* bound: the time of the last usend()
    Latency       \* bound: how late a signal is, and how long its handler runs

ASSUME CallsAssumption == Calls \in Nat
ASSUME FracAssumption == Frac \in Nat \ {0}
ASSUME DelayAssumption == Delay \subseteq {d \in Nat : d >= Frac}
ASSUME BoundAssumption == MaxCall \in Nat /\ Latency \in Nat

VARIABLES
    now,          \* the time
    used,         \* the datagrams handed to usend()
    head,         \* head
    next,         \* next[m]: m->next
    at,           \* at[m]: m->delivery_time
    freed,        \* the nodes that were given back to the allocator
    thr,          \* thr[t]: the usend() of thread t
    handler,      \* catch_alarm()
    alarm,        \* when ITIMER_REAL expires, or Off
    sent,         \* sent[m]: how often the datagram m was sent
    corrupt,      \* a freed node or a null pointer was used
    skipped,      \* history: the datagrams that were taken past a later node
    stalled,      \* history: the alarm was set to zero, which disarms it
    raced         \* history: an insertion met another one, or the handler, at a cell

list == <<head, next>>
history == <<skipped, stalled, raced>>
vars == <<now, used, list, at, freed, thr, handler, alarm, sent, corrupt,
          history>>

Off == 0             \* no alarm; one never expires at time 0
Head == 0            \* the cell head, for a pointer to a cell

Msg == 1 .. Calls   \* the datagrams, and their nodes, in the order of allocation
Null == 0

Idle == [pc |-> "idle", msg |-> Null, p |-> Head, n |-> Null, delay |-> 0]
Asleep == [pc |-> "idle", now |-> 0, temp |-> Null, n |-> Null, wait |-> 0]

\* gettimeofday() and useconds_t know whole microseconds.
Floor(x) == x - (x % Frac)

\* Nothing is said of what follows once the list is broken.
Whole == ~corrupt /\ ~raced

At(t, pc) == thr[t].pc = pc
Busy(t) == ~At(t, "idle")

-----------------------------------------------------------------------------
(* usend() and insert_message() *)

Usend(t) ==
    LET m == Cardinality(used) + 1 IN
    /\ Whole /\ ~Busy(t) /\ m \in Msg /\ now <= MaxCall
    /\ used' = used \cup {m}
    /\ \E d \in Delay :
           /\ at' = [at EXCEPT ![m] = Floor(now) + d]
           /\ thr' = [thr EXCEPT ![t] = [Idle EXCEPT !.pc = "walk", !.msg = m,
                                                    !.delay = d]]
    /\ UNCHANGED <<now, list, freed, handler, alarm, sent, corrupt, history>>

\* *p
Cell(p) == IF p = Head THEN head ELSE next[p]

\* Mutant: the later ones first.
BeforeReversed(n, m) == at[n] > at[m]

Before(n, m) == at[n] < at[m]

\* The thread uses a node that the handler has freed, or the null pointer: *p was
\* a node when it was tested, and is none any more.  The address of a field of
\* nothing is not used before the next turn of the loop; it is of no use.
Undefined(t) ==
    LET f == thr[t]
    IN  \/ f.pc \in {"walk", "load", "step", "link", "store"} /\ f.p \in freed
        \/ f.pc = "compare" /\ f.n \in freed \cup {Null}
        \/ f.pc = "step" /\ Cell(f.p) = Null

Misuse(t) ==
    /\ Whole /\ Undefined(t)
    /\ corrupt' = TRUE
    /\ UNCHANGED <<now, used, list, at, freed, thr, handler, alarm, sent,
                   history>>

\* The step of t is defined, and leaves alone what only the handler changes.
Sound(t, pc) ==
    /\ Whole /\ At(t, pc) /\ ~Undefined(t)
    /\ UNCHANGED <<now, used, at, freed, handler, alarm, sent, corrupt>>

\* while (*p && ...
Walk(t) ==
    /\ Sound(t, "walk")
    /\ thr' = [thr EXCEPT ![t].pc = IF Cell(thr[t].p) = Null THEN "link" ELSE "load"]
    /\ UNCHANGED <<list, history>>

\* ... (*p)->delivery_time < newmsg->delivery_time): *p is loaded again, ...
Load(t) ==
    /\ Sound(t, "load")
    /\ thr' = [thr EXCEPT ![t].pc = "compare", ![t].n = Cell(thr[t].p)]
    /\ UNCHANGED <<list, history>>

\* ... and its time read.
Compare(t) ==
    /\ Sound(t, "compare")
    /\ thr' = [thr EXCEPT ![t] = [@ EXCEPT !.n = Null,
           !.pc = IF Before(thr[t].n, thr[t].msg) THEN "step" ELSE "link"]]
    /\ UNCHANGED <<list, history>>

\* p = &(*p)->next: the third load, perhaps of a node that was not compared.
Step(t) ==
    LET f == thr[t]
        n == Cell(f.p)
    IN  /\ Sound(t, "step")
        /\ thr' = [thr EXCEPT ![t].pc = "walk", ![t].p = n]
        /\ skipped' = IF Before(n, f.msg) THEN skipped ELSE skipped \cup {f.msg}
        /\ UNCHANGED <<list, stalled, raced>>

\* Mutant: newmsg->next is not set.
LinkNothing(t) ==
    /\ Sound(t, "link")
    /\ thr' = [thr EXCEPT ![t].pc = "store"]
    /\ UNCHANGED <<list, history>>

\* newmsg->next = *p
Link(t) ==
    /\ Sound(t, "link")
    /\ next' = [next EXCEPT ![thr[t].msg] = Cell(thr[t].p)]
    /\ thr' = [thr EXCEPT ![t].pc = "store"]
    /\ UNCHANGED <<head, history>>

\* Somebody else relies on what it has read of the cell p: a thread that inserts
\* there, or the handler that takes the node of the cell off the list.
Contended(t, p) ==
    \/ \E u \in Thread \ {t} :
           thr[u].pc \in {"compare", "link", "store"} /\ thr[u].p = p
    \/ handler.pc \in {"unlink", "free"} /\ p = handler.temp

\* *p = newmsg
Store(t) ==
    LET f == thr[t]
    IN  /\ Sound(t, "store")
        /\ IF f.p = Head THEN head' = f.msg /\ UNCHANGED next
           ELSE next' = [next EXCEPT ![f.p] = f.msg] /\ UNCHANGED head
        /\ thr' = [thr EXCEPT ![t].pc = "test"]
        /\ raced' = (raced \/ Contended(t, f.p))
        /\ UNCHANGED <<skipped, stalled>>

\* Mutant: an alarm is set only for the first of several.
IsFirstOfMany(m) == head = m /\ next[m] # Null

IsFirst(m) == head = m

Test(t) ==
    /\ Whole /\ At(t, "test")
    /\ thr' = [thr EXCEPT ![t] =
           IF IsFirst(@.msg) THEN [@ EXCEPT !.pc = "arm"] ELSE Idle]
    /\ UNCHANGED <<now, used, list, at, freed, handler, alarm, sent, corrupt,
                   history>>

\* setalarm(): setitimer() with a value of zero disarms the timer.
SetAlarm(wait) ==
    /\ alarm' = IF Floor(wait) = 0 THEN Off ELSE now + Floor(wait)
    /\ stalled' = (stalled \/ Floor(wait) = 0)

Arm(t) ==
    /\ Whole /\ At(t, "arm")
    /\ SetAlarm(thr[t].delay)
    /\ thr' = [thr EXCEPT ![t] = Idle]
    /\ UNCHANGED <<now, used, list, at, freed, handler, sent, corrupt,
                   skipped, raced>>

-----------------------------------------------------------------------------
(* catch_alarm() *)

Fire ==
    /\ Whole /\ handler.pc = "idle"
    /\ alarm # Off /\ now >= alarm
    /\ alarm' = Off
    /\ handler' = [Asleep EXCEPT !.pc = "loop", !.now = Floor(now)]
    /\ UNCHANGED <<now, used, list, at, freed, thr, sent, corrupt, history>>

Due == head # Null /\ at[head] <= handler.now

HandlerSend ==
    /\ Whole /\ handler.pc = "loop" /\ Due
    /\ sent' = [sent EXCEPT ![head] = @ + 1]
    /\ handler' = [handler EXCEPT !.pc = "pop"]
    /\ UNCHANGED <<now, used, list, at, freed, thr, alarm, corrupt, history>>

\* temp = head; head = head->next; free(temp): the load of head->next, ...
HandlerPop ==
    /\ Whole /\ handler.pc = "pop"
    /\ handler' = [handler EXCEPT !.pc = "unlink", !.temp = head, !.n = next[head]]
    /\ UNCHANGED <<now, used, list, at, freed, thr, alarm, sent, corrupt, history>>

\* ... the store to head ...
HandlerUnlink ==
    /\ Whole /\ handler.pc = "unlink"
    /\ head' = handler.n
    /\ handler' = [handler EXCEPT !.pc = "free", !.n = Null]
    /\ UNCHANGED <<now, used, next, at, freed, thr, alarm, sent, corrupt, history>>

\* ... and the release of the node.
HandlerFree ==
    /\ Whole /\ handler.pc = "free"
    /\ freed' = freed \cup {handler.temp}
    /\ handler' = [handler EXCEPT !.pc = "loop", !.temp = Null]
    /\ UNCHANGED <<now, used, list, at, thr, alarm, sent, corrupt, history>>

\* Mutants: the operands swapped; the alarm set only if nothing was due.
WaitSwapped == handler.now - Floor(at[head])
HandlerEndForgets ==
    /\ Whole /\ handler.pc = "loop" /\ ~Due
    /\ handler' = Asleep
    /\ UNCHANGED <<now, used, list, at, freed, thr, alarm, sent, corrupt, history>>

\* "(useconds_t) head->delivery_time - now": the cast comes first.  A time of day
\* does not fit in 32 bits; x86-64 keeps the low bits of both conversions, and
\* what is left is the difference.
Wait == Floor(at[head]) - handler.now

HandlerEnd ==
    /\ Whole /\ handler.pc = "loop" /\ ~Due
    /\ handler' = IF head = Null THEN Asleep
                  ELSE [handler EXCEPT !.pc = "set", !.wait = Wait]
    /\ UNCHANGED <<now, used, list, at, freed, thr, alarm, sent, corrupt, history>>

HandlerArm ==
    /\ Whole /\ handler.pc = "set"
    /\ SetAlarm(handler.wait)
    /\ handler' = Asleep
    /\ UNCHANGED <<now, used, list, at, freed, thr, sent, corrupt, skipped,
                   raced>>

-----------------------------------------------------------------------------
\* Time passes.  A usend() is over before its datagram is due, half a second
\* later; a signal is delivered, and handled, with a bounded latency; and
\* nothing happens any more when no alarm is set and no usend() will come.
Tick ==
    /\ Whole
    /\ now < MaxCall \/ alarm # Off
    /\ \A t \in Thread : Busy(t) => now + 1 < at[thr[t].msg]
    /\ alarm # Off => now < alarm + Latency
    /\ handler.pc # "idle" => now < handler.now + Latency
    /\ now' = now + 1
    /\ UNCHANGED <<used, list, at, freed, thr, handler, alarm, sent, corrupt,
                   history>>

Init ==
    /\ now = 0
    /\ used = {}
    /\ head = Null
    /\ next = [m \in Msg |-> Null]
    /\ at = [m \in Msg |-> 0]
    /\ freed = {}
    /\ thr = [t \in Thread |-> Idle]
    /\ handler = Asleep
    /\ alarm = Off
    /\ sent = [m \in Msg |-> 0]
    /\ corrupt = FALSE
    /\ skipped = {}
    /\ stalled = FALSE
    /\ raced = FALSE

ThreadStep(t) ==
    \/ Walk(t) \/ Load(t) \/ Compare(t) \/ Step(t)
    \/ Link(t) \/ Store(t) \/ Test(t) \/ Arm(t)
    \/ Misuse(t)

HandlerStep ==
    \/ Fire \/ HandlerSend
    \/ HandlerPop \/ HandlerUnlink \/ HandlerFree
    \/ HandlerEnd \/ HandlerArm

Next ==
    \/ \E t \in Thread : ThreadStep(t) \/ Usend(t)
    \/ HandlerStep
    \/ Tick

Spec == Init /\ [][Next]_vars

\* The processor is not idle while a thread or the handler can go on, and the clock
\* runs.  Nobody has to call usend().
FairSpec ==
    /\ Spec
    /\ WF_vars(HandlerStep \/ \E t \in Thread : ThreadStep(t))
    /\ WF_vars(Tick)

-----------------------------------------------------------------------------
(* Properties. *)

\* Every variable keeps its shape: no wait is negative, and the handler takes a
\* node off only if there is one.
TypeOK ==
    /\ now \in Nat
    /\ used \subseteq Msg
    /\ head \in Msg \cup {Null}
    /\ next \in [Msg -> Msg \cup {Null}]
    /\ at \in [Msg -> Nat]
    /\ freed \subseteq Msg
    /\ thr \in [Thread ->
           [pc : {"idle", "walk", "load", "compare", "step", "link", "store",
                  "test", "arm"},
            msg : Msg \cup {Null}, p : Msg \cup {Head}, n : Msg \cup {Null},
            delay : Nat]]
    /\ handler \in [pc : {"idle", "loop", "pop", "unlink", "free", "set"},
                    now : Nat, temp : Msg \cup {Null}, n : Msg \cup {Null},
                    wait : Nat]
    /\ alarm \in Nat
    /\ sent \in [Msg -> Nat]
    /\ corrupt \in BOOLEAN /\ stalled \in BOOLEAN /\ raced \in BOOLEAN
    /\ skipped \subseteq Msg
    /\ handler.pc = "pop" => head # Null
    /\ handler.pc \in {"unlink", "free"} => handler.temp # Null

\* S holds what follows any of its nodes, and the first node.
Closed(S) ==
    /\ head \in S \cup {Null}
    /\ \A m \in S : next[m] \in S \cup {Null}

\* The nodes that can be reached from head.
Queue == {m \in Msg : \A S \in SUBSET Msg : Closed(S) => m \in S}

\* usend() has returned for m.
Settled(m) == m \in used /\ \A t \in Thread : thr[t].msg # m

\* As long as nothing undefined has happened and no insertion has met another one,
\* or the handler, at its cell: a datagram whose usend() has returned is in the
\* queue or was sent, none is sent twice, and no node is freed before it is sent or
\* while it can be reached, wherever the handler interrupts an insertion.
SettledKept ==
    Whole =>
        /\ \A m \in Msg :
               /\ sent[m] <= 1
               /\ m \in freed => sent[m] = 1
               /\ Settled(m) => m \in Queue \/ sent[m] = 1
        /\ Queue \cap freed = {}

\* In the same circumstances a datagram stands before one that is due earlier only
\* if the thread that inserted the latter was led past a later node: the handler
\* took off the node that it had compared before it stepped over *p, which was
\* then the next one (unicast.cc:201-202).
Sorted ==
    Whole =>
        \A m \in Queue :
            next[m] # Null => at[m] <= at[next[m]] \/ next[m] \in skipped

\* No lost wakeup: while something is queued the alarm is set, or the handler or
\* some usend() is on its way to set it, whatever the threads and the handler do
\* between the test and the setting.  An alarm of zero (unicast.cc:257) loses it.
WakeupKept ==
    Whole /\ ~stalled /\ head # Null =>
        \/ alarm # Off
        \/ handler.pc # "idle"
        \/ \E t \in Thread : At(t, "arm") \/ (At(t, "test") /\ IsFirst(thr[t].msg))

\* A datagram that was handed to usend() and not dropped there is sent in the end,
\* unless the alarm is set to zero, a freed node or a null pointer is used, or an
\* insertion meets another one, or the handler, at its cell.
EventuallySent ==
    \A m \in Msg : m \in used ~> sent[m] = 1 \/ corrupt \/ stalled \/ raced
=============================================================================
