----------------------------- MODULE EventLoop -----------------------------
(***************************************************************************)
(* How the message loop of cwiclo waits (app.h, app.cc): the Timer Msgers  *)
(* that watch a time or a file descriptor for a client, RunTimers and      *)
(* poll, and the forwarding of Unix signals as messages.                   *)
(*                                                                         *)
(* Three things go on at once: the one thread of the program, the clock,   *)
(* and signal handlers, which interrupt the thread anywhere.  A step of    *)
(* the thread is what it does between two points where that matters.  The  *)
(* life of Msgers in general is the subject of App; here a client is an    *)
(* application Msger with one PTimer proxy and one file descriptor, its    *)
(* Timer is created by the first message through the proxy, and deletion   *)
(* is one step.                                                            *)
(*                                                                         *)
(* Times are kept relative to the clock: due[c] is NextFire() - Now(),     *)
(* with every time past held as -1, as if it had passed less than MaxInt   *)
(* ago.  A client's descriptor is named by the client.  The clock does not *)
(* go back, although CLOCK_REALTIME may.                                   *)
(***************************************************************************)
EXTENDS Integers, Sequences, FiniteSets

CONSTANTS
    Clients,     \* application Msgers that use a timer
    Signals,     \* the signals in sigset_Msg, numbered
    QuitSignals, \* those in sigset_Quit
    MaxTimeout,  \* bound on the timeouts clients ask for
    MaxInt,      \* the largest int, which poll takes its timeout as: INT_MAX
    Asked,       \* what they ask: calls of PTimer, as <<cmd, timeoutms>>
    MaxOthers,   \* bound on the messages from Msgers the model does not follow
    AtomicClear  \* the build clears s_ReceivedSignals in one instruction

ASSUME ClientsAssumption == IsFiniteSet(Clients)
ASSUME SignalsAssumption == Signals \subseteq Nat /\ QuitSignals \subseteq Signals
ASSUME MaxTimeoutAssumption == MaxTimeout \in Nat
ASSUME MaxIntAssumption == MaxInt \in Nat
ASSUME MaxOthersAssumption == MaxOthers \in Nat
ASSUME AtomicClearAssumption == AtomicClear \in BOOLEAN

TimerNone == MaxTimeout + 1     \* later than every time, as TimerNone + TimerNone is
Timeout == 0..TimerNone
WatchCmd == {"Stop", "Timer", "Read"}

\* Stop has no timeout, Timer has one, WaitRead may have one.
ASSUME AskedAssumption ==
    Asked \subseteq ({<<"Stop", TimerNone>>} \cup ({"Timer"} \X (0..MaxTimeout)) \cup ({"Read"} \X Timeout))

VARIABLES
    client,   \* each client: alive, unused (f_Unused) or dead
    timers,   \* _timers: the clients whose Timer exists, in the order of creation
    unused,   \* the Timers with f_Unused
    cmd, due, \* _cmd, and _nextfire relative to the clock
    outq, inq,
    others,   \* how many messages other Msgers may still send
    ready,    \* descriptors with something to read
    received, \* s_ReceivedSignals
    owed,     \* signals that arrived since the application was last told
    quit,     \* f_Quitting: not quitting, told to, or out of packets
    alarm,    \* alarm (1) was called
    pc,       \* where the thread is
    oldrs, todo, \* ForwardReceivedSignals: oldrs and the part still to be sent
    loaded,   \* and the value about to be stored
    polled,   \* RunTimers: fds
    timeout,  \* and timeout; negative for ever
    revents,  \* the descriptors poll found ready
    expired,  \* the Timers CheckPollTimers will find expired
    k, cfd    \* and its two cursors

clients == <<client, ready>>
timer == <<timers, unused, cmd, due>>
queues == <<outq, inq, others>>
signals == <<received, owed, alarm>>
forward == <<oldrs, todo, loaded>>
poll == <<polled, timeout, revents, expired, k, cfd>>
vars == <<clients, timer, queues, signals, quit, pc, forward, poll>>

-----------------------------------------------------------------------------
Message ==
    [kind : {"Watch"}, c : Clients, cmd : WatchCmd, timeoutms : Timeout]
        \cup [kind : {"TimerR", "Other"}, c : Clients]
        \cup [kind : {"Signal"}, sig : Signals]

Watches(c) == { [kind |-> "Watch", c |-> c, cmd |-> a[1], timeoutms |-> a[2]] : a \in Asked }

Queued(q, kinds, c) == \E j \in DOMAIN q : q[j].kind \in kinds /\ q[j].c = c

Live(c) == \E j \in DOMAIN timers : timers[j] = c

\* The elements of q that are in S, in their order: SelectSeq without recursion.
Sublist(q, S) ==
    LET kept == { j \in DOMAIN q : q[j] \in S }
    IN  [n \in 1..Cardinality(kept) |->
            q[CHOOSE j \in kept : Cardinality({ i \in kept : i <= j }) = n]]

Ended == pc \in {"done", "died"}

\* The program starts with a message for every client; clients are alike, so
\* one order stands for all.
Init ==
    /\ client = [c \in Clients |-> "alive"] /\ ready = {}
    /\ timers = <<>> /\ unused = {}
    /\ cmd = [c \in Clients |-> "Stop"] /\ due = [c \in Clients |-> TimerNone]
    /\ outq = CHOOSE q \in [1..Cardinality(Clients) -> [kind : {"Other"}, c : Clients]] :
                    \A c \in Clients : Queued(q, {"Other"}, c)
    /\ inq = <<>> /\ others = MaxOthers
    /\ received = {} /\ owed = {} /\ alarm = FALSE
    /\ quit = "no" /\ pc = "top"
    /\ oldrs = {} /\ todo = {} /\ loaded = {}
    /\ polled = <<>> /\ timeout = 0 /\ revents = {} /\ expired = {}
    /\ k = 1 /\ cfd = 1

-----------------------------------------------------------------------------
(* The world outside: the clock, descriptors and signals *)

Tick ==
    /\ ~Ended
    /\ due' = [c \in Clients |-> IF due[c] \in {TimerNone, -1} THEN due[c] ELSE due[c] - 1]
    /\ timeout' = IF pc = "blocked" /\ timeout > 0 THEN timeout - 1 ELSE timeout
    /\ UNCHANGED <<clients, timers, unused, cmd, queues, signals, quit, pc, forward,
                   polled, revents, expired, k, cfd>>

DataArrives(c) ==
    /\ client[c] # "dead"
    /\ ready' = ready \cup {c}
    /\ UNCHANGED <<client, timer, queues, signals, quit, pc, forward, poll>>

Polled == { polled[j] : j \in DOMAIN polled }

NoAlarm(s) == UNCHANGED alarm                           \* mutant: alarm (1) left out
SetAlarm(s) == alarm' = (alarm \/ s \in QuitSignals)

\* MsgSignalHandler.  A wait in poll ends, unless a descriptor is ready.
MsgSignalHandler(s) ==
    /\ ~Ended
    /\ received' = received \cup {s} /\ owed' = owed \cup {s}
    /\ quit' = IF s \in QuitSignals /\ quit = "no" THEN "told" ELSE quit
    /\ SetAlarm(s)
    /\ pc' = IF pc = "blocked" /\ Polled \cap ready = {} THEN "interrupted" ELSE pc
    /\ UNCHANGED <<clients, timer, queues, forward, poll>>

\* The alarm signal is in sigset_Die: FatalSignalHandler exits.
FatalSignalHandler ==
    /\ ~Ended
    /\ alarm
    /\ pc' = "died"
    /\ UNCHANGED <<clients, timer, queues, signals, quit, forward, poll>>

-----------------------------------------------------------------------------
(* Run, up to the dispatch of messages *)

Loop ==
    /\ pc = "top"
    /\ IF quit # "no"
       THEN pc' = "done" /\ UNCHANGED queues
       ELSE pc' = "input" /\ inq' = outq /\ outq' = <<>> /\ UNCHANGED others
    /\ UNCHANGED <<clients, timer, signals, quit, forward, poll>>

\* A Msger the model does not follow sends a client something.
OtherSends(c) ==
    /\ pc = "input" /\ inq # <<>>
    /\ others > 0 /\ others' = others - 1
    /\ outq' = Append(outq, [kind |-> "Other", c |-> c])
    /\ UNCHANGED <<clients, timer, inq, signals, quit, pc, forward, poll>>

NextMsg(kinds) ==
    /\ pc = "input" /\ inq # <<>>
    /\ Head(inq).kind \in kinds
    /\ inq' = Tail(inq) /\ UNCHANGED others

\* Through the PTimer: a Timer that is gone is created again.
CreateTimerAlways(c) ==                                \* mutant: on every call
    timers' = Append(timers, c) /\ UNCHANGED <<unused, cmd, due>>
CreateTimer(c) ==
    /\ timers' = IF Live(c) THEN timers ELSE Append(timers, c)
    /\ UNCHANGED <<unused, cmd, due>>

\* A client reads its descriptor or does not, finishes or does not, and sends
\* its Timer at most one message.
ClientDispatch ==
    /\ NextMsg({"TimerR", "Other"})
    /\ LET c == Head(inq).c
       IN  IF client[c] = "dead"
           THEN UNCHANGED <<clients, timer, outq>>
           ELSE /\ ready' \in {ready, ready \ {c}}
                /\ client' \in {client, [client EXCEPT ![c] = "unused"]}
                /\ \/ UNCHANGED <<timer, outq>>
                   \/ \E w \in Watches(c) : outq' = Append(outq, w) /\ CreateTimer(c)
    /\ UNCHANGED <<signals, quit, pc, forward, poll>>

\* Timer_Watch.  With TimerNone the sum wraps to a time that never comes.
TimerWatch ==
    /\ NextMsg({"Watch"})
    /\ LET w == Head(inq)
       IN  IF Live(w.c)
           THEN /\ cmd' = [cmd EXCEPT ![w.c] = w.cmd]
                /\ unused' = IF w.cmd = "Stop" THEN unused \cup {w.c} ELSE unused \ {w.c}
                /\ due' = [due EXCEPT ![w.c] = w.timeoutms]
           ELSE UNCHANGED <<cmd, unused, due>>
    /\ UNCHANGED <<clients, timers, outq, signals, quit, pc, forward, poll>>

\* The application's Signal_Signal; it may quit.
SignalDispatch ==
    /\ NextMsg({"Signal"})
    /\ owed' = owed \ {Head(inq).sig}
    /\ quit' \in {quit, IF quit = "no" THEN "told" ELSE quit}
    /\ UNCHANGED <<clients, timer, outq, received, alarm, pc, forward, poll>>

-----------------------------------------------------------------------------
(* DeleteUnusedMsgers *)

\* A client that is deleted closes its descriptor and has its Timer marked
\* unused; a Timer that comes later in _msgers is then deleted in this pass.
DeletableTimerAtOnce(c) == Live(c)                     \* mutant: whatever is queued
DeletableTimer(c) == Live(c) /\ ~Queued(outq, {"Watch"}, c)

DeleteUnusedMsgers ==
    /\ pc = "input" /\ inq = <<>>
    /\ LET dying == { c \in Clients : client[c] = "unused" /\ ~Queued(outq, {"TimerR", "Other"}, c) }
       IN  /\ client' = [c \in Clients |-> IF c \in dying THEN "dead" ELSE client[c]]
           /\ ready' = ready \ dying
           /\ \E later \in SUBSET dying :
                LET gone == { c \in unused \cup later : DeletableTimer(c) }
                IN  /\ timers' = Sublist(timers, Clients \ gone)
                    /\ unused' = (unused \cup { c \in dying : Live(c) }) \ gone
                    /\ cmd' = [c \in Clients |-> IF c \in gone THEN "Stop" ELSE cmd[c]]
                    /\ due' = [c \in Clients |-> IF c \in gone THEN TimerNone ELSE due[c]]
    /\ pc' = "forward"
    /\ UNCHANGED <<queues, signals, quit, forward, poll>>

-----------------------------------------------------------------------------
(* ForwardReceivedSignals *)

ReadSignals ==
    /\ pc = "forward" /\ todo = {}
    /\ oldrs' = received /\ todo' = received
    /\ pc' = IF received = {} THEN "timers" ELSE "signal"
    /\ UNCHANGED <<clients, timer, queues, signals, quit, loaded, poll>>

ForwardSignal ==
    /\ pc = "signal"
    /\ \E s \in todo :
        /\ \A t \in todo : s <= t
        /\ outq' = Append(outq, [kind |-> "Signal", sig |-> s])
        /\ todo' = todo \ {s}
    /\ UNCHANGED <<clients, timer, inq, others, signals, quit, pc, oldrs, loaded, poll>>

\* s_ReceivedSignals ^= oldrs
ClearedAll == {}                                       \* mutant: = 0
Cleared == (received \ oldrs) \cup (oldrs \ received)

ClearSignals ==
    /\ pc = "signal" /\ todo = {}
    /\ IF AtomicClear THEN received' = Cleared /\ pc' = "timers" /\ UNCHANGED loaded
                      ELSE loaded' = Cleared /\ pc' = "store" /\ UNCHANGED received
    /\ oldrs' = {}
    /\ UNCHANGED <<clients, timer, queues, owed, alarm, quit, todo, poll>>

StoreSignals ==
    /\ pc = "store"
    /\ received' = loaded /\ loaded' = {}
    /\ pc' = "timers"
    /\ UNCHANGED <<clients, timer, queues, owed, alarm, quit, oldrs, todo, poll>>

-----------------------------------------------------------------------------
(* RunTimers *)

\* With nothing to wait for and no messages the program ends.
RanOut ==
    /\ quit' = IF outq = <<>> /\ quit = "no" THEN "ran out" ELSE quit
    /\ pc' = "top"
    /\ UNCHANGED poll

HasFd(c) == cmd[c] = "Read"

\* An int keeps the low bits of a longer number, the highest of them its sign.
ToInt(d) ==
    LET low == d % (2 * MaxInt + 2)
    IN  IF low <= MaxInt THEN low ELSE low - (2 * MaxInt + 2)

\* GetPollTimerList: the descriptors to poll, in the order of _timers, and the
\* time until the first Timer is due.  The difference is unsigned and longer
\* than the int it is assigned to: max does not raise it to 0 when that time has
\* passed, and as an int it is negative then; one that is too long may become
\* negative too, or 0, or shorter.
PollList == Sublist(timers, { c \in Clients : HasFd(c) })
Nearest ==
    CHOOSE t \in {TimerNone} \cup { due[c] : c \in {c \in Clients : Live(c) /\ cmd[c] # "Stop"} } :
        \A c \in Clients : Live(c) /\ cmd[c] # "Stop" => t <= due[c]
PollTimeoutOfFds ==                                     \* mutant: times only without fds
    IF outq # <<>> THEN 0
    ELSE IF PollList # <<>> THEN -1
    ELSE IF Nearest = TimerNone THEN 0
    ELSE ToInt(Nearest)
PollTimeout ==
    IF outq # <<>> THEN 0
    ELSE IF Nearest = TimerNone THEN IF PollList # <<>> THEN -1 ELSE 0
    ELSE ToInt(Nearest)

RunTimers ==
    /\ pc = "timers"
    /\ IF timers = <<>> \/ quit # "no" \/ (PollList = <<>> /\ PollTimeout = 0)
       THEN RanOut
       ELSE /\ polled' = PollList /\ timeout' = PollTimeout
            /\ pc' = "poll"
            /\ UNCHANGED <<quit, revents, expired, k, cfd>>
    /\ UNCHANGED <<clients, timer, queues, signals, forward>>

Poll ==
    /\ pc = "poll"
    /\ pc' = "blocked"
    /\ UNCHANGED <<clients, timer, queues, signals, quit, forward, poll>>

\* poll returns at once for a descriptor that was closed, with POLLNVAL.
PollReturns ==
    \/ pc = "interrupted"
    \/ pc = "blocked" /\ timeout = 0
    \/ pc = "blocked" /\ \E c \in Polled : c \in ready \/ client[c] = "dead"

\* CheckPollTimers reads the clock once.
PollReturn ==
    /\ PollReturns
    /\ revents' = Polled \cap ready
    /\ expired' = { c \in Clients : Live(c) /\ due[c] <= 0 }
    /\ k' = 1 /\ cfd' = 1
    /\ pc' = "check"
    /\ UNCHANGED <<clients, timer, queues, signals, quit, forward, polled, timeout>>

NextFdAlways(c) == cfd + 1                              \* mutant: for every Timer
NextFdNever(c) == cfd                                   \* mutant: not at all
NextFd(c) == IF HasFd(c) THEN cfd + 1 ELSE cfd

\* Fire: the client is told, the Timer stops and is unused.
CheckPollTimer ==
    /\ pc = "check" /\ k \in DOMAIN timers
    /\ LET c == timers[k]
           fdFired == HasFd(c) /\ cfd \in DOMAIN polled /\ polled[cfd] \in revents
       IN  /\ cfd' = NextFd(c)
           /\ IF c \in expired \/ fdFired
              THEN /\ outq' = Append(outq, [kind |-> "TimerR", c |-> c])
                   /\ unused' = unused \cup {c}
                   /\ cmd' = [cmd EXCEPT ![c] = "Stop"]
                   /\ due' = [due EXCEPT ![c] = TimerNone]
              ELSE UNCHANGED <<outq, unused, cmd, due>>
    /\ k' = k + 1
    /\ UNCHANGED <<clients, timers, inq, others, signals, quit, pc, forward,
                   polled, timeout, revents, expired>>

CheckDone ==
    /\ pc = "check" /\ k \notin DOMAIN timers
    /\ pc' = "top"
    /\ polled' = <<>> /\ timeout' = 0 /\ revents' = {} /\ expired' = {} /\ k' = 1 /\ cfd' = 1
    /\ UNCHANGED <<clients, timer, queues, signals, quit, forward>>

-----------------------------------------------------------------------------
Dispatch == ClientDispatch \/ TimerWatch \/ SignalDispatch

ForwardReceivedSignals == ReadSignals \/ ForwardSignal \/ ClearSignals \/ StoreSignals

Wait == RunTimers \/ Poll \/ PollReturn \/ CheckPollTimer \/ CheckDone

Thread == Loop \/ Dispatch \/ DeleteUnusedMsgers \/ ForwardReceivedSignals \/ Wait

World ==
    \/ \E c \in Clients : DataArrives(c) \/ OtherSends(c)
    \/ \E s \in Signals : MsgSignalHandler(s)

Terminated == Ended /\ UNCHANGED vars

Next == Thread \/ Tick \/ FatalSignalHandler \/ World \/ Terminated

Spec == Init /\ [][Next]_vars

\* The thread runs unless it waits in poll, time passes, an alarm goes off.
FairSpec == Spec /\ WF_vars(Thread) /\ WF_vars(Tick) /\ WF_vars(FatalSignalHandler)

-----------------------------------------------------------------------------
(* Properties *)

\* Every variable keeps its type, every Timer is in the list once, and the
\* cursors of CheckPollTimers go no further than just behind their lists.
TypeOK ==
    /\ client \in [Clients -> {"alive", "unused", "dead"}] /\ ready \subseteq Clients
    /\ timers \in Seq(Clients) /\ \A j, l \in DOMAIN timers : timers[j] = timers[l] => j = l
    /\ unused \subseteq Clients
    /\ cmd \in [Clients -> WatchCmd] /\ due \in [Clients -> -1..TimerNone]
    /\ outq \in Seq(Message) /\ inq \in Seq(Message) /\ others \in 0..MaxOthers
    /\ received \subseteq Signals /\ owed \subseteq Signals /\ alarm \in BOOLEAN
    /\ quit \in {"no", "told", "ran out"}
    /\ pc \in {"top", "input", "forward", "signal", "store", "timers", "poll", "blocked",
               "interrupted", "check", "done", "died"}
    /\ oldrs \subseteq Signals /\ todo \subseteq Signals /\ loaded \subseteq Signals
    /\ polled \in Seq(Clients) /\ timeout \in -MaxInt-1..MaxInt
    /\ revents \subseteq Clients /\ expired \subseteq Clients
    /\ k \in 1..Len(timers)+1 /\ cfd \in 1..Len(polled)+1

\* No signal is lost: from its arrival until the application is told it is
\* recorded, being forwarded or queued, also if it arrives while signals are
\* forwarded ("in case new signals arrived during the loop", app.cc:305).
SignalQueued(q, s) == \E j \in DOMAIN q : q[j].kind = "Signal" /\ q[j].sig = s
SignalKept ==
    \A s \in owed : s \in received \cup todo \/ SignalQueued(outq, s) \/ SignalQueued(inq, s)

\* What a client asks of its Timer is heard: though firing marks the Timer
\* unused, it is there when the next Watch is dispatched.
WatchKept ==
    \A c \in Clients :
        Queued(outq, {"Watch"}, c) \/ (pc = "input" /\ Queued(inq, {"Watch"}, c)) => Live(c)

\* A client is told only when its own descriptor was found ready or its own
\* time had come: CheckPollTimers pairs descriptors with Timers as
\* GetPollTimerList did, although Timers without one are passed over.
FiredForReason ==
    [][pc = "check" /\ outq' # outq =>
          \A c \in Clients : Queued(outq', {"TimerR"}, c) =>
              Queued(outq, {"TimerR"}, c) \/ c \in expired \/ (c \in revents /\ HasFd(c))]_vars

\* A client that waits for a descriptor that stays ready is told.
WatchedFdFires ==
    \A c \in Clients :
        Live(c) /\ HasFd(c) /\ c \in ready ~> ~(Live(c) /\ HasFd(c) /\ c \in ready) \/ Ended

\* As long as the nearest time has not come before RunTimers looks, nor is
\* further away than an int can say, every Timer whose time comes while the
\* thread waits fires.
InTime == pc = "timers" => Nearest \in 1..MaxInt \cup {TimerNone}
TimerFiresInTime ==
    []InTime => \A c \in Clients : Live(c) /\ due[c] <= 0 ~> due[c] > 0 \/ Ended

\* A quit signal ends the program, wherever it comes.  If it comes just before
\* poll, which then waits, it takes the alarm.
QuitSignalEnds == quit # "no" ~> Ended
=============================================================================
