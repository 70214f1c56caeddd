-------------------------- MODULE EventLoopProofs --------------------------
(***************************************************************************)
(* Theorems about EventLoop, for any number of clients and signals.        *)
(***************************************************************************)
EXTENDS EventLoop, FiniteSetTheorems, FunctionTheorems, WellFoundedInduction, TLAPS

-----------------------------------------------------------------------------
(* Sublists *)

\* Cardinality({ i \in kept : i <= j }) numbers the elements of a finite set of
\* numbers, and every number up to its size is one's.
LEMMA Ranks ==
    ASSUME NEW n \in Nat, NEW kept \in SUBSET (1..n)
    PROVE  /\ Cardinality(kept) \in Nat
           /\ \A j \in kept : Cardinality({ i \in kept : i <= j }) \in 1..Cardinality(kept)
           /\ \A j, l \in kept :
                Cardinality({ i \in kept : i <= j }) = Cardinality({ i \in kept : i <= l }) => j = l
           /\ \A r \in 1..Cardinality(kept) : \E j \in kept : Cardinality({ i \in kept : i <= j }) = r
<1> DEFINE upto(j) == { i \in kept : i <= j }
<1>1. IsFiniteSet(kept) /\ Cardinality(kept) \in Nat
  <2>1. IsFiniteSet(1..n)
    BY FS_Interval
  <2> QED BY <2>1, FS_Subset, FS_CardinalityType
<1>2. \A j \in kept : IsFiniteSet(upto(j)) /\ Cardinality(upto(j)) \in Nat /\ Cardinality(upto(j)) <= Cardinality(kept)
  <2> TAKE j \in kept
  <2>1. upto(j) \in SUBSET kept
    OBVIOUS
  <2> HIDE DEF upto
  <2> QED BY <2>1, <1>1, FS_Subset, FS_CardinalityType
<1>3. \A j \in kept : Cardinality(upto(j)) \in 1..Cardinality(kept)
  <2> TAKE j \in kept
  <2>1. j \in upto(j)
    OBVIOUS
  <2> HIDE DEF upto
  <2>2. Cardinality(upto(j)) # 0
    BY <2>1, <1>2, FS_EmptySet
  <2> QED BY <2>2, <1>1, <1>2
<1> kept \subseteq Int
  OBVIOUS
<1>4. ASSUME NEW j \in kept, NEW l \in kept, Cardinality(upto(j)) = Cardinality(upto(l)), j < l
      PROVE  FALSE
  <2>1. upto(j) \in SUBSET upto(l) /\ l \in upto(l) /\ l \notin upto(j)
    <3>1. j \in Int /\ l \in Int /\ j < l
      BY <1>4
    <3>2. \A i \in kept : i <= j => i <= l
      BY <3>1
    <3>3. l \in upto(l) /\ l \notin upto(j)
      BY <3>1
    <3>4. \A i \in upto(j) : i \in upto(l)
      BY <3>2
    <3> HIDE DEF upto
    <3> QED BY <3>3, <3>4
  <2> HIDE DEF upto
  <2>2. upto(j) = upto(l)
    BY <2>1, <1>2, <1>4, FS_Subset
  <2> QED BY <2>1, <2>2
<1>5. \A j, l \in kept : Cardinality(upto(j)) = Cardinality(upto(l)) => j = l
  <2> HIDE DEF upto
  <2> TAKE j, l \in kept
  <2> HAVE Cardinality(upto(j)) = Cardinality(upto(l))
  <2>1. ~(j < l) /\ ~(l < j)
    BY <1>4
  <2> QED BY <2>1
<1>6. \A r \in 1..Cardinality(kept) : \E j \in kept : Cardinality(upto(j)) = r
  <2> DEFINE f == [j \in kept |-> Cardinality(upto(j))]
             T == 1..Cardinality(kept)
  <2>1. f \in Injection(kept, T)
    <3>1. f \in [kept -> T]
      BY <1>3
    <3> HIDE DEF upto, T
    <3> QED BY <3>1, <1>5 DEF Injection, IsInjective
  <2>2. IsFiniteSet(T) /\ Cardinality(T) = Cardinality(kept)
    BY <1>1, FS_Interval
  <2>3. f \in Surjection(kept, T)
    BY <2>1, <2>2, FS_Injection
  <2> QED BY <2>3 DEF Surjection
<1> QED BY <1>1, <1>3, <1>5, <1>6

\* A sublist has the elements it should and no other, and none twice if the
\* list has none twice.
LEMMA SublistProperties ==
    ASSUME NEW C, NEW q \in Seq(C), NEW S
    PROVE  /\ Sublist(q, S) \in Seq(C)
           /\ \A j \in DOMAIN q : q[j] \in S => \E n \in DOMAIN Sublist(q, S) : Sublist(q, S)[n] = q[j]
           /\ \A n \in DOMAIN Sublist(q, S) : \E j \in DOMAIN q : q[j] \in S /\ Sublist(q, S)[n] = q[j]
           /\ (\A j, l \in DOMAIN q : q[j] = q[l] => j = l) =>
                \A m, n \in DOMAIN Sublist(q, S) : Sublist(q, S)[m] = Sublist(q, S)[n] => m = n
<1> DEFINE kept == { j \in DOMAIN q : q[j] \in S }
           rank(j) == Cardinality({ i \in kept : i <= j })
           at(n) == CHOOSE j \in kept : rank(j) = n
           size == Cardinality(kept)
<1>1. kept \in SUBSET (1..Len(q)) /\ Len(q) \in Nat /\ DOMAIN q = 1..Len(q)
  OBVIOUS
<1>2. size \in Nat
  BY <1>1, Ranks
<1>3. \A j, l \in kept : rank(j) = rank(l) => j = l
  BY <1>1, Ranks
<1>4. \A j \in kept : rank(j) \in 1..size
  BY <1>1, Ranks
<1>5. \A n \in 1..size : \E j \in kept : rank(j) = n
  BY <1>1, Ranks
<1> DEFINE sub == [n \in 1..size |-> q[at(n)]]
<1>6. Sublist(q, S) = sub
  BY DEF Sublist
<1>7. \A n \in 1..size : at(n) \in kept /\ rank(at(n)) = n
  BY <1>5
<1>8. \A j \in kept : at(rank(j)) = j
  BY <1>3, <1>4, <1>7
<1> HIDE DEF rank, at, size
<1>9. sub \in Seq(C) /\ DOMAIN sub = 1..size
  <2>1. \A n \in 1..size : q[at(n)] \in C
    BY <1>7
  <2> QED BY <2>1, <1>2
<1>10. \A j \in DOMAIN q : q[j] \in S => \E n \in DOMAIN sub : sub[n] = q[j]
  <2> TAKE j \in DOMAIN q
  <2> HAVE q[j] \in S
  <2>1. rank(j) \in 1..size /\ at(rank(j)) = j
    BY <1>4, <1>8
  <2>2. sub[rank(j)] = q[j]
    BY <2>1
  <2> QED BY <2>1, <2>2, <1>9
<1>11. \A n \in DOMAIN sub : \E j \in DOMAIN q : q[j] \in S /\ sub[n] = q[j]
  BY <1>7, <1>9
<1>12. ASSUME \A j, l \in DOMAIN q : q[j] = q[l] => j = l
       PROVE  \A m, n \in DOMAIN sub : sub[m] = sub[n] => m = n
  <2> TAKE m, n \in DOMAIN sub
  <2> HAVE sub[m] = sub[n]
  <2>1. at(m) = at(n)
    BY <1>7, <1>9, <1>12
  <2> QED BY <2>1, <1>7, <1>9
<1> HIDE DEF sub
<1> QED BY <1>6, <1>9, <1>10, <1>11, <1>12

-----------------------------------------------------------------------------
(* The queues *)

QueueType == outq \in Seq(Message) /\ inq \in Seq(Message)

LEMMA OtherType ==
    ASSUME NEW c \in Clients
    PROVE  [kind |-> "Other", c |-> c] \in Message /\ [kind |-> "TimerR", c |-> c] \in Message
BY DEF Message

LEMMA SignalType ==
    ASSUME NEW s \in Signals
    PROVE  [kind |-> "Signal", sig |-> s] \in Message
BY DEF Message

LEMMA WatchType ==
    ASSUME NEW c \in Clients, NEW w \in Watches(c)
    PROVE  w \in Message /\ w.kind = "Watch" /\ w.c = c
<1>1. PICK a \in Asked : w = [kind |-> "Watch", c |-> c, cmd |-> a[1], timeoutms |-> a[2]]
  BY DEF Watches
<1>2. a[1] \in WatchCmd /\ a[2] \in Timeout
  BY AskedAssumption, MaxTimeoutAssumption DEF WatchCmd, Timeout, TimerNone
<1> QED BY <1>1, <1>2 DEF Message

\* The first queue: CHOOSE has something to choose, for clients are finite.
LEMMA FirstQueueKinds ==
    ASSUME Init
    PROVE  outq \in [1..Cardinality(Clients) -> [kind : {"Other"}, c : Clients]]
<1> DEFINE n == Cardinality(Clients)
           P(q) == \A c \in Clients : Queued(q, {"Other"}, c)
<1>1. n \in Nat /\ ExistsBijection(1..n, Clients)
  BY ClientsAssumption, FS_CardinalityType
<1>2. PICK f \in [1..n -> Clients] : \A c \in Clients : \E j \in 1..n : f[j] = c
  BY <1>1 DEF ExistsBijection, Bijection, Surjection
<1> DEFINE g == [j \in 1..n |-> [kind |-> "Other", c |-> f[j]]]
<1>3. g \in [1..n -> [kind : {"Other"}, c : Clients]]
  BY <1>2
<1>4. P(g)
  BY <1>2 DEF Queued
<1> QED BY <1>3, <1>4 DEF Init

LEMMA FirstQueue ==
    ASSUME Init
    PROVE  outq \in Seq(Message)
<1>1. Cardinality(Clients) \in Nat
  BY ClientsAssumption, FS_CardinalityType
<1>2. outq \in [1..Cardinality(Clients) -> Message]
  BY FirstQueueKinds DEF Message
<1> QED BY <1>1, <1>2

\* What is taken from a queue is a message; the others stay.
LEMMA HeadType ==
    ASSUME NEW kinds, NextMsg(kinds), QueueType
    PROVE  /\ Head(inq) \in Message /\ Head(inq).kind \in kinds
           /\ inq' \in Seq(Message)
           /\ \A j \in DOMAIN inq : j = 1 \/ (j - 1 \in DOMAIN inq' /\ inq'[j - 1] = inq[j])
           /\ inq[1] = Head(inq)
BY DEF NextMsg, QueueType

LEMMA AppendKeeps ==
    ASSUME NEW q \in Seq(Message), NEW m \in Message
    PROVE  /\ Append(q, m) \in Seq(Message)
           /\ \A j \in DOMAIN q : j \in DOMAIN Append(q, m) /\ Append(q, m)[j] = q[j]
           /\ \E j \in DOMAIN Append(q, m) : Append(q, m)[j] = m
<1>1. Len(q) + 1 \in DOMAIN Append(q, m) /\ Append(q, m)[Len(q) + 1] = m
  OBVIOUS
<1> QED BY <1>1

LEMMA AppendKeepsSignals ==
    ASSUME NEW q \in Seq(Message), NEW m \in Message, NEW s, SignalQueued(q, s)
    PROVE  SignalQueued(Append(q, m), s)
BY AppendKeeps DEF SignalQueued

-----------------------------------------------------------------------------
(* Every variable keeps its type: all that TypeOK says but how far the two  *)
(* cursors go, which takes what is said of them further down.               *)

ClientType == client \in [Clients -> {"alive", "unused", "dead"}] /\ ready \subseteq Clients
TimerType ==
    /\ timers \in Seq(Clients) /\ \A j, l \in DOMAIN timers : timers[j] = timers[l] => j = l
    /\ unused \subseteq Clients
    /\ cmd \in [Clients -> WatchCmd] /\ due \in [Clients -> -1..TimerNone]
SignalSets ==
    /\ received \subseteq Signals /\ owed \subseteq Signals /\ alarm \in BOOLEAN
    /\ oldrs \subseteq Signals /\ todo \subseteq Signals /\ loaded \subseteq Signals
ThreadType ==
    /\ others \in 0..MaxOthers
    /\ quit \in {"no", "told", "ran out"}
    /\ pc \in {"top", "input", "forward", "signal", "store", "timers", "poll", "blocked",
               "interrupted", "check", "done", "died"}
PollType ==
    /\ polled \in Seq(Clients) /\ timeout \in -MaxInt-1..MaxInt
    /\ revents \subseteq Clients /\ expired \subseteq Clients
    /\ k \in Nat /\ cfd \in Nat

Types == ClientType /\ TimerType /\ QueueType /\ SignalSets /\ ThreadType /\ PollType

LEMMA TypeStays ==
    /\ ClientType /\ UNCHANGED clients => ClientType'
    /\ TimerType /\ UNCHANGED timer => TimerType'
    /\ QueueType /\ UNCHANGED <<outq, inq>> => QueueType'
    /\ SignalSets /\ UNCHANGED <<signals, forward>> => SignalSets'
    /\ PollType /\ UNCHANGED poll => PollType'
BY DEF clients, timer, signals, forward, poll, ClientType, TimerType, QueueType, SignalSets, PollType

LEMMA Constants ==
    /\ TimerNone \in Nat /\ TimerNone = MaxTimeout + 1 /\ MaxTimeout \in Nat /\ MaxOthers \in Nat
    /\ TimerNone \in -1..TimerNone /\ "Stop" \in WatchCmd
    /\ MaxInt \in Nat /\ -1 \in -MaxInt-1..MaxInt /\ 0 \in -MaxInt-1..MaxInt
BY MaxTimeoutAssumption, MaxOthersAssumption, MaxIntAssumption DEF TimerNone, WatchCmd

LEMMA TypeInit == ASSUME Init PROVE Types
<1> USE Constants
<1>1. ClientType
  BY DEF Init, ClientType
<1>4. SignalSets
  BY DEF Init, SignalSets
<1>5. ThreadType
  BY DEF Init, ThreadType
<1>2. TimerType /\ PollType
  BY DEF Init, TimerType, PollType
<1>3. QueueType
  <2>1. inq = <<>> /\ <<>> \in Seq(Message)
    BY DEF Init
  <2> QED BY <2>1, FirstQueue DEF QueueType
<1> QED BY <1>1, <1>2, <1>3, <1>4, <1>5 DEF Types

\* A set of times has a least one.
LEMMA Least ==
    ASSUME NEW T, T \subseteq Nat, T # {}
    PROVE  \E x \in T : \A y \in T : x <= y
<1>1. IsWellFoundedOn(OpToRel(<, Nat), Nat)
  BY NatLessThanWellFounded
<1>2. PICK x \in T : \A y \in T : ~(<<y, x>> \in OpToRel(<, Nat))
  BY <1>1, WFMin
<1>3. \A y \in T : ~(y < x)
  BY <1>2 DEF OpToRel
<1> QED BY <1>3

LEMMA NearestType ==
    ASSUME TimerType
    PROVE  Nearest \in -1..TimerNone
<1> DEFINE waiting == {c \in Clients : Live(c) /\ cmd[c] # "Stop"}
           T == {TimerNone} \cup { due[c] : c \in waiting }
           P(t) == \A c \in Clients : Live(c) /\ cmd[c] # "Stop" => t <= due[c]
           U == { t + 1 : t \in T }
<1>1. T \subseteq -1..TimerNone
  BY Constants DEF TimerType
<1>2. U \subseteq Nat
  BY <1>1, Constants
<1>3. TimerNone + 1 \in U
  OBVIOUS
<1>4. PICK x \in U : \A y \in U : x <= y
  <2> HIDE DEF U
  <2> QED BY <1>2, <1>3, Least
<1>5. PICK t \in T : x = t + 1
  OBVIOUS
<1>6. \A y \in T : t <= y
  <2> TAKE y \in T
  <2>1. y + 1 \in U
    OBVIOUS
  <2>2. t + 1 <= y + 1
    BY <2>1, <1>4, <1>5
  <2> HIDE DEF T, U
  <2>3. t \in Int /\ y \in Int
    BY <1>1
  <2> QED BY <2>2, <2>3
<1>7. P(t)
  BY <1>6
<1>8. Nearest \in T
  BY <1>7 DEF Nearest
<1> QED BY <1>1, <1>8

\* Whatever is assigned to it, an int is one.
LEMMA ToIntType ==
    ASSUME NEW d \in Int
    PROVE  ToInt(d) \in -MaxInt-1..MaxInt
<1> DEFINE n == 2 * MaxInt + 2  low == d % n
<1>1. MaxInt \in Nat /\ n \in Nat \ {0}
  BY Constants
<1>2. \A m \in Nat \ {0} : d % m \in 0..m-1
  OBVIOUS
<1>3. low \in 0..n-1
  <2> HIDE DEF n
  <2> QED BY <1>1, <1>2
<1>4. ToInt(d) = IF low <= MaxInt THEN low ELSE low - n
  BY DEF ToInt
<1> HIDE DEF low
<1> QED BY <1>1, <1>3, <1>4

LEMMA PollTimeoutType ==
    ASSUME TimerType
    PROVE  PollTimeout \in -MaxInt-1..MaxInt
<1>1. Nearest \in Int
  BY NearestType, Constants
<1> QED BY <1>1, ToIntType, Constants DEF PollTimeout

LEMMA TypeWorld ==
    ASSUME Types, World \/ Tick \/ FatalSignalHandler
    PROVE  Types'
<1> USE Constants DEF Types
<1>1. ASSUME NEW c \in Clients, DataArrives(c) PROVE Types'
  BY <1>1 DEF DataArrives, timer, queues, signals, forward, poll, ClientType, TimerType, QueueType,
              SignalSets, ThreadType, PollType
<1>2. ASSUME NEW c \in Clients, OtherSends(c) PROVE Types'
  <2>1. QueueType'
    <3>1. outq' = Append(outq, [kind |-> "Other", c |-> c]) /\ inq' = inq
      BY <1>2 DEF OtherSends
    <3>2. outq \in Seq(Message) /\ inq \in Seq(Message) /\ [kind |-> "Other", c |-> c] \in Message
      BY <1>2, OtherType DEF QueueType
    <3> QED BY <3>1, <3>2, AppendKeeps DEF QueueType
  <2>2. others' \in 0..MaxOthers
    <3>1. others > 0 /\ others' = others - 1
      BY <1>2 DEF OtherSends
    <3>2. others \in 0..MaxOthers
      BY DEF ThreadType
    <3> QED BY <3>1, <3>2
  <2> QED BY <1>2, <2>1, <2>2 DEF OtherSends, clients, timer, signals, forward, poll, ClientType,
              TimerType, SignalSets, ThreadType, PollType
<1>3. ASSUME NEW s \in Signals, MsgSignalHandler(s) PROVE Types'
  BY <1>3 DEF MsgSignalHandler, SetAlarm, clients, timer, queues, forward, poll, ClientType,
              TimerType, QueueType, SignalSets, ThreadType, PollType
<1>4. CASE FatalSignalHandler
  BY <1>4 DEF FatalSignalHandler, clients, timer, queues, signals, forward, poll, ClientType,
              TimerType, QueueType, SignalSets, ThreadType, PollType
<1>5. CASE Tick
  <2>1. due' \in [Clients -> -1..TimerNone]
    BY <1>5 DEF Tick, TimerType
  <2>2. timeout' \in -MaxInt-1..MaxInt
    BY <1>5 DEF Tick, PollType
  <2> QED BY <1>5, <2>1, <2>2 DEF Tick, clients, queues, signals, forward, ClientType,
              TimerType, QueueType, SignalSets, ThreadType, PollType
<1> QED BY <1>1, <1>2, <1>3, <1>4, <1>5 DEF World

LEMMA CreateTimerType ==
    ASSUME TimerType, NEW c \in Clients, CreateTimer(c)
    PROVE  TimerType'
<1>1. CASE Live(c)
  BY <1>1 DEF CreateTimer, TimerType
<1>2. CASE ~Live(c)
  <2>1. timers' = Append(timers, c) /\ UNCHANGED <<unused, cmd, due>>
    BY <1>2 DEF CreateTimer
  <2>2. timers' \in Seq(Clients)
    BY <2>1 DEF TimerType
  <2>3. \A j, l \in DOMAIN timers' : timers'[j] = timers'[l] => j = l
    BY <2>1, <1>2 DEF TimerType, Live
  <2> QED BY <2>1, <2>2, <2>3 DEF TimerType
<1> QED BY <1>1, <1>2

LEMMA TypeDispatch ==
    ASSUME Types, Dispatch
    PROVE  Types'
<1> USE Constants DEF Types
<1>1. CASE ClientDispatch
  <2> DEFINE kinds == {"TimerR", "Other"}
             c == Head(inq).c
  <2>1. NextMsg(kinds)
    BY <1>1 DEF ClientDispatch
  <2>2. c \in Clients /\ inq' \in Seq(Message)
    BY <2>1, HeadType DEF Message
  <2> HIDE DEF c
  <2>3. \/ UNCHANGED <<clients, timer, outq>>
        \/ /\ ready' \in {ready, ready \ {c}}
           /\ client' \in {client, [client EXCEPT ![c] = "unused"]}
           /\ \/ UNCHANGED <<timer, outq>>
              \/ \E w \in Watches(c) : outq' = Append(outq, w) /\ CreateTimer(c)
    BY <1>1 DEF ClientDispatch, c
  <2>4. ClientType'
    BY <2>2, <2>3 DEF ClientType, clients
  <2>5. TimerType'
    BY <2>2, <2>3, CreateTimerType DEF TimerType, timer
  <2>6. outq' \in Seq(Message)
    <3>1. outq' = outq \/ \E w \in Watches(c) : outq' = Append(outq, w)
      BY <2>3
    <3>2. outq \in Seq(Message) /\ \A w \in Watches(c) : w \in Message
      BY <2>2, WatchType DEF QueueType
    <3> QED BY <3>1, <3>2, AppendKeeps
  <2>7. SignalSets' /\ ThreadType' /\ PollType'
    BY <1>1 DEF ClientDispatch, NextMsg, signals, forward, poll, SignalSets, ThreadType, PollType
  <2> QED BY <2>2, <2>4, <2>5, <2>6, <2>7 DEF QueueType
<1>2. CASE TimerWatch
  <2> DEFINE kinds == {"Watch"}
             w == Head(inq)
  <2>1. NextMsg(kinds)
    BY <1>2 DEF TimerWatch
  <2>2. w.c \in Clients /\ w.cmd \in WatchCmd /\ w.timeoutms \in Timeout /\ inq' \in Seq(Message)
    BY <2>1, HeadType DEF Message
  <2>3. w.timeoutms \in -1..TimerNone
    BY <2>2 DEF Timeout
  <2> HIDE DEF w
  <2>4. TimerType'
    BY <1>2, <2>2, <2>3 DEF TimerWatch, TimerType, w
  <2>5. QueueType'
    BY <1>2, <2>2 DEF TimerWatch, QueueType
  <2> QED BY <1>2, <2>4, <2>5 DEF TimerWatch, NextMsg, clients, signals, forward, poll, ClientType,
              SignalSets, ThreadType, PollType
<1>3. CASE SignalDispatch
  <2> DEFINE kinds == {"Signal"}
  <2>1. NextMsg(kinds)
    BY <1>3 DEF SignalDispatch
  <2>2. QueueType'
    BY <1>3, <2>1, HeadType DEF SignalDispatch, QueueType
  <2> QED BY <1>3, <2>2 DEF SignalDispatch, NextMsg, clients, timer, forward, poll, ClientType,
              TimerType, SignalSets, ThreadType, PollType
<1> QED BY <1>1, <1>2, <1>3 DEF Dispatch

LEMMA TypeDelete ==
    ASSUME Types, DeleteUnusedMsgers
    PROVE  Types'
<1> USE Constants DEF Types
<1> DEFINE dying == { c \in Clients : client[c] = "unused" /\ ~Queued(outq, {"TimerR", "Other"}, c) }
<1>1. /\ client' = [c \in Clients |-> IF c \in dying THEN "dead" ELSE client[c]]
      /\ ready' = ready \ dying
      /\ pc' = "forward" /\ UNCHANGED <<queues, signals, quit, forward, poll>>
  BY DEF DeleteUnusedMsgers
<1>2. PICK later \in SUBSET dying :
        LET gone == { c \in unused \cup later : DeletableTimer(c) }
        IN  /\ timers' = Sublist(timers, Clients \ gone)
            /\ unused' = (unused \cup { c \in dying : Live(c) }) \ gone
            /\ cmd' = [c \in Clients |-> IF c \in gone THEN "Stop" ELSE cmd[c]]
            /\ due' = [c \in Clients |-> IF c \in gone THEN TimerNone ELSE due[c]]
  BY DEF DeleteUnusedMsgers
<1> DEFINE gone == { c \in unused \cup later : DeletableTimer(c) }
<1>3. timers' \in Seq(Clients) /\ \A j, l \in DOMAIN timers' : timers'[j] = timers'[l] => j = l
  <2> HIDE DEF gone
  <2>1. timers' = Sublist(timers, Clients \ gone)
    BY <1>2 DEF gone
  <2>2. timers \in Seq(Clients) /\ \A j, l \in DOMAIN timers : timers[j] = timers[l] => j = l
    BY DEF TimerType
  <2>3. Sublist(timers, Clients \ gone) \in Seq(Clients)
    BY <2>2, SublistProperties
  <2>4. \A j, l \in DOMAIN Sublist(timers, Clients \ gone) :
            Sublist(timers, Clients \ gone)[j] = Sublist(timers, Clients \ gone)[l] => j = l
    BY <2>2, SublistProperties
  <2> QED BY <2>1, <2>3, <2>4
<1>4. unused' \subseteq Clients
  BY <1>2 DEF TimerType
<1>5. cmd' \in [Clients -> WatchCmd] /\ due' \in [Clients -> -1..TimerNone]
  <2> HIDE DEF gone
  <2>1. /\ cmd' = [c \in Clients |-> IF c \in gone THEN "Stop" ELSE cmd[c]]
        /\ due' = [c \in Clients |-> IF c \in gone THEN TimerNone ELSE due[c]]
    BY <1>2 DEF gone
  <2> QED BY <2>1 DEF TimerType
<1>6. TimerType'
  BY <1>3, <1>4, <1>5 DEF TimerType
<1>7. ClientType'
  <2> HIDE DEF dying
  <2> QED BY <1>1 DEF ClientType
<1> QED BY <1>1, <1>6, <1>7 DEF queues, signals, forward, poll, QueueType, SignalSets, ThreadType,
           PollType

LEMMA TypeForward ==
    ASSUME Types, ForwardReceivedSignals
    PROVE  Types'
<1> USE DEF Types, clients, timer, poll
<1>1. CASE ReadSignals
  BY <1>1 DEF ReadSignals, queues, signals, ClientType, TimerType, QueueType, SignalSets, ThreadType,
              PollType
<1>2. CASE ForwardSignal
  <2>1. QueueType'
    BY <1>2, SignalType, AppendKeeps DEF ForwardSignal, QueueType, SignalSets
  <2> QED BY <1>2, <2>1 DEF ForwardSignal, signals, ClientType, TimerType, SignalSets, ThreadType,
              PollType
<1>3. CASE ClearSignals
  BY <1>3 DEF ClearSignals, Cleared, queues, ClientType, TimerType, QueueType, SignalSets,
              ThreadType, PollType
<1>4. CASE StoreSignals
  BY <1>4 DEF StoreSignals, queues, ClientType, TimerType, QueueType, SignalSets, ThreadType,
              PollType
<1> QED BY <1>1, <1>2, <1>3, <1>4 DEF ForwardReceivedSignals

LEMMA TypeWait ==
    ASSUME Types, Wait
    PROVE  Types'
<1> USE Constants DEF Types
<1>1. CASE RunTimers
  <2>1. PollType'
    <3>1. \/ polled' = PollList /\ timeout' = PollTimeout /\ UNCHANGED <<revents, expired, k, cfd>>
          \/ UNCHANGED poll
      BY <1>1 DEF RunTimers, RanOut
    <3>2. PollList \in Seq(Clients)
      BY SublistProperties DEF PollList, TimerType
    <3> QED BY <3>1, <3>2, PollTimeoutType DEF poll, PollType
  <2>2. ThreadType'
    BY <1>1 DEF RunTimers, RanOut, queues, ThreadType
  <2> QED BY <1>1, <2>1, <2>2 DEF RunTimers, clients, timer, queues, signals, forward, ClientType,
              TimerType, QueueType, SignalSets
<1>2. CASE Poll
  BY <1>2 DEF Poll, clients, timer, queues, signals, forward, poll, ClientType, TimerType, QueueType,
              SignalSets, ThreadType, PollType
<1>3. CASE PollReturn
  <2>1. revents' \subseteq Clients /\ expired' \subseteq Clients
    BY <1>3 DEF PollReturn, ClientType
  <2> QED BY <1>3, <2>1 DEF PollReturn, clients, timer, queues, signals, forward, ClientType,
              TimerType, QueueType, SignalSets, ThreadType, PollType
<1>4. CASE CheckPollTimer
  <2> DEFINE c == timers[k]
  <2>1. c \in Clients
    BY <1>4 DEF CheckPollTimer, TimerType
  <2>2. \/ /\ outq' = Append(outq, [kind |-> "TimerR", c |-> c])
           /\ unused' = unused \cup {c}
           /\ cmd' = [cmd EXCEPT ![c] = "Stop"]
           /\ due' = [due EXCEPT ![c] = TimerNone]
        \/ UNCHANGED <<outq, unused, cmd, due>>
    BY <1>4 DEF CheckPollTimer
  <2>3. cfd' = NextFd(c) /\ k' = k + 1
        /\ UNCHANGED <<clients, timers, inq, others, signals, quit, pc, forward,
                       polled, timeout, revents, expired>>
    BY <1>4 DEF CheckPollTimer
  <2>4. cfd' \in Nat /\ k' \in Nat
    BY <2>3 DEF NextFd, PollType
  <2> HIDE DEF c
  <2>5. TimerType'
    BY <2>1, <2>2, <2>3 DEF TimerType
  <2>6. QueueType'
    <3>1. outq \in Seq(Message) /\ inq' \in Seq(Message)
      BY <2>3, Zenon DEF QueueType
    <3>2. CASE outq' = Append(outq, [kind |-> "TimerR", c |-> c])
      BY <2>1, <3>1, <3>2, OtherType, AppendKeeps, Zenon DEF QueueType
    <3>3. CASE outq' = outq
      BY <3>1, <3>3, Zenon DEF QueueType
    <3> QED BY <2>2, <3>2, <3>3, Zenon
  <2> QED BY <2>3, <2>4, <2>5, <2>6 DEF clients, signals, forward, ClientType, SignalSets,
              ThreadType, PollType
<1>5. CASE CheckDone
  <2>1. <<>> \in Seq(Clients)
    OBVIOUS
  <2>2. PollType'
    BY <1>5, <2>1 DEF CheckDone, PollType
  <2>3. ThreadType'
    BY <1>5 DEF CheckDone, queues, ThreadType
  <2> QED BY <1>5, <2>2, <2>3, TypeStays DEF CheckDone, queues
<1> QED BY <1>1, <1>2, <1>3, <1>4, <1>5 DEF Wait

LEMMA TypeStep ==
    ASSUME Types, [Next]_vars
    PROVE  Types'
<1>1. CASE Loop
  <2>1. <<>> \in Seq(Message)
    OBVIOUS
  <2> QED BY <1>1, <2>1 DEF Types, Loop, clients, timer, queues, signals, forward, poll,
              ClientType, TimerType, QueueType, SignalSets, ThreadType, PollType
<1>2. CASE UNCHANGED vars
  BY <1>2 DEF Types, vars, clients, timer, queues, signals, forward, poll,
              ClientType, TimerType, QueueType, SignalSets, ThreadType, PollType
<1> QED BY <1>1, <1>2, TypeWorld, TypeDispatch, TypeDelete, TypeForward, TypeWait
           DEF Next, Thread, Terminated

LEMMA TypesKept == Spec => []Types
BY TypeInit, TypeStep, PTL DEF Spec

-----------------------------------------------------------------------------
(***************************************************************************)
(* No signal is lost.  SignalKept is not inductive: ClearSignals drops     *)
(* what is in oldrs, and Loop what is in inq.  What is added says that     *)
(* while signals are forwarded each one read was recorded and is still to  *)
(* be sent or already queued, and that the queues are swapped when inq is  *)
(* empty.                                                                  *)
(***************************************************************************)
Forwarding ==
    /\ todo \subseteq oldrs /\ oldrs \subseteq received /\ received \subseteq Signals
    /\ pc \notin {"signal", "died"} => oldrs = {}
    /\ pc # "store"
    /\ \A s \in oldrs \ todo : SignalQueued(outq, s)

Dispatched == pc \notin {"input", "died"} => inq = <<>>

Known(s) == s \in received \/ SignalQueued(outq, s) \/ SignalQueued(inq, s)
OwedKnown == \A s \in owed : Known(s)

SignalInv == Dispatched /\ Forwarding /\ OwedKnown

LEMMA SignalInit == ASSUME Init PROVE SignalInv
BY DEF Init, SignalInv, Dispatched, Forwarding, OwedKnown

\* A signal in the queue is still there when a message of another kind, or of
\* another signal, has been taken.
LEMMA TakenOther ==
    ASSUME NEW kinds, NextMsg(kinds), QueueType, NEW s, SignalQueued(inq, s),
           ~(Head(inq).kind = "Signal" /\ Head(inq).sig = s)
    PROVE  SignalQueued(inq', s)
<1>1. PICK j \in DOMAIN inq : inq[j].kind = "Signal" /\ inq[j].sig = s
  BY DEF SignalQueued
<1>2. j # 1
  BY <1>1, HeadType
<1>3. j - 1 \in DOMAIN inq' /\ inq'[j - 1] = inq[j]
  BY <1>2, HeadType
<1> QED BY <1>1, <1>3 DEF SignalQueued

LEMMA SignalWorld ==
    ASSUME Types, SignalInv, World \/ Tick \/ FatalSignalHandler
    PROVE  SignalInv'
<1> USE DEF SignalInv, Types
<1>1. CASE (\E c \in Clients : DataArrives(c)) \/ Tick
  BY <1>1 DEF DataArrives, Tick, queues, signals, forward, Dispatched, Forwarding,
              OwedKnown, Known, SignalQueued
<1>2. ASSUME NEW c \in Clients, OtherSends(c) PROVE SignalInv'
  <2> DEFINE m == [kind |-> "Other", c |-> c]
  <2>1. outq' = Append(outq, m) /\ m \in Message
    BY <1>2, OtherType DEF OtherSends
  <2>3. \A t : SignalQueued(outq, t) => SignalQueued(outq, t)'
    BY <2>1, AppendKeepsSignals DEF QueueType, SignalQueued
  <2> QED BY <1>2, <2>3 DEF OtherSends, signals, forward, Dispatched, Forwarding,
                                  OwedKnown, Known, SignalQueued
<1>3. ASSUME NEW s \in Signals, MsgSignalHandler(s) PROVE SignalInv'
  BY <1>3 DEF MsgSignalHandler, queues, forward, Dispatched, Forwarding,
              OwedKnown, Known, SignalQueued, Ended
<1>4. CASE FatalSignalHandler
  BY <1>4 DEF FatalSignalHandler, queues, signals, forward, Dispatched, Forwarding,
              OwedKnown, Known, SignalQueued
<1> QED BY <1>1, <1>2, <1>3, <1>4 DEF World

\* The messages a dispatch sends are appended; a signal taken is no longer owed.
LEMMA SignalDispatching ==
    ASSUME Types, SignalInv, Dispatch
    PROVE  SignalInv'
<1> USE DEF SignalInv, Types
<1>1. CASE ClientDispatch
  <2> DEFINE kinds == {"TimerR", "Other"}
  <2>1. NextMsg(kinds)
    BY <1>1 DEF ClientDispatch
  <2>2. Head(inq).kind # "Signal" /\ Head(inq).c \in Clients
    BY <2>1, HeadType DEF Message
  <2>3. \A t : SignalQueued(outq, t) => SignalQueued(outq', t)
    <3>1. CASE outq' = outq
      BY <3>1 DEF QueueType
    <3>2. CASE \E w \in Watches(Head(inq).c) : outq' = Append(outq, w)
      BY <3>2, <2>2, WatchType, AppendKeeps, AppendKeepsSignals DEF QueueType
    <3> QED BY <1>1, <3>1, <3>2 DEF ClientDispatch
  <2>4. \A t : SignalQueued(inq, t) => SignalQueued(inq', t)
    BY <2>1, <2>2, TakenOther
  <2>5. pc = "input" /\ UNCHANGED <<received, owed, pc, forward>>
    BY <1>1 DEF ClientDispatch, NextMsg, signals
  <2>6. \A t : Known(t) => Known(t)'
    BY <2>3, <2>4, <2>5 DEF Known, SignalQueued
  <2> QED BY <2>3, <2>4, <2>5, <2>6 DEF Dispatched, Forwarding, OwedKnown, forward, SignalQueued
<1>2. CASE TimerWatch
  <2> DEFINE kinds == {"Watch"}
  <2>1. NextMsg(kinds)
    BY <1>2 DEF TimerWatch
  <2>2. Head(inq).kind # "Signal"
    BY <2>1, HeadType
  <2>3. pc = "input" /\ UNCHANGED <<outq, received, owed, pc, forward>>
    BY <1>2 DEF TimerWatch, NextMsg, signals
  <2>4. \A t : SignalQueued(inq, t) => SignalQueued(inq', t)
    BY <2>1, <2>2, TakenOther
  <2>5. \A t : Known(t) => Known(t)'
    BY <2>3, <2>4 DEF Known, SignalQueued
  <2> QED BY <2>3, <2>4, <2>5 DEF Dispatched, Forwarding, OwedKnown, forward, SignalQueued
<1>3. CASE SignalDispatch
  <2> DEFINE kinds == {"Signal"}
  <2>1. NextMsg(kinds)
    BY <1>3 DEF SignalDispatch
  <2>2. pc = "input" /\ UNCHANGED <<outq, received, pc, forward>> /\ owed' = owed \ {Head(inq).sig}
    BY <1>3 DEF SignalDispatch, NextMsg
  <2>4. \A t : t # Head(inq).sig /\ SignalQueued(inq, t) => SignalQueued(inq', t)
    BY <2>1, TakenOther
  <2>5. \A t : t # Head(inq).sig /\ Known(t) => Known(t)'
    BY <2>2, <2>4 DEF Known, SignalQueued
  <2> QED BY <2>2, <2>5 DEF Dispatched, Forwarding, OwedKnown, forward, SignalQueued
<1> QED BY <1>1, <1>2, <1>3 DEF Dispatch

\* What is read from s_ReceivedSignals stays there until all of it is queued.
LEMMA SignalForwarding ==
    ASSUME Types, SignalInv, AtomicClear, ForwardReceivedSignals
    PROVE  SignalInv'
<1> USE DEF SignalInv, Types
<1>1. CASE ReadSignals
  BY <1>1 DEF ReadSignals, queues, signals, Dispatched, Forwarding, OwedKnown, Known,
              SignalQueued
<1>2. CASE ForwardSignal
  <2>1. PICK s \in todo : /\ outq' = Append(outq, [kind |-> "Signal", sig |-> s])
                          /\ todo' = todo \ {s}
    BY <1>2 DEF ForwardSignal
  <2>2. [kind |-> "Signal", sig |-> s] \in Message
    BY SignalType DEF Forwarding
  <2>4. \A t : SignalQueued(outq, t) => SignalQueued(outq', t)
    BY <2>1, <2>2, AppendKeepsSignals DEF QueueType
  <2>5. SignalQueued(outq', s)
    BY <2>1, <2>2, AppendKeeps DEF QueueType, SignalQueued
  <2>6. UNCHANGED <<inq, received, owed, pc, oldrs>> /\ pc = "signal"
    BY <1>2 DEF ForwardSignal, signals
  <2>7. \A t : Known(t) => Known(t)'
    BY <2>4, <2>6 DEF Known, SignalQueued
  <2>8. \A t \in oldrs \ todo' : SignalQueued(outq', t)
    BY <2>1, <2>4, <2>5 DEF Forwarding
  <2>9. Forwarding'
    BY <2>1, <2>6, <2>8 DEF Forwarding, SignalQueued
  <2> QED BY <2>6, <2>7, <2>9 DEF Dispatched, OwedKnown
<1>3. CASE ClearSignals
  <2>1. /\ todo = {} /\ oldrs' = {} /\ pc = "signal" /\ pc' = "timers" /\ received' = Cleared
        /\ UNCHANGED <<inq, outq, owed, todo>>
    BY <1>3 DEF ClearSignals, queues
  <2>2. received' = received \ oldrs
    BY <2>1 DEF Cleared, Forwarding
  <2>3. \A t : Known(t) => Known(t)'
    BY <2>1, <2>2 DEF Known, Forwarding, SignalQueued
  <2> QED BY <2>1, <2>2, <2>3 DEF Dispatched, Forwarding, OwedKnown
<1>4. CASE StoreSignals
  BY <1>4 DEF StoreSignals, Forwarding
<1> QED BY <1>1, <1>2, <1>3, <1>4 DEF ForwardReceivedSignals

LEMMA SignalWaiting ==
    ASSUME Types, SignalInv, Wait
    PROVE  SignalInv'
<1> USE DEF SignalInv, Types
<1>1. CASE RunTimers
  BY <1>1 DEF RunTimers, RanOut, queues, signals, forward, Dispatched, Forwarding,
              OwedKnown, Known, SignalQueued
<1>2. CASE Poll \/ PollReturn \/ CheckDone
  BY <1>2 DEF Poll, PollReturn, PollReturns, CheckDone, queues, signals, forward, QueueType,
              Dispatched, Forwarding, OwedKnown, Known, SignalQueued
<1>3. CASE CheckPollTimer
  <2>1. UNCHANGED <<inq, received, owed, pc, oldrs, todo>> /\ pc = "check"
    BY <1>3 DEF CheckPollTimer, signals, forward
  <2>2. \A t : SignalQueued(outq, t) => SignalQueued(outq', t)
    <3>1. CASE outq' = outq
      BY <3>1 DEF QueueType
    <3>2. CASE \E c \in Clients : outq' = Append(outq, [kind |-> "TimerR", c |-> c])
      BY <3>2, OtherType, AppendKeeps, AppendKeepsSignals DEF QueueType
    <3>3. k \in DOMAIN timers => timers[k] \in Clients
      BY DEF TimerType
    <3> QED BY <1>3, <3>1, <3>2, <3>3 DEF CheckPollTimer
  <2>3. \A t : Known(t) => Known(t)'
    BY <2>1, <2>2 DEF Known, SignalQueued
  <2> QED BY <2>1, <2>2, <2>3 DEF Dispatched, Forwarding, OwedKnown, SignalQueued
<1> QED BY <1>1, <1>2, <1>3 DEF Wait

LEMMA SignalStep ==
    ASSUME Types, SignalInv, AtomicClear, [Next]_vars
    PROVE  SignalInv'
<1> USE DEF SignalInv
<1>1. CASE Loop
  <2>1. pc = "top" /\ inq = <<>> /\ oldrs = {} /\ UNCHANGED <<received, owed, oldrs, todo>>
    BY <1>1 DEF Loop, signals, forward, Dispatched, Forwarding
  <2>2. \/ pc' = "done" /\ UNCHANGED <<outq, inq>>
        \/ pc' = "input" /\ inq' = outq /\ outq' = <<>>
    BY <1>1 DEF Loop, queues
  <2>3. \A s : Known(s) => Known(s)'
    BY <2>1, <2>2 DEF Known, SignalQueued
  <2> QED BY <2>1, <2>2, <2>3 DEF Dispatched, Forwarding, OwedKnown
<1>2. CASE DeleteUnusedMsgers
  BY <1>2 DEF DeleteUnusedMsgers, queues, signals, forward, Dispatched, Forwarding, OwedKnown, Known,
              SignalQueued
<1>3. CASE UNCHANGED vars
  BY <1>3 DEF vars, queues, signals, forward, Dispatched, Forwarding, OwedKnown, Known, SignalQueued
<1> QED BY <1>1, <1>2, <1>3, SignalWorld, SignalDispatching, SignalForwarding, SignalWaiting
           DEF Next, Thread, Terminated

\* No signal is lost between its arrival and the application's being told of it,
\* however many arrive and wherever they interrupt the thread, in a build that
\* clears s_ReceivedSignals in one instruction.
THEOREM SignalsKept == AtomicClear /\ Spec => []SignalKept
<1> SUFFICES ASSUME AtomicClear PROVE Spec => []SignalKept
  OBVIOUS
<1>1. SignalInv => SignalKept
  BY DEF SignalInv, OwedKnown, Known, SignalKept
<1>2. Spec => []Types
  BY TypesKept
<1>3. Types /\ SignalInv /\ [Next]_vars => SignalInv'
  BY SignalStep
<1> QED BY <1>1, <1>2, <1>3, SignalInit, PTL DEF Spec

-----------------------------------------------------------------------------
(***************************************************************************)
(* A client's request finds its Timer.  The invariant counts the requests  *)
(* of both queues, for those in outq are in inq when the loop has swapped  *)
(* them, and again says when inq is empty.                                 *)
(***************************************************************************)
Requested(c) == Queued(outq, {"Watch"}, c) \/ Queued(inq, {"Watch"}, c)
WatchInv == Dispatched /\ \A c \in Clients : Requested(c) => Live(c)

LEMMA QueuedAppended ==
    ASSUME NEW q \in Seq(Message), NEW m \in Message, NEW kinds, NEW c, Queued(Append(q, m), kinds, c)
    PROVE  Queued(q, kinds, c) \/ (m.kind \in kinds /\ m.c = c)
<1>1. PICK j \in DOMAIN Append(q, m) : Append(q, m)[j].kind \in kinds /\ Append(q, m)[j].c = c
  BY DEF Queued
<1>2. (j \in DOMAIN q /\ Append(q, m)[j] = q[j]) \/ Append(q, m)[j] = m
  OBVIOUS
<1> QED BY <1>1, <1>2 DEF Queued

LEMMA QueuedTaken ==
    ASSUME NEW kinds, NextMsg(kinds), QueueType, NEW ks, NEW c, Queued(inq', ks, c)
    PROVE  Queued(inq, ks, c)
<1>1. PICK j \in DOMAIN inq' : inq'[j].kind \in ks /\ inq'[j].c = c
  BY DEF Queued
<1>2. inq' = Tail(inq) /\ inq # <<>> /\ inq \in Seq(Message)
  BY DEF NextMsg, QueueType
<1>3. j + 1 \in DOMAIN inq /\ inq'[j] = inq[j + 1]
  BY <1>2
<1> QED BY <1>1, <1>3 DEF Queued

LEMMA WatchInit == ASSUME Init PROVE WatchInv
<1>1. outq \in [1..Cardinality(Clients) -> [kind : {"Other"}, c : Clients]] /\ inq = <<>>
  BY FirstQueueKinds DEF Init
<1>2. \A c : ~Requested(c)
  BY <1>1 DEF Requested, Queued
<1> QED BY <1>1, <1>2 DEF WatchInv, Dispatched

\* A message that is not a Watch asks nothing of a Timer.
LEMMA WatchAppend ==
    ASSUME Types, WatchInv, NEW m \in Message, m.kind # "Watch",
           outq' = Append(outq, m), UNCHANGED <<timers, inq, pc>>
    PROVE  WatchInv'
<1>1. \A c \in Clients : Requested(c)' => Requested(c)
  BY QueuedAppended DEF Types, QueueType, Requested
<1> QED BY <1>1 DEF WatchInv, Dispatched, Live

LEMMA WatchDispatching ==
    ASSUME Types, WatchInv, Dispatch
    PROVE  WatchInv'
<1> USE DEF Types
<1>1. CASE ClientDispatch
  <2> DEFINE kinds == {"TimerR", "Other"}
  <2>1. NextMsg(kinds) /\ pc' = "input"
    BY <1>1 DEF ClientDispatch, NextMsg
  <2>2. PICK c \in Clients : c = Head(inq).c
    BY <2>1, HeadType DEF Message
  <2>3. \A d : Queued(inq', {"Watch"}, d) => Queued(inq, {"Watch"}, d)
    BY <2>1, QueuedTaken
  <2>4. CASE UNCHANGED <<timers, outq>>
    BY <2>1, <2>3, <2>4 DEF WatchInv, Requested, Dispatched, Live
  <2>5. ASSUME NEW w \in Watches(c), outq' = Append(outq, w), CreateTimer(c) PROVE WatchInv'
    <3>1. w \in Message /\ w.kind = "Watch" /\ w.c = c
      BY <2>2, WatchType
    <3>2. \A d : Queued(outq', {"Watch"}, d) => Queued(outq, {"Watch"}, d) \/ d = c
      BY <2>5, <3>1, QueuedAppended DEF QueueType
    <3>3. Live(c)' /\ \A d : Live(d) => Live(d)'
      <4>1. CASE Live(c)
        <5>1. timers' = timers
          BY <2>5, <4>1 DEF CreateTimer
        <5> QED BY <4>1, <5>1 DEF Live
      <4>2. CASE ~Live(c)
        <5>1. timers' = Append(timers, c) /\ timers \in Seq(Clients)
          BY <2>5, <4>2 DEF CreateTimer, TimerType
        <5>2. Len(timers) + 1 \in DOMAIN timers' /\ timers'[Len(timers) + 1] = c
          BY <5>1, <2>2
        <5>3. \A j \in DOMAIN timers : j \in DOMAIN timers' /\ timers'[j] = timers[j]
          BY <5>1, <2>2
        <5>4. Live(c)'
          BY <5>2 DEF Live
        <5>5. ASSUME NEW d, Live(d) PROVE Live(d)'
          BY <5>3, <5>5 DEF Live
        <5> QED BY <5>4, <5>5
      <4> QED BY <4>1, <4>2
    <3>4. \A d : Requested(d)' => Requested(d) \/ d = c
      BY <2>3, <3>2 DEF Requested, Queued
    <3>5. \A d \in Clients : Requested(d)' => Live(d)'
      BY <3>3, <3>4 DEF WatchInv
    <3> QED BY <2>1, <3>5 DEF WatchInv, Dispatched
  <2> QED BY <1>1, <2>2, <2>4, <2>5 DEF ClientDispatch, timer
<1>2. CASE TimerWatch \/ SignalDispatch
  <2>1. PICK kinds \in {{"Watch"}, {"Signal"}} : NextMsg(kinds)
    BY <1>2 DEF TimerWatch, SignalDispatch
  <2>2. \A d : Queued(inq', {"Watch"}, d) => Queued(inq, {"Watch"}, d)
    BY <2>1, QueuedTaken
  <2>3. UNCHANGED <<timers, outq, pc>> /\ pc = "input"
    BY <1>2 DEF TimerWatch, SignalDispatch, NextMsg, timer
  <2> QED BY <2>2, <2>3 DEF WatchInv, Requested, Dispatched, Live
<1> QED BY <1>1, <1>2 DEF Dispatch

\* DeleteUnusedMsgers spares the Timers that have a request queued.
LEMMA WatchDeleting ==
    ASSUME Types, WatchInv, DeleteUnusedMsgers
    PROVE  WatchInv'
<1>1. inq = <<>> /\ UNCHANGED <<inq, outq>> /\ pc' = "forward"
  BY DEF DeleteUnusedMsgers, queues
<1>2. PICK S : timers' = Sublist(timers, Clients \ { c \in S : DeletableTimer(c) })
  BY DEF DeleteUnusedMsgers
<1>3. ASSUME NEW c \in Clients, Requested(c)' PROVE Live(c)'
  <2>1. Queued(outq, {"Watch"}, c)
    BY <1>1, <1>3 DEF Requested, Queued
  <2>2. PICK j \in DOMAIN timers : timers[j] = c
    BY <2>1 DEF WatchInv, Requested, Live
  <2>3. c \in Clients \ { d \in S : DeletableTimer(d) }
    BY <2>1 DEF DeletableTimer
  <2> DEFINE rest == Clients \ { d \in S : DeletableTimer(d) }
  <2>4. timers' = Sublist(timers, rest) /\ c \in rest
    BY <1>2, <2>3
  <2> HIDE DEF rest
  <2>5. timers \in Seq(Clients)
    BY DEF Types, TimerType
  <2>6. \E n \in DOMAIN Sublist(timers, rest) : Sublist(timers, rest)[n] = timers[j]
    BY <2>2, <2>4, <2>5, SublistProperties
  <2> QED BY <2>2, <2>4, <2>6 DEF Live
<1> QED BY <1>1, <1>3 DEF WatchInv, Dispatched

LEMMA WatchForwarding ==
    ASSUME Types, WatchInv, ForwardReceivedSignals
    PROVE  WatchInv'
<1>1. CASE ForwardSignal
  <2>1. PICK s \in todo : outq' = Append(outq, [kind |-> "Signal", sig |-> s])
    BY <1>1 DEF ForwardSignal
  <2>2. [kind |-> "Signal", sig |-> s] \in Message /\ [kind |-> "Signal", sig |-> s].kind # "Watch"
    BY SignalType DEF Types, SignalSets
  <2>3. UNCHANGED <<timers, inq, pc>>
    BY <1>1 DEF ForwardSignal, timer
  <2> QED BY <2>1, <2>2, <2>3, WatchAppend
<1>2. CASE ReadSignals \/ ClearSignals \/ StoreSignals
  <2>1. UNCHANGED <<timers, outq, inq>> /\ pc \notin {"input", "died"}
    BY <1>2 DEF ReadSignals, ClearSignals, StoreSignals, timer, queues
  <2>2. \A c : (Requested(c) => Live(c)) => (Requested(c) => Live(c))'
    BY <2>1 DEF Requested, Live, Queued
  <2> QED BY <2>1, <2>2 DEF WatchInv, Dispatched
<1> QED BY <1>1, <1>2 DEF ForwardReceivedSignals

LEMMA WatchWaiting ==
    ASSUME Types, WatchInv, Wait
    PROVE  WatchInv'
<1>1. CASE CheckPollTimer
  <2>1. UNCHANGED <<timers, inq, pc>> /\ pc = "check"
    BY <1>1 DEF CheckPollTimer
  <2>2. k \in DOMAIN timers /\ timers[k] \in Clients
    BY <1>1 DEF CheckPollTimer, Types, TimerType
  <2>3. CASE outq' = outq
    BY <2>1, <2>3 DEF WatchInv, Dispatched, Requested, Live
  <2>4. CASE outq' = Append(outq, [kind |-> "TimerR", c |-> timers[k]])
    BY <2>1, <2>2, <2>4, OtherType, WatchAppend
  <2> QED BY <1>1, <2>3, <2>4 DEF CheckPollTimer
<1>2. CASE RunTimers \/ Poll \/ PollReturn \/ CheckDone
  <2>1. UNCHANGED <<timers, outq, inq>> /\ pc \notin {"input", "died"}
    BY <1>2 DEF RunTimers, Poll, PollReturn, PollReturns, CheckDone, timer, queues
  <2>2. \A c : (Requested(c) => Live(c)) => (Requested(c) => Live(c))'
    BY <2>1 DEF Requested, Live, Queued
  <2> QED BY <2>1, <2>2 DEF WatchInv, Dispatched
<1> QED BY <1>1, <1>2 DEF Wait

LEMMA WatchWorld ==
    ASSUME Types, WatchInv, World \/ Tick \/ FatalSignalHandler
    PROVE  WatchInv'
<1>1. ASSUME NEW c \in Clients, OtherSends(c) PROVE WatchInv'
  <2>1. outq' = Append(outq, [kind |-> "Other", c |-> c]) /\ UNCHANGED <<timers, inq, pc>>
    BY <1>1 DEF OtherSends, timer
  <2> QED BY <2>1, OtherType, WatchAppend
<1>2. CASE (\E c \in Clients : DataArrives(c)) \/ (\E s \in Signals : MsgSignalHandler(s))
           \/ Tick \/ FatalSignalHandler
  <2>1. UNCHANGED <<timers, outq, inq>>
    BY <1>2 DEF DataArrives, MsgSignalHandler, Tick, FatalSignalHandler, timer, queues
  <2>2. pc' = pc \/ pc' = "died" \/ (pc = "blocked" /\ pc' = "interrupted")
    BY <1>2 DEF DataArrives, MsgSignalHandler, Tick, FatalSignalHandler
  <2>3. \A c : (Requested(c) => Live(c)) => (Requested(c) => Live(c))'
    BY <2>1 DEF Requested, Live, Queued
  <2> QED BY <2>1, <2>2, <2>3 DEF WatchInv, Dispatched
<1> QED BY <1>1, <1>2 DEF World

LEMMA WatchStep ==
    ASSUME Types, WatchInv, [Next]_vars
    PROVE  WatchInv'
<1>1. CASE Loop
  <2>1. pc = "top" /\ inq = <<>> /\ timers' = timers
    BY <1>1 DEF Loop, timer, WatchInv, Dispatched
  <2>2. \/ pc' = "done" /\ UNCHANGED <<outq, inq>>
        \/ pc' = "input" /\ inq' = outq /\ outq' = <<>>
    BY <1>1 DEF Loop, queues
  <2>3. \A c : Requested(c)' => Requested(c)
    BY <2>1, <2>2 DEF Requested, Queued
  <2> QED BY <2>1, <2>2, <2>3 DEF WatchInv, Dispatched, Live
<1>2. CASE UNCHANGED vars
  BY <1>2 DEF vars, timer, queues, WatchInv, Dispatched, Requested, Live
<1> QED BY <1>1, <1>2, WatchWorld, WatchDispatching, WatchDeleting, WatchForwarding, WatchWaiting
           DEF Next, Thread, Terminated

\* What a client asks of its Timer is heard: though firing marks the Timer unused
\* and DeleteUnusedMsgers deletes unused Timers, it is there when the request is
\* dispatched.
THEOREM RequestsHeard == Spec => []WatchKept
<1>1. WatchInv => WatchKept
  BY DEF WatchInv, Requested, WatchKept
<1>2. Spec => []Types
  BY TypesKept
<1>3. Types /\ WatchInv /\ [Next]_vars => WatchInv'
  BY WatchStep
<1> QED BY <1>1, <1>2, <1>3, WatchInit, PTL DEF Spec

-----------------------------------------------------------------------------
(***************************************************************************)
(* A client is told only for its own reason.  CheckPollTimers walks        *)
(* _timers and the descriptors polled with one cursor each, and tells them *)
(* apart by _cmd alone.  What is added says that the cursors stay in step: *)
(* for each Timer not yet passed that watches a descriptor, that           *)
(* descriptor is as far from the one cursor as there are such Timers       *)
(* between it and the other.                                               *)
(***************************************************************************)
Watched(i, j) == { l \in i..j : HasFd(timers[l]) }

Aligned ==
    \A j \in DOMAIN timers : j >= k /\ HasFd(timers[j]) =>
        /\ cfd + Cardinality(Watched(k, j - 1)) \in DOMAIN polled
        /\ polled[cfd + Cardinality(Watched(k, j - 1))] = timers[j]

PairInv ==
    /\ pc \in {"poll", "blocked", "interrupted"} => polled = PollList
    /\ pc = "check" => k \in Nat \ {0} /\ Aligned

\* An element of a sublist is where its rank says.
LEMMA SublistAt ==
    ASSUME NEW C, NEW q \in Seq(C), NEW S, NEW j \in DOMAIN q, q[j] \in S
    PROVE  LET n == Cardinality({ i \in 1..j : q[i] \in S })
           IN  n \in DOMAIN Sublist(q, S) /\ Sublist(q, S)[n] = q[j]
<1> DEFINE kept == { l \in DOMAIN q : q[l] \in S }
           rank(l) == Cardinality({ i \in kept : i <= l })
           at(n) == CHOOSE l \in kept : rank(l) = n
           size == Cardinality(kept)
<1>1. kept \in SUBSET (1..Len(q)) /\ Len(q) \in Nat /\ DOMAIN q = 1..Len(q) /\ j \in kept
  OBVIOUS
<1>2. \A l, m \in kept : rank(l) = rank(m) => l = m
  BY <1>1, Ranks
<1>3. rank(j) \in 1..size
  BY <1>1, Ranks
<1>4. at(rank(j)) = j
  BY <1>1, <1>2
<1>5. { i \in kept : i <= j } = { i \in 1..j : q[i] \in S }
  BY <1>1
<1> DEFINE sub == [n \in 1..size |-> q[at(n)]]
<1>6. Sublist(q, S) = sub
  BY DEF Sublist
<1>7. rank(j) = Cardinality({ i \in 1..j : q[i] \in S })
  BY <1>5
<1> HIDE DEF rank, at, size, kept
<1>8. rank(j) \in DOMAIN sub /\ sub[rank(j)] = q[j]
  BY <1>3, <1>4
<1> HIDE DEF sub
<1> QED BY <1>6, <1>7, <1>8

LEMMA WatchedFinite ==
    ASSUME NEW i \in Nat, NEW j \in Int
    PROVE  IsFiniteSet(Watched(i, j)) /\ Cardinality(Watched(i, j)) \in Nat
<1>1. IsFiniteSet(i..j)
  BY FS_Interval
<1>2. Watched(i, j) \in SUBSET (i..j)
  BY DEF Watched
<1> QED BY <1>1, <1>2, FS_Subset, FS_CardinalityType

LEMMA PairInit == ASSUME Init PROVE PairInv
BY DEF Init, PairInv

\* poll returns: both cursors start, over the list RunTimers made.
LEMMA PairReturn ==
    ASSUME Types, PairInv, PollReturn
    PROVE  PairInv'
<1>1. polled = PollList /\ k' = 1 /\ cfd' = 1 /\ UNCHANGED <<timers, cmd, polled>> /\ pc' = "check"
  BY DEF PollReturn, PollReturns, PairInv, timer
<1> DEFINE S == { c \in Clients : HasFd(c) }
<1>2. timers \in Seq(Clients)
  BY DEF Types, TimerType
<1>3. ASSUME NEW j \in DOMAIN timers, HasFd(timers[j])
      PROVE  /\ 1 + Cardinality(Watched(1, j - 1)) \in DOMAIN polled
             /\ polled[1 + Cardinality(Watched(1, j - 1))] = timers[j]
  <2>1. j \in Nat /\ j >= 1 /\ \A i \in 1..j : i \in DOMAIN timers /\ timers[i] \in Clients
    BY <1>2, <1>3
  <2> DEFINE upto == { i \in 1..j : timers[i] \in S }
             before == Watched(1, j - 1)
  <2>2. upto = before \cup {j}
    BY <2>1, <1>3 DEF Watched
  <2>3. j \notin before
    BY <2>1 DEF Watched
  <2>4. IsFiniteSet(before) /\ Cardinality(before) \in Nat
    <3>1. 1 \in Nat /\ j - 1 \in Int
      BY <2>1
    <3> QED BY <3>1, WatchedFinite
  <2>5. /\ Cardinality(upto) \in DOMAIN Sublist(timers, S)
        /\ Sublist(timers, S)[Cardinality(upto)] = timers[j]
    <3>1. timers[j] \in S
      BY <2>1, <1>3
    <3> HIDE DEF S
    <3> QED BY <3>1, <1>2, SublistAt
  <2>6. polled = Sublist(timers, S)
    BY <1>1 DEF PollList
  <2> HIDE DEF S, upto, before
  <2>7. Cardinality(before \cup {j}) = Cardinality(before) + 1
    BY <2>3, <2>4, FS_AddElement
  <2>8. 1 + Cardinality(before) = Cardinality(upto)
    BY <2>2, <2>4, <2>7
  <2>9. 1 + Cardinality(before) \in DOMAIN polled /\ polled[1 + Cardinality(before)] = timers[j]
    BY <2>5, <2>6, <2>8
  <2> QED BY <2>9 DEF before
<1>4. \A i, j : Watched(i, j)' = Watched(i, j)
  BY <1>1 DEF Watched, HasFd
<1>5. \A c : HasFd(c)' <=> HasFd(c)
  BY <1>1 DEF HasFd
<1>6. Aligned'
  <2> SUFFICES ASSUME NEW j \in DOMAIN timers, HasFd(timers[j])
               PROVE  /\ 1 + Cardinality(Watched(1, j - 1)') \in DOMAIN polled
                      /\ polled[1 + Cardinality(Watched(1, j - 1)')] = timers[j]
    BY <1>1, <1>5 DEF Aligned
  <2> QED BY <1>3, <1>4
<1> QED BY <1>1, <1>6 DEF PairInv

\* A Timer is passed: the cursors move on together.
LEMMA PairCheck ==
    ASSUME Types, PairInv, CheckPollTimer
    PROVE  PairInv'
<1> DEFINE c == timers[k]
           step == IF HasFd(c) THEN 1 ELSE 0
<1>1. /\ pc = "check" /\ k \in DOMAIN timers /\ Aligned
      /\ k' = k + 1 /\ UNCHANGED <<pc, timers, polled>>
      /\ cfd' = cfd + step /\ cfd \in Nat
      /\ cmd' \in {cmd, [cmd EXCEPT ![c] = "Stop"]}
  <2>1. cfd \in Nat
    BY DEF Types, PollType
  <2> QED BY <2>1 DEF CheckPollTimer, NextFd, PairInv
<1>2. /\ timers \in Seq(Clients) /\ cmd \in [Clients -> WatchCmd]
      /\ \A j, l \in DOMAIN timers : timers[j] = timers[l] => j = l
  BY DEF Types, TimerType
<1>3. k \in Nat \ {0} /\ k <= Len(timers) /\ Len(timers) \in Nat /\ DOMAIN timers = 1..Len(timers)
  BY <1>1, <1>2
<1>4. \A j \in DOMAIN timers : j > k => (HasFd(timers[j])' <=> HasFd(timers[j]))
  <2> TAKE j \in DOMAIN timers
  <2> HAVE j > k
  <2>1. timers[j] # c /\ timers[j] \in Clients /\ timers[j]' = timers[j]
    BY <1>1, <1>2, <1>3
  <2>2. cmd'[timers[j]] = cmd[timers[j]]
    BY <1>1, <1>2, <2>1
  <2> QED BY <2>1, <2>2 DEF HasFd
<1>5. ASSUME NEW j \in DOMAIN timers, j > k, HasFd(timers[j])'
      PROVE  /\ (cfd + Cardinality(Watched(k, j - 1)))' \in DOMAIN polled
             /\ polled[(cfd + Cardinality(Watched(k, j - 1)))'] = timers[j]
  <2> DEFINE rest == { l \in (k + 1)..(j - 1) : HasFd(timers[l]) }
  <2>1. j \in Nat /\ j <= Len(timers)
    BY <1>3
  <2>2. Watched(k, j - 1)' = rest
    <3>1. Watched(k, j - 1)' = { l \in (k + 1)..(j - 1) : HasFd(timers[l])' }
      BY <1>1 DEF Watched
    <3>2. \A l \in (k + 1)..(j - 1) : l \in DOMAIN timers /\ l > k
      BY <1>3, <2>1
    <3>3. \A l \in (k + 1)..(j - 1) : HasFd(timers[l])' <=> HasFd(timers[l])
      BY <3>2, <1>4
    <3> QED BY <3>1, <3>3
  <2>3. rest = Watched(k + 1, j - 1) /\ IsFiniteSet(rest) /\ Cardinality(rest) \in Nat
    <3>1. rest = Watched(k + 1, j - 1)
      BY DEF Watched
    <3>2. k + 1 \in Nat /\ j - 1 \in Int
      BY <1>3, <2>1
    <3> HIDE DEF rest
    <3> QED BY <3>1, <3>2, WatchedFinite
  <2>4. Cardinality(Watched(k, j - 1)) = step + Cardinality(rest)
    <3>1. CASE HasFd(c)
      <4>1. Watched(k, j - 1) = rest \cup {k} /\ k \notin rest
        BY <3>1, <1>3, <1>5, <2>1 DEF Watched
      <4> HIDE DEF rest
      <4>2. Cardinality(rest \cup {k}) = Cardinality(rest) + 1
        BY <4>1, <2>3, FS_AddElement
      <4>3. step = 1
        BY <3>1
      <4>4. Cardinality(Watched(k, j - 1)) = Cardinality(rest) + 1
        BY <4>1, <4>2
      <4> HIDE DEF step
      <4> QED BY <4>3, <4>4, <2>3
    <3>2. CASE ~HasFd(c)
      <4>1. Watched(k, j - 1) = rest
        BY <3>2, <1>3, <1>5, <2>1 DEF Watched
      <4> HIDE DEF rest
      <4> QED BY <3>2, <4>1, <2>3
    <3> QED BY <3>1, <3>2
  <2>5. HasFd(timers[j]) /\ j >= k
    BY <1>3, <1>4, <1>5, <2>1
  <2>6. /\ cfd + Cardinality(Watched(k, j - 1)) \in DOMAIN polled
        /\ polled[cfd + Cardinality(Watched(k, j - 1))] = timers[j]
    BY <2>5, <1>1 DEF Aligned
  <2>7. (cfd + Cardinality(Watched(k, j - 1)))' = cfd' + Cardinality(Watched(k, j - 1)')
    OBVIOUS
  <2>8. step \in {0, 1}
    OBVIOUS
  <2> HIDE DEF rest, step, c
  <2>9. cfd' + Cardinality(Watched(k, j - 1)') = cfd + Cardinality(Watched(k, j - 1))
    BY <1>1, <2>2, <2>3, <2>4, <2>8
  <2> QED BY <2>6, <2>7, <2>9
<1>6. Aligned'
  <2>1. \A j \in DOMAIN timers : j >= k + 1 => j > k
    BY <1>3
  <2>2. \A j \in DOMAIN timers : j >= k + 1 /\ HasFd(timers[j])' =>
          /\ (cfd + Cardinality(Watched(k, j - 1)))' \in DOMAIN polled
          /\ polled[(cfd + Cardinality(Watched(k, j - 1)))'] = timers[j]
    BY <2>1, <1>5
  <2>3. timers' = timers /\ polled' = polled /\ k' = k + 1
    BY <1>1
  <2> QED BY <2>2, <2>3 DEF Aligned
<1> QED BY <1>1, <1>3, <1>6 DEF PairInv

\* Nothing else touches a Timer while the thread waits or walks.
LEMMA PairStep ==
    ASSUME Types, PairInv, [Next]_vars
    PROVE  PairInv'
<1>1. CASE /\ pc' = pc \/ (pc = "blocked" /\ pc' = "interrupted") \/ (pc = "poll" /\ pc' = "blocked")
           /\ UNCHANGED <<timers, cmd, polled, k, cfd>>
  BY <1>1 DEF PairInv, Aligned, Watched, PollList, HasFd
<1>2. CASE pc' \notin {"poll", "blocked", "interrupted", "check"}
  BY <1>2 DEF PairInv
<1>3. CASE Loop \/ Dispatch \/ DeleteUnusedMsgers \/ ForwardReceivedSignals \/ FatalSignalHandler
  <2>1. pc' \notin {"poll", "blocked", "interrupted", "check"}
    BY <1>3 DEF Loop, Dispatch, ClientDispatch, TimerWatch, SignalDispatch, NextMsg, DeleteUnusedMsgers,
                ForwardReceivedSignals, ReadSignals, ForwardSignal, ClearSignals, StoreSignals,
                FatalSignalHandler
  <2> QED BY <2>1, <1>2
<1>4. CASE World \/ Tick \/ UNCHANGED vars
  <2>1. pc' = pc \/ (pc = "blocked" /\ pc' = "interrupted")
    BY <1>4 DEF World, DataArrives, OtherSends, MsgSignalHandler, Tick, vars
  <2>2. UNCHANGED <<timers, cmd, polled, k, cfd>>
    BY <1>4 DEF World, DataArrives, OtherSends, MsgSignalHandler, Tick, vars, timer, poll
  <2> QED BY <2>1, <2>2, <1>1
<1>5. CASE RunTimers
  <2>1. CASE pc' = "top"
    BY <2>1, <1>2
  <2>2. CASE pc' # "top"
    BY <2>2, <1>5 DEF RunTimers, RanOut, PairInv, PollList, HasFd, timer
  <2> QED BY <2>1, <2>2
<1>6. CASE Poll
  BY <1>6, <1>1 DEF Poll, timer, poll
<1>7. CASE CheckDone
  BY <1>7, <1>2 DEF CheckDone
<1> QED BY <1>3, <1>4, <1>5, <1>6, <1>7, PairReturn, PairCheck DEF Next, Thread, Wait, Terminated

-----------------------------------------------------------------------------
(* How far the cursors go.  CheckPollTimers does not compare the second one *)
(* with the end of its list: that it never passes it follows from Aligned.  *)

CursorInv ==
    /\ k \in 1..Len(timers)+1 /\ cfd \in 1..Len(polled)+1
    /\ pc \notin {"check", "died"} => k = 1 /\ cfd = 1

LEMMA CursorsAtStart ==
    ASSUME Types', k' = 1, cfd' = 1
    PROVE  CursorInv'
<1>1. timers' \in Seq(Clients) /\ polled' \in Seq(Clients)
  BY DEF Types, TimerType, PollType
<1>2. Len(timers') \in Nat /\ Len(polled') \in Nat
  BY <1>1
<1> QED BY <1>2 DEF CursorInv

LEMMA CursorCheck ==
    ASSUME Types, PairInv, CursorInv, CheckPollTimer
    PROVE  CursorInv'
<1> DEFINE c == timers[k]
<1>1. /\ pc = "check" /\ k \in DOMAIN timers /\ Aligned
      /\ k' = k + 1 /\ cfd' = (IF HasFd(c) THEN cfd + 1 ELSE cfd)
      /\ UNCHANGED <<pc, timers, polled>>
  BY DEF CheckPollTimer, NextFd, PairInv
<1>2. /\ timers \in Seq(Clients) /\ polled \in Seq(Clients) /\ k \in Nat /\ cfd \in Nat
      /\ Len(timers) \in Nat /\ Len(polled) \in Nat
      /\ DOMAIN timers = 1..Len(timers) /\ DOMAIN polled = 1..Len(polled)
  <2>1. timers \in Seq(Clients) /\ polled \in Seq(Clients) /\ k \in Nat /\ cfd \in Nat
    BY DEF Types, TimerType, PollType
  <2> QED BY <2>1
<1>3. HasFd(c) => cfd \in 1..Len(polled)
  <2> SUFFICES ASSUME HasFd(c) PROVE cfd \in 1..Len(polled)
    OBVIOUS
  <2>1. Watched(k, k - 1) = {}
    BY <1>2 DEF Watched
  <2>2. Cardinality(Watched(k, k - 1)) = 0
    BY <2>1, FS_EmptySet
  <2>3. cfd + Cardinality(Watched(k, k - 1)) \in DOMAIN polled
    BY <1>1, <1>2 DEF Aligned
  <2> QED BY <1>2, <2>2, <2>3
<1>4. k' \in 1..Len(timers)+1
  BY <1>1, <1>2
<1>5. cfd' \in 1..Len(polled)+1
  <2>1. cfd \in 1..Len(polled)+1
    BY DEF CursorInv
  <2> HIDE DEF c
  <2> QED BY <1>1, <1>2, <1>3, <2>1
<1> QED BY <1>1, <1>4, <1>5 DEF CursorInv

LEMMA CursorStep ==
    ASSUME Types, Types', PairInv, CursorInv, [Next]_vars
    PROVE  CursorInv'
<1>1. CASE Loop \/ ForwardReceivedSignals \/ Poll \/ World \/ Tick \/ FatalSignalHandler
           \/ UNCHANGED vars
  <2>1. UNCHANGED <<timers, polled, k, cfd>>
    BY <1>1 DEF Loop, ForwardReceivedSignals, ReadSignals, ForwardSignal, ClearSignals, StoreSignals,
                Poll, World, DataArrives, OtherSends, MsgSignalHandler, Tick, FatalSignalHandler,
                vars, timer, poll
  <2>2. pc' \notin {"check", "died"} => pc \notin {"check", "died"}
    BY <1>1 DEF Loop, ForwardReceivedSignals, ReadSignals, ForwardSignal, ClearSignals, StoreSignals,
                Poll, World, DataArrives, OtherSends, MsgSignalHandler, Tick, FatalSignalHandler,
                Ended, vars
  <2> QED BY <2>1, <2>2 DEF CursorInv
<1>2. CASE Dispatch \/ DeleteUnusedMsgers \/ RunTimers
  <2>1. UNCHANGED <<k, cfd>> /\ pc \notin {"check", "died"}
    BY <1>2 DEF Dispatch, ClientDispatch, TimerWatch, SignalDispatch, NextMsg, DeleteUnusedMsgers,
                RunTimers, RanOut, poll
  <2>2. k' = 1 /\ cfd' = 1
    BY <2>1 DEF CursorInv
  <2> QED BY <2>2, CursorsAtStart
<1>3. CASE PollReturn \/ CheckDone
  <2>1. k' = 1 /\ cfd' = 1
    BY <1>3 DEF PollReturn, CheckDone
  <2> QED BY <2>1, CursorsAtStart
<1> QED BY <1>1, <1>2, <1>3, CursorCheck DEF Next, Thread, Wait, Terminated

LEMMA TypesOK == Types /\ CursorInv => TypeOK
BY DEF TypeOK, Types, ClientType, TimerType, QueueType, SignalSets, ThreadType, PollType, CursorInv

\* Every variable keeps its type, for any clients and signals, and the cursors of
\* CheckPollTimers go through their lists and no further.
THEOREM TypeCorrect == Spec => []TypeOK
<1>1. Init => Types /\ PairInv /\ CursorInv
  <2> SUFFICES ASSUME Init PROVE CursorInv
    BY TypeInit, PairInit
  <2>1. k = 1 /\ cfd = 1 /\ timers = <<>> /\ polled = <<>>
    BY DEF Init
  <2> QED BY <2>1 DEF CursorInv
<1>2. Types /\ PairInv /\ CursorInv /\ [Next]_vars => (Types /\ PairInv /\ CursorInv)'
  BY TypeStep, PairStep, CursorStep
<1> QED BY <1>1, <1>2, TypesOK, PTL DEF Spec

-----------------------------------------------------------------------------
(* Why a client is told *)

\* The one step that sends while the thread checks tells the Timer it passes.
LEMMA FiredStep ==
    ASSUME Types, PairInv, [Next]_vars, pc = "check", outq' # outq,
           NEW c \in Clients, Queued(outq', {"TimerR"}, c)
    PROVE  Queued(outq, {"TimerR"}, c) \/ c \in expired \/ (c \in revents /\ HasFd(c))
<1>1. CheckPollTimer
  BY DEF Next, Thread, World, Wait, Loop, Dispatch, ClientDispatch, TimerWatch, SignalDispatch, NextMsg,
         DeleteUnusedMsgers, ForwardReceivedSignals, ReadSignals, ForwardSignal, ClearSignals,
         StoreSignals, RunTimers, Poll, PollReturn, PollReturns, CheckDone, DataArrives, OtherSends,
         MsgSignalHandler, Tick, FatalSignalHandler, Terminated, vars, queues
<1> DEFINE told == timers[k]
           m == [kind |-> "TimerR", c |-> told]
<1>2. /\ k \in DOMAIN timers /\ Aligned
      /\ told \in expired \/ (HasFd(told) /\ cfd \in DOMAIN polled /\ polled[cfd] \in revents)
      /\ outq' = Append(outq, m)
  BY <1>1 DEF CheckPollTimer, PairInv
<1>3. /\ timers \in Seq(Clients) /\ outq \in Seq(Message) /\ k \in Nat /\ cfd \in Nat
  BY DEF Types, TimerType, QueueType, PollType
<1>4. told \in expired \/ (told \in revents /\ HasFd(told))
  <2>1. CASE HasFd(told) /\ polled[cfd] \in revents
    <3>1. Watched(k, k - 1) = {}
      BY <1>3 DEF Watched
    <3>2. Cardinality(Watched(k, k - 1)) = 0
      BY <3>1, FS_EmptySet
    <3>3. polled[cfd + Cardinality(Watched(k, k - 1))] = told
      BY <2>1, <1>2, <1>3 DEF Aligned
    <3>4. polled[cfd] = told
      BY <3>2, <3>3, <1>3
    <3> QED BY <3>4, <2>1
  <2> QED BY <1>2, <2>1
<1>5. told \in Clients /\ m \in Message /\ m.c = told
  <2>1. told \in Clients
    BY <1>2, <1>3
  <2> HIDE DEF told
  <2> QED BY <2>1, OtherType
<1>6. Queued(outq, {"TimerR"}, c) \/ c = told
  <2> HIDE DEF m
  <2>1. Queued(Append(outq, m), {"TimerR"}, c)
    BY <1>2
  <2> QED BY <2>1, <1>3, <1>5, QueuedAppended
<1> QED BY <1>4, <1>6

\* A client is told only when its own descriptor was found ready or its own time
\* had come, however many Timers there are and whichever of them watch a descriptor.
THEOREM FiresForItsReason == Spec => FiredForReason
<1>1. Spec => []Types
  BY TypesKept
<1>2. Types /\ PairInv /\ [Next]_vars => PairInv'
  BY PairStep
<1>3. Types /\ PairInv /\ [Next]_vars =>
        [pc = "check" /\ outq' # outq =>
          \A c \in Clients : Queued(outq', {"TimerR"}, c) =>
              Queued(outq, {"TimerR"}, c) \/ c \in expired \/ (c \in revents /\ HasFd(c))]_vars
  BY FiredStep
<1> QED BY <1>1, <1>2, <1>3, PairInit, PTL DEF Spec, FiredForReason
=============================================================================
