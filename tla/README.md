# A verification project for cwiclo

cwiclo is a C++ framework in which a program is a set of objects, *Msgers*, that
send each other asynchronous messages through *proxies*. One thread runs a message
loop that creates the objects, routes the messages, polls file descriptors and
deletes what is no longer used; sockets carry the same messages between processes.
This directory holds TLA+ models of that framework, the TLC configurations that
check them, and proofs that TLAPS checks.

    tlc -config MCAppSafety.cfg MCApp.tla      # one run of PROJECT.json "runs"
    tlapm AppProofs.tla                        # all proofs of a module, in a minute

`PROJECT.json` lists components, runs, hazards and findings, and maps every
definition to the lines it models.

## The system

| component | state | operations | interacts through |
|---|---|---|---|
| message loop, Msger lifecycle (`app.h`, `app.cc`, `msg.h`, `msg.cc`) | `_msgers`, `_creators`, `_outq`, `_inq`, flags of each Msger, links of each proxy | `CreateLink`, `CreateMsg`, `FreeId`/`FreeMrid`, `ProcessInputQueue`, `DeleteUnusedMsgers`, `DeleteMsger`, `~App` | virtual calls into Msgers (constructor, `Dispatch`, `OnError`, `OnMsgerDestroyed`, destructor), which call back |
| error forwarding (`app.cc`) | `_errors` | `Error`, `ForwardError` | `OnError` of the Msger and its creators |
| timers and poll (`app.h`, `app.cc`) | `_timers`; command, fd and time of each | `Timer_Watch`, `GetPollTimerList`, `poll`, `CheckPollTimers`, `Fire` | messages of Timer and TimerR; `RunTimers` in the loop |
| signals (`app.cc`) | `s_ReceivedSignals` | handlers, `ForwardReceivedSignals` | asynchronous interruption; broadcast messages |
| message bodies (`msg.cc`, `stream.h`) | none | marshalling, `ValidateSignature` | bytes |
| Extern (`xcom.cc`) | `_outq`, `_inmsg`, `_bread`, `_bwritten`, socket | `WriteOutgoing`, `ReadIncoming`, `AcceptIncomingMessage` | byte stream to the peer; a timer |
| relays (`xcom.cc`) | `_relays`, `_extid`, `_pExtern` | `RegisterRelay`, `CreateRelay`, `COM_Delete`, `COM_Export` | messages on both sides |
| ExternServer (`xcom.cc`) | `_conns` | accept, close when unused | Externs it owns |
| storage (`memblock`, `vector`, `string`, `memory.h`, `multiset.h`) | size, capacity, data | insert, erase, reserve, search, rotate | used by everything |

### What is hard

* The program is single threaded, yet *reentrant*: framework and application call
  each other. A constructor runs inside `CreateLink` and may call `CreateLink`; a
  destructor and `OnMsgerDestroyed` run inside `DeleteMsger` and may free ids
  that the loop around them is about to look at.
* A router id is an index without a generation. It is given out again once its
  Msger and its creator are gone, in whichever order that happened.
* Who created whom is recorded twice: in `_creators` and in the Msger's link.
* A Msger can be marked unused while messages for it are queued.
* Limits: all 65534 ids in use; the table shrinks while it is scanned.
* Signals interrupt anything; sockets split messages anywhere; a peer may die.
* Two message loops run at once in two processes, and each learns of the end of the
  other's objects by a message that crosses others. Reading the socket is nested in
  sending, also from a destructor.
* Sizes, alignments and terminating zeros are computed in several places that must
  agree; containers move objects as bytes.

`PROJECT.json` "hazards" gives each at its line.

### What makes each component correct

* Lifecycle: a proxy's id is its owner's; no id leaks; requests find their
  Msger; what is orphaned is marked, what is unused is deleted; Quit ends the loop.
* Errors: an error reaches a handler or ends the program.
* Timers, signals: a timer that is due fires once; no signal is lost; the loop
  does not wait while there are messages.
* Extern: the peer gets the messages sent, whole, once, in order, each descriptor
  with its message. Relays: the two sides agree which relay an extid names.
* Storage: every operation does to its block what it would do to a sequence.

## Modules

| module | models | composes or refines |
|---|---|---|
| `App` | message loop, Msger lifecycle, error forwarding | |
| `EventLoop` | timers, poll, signals | |
| `Channel` | abstract: what one direction of a connection promises | |
| `ExternStream` | two Externs on one socket: framing, descriptors, timers | implements `Channel` in each direction |
| `ExternRelay` | two processes, their Externs, relays and objects | over two Channels; implements `Channel` from object to object |
| `Marshal` | message bodies: sizing, writing, reading, validating | |
| `Memory` | memblock, string, vector on one heap | |
| `AppProofs`, `EventLoopProofs`, `FramingProofs`, `MarshalDataProofs`, `MarshalProofs`, `MemoryProofs`, `MemoryCellProofs`, `MemoryElementProofs` | theorems about `App`, `EventLoop`, `ExternStream`, `Marshal` (two), `Memory` (three) | |
| `MCApp`, `MCEventLoop`, `MCExternStream`, `MCExternRelay`, `MCMarshal`, `MCMemory` | instances for TLC | |

### App

The variables are those of class `App` under shorter names: `msgers`, `creators`
and their common `size`, `outq`, `inq`, `errors`, `quit`. `proxies[m]` is the set
of ids the proxies of Msger `m` were given. The position of the framework is the
pair `phase` (the part of `main`: start, message loop, input queue, deletion, exit)
and `op` (where in it), with the local variables of the functions that call
application code: `i` and `n` (the loops over `_msgers`), `oid` (`ForwardError`),
`mid`, `crid`, `ci` (`DeleteMsger`).

`stack` holds the calls into application code that have not returned. While it is
empty the framework takes a step. While it is not, the call on top takes one: it
sends a message to a new destination (`SendNew`), through a proxy it has
(`SendTo`), to its creator (`Reply`) or to all (`Broadcast`), frees an id
(`FreeId`), raises an error, quits, marks itself unused, or returns. So every
interleaving of framework and application code that the call structure allows is
a behaviour. `SendNew` and `SendTo` push the constructor's call, and
the message is queued when it returns, as in `CreateMsg`.

`Senders` says which calls use the framework, `ReplyHasFactory` whether replies to
a dead Msger create one; `MaxCalls` bounds the framework calls application code
makes in one iteration of the loop, so that a queue is finite while the
number of iterations is not.

What the model leaves out, and why that is safe:

* Bodies, methods and interfaces: routing does not read them. A message is its
  destination and whether a Proxy or a ProxyR sent it.
* A freed proxy is not used again; the source sets no rule, and the id is then
  anybody's.
* Destructors and constructors do not set the unused flag of the object they run
  on. Declining an error is what `Msger::OnError` does (marks unused, returns
  false); handling one may use the whole framework.
* The application object's own destructor sends nothing, and no Msger but the
  application is a singleton.
* `Proxy::CreateDestAs` and `CreateDestWith`, which create without sending.
* Timers and signals, which are the subject of `EventLoop`: `RunTimers` is that of
  a program without timers, which quits when nothing is queued.
* The table grows in place during a scan (its capacity suffices).
* `_creators` past `size` keeps what was there when it shrank, as the vector's
  memory does; past the largest size ever reached it is not written, and
  `DispatchPastEnd` is the one place that reads there.
* The build is the one with NDEBUG: asserts are properties, not guards.

### EventLoop

The same loop seen from the other side: `App` follows every Msger and never waits,
`EventLoop` follows only Timers and their clients, and waits. Three things move at
once: the thread, whose position is `pc`; the clock (`Tick`); signal handlers
(`MsgSignalHandler`, `FatalSignalHandler`), which run between any two steps of the
thread. A descriptor becomes ready at any time (`DataArrives`) and stays so until
its client reads it. The thread's steps are those of `Run`: `Loop` swaps the queues;
`ClientDispatch`, `TimerWatch` and `SignalDispatch` each take one message;
`DeleteUnusedMsgers` is one step; `ForwardReceivedSignals` is split where a signal
matters (`ReadSignals`, `ForwardSignal`, `ClearSignals`, and `StoreSignals` in a
build that loads and stores); `RunTimers` computes the list and the timeout, `Poll`
begins to wait, `PollReturn` ends it, and `CheckPollTimer` looks at one Timer at a time.

A client has one PTimer proxy and one descriptor; what it may ask is `Asked`.
Times are relative to the clock and every past time is -1, so the clock has no bound (and no
time is overdue by more than an int holds, 24.8 days in the program). `PollTimeout` is the code's
arithmetic: a time that has passed gives a negative number, a wait without end; and the
64 bit difference is narrowed to an int by `ToInt`, whose largest value is the constant
`MaxInt`. So is a time that lies too far ahead: it becomes a wait without end, a
shorter one, or, from 2^32 ms on, perhaps none at all. The alarm goes off at any time after it is set.
`owed` is not in the code: it holds the signals that arrived since the application
was last told, which is what `SignalKept` is about.

Left out: descriptor numbers used again after they were closed; errors on a
descriptor, which fire the Timer as data does; waits for writing, which
differ from waits for reading in the event only; a clock that is set back; other
Msgers, but for the messages they send to clients (`OtherSends`, at most `MaxOthers`).

### Channel and ExternStream

`Channel` is the promise: messages queued at one end are delivered at the other in
their order, each once, and with its own file as long as none was lost, until an end
closes; and while neither has, every queued message is delivered. Its fairness is that of
`Deliver`, with `CanDeliver` in place of ENABLED, which TLC cannot evaluate of variables
that stand for expressions.

`ExternStream` is how `Extern` keeps it. Each variable is a function of the side.
`outq`, `bwritten`, `bread`, `infd`, `sockfd` are the members of the class; `wire` is
what the socket holds; `watch` is the Extern's Timer. `fds` is the process's descriptor
table, since passing a file and closing it are about numbers that may be used again: a
file the application opens and one that recvmsg installs both take the lowest free
number, and `infd` and the descriptors in messages are such numbers. What a message is
delivered with is the file its number refers to when it is complete, if any. A received
file that finds the table full is dropped, as the kernel does. `stolen`, `full` and
`split` are not in the code: they record that a write closed a file it had not
passed, that a file found no room, and that a write ended in a fixed header.
A step is one system call with the code up to the next: `SendMsg` writes any
part of what `Aggregated` counts into one call, so that every split of the stream is a
behaviour; `RecvMsg` takes all that is there and fits, up to the piece a second file
comes with, as recvmsg of a local socket does. The unit is a piece of a
message (the two halves of the fixed header, the names, two pieces of body), because
what the code distinguishes is whether it has the fixed header, the rest of the header,
and the body. A piece is its place in the stream and the file that comes with it; what it
says of its message follows from its place. The applications of both sides follow scripts: send with a body, without,
with a file, with an invalid descriptor, open a file, close. Assertions are compiled in
at one place only, `Misreads`, where the process ends; elsewhere they are properties.

Left out: applications that close files (they keep those they open and those they
receive, so a number is free again only once it was passed) or have more than one
connection; limits of the system on files under way; credentials; a body's contents and the method name (`Marshal`); an invalid
header, which a peer of this program does not send; the room for a second descriptor
in one control message (xcom.cc:491 sets its length with CMSG_SPACE, which counts the
padding too, so the kernel takes two numbers from it, the second one 0, and installs two
files at the receiver, which reads one of them).

### ExternRelay

A client's callers call objects of a server. Each process is a record: its Msgers and
creators, its two queues, its relay table (`_relays`) and socket. The nested calls of
the framework are operators from the process to the process they leave (`Send`,
`CreateLink`, `FreeMrid`, `DeleteMsger`, `QueueOutgoing`, `ReadIncoming`,
`AcceptIncomingMessage`), so a step is one dispatch, one service of the socket, or the
end of an iteration of a message loop, and both processes interleave between
them. What was sent before may be read inside any operation that serves the socket, and
the choice is made there: `QueueOutgoing` reads first, also when `~COMRelay` calls it.
Ids are reused as in `App`; extids are computed from ids as in the code.

The environment is a caller that starts, calls again, or ends; an object that
replies, replies and ends, or fails; and an application that closes the connection.
`Reopen`, `Hasty` and `Closing` say which of these habits the applications have.
Calls, replies and sessions are numbered for the properties only (`said`,
`heard`, `gone`).

Left out: several Externs in one process; an Extern that only serves local
proxies; the Extern's own Timer and its id; interfaces other than one. A process
that uses an Extern or a Msger that is gone has crashed and goes no further.

### Marshal

A method is a sequence of types, a body is a sequence of bytes. A type is some depth of
vectors, one in the other, of a number, a string or a struct. What the templates of
stream.h and vector.h do for a type is a recursive function of its depth, and
`ValidateSigelement` is one of how deep it has called itself, which is no deeper than the
signature is long; so the module has no RECURSIVE operator and can be proved
about. `Write` is `ostream`, `SizeWith` is `sstream`, `Read` is `istream`, and `ValidateSignature` follows a signature
through the bytes with the cursors of the code. A behaviour is one
call: sent, then delivered in its own process or exported, padded by
`Msg`, validated, trimmed and delivered in another; or a body that somebody
else framed. An earlier form of `ValidateSignature`, with RECURSIVE operators, was
compared with the compiled `msg.cc`: in 25,083 generated pairs of a signature and a body
both return the same. The present form was compared with that one by TLC, on 29
methods and 20,805 bodies: `ValidateSignature` and `ReadArgs` give the same on each.

### Memory

One heap, and containers that own blocks of it or are linked to memory they do not own.
Every operation is an operator from the memory to the memory, composed of others as the
code's are: `vector::insert` makes a hole with `memblock::insert`, which reserves,
which reallocates and always moves. A cell of a vector holds a token of an element;
a byte copy moves the token, constructors and destructors make and end its life, so
`ElementsAlive` sees an element that was copied, overwritten or forgotten. Any access
outside a block, or to one that was freed, sets `fault`.

The calls have the preconditions that the code has or needs: nothing is written through
a linked block; a container's own cells are not inserted into itself; a linked block is
not reserved to less than its size; a string that was moved from is only
destroyed or swapped; `string (s, n)` may read `s[n]`; only a block that holds something
is shrunk to fit; vectors are not linked. Capacity has 31 bits in the code and no
bound here.

## Runs

| run | question | instance |
|---|---|---|
| `app_safety` | are ids, proxies, creators and requests consistent? | 4 ids, 2 calls per iteration, sends from ProcessArgs, Dispatch, OnError, destructors; 3.7 million states |
| `app_live` | are unused Msgers deleted, does Quit end the program? | 3 ids, 2 calls per iteration, constructors send too; 131 thousand states |
| `error_loop` | does forwarding an error end? No | 4 ids |
| `event_timers` | are requests to Timers heard, and do Timers fire when and only when they should? | 2 clients, timeout 1, one signal, signals cleared by load and store; 581 thousand states |
| `event_signals` | is no signal lost, does a quit signal end the program? | 1 client, 2 signals, cleared in one instruction, timeouts of 1 and 2 with ints up to 1; 264 thousand states |
| `timer_overdue` | does every timer fire? No | 1 client |
| `stream` | do two Externs make a FIFO channel of a socket, and what becomes of files and errors? | 5 scripts, a socket with room for 6 pieces each way, 2 descriptors, 4 iovecs, files opened at any time; 333 thousand states |
| `relay` | do calls, replies and ends reach their object, whatever crosses them? | 1 session, 2 calls, 7 ids, either side closing; 111 thousand states |
| `relay_two` | are two sessions kept apart? | 2 sessions, 2 calls, 7 ids; 644 thousand states |
| `relay_dangling` | does a relay know that its Extern is gone? No | 1 session, 1 call |
| `marshal` | is what is written what is counted, accepted and read? | 23 methods, vectors of up to 2, 4 strings, 3 numbers, 1333 foreign bodies; 69 thousand states |
| `memory` | do containers keep their contents, and blocks and elements one owner? | 2 containers of 3 pairs of kinds, 3 cells held in all, 2 texts; 12 thousand states |

Bounds. Four ids are the App, a Msger, one it created and a further one: enough for
a creator to die before its creation, for an id to be reused in the middle of the
table and for its last slot to be removed, and for the ids to run out. Two calls per
iteration let one handler do two things (send and free, fail and quit) or two
handlers one each; since the bound is per iteration, every longer history that
does so little at a time is explored. The queue holds at most two messages.

In `EventLoop` two clients are needed for one's descriptor to be taken for another's;
a Timer without a descriptor between them is among the states. A timeout of 1
is set, comes and passes, and is passed before and after each step of the thread;
a larger one adds steps of waiting, or, with `MaxInt` 1, is one that an int does not
hold: of 4 ints, 2 becomes -2 (`event_signals`). `MaxOthers` lets a client change its
mind while its Timer runs. One signal interrupts poll; two are needed to
lose one while the other is forwarded. The clients are alike, so their first
messages have one order.

In `ExternStream` a socket of 6 pieces holds the longest message whole with a
part of the next, and not two: writes stop inside a header and inside a body, reads
return the end of one message with the start of the next. The Extern sends one message
of its own when it opens (its list of interfaces); the scripts add two files in
a row while the other side opens one, an empty message next to one without a valid
descriptor, files that cross each other, a file that comes to a full table of two, and
more messages than the 2 that 4 iovecs hold, before a close. In the program a table holds
1024 files or more and a call 512 messages; what happens at the limit does not
depend on where it is.

In `ExternRelay` 7 ids are those of App, Extern, two callers or objects and two relays,
and one more for what an id's reuse makes. Two calls put a message behind a
Delete, in front of it, and on both sides. Two sessions without a close suffice for
mixing them up; a close ends both.

In `Marshal` every kind of type stands first, last and after something of another
alignment; two elements show padding between them; strings of 0, 1, 3 and 4
characters end at each place of a word with their zero. `Memory` reallocates at each size up to 3,
with sizes of 2 and 4 for the capacities; copies up and down overlap by 1 and 2 cells.
Its `VIEW` leaves out the cells past what a container holds and the numbers of
blocks and tokens. It keeps whether `OneOwner`, `ElementsAlive` and `fault` hold,
so no violation is hidden behind a state that looks the same.

CHECK_DEADLOCK FALSE is where the system stops: a connection is closed or all that the
scripts have has been sent; a call has been read.

Fairness. `App`'s `FairSpec` adds `WF_vars(Next)`: one thread runs framework and
application, and no call in the model blocks, so some step is taken while one
can be. Nothing is assumed about which call an application makes. `DeletableDeleted`
and `QuitEnds` have `[]<>(op # "forward")` as a premise: the run `error_loop` shows
that `ForwardError` may not return, and then nothing later happens.
`EventLoop`'s adds `WF_vars(Thread)`, `WF_vars(Tick)` and `WF_vars(FatalSignalHandler)`:
the thread runs when it does not wait in poll, the clock goes on, an alarm
goes off. Signals, data and messages from others need not come.
`ExternStream` and `ExternRelay` have weak fairness of `Run(s)`: each process goes on
with its loops and gets the events its Timer waits for. Applications need do nothing.
`ExternRelay` writes it out, with `CanRun(s)` in place of ENABLED, which is
costly to evaluate where a step is a composition of operators; the formula is the same.

### Properties

* `ProxyOwnsId`: the id of a proxy is in the table and its creator is the proxy's
  Msger. Violating it takes a death, a release and a reuse in the wrong order.
* `NoLeakedId`: an id is vacant, or held by a proxy of its creator, or being
  released. The one exception is while `DeleteMsger` runs and at exit.
* `RequestHasMsger`: every queued request finds its Msger alive when dispatched.
* `CreatorMatches`: the assert of `FreeMrid`.
* `OrphanUnused`: whoever lost its creator is marked unused.
* `ConstructedOnce`: no slot is under construction twice, though constructors send.
* `DeletableDeleted`, `QuitEnds`: see above. In `app_live` no destructor sends, so little
  can happen in `~App`; with `"dtor"` in place of `"ctor"` TLC finds that `QuitEnds` holds
  too (178 thousand states).
* `WatchKept`: a Timer with a request queued is there when it is dispatched, though
  firing marked it unused before.
* `FiredForReason`, `WatchedFdFires`: a Timer fires only when its own time came or its
  own descriptor was found ready, and a descriptor that stays ready is reported.
* `TimerFiresInTime`: a time that comes while the thread waits fires its Timer. The
  premise `InTime` is that the nearest time is ahead when the loop looks, and by no more
  than an int holds. Both parts are needed: `timer_overdue` shows the first, and with a
  timeout longer than `MaxInt` TLC finds the Timer not to fire either.
* `SignalKept`: a signal is recorded, being forwarded or queued until the application
  is told. It needs the clearing to be one instruction; with `AtomicClear = FALSE` TLC
  finds a signal lost between load and store.
* `QuitSignalEnds`: a quit signal ends the program, if need be by the alarm.
* `ImplementsChannel`: `ExternStream` refines `Channel` both ways, liveness included.
  `Channel` may lose files (`LoseFile`) from the moment on that a write closes one which it
  did not pass; the messages themselves go on in order, and all of them.
  `StreamWhole` says why: the pieces under way are those between the
  reader's place and the writer's, none twice and none missing, and a file travels with its
  own message.
* `FileInHand`: a received descriptor belongs to the message whose header is being read,
  and refers to its file unless a write has closed a file that it had not passed.
* `ErrorExplained`: between two processes of this program an error has one of six causes:
  the other end closed; more messages than sendmsg takes were queued (EMSGSIZE); a write had
  closed the file to be passed (EBADF); a fixed header was split; two messages
  with descriptors came one after the other; the receiver's table was full ("invalid
  message").
* `Watched`: an open connection that nobody serves is watched, for writing too if
  something is queued.
* `RequestsDelivered`, `RepliesDelivered`: with both message loops, both relays and the
  connection between, the calls of a caller reach its object as through a `Channel`,
  and the replies the caller. This is the composition `ExternStream` promises its half of.
* `EndsReachServer`, `EndsReachCaller`: the end of one side reaches the other. The first says
  that the server's object or relay has ended at some time; that it stays away is
  not so, for a call that was still behind may make it again.
* `RefusedExplained`: a message is refused, which closes the connection for every
  session, only if its session has lost an object or a relay.
* `RightObject`: of two sessions that have lost neither an object nor a relay, no message
  of one is on its way to the object of the other. It says nothing of extids used
  again; see `Reopen` under Findings.
* `SizedRight`, `Accepted`, `ReadBack`, `ReadToEnd`: the four computations of an offset
  agree. Exceptions are named as operators: `Placed` (`Send` does not align its
  arguments), `Followed` (types whose signatures the validator loses), `Wide`
  (elements of 8 bytes). `ReadToEnd` has `Placed` as a premise for a call within a
  process only: there nothing is validated, and an argument that does not lie aligned is
  read past the end. What was validated needs no premise, for the validator checks it.
* `ValueKept`, `Terminated`, `OneOwner`, `ElementsAlive`, `NoFault`: what a container
  holds is what was put into it, whatever was moved meanwhile.

### Findings

The runs of kind violation check what a comment or an assert of the source says, and TLC
shows that the code does otherwise; `PROJECT.json` "findings" quotes the lines. In
`error_loop` an orphan X creates Y, and Y is given the id of X's dead creator; now each is
the creator of the other by id, and an error both decline goes round for ever. In
`timer_overdue` a time passes between `Timer_Watch` and `RunTimers`, the unsigned
difference wraps, and poll waits without end. In `relay_dangling` a caller has a relay
when the connection closes; the Extern is deleted and the relay still points to it, for
the notification that would reset the pointer is ignored when it comes from the caller.

TLC found these too, with the models and constants as given here; they
are not kept as runs.

* With `ReplyHasFactory = TRUE` a reply re-creates a dead Msger (app.cc:192, against the
  comment at app.cc:167) and `CreatorMatches` fails.
* `ValidMsgerId` admits the size of the table (app.h:125), and the loop reads the
  slot past the last, which holds what was there when the table shrank.
* An error raised in a destructor is found after the next dispatch and blamed on that
  message's destination (app.cc:289-290).
* A timer that is due when the list is made gives timeout 0, which is also the mark of
  having nothing to wait for: the program quits as "ran out of packets" (app.h:252, app.cc:324).
* Two messages with descriptors one after the other close the connection (xcom.cc:591-594);
  the check is about the descriptors of one message.
* After every partial write of a message with a file its descriptor is closed again, by number
  (xcom.cc:529, where the comment says "Close the fd once successfully passed"), also if
  that now refers to a file opened or received meanwhile. Where each side passes a file to
  the other, one of them may have written a part of its message and closed its file's
  number, receive the other's file under it, and close that with its next write: the
  other's message is accepted without its file (script `<<"file">>` on both sides, with
  `OpenWhileWriting = FALSE`). A file the application opened meanwhile is closed in the same
  way, and if it was to be passed too, sendmsg fails with EBADF (script
  `<<"file", "file">>`, with `OpenWhileWriting = TRUE`).
* More than 512 messages queued behind a full socket give EMSGSIZE (xcom.cc:503, 511), and a
  file that finds the receiver's table full gives "invalid message" (xcom.cc:634): either
  closes the connection.
* A time that is more than INT_MAX ms (24.8 days) ahead when the list is made loses its high
  bits as a timeout (app.cc:345): poll waits without end (with `Asked <- LongTimer`,
  `MaxTimeout = 2` and `MaxInt = 1` TLC finds a Timer that never fires), or returns early and
  waits again; and from 2^32 ms on the timeout may become 0, which without a descriptor is
  the mark of having nothing to wait for, and the program quits (app.h:252).
* A peer that closes makes the writer report EPIPE, which xcom.cc:512 says is not an error;
  a first write that ends inside the fixed header makes the reader fail with EFAULT; a
  message with descriptor -1 ends the connection without an error.
* If such a write leaves only the first piece of a message without a body, the reader takes
  the size so far, which is 0, for that of a whole message, whose `fdoffset`, still 0,
  announces a descriptor: the assert at xcom.cc:609 fails (`Misreads`), and without
  asserts a message that nobody sent is accepted.
* An error reported to a relay whose caller is gone makes the process quit. A reply to
  a dead caller re-creates a relay in its slot, whose message the other side refuses,
  closing the connection. A message that crosses a Delete is refused too; a call
  that crosses the server's Delete makes the object again, and nobody deletes it.
* With `Reopen = TRUE` an extid is used again while the Extern still has its relay
  proxy, and `RightObject` fails. With `Hasty = TRUE` a relay whose caller ended early
  dispatches its first message and stays.
* CommitMsg's assertion "Message body does not match method signature" (msg.cc:38)
  fails for vectors of strings, vectors of vectors and a struct argument. The
  elements of a `vector<uint64_t>` are written as zeros: `ostream::skip` fills what
  was just copied (vector.h:136-139). The validator returns 0 both for an invalid body
  and for an empty one, and of an accepted one the reader may read past the end.
* `reserve` on a null string leaves it without a zero; `reserve (n)` of a linked block
  longer than n keeps a size for which it has no room (memblock.cc:104-108).

## Proofs

Constants are arbitrary but for the assumptions named in each module.

`AppProofs`:

* `TypeCorrect`: `Spec => []TypeOK`. `TypeOK` is not inductive, for the cursor `i`
  becomes an id (`oid`) and an index into the table; `TypeInv` adds the two facts
  about it that are needed (`CursorOK`). The case of interest is that the table does
  not outgrow the id range: `SendNew` gives out `size` only when it is not exhausted.
* `ProxyIdsOwned`: `Spec => []ProxyOwnsId`, if `SendersNestSafely`: no `OnMsgerDestroyed`
  handler uses the framework, and constructors do only where destructors do not and no
  reply constructs a Msger. The inductive invariant `ProxyInv` adds:
  who holds an id is alive, under construction or in its destructor (`HolderLive`), so
  that a vacant id, which is its own creator, is held by nobody but a Msger in its own
  destructor; the Msger being deleted holds nothing once its destructor has returned
  (`DeletedHoldsNothing`), so that its creations can be released; its recorded
  creator is still the creator of its id (`CridSaved`), so that the id is
  released only if that creator is gone; and which calls can be on the stack
  then (`DtorCalls`, `CtorCalls`, `NotifyCalls`, `OrphanCalls`, `CallerLive`).
  Constructors that send make the stack as deep as `MaxCalls` allows; `NestedCalls` says
  that each constructs the Msger of an id its caller created, and that no Msger appears
  twice. An id about to be given away or released is therefore not under
  construction (`NotConstructing`), and its Msger runs no call (`NotCalling`).
* `SlotsConstructedOnce`: `Spec => []ConstructedOnce`, from the same invariant.

Every part of `SendersNestSafely` is needed. On instances TLC finds: where
`OnMsgerDestroyed` sends, a Msger re-created under the id whose orphans are being
released, against `ProxyOwnsId`; where constructors and destructors both send, a Msger
that a destructor creates under the id being deleted and that sends before it is in its
slot, against `ProxyOwnsId` and `ConstructedOnce`; where constructors send and a reply
constructs, a reply to a Msger still under construction, against `ConstructedOnce`.

The rest of `AppProofs` builds on `ProxyInv` and on `SlotOfStep`: a step leaves a slot with
the Msger it has, fills it when a constructor returns, or empties it in `BeginDelete`.
These four theorems too assume `SendersNestSafely`.

* `RequestsFindMsgers`: `Spec => []RequestHasMsger`, which is inductive: what is queued
  is addressed to a Msger that is alive or just constructed, and `DeleteUnused` empties
  only slots that the queue does not name.
* `NoIdLost`: `Spec => []NoLeakedId`. `LeakInv` adds how far the loop over the
  creations of the Msger being deleted has got (`Released`), so that at its end none is
  left; and that `NotifyCreator` does not move its cursor (`Started`).
* `CreatorsAgree`, `OrphansMarked`: if also `~ReplyHasFactory`, `Spec => []CreatorMatches`
  and `Spec => []OrphanUnused`. `CreatorInv` follows the creator from `SendNew`
  to the slot through the constructor's frame (`CtorSrc`): calls above it do not change
  the creators of what is under construction (`FramesKept`), and states what `OrphanUnused`
  leaves open during a deletion: the one unmarked orphan is a Msger which the
  destructor in progress created again under its own id, and `NotifyCreator` marks it
  (`OrphanInv`). With `ReplyHasFactory` the first is false, as said above.

`EventLoopProofs`:

* `TypeCorrect`: `Spec => []TypeOK`. The list of Timers, its sublists and the list of
  descriptors to poll are sequences without repetition; this rests on `Sublist`, which
  numbers the kept indices by cardinality instead of recursion, so that what it returns
  can be proved (`Ranks`, `SublistProperties`) without an induction.
  That the cursors of `CheckPollTimers` go no further than just behind their lists is
  `CursorInv`. The code compares only the first with the end of its list; that the second
  never passes its own follows from `Aligned` below.
* `SignalsKept`: `AtomicClear /\ Spec => []SignalKept`. `SignalKept` says nothing of the
  bits that were read: `Forwarding` adds that what is left to forward was read, that what
  was read is still recorded until it is cleared, and that what was read and is not left
  to forward is in the queue; hence clearing loses nothing. `Dispatched` adds that the
  input queue is empty outside its loop, so that swapping the queues loses nothing. The
  premise is needed: run `event_timers` has `AtomicClear = FALSE`, and there TLC finds
  `SignalKept` violated.
* `RequestsHeard`: `Spec => []WatchKept`. A request is counted in either queue
  (`WatchInv`), for swapping moves it; the step of interest is
  `DeleteUnusedMsgers`, which spares the Timers with a request queued.
* `FiresForItsReason`: `Spec => FiredForReason`, an action property. `PairInv` says that
  until poll returns the polled list is what `PollList` makes of the Timers, and that from
  then on the descriptor of every Timer still to be checked is as far past `cfd` as there
  are Timers with one between it and `k` (`Aligned`). The step of interest is
  `CheckPollTimer` (`PairCheck`): `cfd` moves on exactly when the Timer passed has one.

`FramingProofs`, all for any scripts, buffer, descriptor tables and limit on iovecs:

* The invariant is `FramingInv`, which for the stream of each side says: the messages
  sent lie one after the other and the queue is the last of them (`Layout`); those
  accepted are not more (`Prefix`); the reader is inside the next one, and the pieces on
  the wire go from there to where the writer is, with files at the beginnings of messages
  that have one (`Place`, from `InMessage`, `Whole`, `WithFiles` and `InHand`); and which
  messages have files (`FilesSent`). It says nothing of which file is where, and so holds
  whatever is closed. Two steps are of interest. `SendMsg` (`Sending`) may finish several
  messages and begin another; `Erasing` shows that what is left of `_outq` and
  `_bwritten` is the same place in the stream. `RecvMsg` (`Received1`) may finish one
  message and begin the next; that the descriptor in hand is then the right one's is
  `HeldWithin` and `HeldBeyond`, and that a fixed header is cut only where a write has
  cut it is `StopsWithin`.
* `TypeCorrect`: `Spec => []TypeOK` follows from it.
* `FilesKnown` says which file is where, until a write closes one it did not pass: every
  number in the queue refers to its message's file until it has been passed
  (`Descriptors`), a piece comes with its own message's (`WireFiles`), so does what is in
  hand (`HeldFile`), and what was accepted is what was sent (`Arrived`). It is inductive
  together with `FramingInv`: a file that is installed takes a free number, so none that is
  waited for (`Installing`), and a write that closes another's sets `stolen` (`SendKnown`).
  `StreamIsWhole` and `FilesComeToHand`, `Spec => []StreamWhole` and `Spec => []FileInHand`,
  follow from both.
* `ErrorsAreExplained`: `Spec => []ErrorExplained`, inductive together with them:
  an error is explained when it is reported (`NewlyExplained`), and what explains it stays
  true (`FactsGrow`).
* `EachDirectionIsAChannel`: `Spec => Requests!Safety /\ Replies!Safety`, the safety half
  of `ImplementsChannel`, step by step (`Advancing`).
* `OneWayKeepsFiles`: if in every script at most one side passes files, and no file is opened
  while a message with one is written in part (`OneWay`), then `Spec => []NoTheft`. The
  invariant, `QuietInv`, adds that the number a message has passed stays free until the
  message is written whole: nothing comes to the side that passes files (`NoneComes`).
  `OneWayFilesArrive`: every message is then accepted as it was sent. Both premises are
  needed, as said under Findings.
* `NeverUnattended`: `Spec => []Watched`, whatever the scripts and the size of the socket.
  It is inductive once the domains of the functions are known (`WatchedInv`): each
  way out of the loops of `WriteOutgoing` and `ReadIncoming` sets the Timer, closes,
  or stays in a loop.
* Least and greatest elements of sets of numbers (`Min`, `Max`) exist by well-founded sets
  (`LeastNat`), which needs no induction theorem with an operator parameter.

`MemoryProofs`, for any containers, kinds, texts and sizes:

* `BlocksOwned`: `Spec => []OneOwner`. The invariant, `Good`, leaves out what the cells
  hold: no write changes the size of a block (`SameShape`), so that only the
  few operators that move blocks matter. `TakesBlock` is the step of a container that
  gets a new block and gives up its old one (`reserve`, `shrink_to_fit`, `manage`),
  `PassedOn` that of containers that exchange or drop what they own (`swap`, moves, `link`,
  destruction). A container that is not constructed owns nothing, which is why the
  constructors leak nothing (`UnmadeOwnsNothing`); there is always a free block
  (`FreeAddrProperty`, by the pigeonhole principle), and `reserve` always gets room for what
  it asked (`NextPow2Property`). Recursive functions are unfolded with `UpTo`, induction over
  a set of numbers.

`MemoryCellProofs` and `MemoryElementProofs`, likewise for any containers, kinds, texts and
sizes: `NothingFaults`, `MemoryTypeOK`, `ContentsKept`, `StringsEnd` and `ElementsLive`, that is
`Spec => []P` for `NoFault`, `TypeOK`, `ValueKept`, `Terminated` and `ElementsAlive`. They
have one inductive invariant, `ContentsInv`, for none of them is inductive alone: a call
keeps the contents only if it does not fault, does not fault only if the sizes,
capacities and terminating zeros are right, and moves elements as bytes, so that what is
in the cells must be known to tell what is alive. Its parts:

* `BytesInv`: `Good`; a container is constructed or as its destructor left it, and only
  strings have a terminating zero (`Sorted`); every other than a vector has a pointer that leads
  somewhere and room for its size and zero (`Fits`), its zero (`Stop`) and
  the cells the program expects (`Matches`).
* `ElementsInv`: the same of vectors, whose cells hold tokens that stand for elements: each
  cell an element that is alive and has the value expected (`Reading`), no two cells of any
  vectors the same one (`Distinct`), and no element alive outside them.
* Every cell holds something a cell can hold (`Typed`), and there was no fault.

`MemoryCellProofs` has one lemma per operation saying what the cells of its container are
after it, given what they were. An operation changes only its container and
what that owns (`Changes`, `Moves`), so that the others are undisturbed (`CellsElsewhere`). The
copies within a block overlap; `BackwardShifts` and `ForwardShifts` show that each is used
in the direction in which it shifts. `MemoryElementProofs` says of the operations on vectors that
the elements alive are those in the cells of the vector that are in use at the moment,
`I`, and those of the others, `X` (`Lives`); in the middle of `insert`, `erase` and `resize`
the cells in use are not the first `size` ones, and one cell may be a moved copy of another.
There is always a free token, by the pigeonhole principle (`TokenCount`).
The steps that follow are `NextContents`: a call on one container, or containers that pass on
what they own.

The bound of `Memory` on the sum of the sizes is a fold, so `Does` also says what follows
from it, that each size is within the bound; TLC finds the same states with and
without.

`MarshalDataProofs` and `MarshalProofs`, for any methods, strings, numbers and bodies of a
peer that are such (`MethodAssumption`, `ByteAssumption`: types, bytes, nothing
larger than a process, a body padded as its header must say), so for vectors
to any depth and structs of any members. The recursive functions of `Marshal` are unfolded
by showing that there is a function with the values the definition asks for
(`Recursion`, `WritingExists`, `ReadingExists`, `ValidatingExists` and others), and what
holds of every depth follows with `UpTo`.

* `SizesAreRight`: `Spec => []SizedRight`. `WriteTypes` says of a type of any depth that the
  writer appends to what is there as many bytes as the counter adds, and nothing that
  was there changes (`Begins`).
* `ReadTypes` says that the reader is the inverse of the writer, given any body that
  begins with what was written: it ends where the writer ended, and returns what was written
  unless the type is `Wide`. `ReadAll` says so of all arguments.
* `ValidFollowed` says exactly what the validator does with an element of a type it
  follows, whoever wrote the body: it goes on to `End` if the bytes are `Sound` (aligned,
  counted within the body, a string with its zero), and fails otherwise. Signatures are
  sequences of characters here, so this rests on where an element of one ends and
  how it is aligned (`SkipStruct`, `AlignmentStruct`), and on a struct that is `Packed` being
  walked member by member without a gap (`ValidStruct`, `Reach`).
  `ReadFollowed` says that a reader of the same type ends at the same `End`, and
  `WrittenSound` that what a writer wrote is sound.
* `AcceptedIsRead` and `WrittenIsValid` put the elements of a message together: a body
  that was accepted, and not as empty, is read to where the validator ended; and a
  body that was written, padded or not, is validated as far as it was written.
* The inductive invariant, `MarshalInv`, says what was done to the body at each stage, and
  little else: `AsWritten`, `OnTheWay`, `NotAccepted`, `Trimmed`. The case of interest
  is that trimming an accepted body leaves what was written (`TrimmedOf`).
  `MarshalTypesHold`, `SizesAreRight`, `WrittenIsAccepted`, `ArgumentsAreRead` and
  `BodiesAreReadToTheEnd` are `Spec => []P` for the five properties of the run `marshal`.

An attempt at the last of them showed that `ReadToEnd`, as it was stated before, was false
of a local call whose arguments do not lie aligned, which no method of the run then
had: the writer does not align a string, say, but pads after it to a place that the
reader does not reach. `<<y, String>>` is now among the methods.

Only model-checked: the properties of `App` outside `SendersNestSafely`, where they hold;
`ExternRelay`, that is `TypeOK`, `RefusedExplained`, `RightObject`, and that it implements
`Channel`; every liveness property, which is beyond the prover.

What stands in the way of `ExternRelay`: it has no exhaustion of ids (`App` has), so its
`TypeOK` says that `LastMrid` is enough for the sessions and calls of an instance, and is no
theorem about every instance; and the other two relate both processes, both relay tables
and the messages in five queues, through loops over the table written as folds. A
proof would begin by replacing these folds by functions, as was done for `Marshal`, and by an
invariant on which relay each extid under way names.

## Not modelled

* ExternServer. It accepts, makes Externs and closes when unused; `ExternRelay` begins
  with a connection made. Reading it showed: `OnMsgerDestroyed` takes no notice of its
  creator's death; any error of accept but EAGAIN ends it (xcom.cc:994); its destructor
  does not close the socket; with f_CloseWhenEmpty it may end while a connection waits
  in the backlog (xcom.cc:970).
* Connection set up (`Bind`, `Connect`, `LaunchPipe`): sequences of system calls
  without state. `BindLocal` sets the mode of the path even if bind failed (xcom.cc:866).
* Searching, comparing and formatting; `rotate` and the multiset that sorts with it.
  `brotate` (memory.cc:77) copies overlapping parts last cell first: compiled, a rotation of
  "abcdef" by 1 gives "fffffa". `multiset::erase (v)` runs past the end, and
  `string::rfind` misses a match at its first position.
* The preprocessor of `metamac.h` only generates declarations. The tests are programs
  of the framework; the application actions of `App` and `ExternRelay` stand for them.
