-------------------------------- MODULE App --------------------------------
(***************************************************************************)
(* The message loop of cwiclo (app.h, app.cc) and the life of the objects  *)
(* it routes messages between, the Msgers (msg.h, msg.cc): allocation and  *)
(* release of message router ids, creation of a Msger by the first message *)
(* sent to it, dispatch of the input queue, forwarding of errors along the *)
(* chain of creators, deletion of unused Msgers and the notifications that *)
(* follow, and destruction of everything at exit.                          *)
(*                                                                         *)
(* The process is single threaded, but framework and application call each *)
(* other: a Msger's constructor, Dispatch, OnError, OnMsgerDestroyed and   *)
(* destructor run application code, and that code sends messages, which    *)
(* creates further Msgers, and frees ids, which notifies others.  The      *)
(* variable stack holds the application calls in progress; a step of the   *)
(* framework is taken when it is empty, a step of application code is      *)
(* taken by the call on top of it.  Modelled is the build with NDEBUG: an  *)
(* assert of the source is a property here, never a guard.                 *)
(*                                                                         *)
(* A proxy is the id it sends to; proxies[m] are the ids the proxies of    *)
(* Msger m were given.  A message is its destination and whether it is a   *)
(* request (sent by a Proxy) or a reply (sent by a ProxyR); its body and   *)
(* its method are left out.  Timers and signals are not in this module:    *)
(* the loop is the one of a program without timers, as test/fwork.cc.      *)
(***************************************************************************)
EXTENDS Naturals, Sequences

CONSTANTS
    LastMrid,        \* mrid_Last, the largest id a Msger can have
    Senders,         \* the calls in which application Msgers use the framework
    ReplyHasFactory, \* a Msger is registered for the reply interface
    MaxCalls         \* bound on the framework calls application code makes
                     \* in one iteration of the message loop

\* The calls the framework makes into application code.
Calls == {"ProcessArgs", "ctor", "Dispatch", "OnError", "OnMsgerDestroyed", "dtor"}

ASSUME LastMridAssumption == LastMrid \in Nat
ASSUME SendersAssumption == Senders \subseteq Calls
ASSUME FactoryAssumption == ReplyHasFactory \in BOOLEAN
ASSUME MaxCallsAssumption == MaxCalls \in Nat

Mrid == 0..LastMrid
mrid_App == 0
mrid_New == LastMrid + 1
mrid_Broadcast == LastMrid + 2

VARIABLES
    size,     \* _msgers.size() and _creators.size(), always changed together
    msgers,   \* _msgers: what each slot points to
    creators, \* _creators: who created the Msger in a slot; past size, what
              \* was left there when the vector shrank
    proxies,  \* the ids held by each Msger's proxies
    outq,     \* _outq: messages sent since the last SwapQueues
    inq,      \* the part of _inq still to be dispatched
    errors,   \* ~_errors.empty()
    quit,     \* f_Quitting and s_ExitCode: not quitting, quitting, or with failure
    phase,    \* the part of main the framework is in
    op,       \* where in that part it was when it called application code
    i, n,     \* cursor and captured end of the loop being run over _msgers
    oid,      \* ForwardError's oid
    mid,      \* DeleteMsger's mid
    crid,     \* and crid
    ci,       \* and the cursor of its loop over _creators
    stack,    \* application calls in progress, the innermost one first
    calls     \* framework calls made by application code in this iteration

table == <<size, msgers, creators>>
queues == <<outq, inq>>
status == <<errors, quit>>
range == <<i, n>>
deletion == <<mid, crid, ci>>
control == <<phase, op, range, oid, deletion>>
vars == <<table, proxies, queues, status, control, stack, calls>>

-----------------------------------------------------------------------------
(* Slots, messages and calls *)

\* A slot of _msgers: a null pointer, the application object (the one Msger
\* with f_Static) or a Msger created by a message.
Msger == [kind : {"null", "App", "Msger"}, src : Mrid, unused : BOOLEAN]
NoMsger == [kind |-> "null", src |-> 0, unused |-> FALSE]
NewMsger(src) == [kind |-> "Msger", src |-> src, unused |-> FALSE]

Live(id) == id \in Mrid /\ msgers[id].kind # "null"
ValidMsgerId(id) == id <= size

Message == [dest : Mrid \cup {mrid_New, mrid_Broadcast}, req : BOOLEAN]
Request(dest) == [dest |-> dest, req |-> TRUE]
HasMessagesFor(id) == \E k \in DOMAIN outq : outq[k].dest = id

\* src is the src of the link the running object was created with; msg is what
\* a constructor was called for: CreateMsg and ForwardMsg queue the message
\* once CreateLink has returned.
Frame == [fn : Calls, self : Mrid, src : Mrid, req : BOOLEAN]
Call(fn, self, src) == [fn |-> fn, self |-> self, src |-> src, req |-> FALSE]
Push(f) == stack' = <<f>> \o stack

Running == stack # <<>>
Top == Head(stack)
Self == Top.self

\* The constructor of a static TestApp and ProcessArgs run before Run does.
Init ==
    /\ size = 1
    /\ msgers = [id \in Mrid |->
                    IF id = mrid_App THEN [kind |-> "App", src |-> mrid_App, unused |-> FALSE]
                                     ELSE NoMsger]
    /\ creators = [id \in Mrid |-> mrid_App]
    /\ proxies = [id \in Mrid |-> {}]
    /\ outq = <<>> /\ inq = <<>>
    /\ errors = FALSE /\ quit = "no"
    /\ phase = "start" /\ op = "none"
    /\ i = 0 /\ n = 0 /\ oid = 0
    /\ mid = 0 /\ crid = 0 /\ ci = 0
    /\ stack = <<Call("ProcessArgs", mrid_App, mrid_App)>>
    /\ calls = 0

-----------------------------------------------------------------------------
(* Ids (app.cc, Msger lifecycle) *)

\* AllocateMrid takes the first slot that is null and its own creator, else
\* the next one past the end.
VacantIfNull(id) == id < size /\ ~Live(id)             \* mutant: owned ids too
Vacant(id) == id < size /\ creators[id] = id /\ ~Live(id)
NextMrid(id) ==
    /\ id = size \/ Vacant(id)
    /\ \A k \in 0..size : k < id => ~Vacant(k)
ExhaustedLate(id) == id > LastMrid + 1                  \* mutant: off by one
Exhausted(id) == id > LastMrid

\* A live Msger is told that Msger dead was destroyed.  The base class marks
\* the children of dead unused; ~App calls the base class on the App itself.
OnMsgerDestroyed(id, dead) ==
    /\ msgers' = [msgers EXCEPT ![id].unused = @ \/ dead = msgers[id].src]
    /\ IF msgers[id].kind = "App" /\ phase = "exit"
       THEN UNCHANGED stack
       ELSE Push(Call("OnMsgerDestroyed", id, msgers[id].src))

\* mutant: a Msger that keeps its slot is not told
FreeMridSilently(id) ==
    \/ /\ ~Live(id) /\ id + 1 = size
       /\ size' = id
       /\ UNCHANGED <<msgers, creators, stack>>
    \/ /\ Live(id) \/ id + 1 # size
       /\ creators' = [creators EXCEPT ![id] = id]
       /\ UNCHANGED <<size, msgers, stack>>

\* FreeMrid: the creator gives up the id.  The last slot is removed if it is
\* null; otherwise the slot becomes its own creator, and a Msger still in it
\* is told as if its creator were destroyed.
FreeMrid(id) ==
    \/ /\ ~Live(id) /\ id + 1 = size
       /\ size' = id
       /\ UNCHANGED <<msgers, creators, stack>>
    \/ /\ Live(id) \/ id + 1 # size
       /\ creators[id] # id
       /\ creators' = [creators EXCEPT ![id] = id]
       /\ UNCHANGED size
       /\ IF Live(id) THEN OnMsgerDestroyed(id, creators[id])
                      ELSE UNCHANGED <<msgers, stack>>
    \/ /\ Live(id) \/ id + 1 # size
       /\ creators[id] = id
       /\ UNCHANGED <<table, stack>>

\* CreateMsger calls the constructor of the Msger registered for the message's
\* interface; the message is queued when the constructor returns.
CreateMsger(id, msg) == Push([Call("ctor", id, Self) EXCEPT !.req = msg.req])

-----------------------------------------------------------------------------
(* What application code does in a call *)

AppCode ==
    /\ Running
    /\ Top.fn \in Senders
    /\ calls < MaxCalls
    /\ calls' = calls + 1

\* The first message through a new Proxy: CreateLink allocates an id and
\* creates the destination.  Without ids left the message keeps mrid_New.
SendNew ==
    /\ AppCode
    /\ \E id \in 0..size :
        /\ NextMrid(id)
        /\ IF Exhausted(id)
           THEN /\ errors' = TRUE
                /\ outq' = Append(outq, Request(mrid_New))
                /\ UNCHANGED <<table, proxies, stack>>
           ELSE /\ size' = IF id = size THEN size + 1 ELSE size
                /\ creators' = [creators EXCEPT ![id] = Self]
                /\ proxies' = [proxies EXCEPT ![Self] = @ \cup {id}]
                /\ CreateMsger(id, Request(id))
                /\ UNCHANGED <<msgers, outq, errors>>
    /\ UNCHANGED <<inq, quit, control>>

\* A further message through a Proxy: a destination that died is created again.
SendTo(id) ==
    /\ AppCode
    /\ id \in proxies[Self]
    /\ IF id < size /\ ~Live(id)
       THEN CreateMsger(id, Request(id)) /\ UNCHANGED outq
       ELSE outq' = Append(outq, Request(id)) /\ UNCHANGED stack
    /\ UNCHANGED <<table, proxies, inq, status, control>>

\* A message through the ProxyR made of the creating link.
Reply ==
    /\ AppCode
    /\ Top.src # Self
    /\ LET msg == [dest |-> Top.src, req |-> FALSE]
       IN  IF Top.src < size /\ ~Live(Top.src) /\ ReplyHasFactory
           THEN CreateMsger(Top.src, msg) /\ UNCHANGED outq
           ELSE outq' = Append(outq, msg) /\ UNCHANGED stack
    /\ UNCHANGED <<table, proxies, inq, status, control>>

Broadcast ==
    /\ AppCode
    /\ outq' = Append(outq, [dest |-> mrid_Broadcast, req |-> FALSE])
    /\ UNCHANGED <<table, proxies, inq, status, control, stack>>

\* Proxy::FreeId; the proxy is not used again.
FreeId(id) ==
    /\ AppCode
    /\ id \in proxies[Self]
    /\ proxies' = [proxies EXCEPT ![Self] = @ \ {id}]
    /\ IF ValidMsgerId(id) THEN FreeMrid(id) ELSE UNCHANGED <<table, stack>>
    /\ UNCHANGED <<queues, status, control>>

Error ==
    /\ AppCode
    /\ errors' = TRUE
    /\ UNCHANGED <<table, proxies, queues, quit, control, stack>>

Quit ==
    /\ AppCode
    /\ quit' = IF quit = "no" THEN "ok" ELSE quit
    /\ UNCHANGED <<table, proxies, queues, errors, control, stack>>

\* A Msger that is done with its work sets f_Unused.
SetUnused ==
    /\ AppCode
    /\ Top.fn \in {"Dispatch", "OnError", "OnMsgerDestroyed"}
    /\ msgers[Self].kind = "Msger" /\ ~msgers[Self].unused
    /\ msgers' = [msgers EXCEPT ![Self].unused = TRUE]
    /\ UNCHANGED <<size, creators, proxies, queues, status, control, stack>>

\* The constructor returns: the Msger is in its slot, the message is queued.
ReturnCtor ==
    /\ Running /\ Top.fn = "ctor"
    /\ msgers' = [msgers EXCEPT ![Self] = NewMsger(Top.src)]
    /\ outq' = Append(outq, [dest |-> Self, req |-> Top.req])
    /\ stack' = Tail(stack)
    /\ UNCHANGED <<size, creators, proxies, inq, status, control, calls>>

\* A Msger's proxies go with it.
ReturnDtor ==
    /\ Running /\ Top.fn = "dtor"
    /\ proxies' = [proxies EXCEPT ![Self] = {}]
    /\ stack' = Tail(stack)
    /\ UNCHANGED <<table, queues, status, control, calls>>

Return ==
    /\ Running /\ Top.fn \notin {"ctor", "dtor"}
    /\ stack' = Tail(stack)
    /\ UNCHANGED <<table, proxies, queues, status, control, calls>>

-----------------------------------------------------------------------------
(* Run and MessageLoopOnce *)

At(ph, o) == ~Running /\ phase = ph /\ op = o

QuittingWhenDrained == quit # "no" /\ outq = <<>>      \* mutant: finish the queue first
Quitting == quit # "no"

\* ~App deletes the Msgers from the last slot down.
EnterExit ==
    /\ phase' = "exit" /\ i' = size
    /\ UNCHANGED <<op, n, oid, deletion>>

\* Run does not start if application start up left an error.
Run ==
    /\ At("start", "none")
    /\ IF errors
       THEN EnterExit /\ quit' = "failed"
       ELSE /\ phase' = "loop"
            /\ UNCHANGED <<quit, op, range, oid, deletion>>
    /\ UNCHANGED <<table, proxies, queues, errors, stack, calls>>

LoopQuits ==
    /\ At("loop", "none")
    /\ Quitting
    /\ EnterExit
    /\ UNCHANGED <<table, proxies, queues, status, stack, calls>>

SwapQueues ==
    /\ At("loop", "none")
    /\ ~Quitting
    /\ inq' = outq /\ outq' = <<>>
    /\ phase' = "input"
    /\ calls' = 0
    /\ UNCHANGED <<table, proxies, status, op, range, oid, deletion, stack>>

\* mutant: the last slot is left out
EnterDeleteShort ==
    /\ phase' = "delete" /\ op' = "none"
    /\ i' = 0 /\ n' = size - 1
    /\ oid' = 0
    /\ UNCHANGED deletion

\* DeleteUnusedMsgers takes begin and end of _msgers once.
EnterDelete ==
    /\ phase' = "delete" /\ op' = "none"
    /\ i' = 0 /\ n' = size
    /\ oid' = 0
    /\ UNCHANGED deletion

\* The slots the message is dispatched to.
NextMsg ==
    /\ At("input", "none")
    /\ inq # <<>>
    /\ inq' = Tail(inq)
    /\ LET dest == Head(inq).dest
       IN  \/ /\ dest = mrid_Broadcast
              /\ op' = "range" /\ i' = 0 /\ n' = size
           \/ /\ dest # mrid_Broadcast /\ ValidMsgerId(dest)
              /\ op' = "range" /\ i' = dest /\ n' = dest + 1
           \/ /\ dest # mrid_Broadcast /\ ~ValidMsgerId(dest)
              /\ UNCHANGED <<op, range>>
    /\ UNCHANGED <<table, proxies, outq, status, phase, oid, deletion, stack, calls>>

\* The next Msger of the range; null slots are passed over.
Dispatch ==
    /\ At("input", "range")
    /\ \E k \in i..(n - 1) :
        /\ Live(k) /\ \A j \in i..(n - 1) : j < k => ~Live(j)
        /\ i' = k
        /\ Push(Call("Dispatch", k, msgers[k].src))
    /\ op' = "dispatched"
    /\ UNCHANGED <<table, proxies, queues, status, phase, n, oid, deletion, calls>>

RangeDone ==
    /\ At("input", "range")
    /\ \A k \in i..(n - 1) : ~Live(k)
    /\ op' = "none" /\ i' = 0 /\ n' = 0
    /\ UNCHANGED <<table, proxies, queues, status, phase, oid, deletion, stack, calls>>

\* ValidMsgerId lets mrid_New pass when the table is full: what is read past
\* its end was never written, and calling through it may end the process.
DispatchPastEnd ==
    /\ At("input", "range")
    /\ i < n /\ i = mrid_New
    /\ phase' = "crashed"
    /\ UNCHANGED <<table, proxies, queues, status, op, range, oid, deletion, stack, calls>>

CheckErrors ==
    /\ At("input", "dispatched")
    /\ IF errors THEN op' = "forward" /\ oid' = i /\ UNCHANGED i
                 ELSE op' = "range" /\ i' = i + 1 /\ UNCHANGED oid
    /\ UNCHANGED <<table, proxies, queues, status, phase, n, deletion, stack, calls>>

InputDone ==
    /\ At("input", "none")
    /\ inq = <<>>
    /\ EnterDelete
    /\ UNCHANGED <<table, proxies, queues, status, stack, calls>>

-----------------------------------------------------------------------------
(* ForwardError *)

\* Nobody handled the error: quit, and leave the rest of the input queue.
FailOnError ==
    /\ quit' = "failed"
    /\ inq' = <<>>
    /\ EnterDelete

ForwardErrorNobody ==
    /\ At("input", "forward")
    /\ ~Live(oid)
    /\ FailOnError
    /\ UNCHANGED <<table, proxies, outq, errors, stack, calls>>

\* OnError of the class of oid handles errors: it returns true.
ForwardErrorHandled ==
    /\ At("input", "forward")
    /\ Live(oid)
    /\ Push(Call("OnError", oid, msgers[oid].src))
    /\ op' = "handled"
    /\ UNCHANGED <<table, proxies, queues, status, phase, range, oid, deletion, calls>>

ClearErrors ==
    /\ At("input", "handled")
    /\ errors' = FALSE
    /\ op' = "range" /\ i' = i + 1 /\ oid' = 0
    /\ UNCHANGED <<table, proxies, queues, quit, phase, n, deletion, stack, calls>>

\* The OnError of Msger marks it unused and returns false: on to the creator.
ForwardErrorDeclined ==
    /\ At("input", "forward")
    /\ Live(oid)
    /\ msgers' = [msgers EXCEPT ![oid].unused = TRUE]
    /\ LET nextoid == msgers[oid].src
       IN  IF nextoid = oid \/ ~ValidMsgerId(nextoid)
           THEN FailOnError
           ELSE /\ oid' = nextoid
                /\ UNCHANGED <<quit, inq, phase, op, range, deletion>>
    /\ UNCHANGED <<size, creators, proxies, outq, errors, stack, calls>>

-----------------------------------------------------------------------------
(* DeleteUnusedMsgers, DeleteMsger and ~App *)

\* DeleteMsger empties the slot and calls the destructor; the App is static.
BeginDelete(id) ==
    /\ mid' = id /\ crid' = creators[id]
    /\ msgers' = [msgers EXCEPT ![id] = NoMsger]
    /\ op' = "notify"
    /\ IF msgers[id].kind = "Msger"
       THEN Push(Call("dtor", id, msgers[id].src))
       ELSE UNCHANGED stack
    /\ IF msgers[id].kind = "App"
       THEN proxies' = [proxies EXCEPT ![id] = {}]
       ELSE UNCHANGED proxies

DeletableAtOnce(id) == Live(id) /\ msgers[id].unused     \* mutant: whatever is queued
Deletable(id) == Live(id) /\ msgers[id].unused /\ ~HasMessagesFor(id)

DeleteUnused ==
    /\ At("delete", "none")
    /\ \E k \in i..(n - 1) :
        /\ Deletable(k) /\ \A j \in i..(n - 1) : j < k => ~Deletable(j)
        /\ i' = k + 1
        /\ BeginDelete(k)
    /\ UNCHANGED <<size, creators, queues, status, phase, n, oid, ci, calls>>

DeleteAtExit ==
    /\ At("exit", "none")
    /\ i > 0
    /\ i' = i - 1
    /\ BeginDelete(i - 1)
    /\ UNCHANGED <<size, creators, queues, status, phase, n, oid, ci, calls>>

\* The creator is told; without a creator the id is released.
NotifyCreator ==
    /\ ~Running /\ op = "notify"
    /\ IF crid >= size THEN UNCHANGED <<table, stack>>
       ELSE IF Live(crid) THEN OnMsgerDestroyed(crid, mid) /\ UNCHANGED <<size, creators>>
       ELSE FreeMrid(mid)
    /\ op' = "orphans"
    /\ UNCHANGED <<proxies, queues, status, phase, range, oid, deletion, calls>>

\* The ids it had created are released, and the Msgers in them told.
OwnedLive(k, owner) == creators[k] = owner /\ Live(k)   \* mutant: live Msgers only
Owned(k, owner) == creators[k] = owner

NotifyOrphan ==
    /\ ~Running /\ op = "orphans"
    /\ \E k \in ci..(size - 1) :
        /\ Owned(k, mid) /\ \A j \in ci..(size - 1) : j < k => ~Owned(j, mid)
        /\ FreeMrid(k)
        /\ ci' = k + 1
    /\ UNCHANGED <<proxies, queues, status, phase, op, range, oid, mid, crid, calls>>

DeleteDone ==
    /\ ~Running /\ op = "orphans"
    /\ \A k \in ci..(size - 1) : ~Owned(k, mid)
    /\ op' = "none" /\ mid' = 0 /\ crid' = 0 /\ ci' = 0
    /\ UNCHANGED <<table, proxies, queues, status, phase, range, oid, stack, calls>>

\* Without timers RunTimers quits when there is nothing left to process.
RunTimers ==
    /\ At("delete", "none")
    /\ \A k \in i..(n - 1) : ~Deletable(k)
    /\ quit' = IF quit = "no" /\ outq = <<>> THEN "ok" ELSE quit
    /\ phase' = "loop" /\ i' = 0 /\ n' = 0
    /\ UNCHANGED <<table, proxies, queues, errors, op, oid, deletion, stack, calls>>

ExitDone ==
    /\ At("exit", "none")
    /\ i = 0
    /\ phase' = "done"
    /\ UNCHANGED <<table, proxies, queues, status, op, range, oid, deletion, stack, calls>>

Terminated ==
    /\ phase \in {"done", "crashed"}
    /\ UNCHANGED vars

-----------------------------------------------------------------------------
Application ==
    \/ SendNew \/ Reply \/ Broadcast \/ Error \/ Quit \/ SetUnused
    \/ \E id \in Mrid : SendTo(id) \/ FreeId(id)
    \/ ReturnCtor \/ ReturnDtor \/ Return

ForwardError ==
    ForwardErrorNobody \/ ForwardErrorHandled \/ ForwardErrorDeclined \/ ClearErrors

ProcessInputQueue ==
    \/ NextMsg \/ Dispatch \/ RangeDone \/ DispatchPastEnd
    \/ CheckErrors \/ ForwardError \/ InputDone

DeleteMsgers ==
    \/ DeleteUnused \/ DeleteAtExit
    \/ NotifyCreator \/ NotifyOrphan \/ DeleteDone

Framework ==
    \/ Run \/ LoopQuits \/ SwapQueues \/ ProcessInputQueue
    \/ DeleteMsgers \/ RunTimers \/ ExitDone

Next == Application \/ Framework \/ Terminated

Spec == Init /\ [][Next]_vars

\* One thread runs both sides and no call blocks, so while a step is left to
\* take one is taken.
FairSpec == Spec /\ WF_vars(Next)

-----------------------------------------------------------------------------
(* Properties *)

\* Every variable keeps its type; the table never outgrows the mrid range.
TypeOK ==
    /\ size \in 0..(LastMrid + 1)
    /\ msgers \in [Mrid -> Msger]
    /\ creators \in [Mrid -> Mrid]
    /\ proxies \in [Mrid -> SUBSET Mrid]
    /\ outq \in Seq(Message) /\ inq \in Seq(Message)
    /\ errors \in BOOLEAN
    /\ quit \in {"no", "ok", "failed"}
    /\ phase \in {"start", "loop", "input", "delete", "exit", "done", "crashed"}
    /\ op \in {"none", "range", "dispatched", "forward", "handled", "notify", "orphans"}
    /\ i \in 0..(LastMrid + 2) /\ n \in 0..(LastMrid + 2)
    /\ oid \in Mrid
    /\ mid \in Mrid /\ crid \in Mrid /\ ci \in 0..(LastMrid + 1)
    /\ stack \in Seq(Frame)
    /\ calls \in 0..MaxCalls

\* An id a proxy holds is in the table and still belongs to the Msger the proxy
\* is part of: AllocateMrid never gives away the id of a Msger that died while
\* its creator still means to send to it, and FreeMrid never removes it.
ProxyOwnsId ==
    \A m \in Mrid : \A id \in proxies[m] : id < size /\ creators[id] = m

\* No id is lost: one that AllocateMrid may not give away is held by a proxy of
\* its creator, or the loop of DeleteMsger over its creator's ids is under way.
NoLeakedId ==
    phase \notin {"exit", "done"} =>
        \A id \in Mrid : (id < size /\ creators[id] # id) =>
            \/ id \in proxies[creators[id]]
            \/ op \in {"notify", "orphans"} /\ creators[id] = mid

\* A request that was queued finds a Msger: HasMessagesFor keeps the
\* destination alive however it came to be unused in the meantime.
RequestHasMsger ==
    /\ phase \notin {"exit", "done"} =>
        \A k \in DOMAIN outq : outq[k].req /\ outq[k].dest \in Mrid => Live(outq[k].dest)
    /\ phase = "input" =>
        \A k \in DOMAIN inq : inq[k].req /\ inq[k].dest \in Mrid => Live(inq[k].dest)

\* The creator a Msger remembers and the creator of its id are the same, unless
\* the creator is gone: the assert in FreeMrid (app.cc:155).
CreatorMatches ==
    \A id \in Mrid : Live(id) /\ creators[id] # id => msgers[id].src = creators[id]

\* A Msger whose creator gave it up or died is marked unused, so that
\* DeleteUnusedMsgers will find it: FreeMrid acts as if the creator was destroyed.
Orphan(id) == Live(id) /\ msgers[id].kind = "Msger" /\ creators[id] = id
OrphanUnused ==
    op \notin {"notify", "orphans"} =>
        \A id \in Mrid : Orphan(id) => msgers[id].unused

\* While a Msger is constructed its slot is in the table and empty, and no
\* message sent by the constructor constructs another Msger in the same slot.
ConstructedOnce ==
    \A k \in DOMAIN stack : stack[k].fn = "ctor" =>
        /\ stack[k].self < size /\ ~Live(stack[k].self)
        /\ \A l \in DOMAIN stack :
              stack[l].fn = "ctor" /\ stack[l].self = stack[k].self => l = k

\* As long as ForwardError returns, an unused Msger nobody sends to any more is
\* deleted while the loop still runs, wherever in the table it is.
DeletableDeleted ==
    ([]<>(op # "forward")) =>
        \A id \in Mrid :
            Deletable(id) ~> ~Deletable(id) \/ quit # "no" \/ phase = "crashed"

\* As long as ForwardError returns, a program that was told to quit ends,
\* however many messages are still being sent.
QuitEnds ==
    ([]<>(op # "forward")) => (quit # "no" ~> phase \in {"done", "crashed"})
=============================================================================
