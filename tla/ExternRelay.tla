----------------------------- MODULE ExternRelay -----------------------------
(***************************************************************************)
(* Objects in two processes calling each other through an Extern           *)
(* connection (xcom.cc: Extern's relay table, AcceptIncomingMessage and    *)
(* COM messages; COMRelay).  In the client a caller sends its request to a *)
(* COMRelay in place of the object; the relay registers with the Extern    *)
(* under an extid and hands it the message; the server's Extern makes a    *)
(* COMRelay for an extid it does not know, which makes the object.         *)
(* Replies go back through the two relays.  The end of either object is    *)
(* told to the other side by a COM Delete, its errors by a COM Error.      *)
(*                                                                         *)
(* A process is a record and the framework's nested calls are operators    *)
(* that return the process they leave: a step is one Msger dispatched to   *)
(* or the end of an iteration of the message loop.  Of the App only what   *)
(* the relays depend on is here: allocation and release of ids, creation   *)
(* of a Msger by the first message to it, deletion and its notifications,  *)
(* forwarding of errors (App models them fully).  The connection is a      *)
(* Channel each way, which ExternStream implements.  The Extern's Timer is *)
(* left out, with its id.                                                  *)
(*                                                                         *)
(* The client imports one interface that the server exports, with its      *)
(* reply interface; they are registered as test/ipcom.cc and ipcomsrv.cc   *)
(* do.  The applications and their callers handle the errors that reach    *)
(* them.  A caller and the object it calls make a session; sessions and    *)
(* the calls in them are numbered for the properties only.                 *)
(***************************************************************************)
EXTENDS Naturals, FiniteSetsExt, SequencesExt

CONSTANTS
    LastMrid,  \* bound on the ids a process uses
    Sessions,  \* bound on callers started
    MaxCalls,  \* bound on requests sent
    Reopen,    \* callers are started after others have ended
    Hasty,     \* callers may end before their first request was dispatched
    Closing    \* the connection may be closed by either application

ASSUME BoundsAssumption == LastMrid \in Nat /\ Sessions \in Nat /\ MaxCalls \in Nat
ASSUME HabitsAssumption == {Reopen, Hasty, Closing} \subseteq BOOLEAN

Sides == {"client", "server"}
Peer(s) == CHOOSE p \in Sides : p # s

Mrid == 0..LastMrid
mrid_App == 0
mrid_New == LastMrid + 1
ExternId == 1           \* created by the App, or by its ExternServer
extid_COM == 0
extid_ServerBase == 32000

VARIABLES
    proc,   \* the two processes
    heard   \* the calls and replies each session's objects have received,
            \* until one of them ended

vars == <<proc, heard>>

-----------------------------------------------------------------------------
(* A process *)

\* to is where a Msger's proxy sends: a caller's request, a relay's _localp, a
\* server's reply.  pExtern is whether a relay points to the Extern.
NoMsger == [kind |-> "none", src |-> mrid_App, to |-> mrid_New, unused |-> FALSE,
            pExtern |-> FALSE, extid |-> 0, session |-> 0]
Msger(kind, src, to, k) == [NoMsger EXCEPT !.kind = kind, !.src = src, !.to = to, !.session = k]

\* What a message is about: a session, and the number of a call in it.
About(k, n) == [session |-> k, n |-> n]
Message(src, dest, op, about) == [src |-> src, dest |-> dest, op |-> op, about |-> about]
ExtMsg(extid, op, about) == [extid |-> extid, op |-> op, about |-> about]

\* relays is the Extern's _relays: the relay's id and the extid; importing is
\* _einfo.imported; error is whether _errors holds one; out is what the Extern
\* has queued and the other side not yet read, in is what a step can read.
\* For the properties: said, the calls each session's object here has sent or
\* replied to; gone, the sessions whose object or relay here was destroyed;
\* refused, the invalid messages.
NewProcess(s) ==
    [side |-> s, state |-> "running", sock |-> "open",
     size |-> 2,
     msgers |-> [id \in Mrid |-> CASE id = mrid_App -> Msger("App", mrid_App, mrid_New, 0)
                                   [] id = ExternId -> Msger("Extern", mrid_App, mrid_New, 0)
                                   [] OTHER -> NoMsger],
     creators |-> [id \in Mrid |-> mrid_App],
     inq |-> <<>>, outq |-> <<>>, error |-> FALSE,
     relays |-> <<[dest |-> ExternId, extid |-> extid_COM]>>,
     importing |-> FALSE,
     in |-> <<>>, out |-> IF s = "server" THEN <<ExtMsg(extid_COM, "Export", About(0, 0))>> ELSE <<>>,
     said |-> [k \in 1..Sessions |-> <<>>], gone |-> {}, refused |-> {}]

Live(P, id) == id < P.size /\ P.msgers[id].kind # "none"
ExternAlive(P) == P.msgers[ExternId].kind = "Extern"
HasMessagesFor(P, id) == \E k \in DOMAIN P.outq : P.outq[k].dest = id

\* The process ends: by Quit, or because it used a pointer to an Extern that is
\* no more.
Ends(P, how) == [P EXCEPT !.state = how, !.sock = "closed"]

-----------------------------------------------------------------------------
(* Creation *)

NewId(P) == Min({id \in 0..P.size : id = P.size \/ (P.creators[id] = id /\ ~Live(P, id))})

\* COMRelay::COMRelay: made by the Extern, for an object still to be made, or
\* by a local caller.
NewRelay(P, src, k) ==
    LET byExtern == src = ExternId /\ ExternAlive(P)
    IN  [Msger("COMRelay", src, IF byExtern THEN mrid_New ELSE src, k) EXCEPT !.pExtern = byExtern]

\* The factories registered for the interface of a message.
Construct(P, src, op, k) ==
    CASE op = "COM" \/ P.side = "client" -> NewRelay(P, src, k)
      [] P.side = "server" /\ op = "call" -> Msger("server", src, src, k)
      [] OTHER -> NoMsger

\* A Msger is made in the slot the link leads to, if there is none in it.
CreateLink(P, src, dest, op, k) ==
    LET Q == IF dest # mrid_New THEN P
             ELSE [P EXCEPT !.size = Max({@, NewId(P) + 1}), !.creators[NewId(P)] = src]
        id == IF dest # mrid_New THEN dest ELSE NewId(P)
    IN  IF id < Q.size /\ ~Live(Q, id) THEN [Q EXCEPT !.msgers[id] = Construct(Q, src, op, k)] ELSE Q

LinkDest(P, dest) == IF dest = mrid_New THEN NewId(P) ELSE dest
Iface(op) == IF op \in {"Delete", "Error", "Export"} THEN "COM" ELSE op

\* App::ForwardMsg and CreateMsg
Send(P, src, dest, op, about) ==
    [CreateLink(P, src, dest, Iface(op), about.session) EXCEPT !.outq =
        Append(@, Message(src, LinkDest(P, dest), op, about))]

-----------------------------------------------------------------------------
(* Extern: reading and writing *)

RelayById(P, id) == SelectInSeq(P.relays, LAMBDA r : r.dest = id)
RelayByExtid(P, extid) == SelectInSeq(P.relays, LAMBDA r : r.extid = extid)

\* The socket is closed and the Extern is to be deleted.
Extern_Close(P) == [P EXCEPT !.sock = "closed", !.msgers[ExternId].unused = TRUE]

\* AcceptIncomingMessage: to the relay of the extid, made if the message is one
\* to an exported interface.  Otherwise the message is invalid.
IsExporting(P, op) == P.side = "server" /\ op = "call"
\* mutant: the link of a new extid is not kept.
AcceptIncomingUnlinked(P, msg) ==
    LET k == RelayByExtid(P, msg.extid)
    IN  CASE k # 0 -> Send(P, ExternId, P.relays[k].dest, msg.op, msg.about)
          [] k = 0 /\ IsExporting(P, msg.op) ->
                LET id == NewId(P)
                IN  Send(CreateLink(P, ExternId, mrid_New, "COM", msg.about.session), ExternId, id, msg.op, msg.about)
          [] OTHER -> [Extern_Close(P) EXCEPT !.error = TRUE, !.refused = @ \cup {msg}]
AcceptIncomingMessage(P, msg) ==
    LET k == RelayByExtid(P, msg.extid)
        id == NewId(P)
        Q == [CreateLink(P, ExternId, mrid_New, "COM", msg.about.session) EXCEPT
                !.relays = Append(@, [dest |-> id, extid |-> msg.extid])]
    IN  CASE k # 0 -> Send(P, ExternId, P.relays[k].dest, msg.op, msg.about)
          [] k = 0 /\ IsExporting(P, msg.op) -> Send(Q, ExternId, id, msg.op, msg.about)
          [] OTHER -> [Extern_Close(P) EXCEPT !.error = TRUE, !.refused = @ \cup {msg}]

\* mutant: only the message that completes a read is accepted.
ReadLatest(P) ==
    [IF P.in = <<>> \/ P.sock = "closed" THEN P ELSE AcceptIncomingMessage(P, Last(P.in)) EXCEPT !.in = <<>>]
\* ReadIncoming takes all there is, up to an invalid message.
ReadIncoming(P) ==
    LET Accept(Q, msg) == IF Q.sock = "open" THEN AcceptIncomingMessage(Q, msg) ELSE Q
    IN  [FoldLeft(Accept, P, P.in) EXCEPT !.in = <<>>]

\* QueueOutgoing serves the socket at once: it reads before it writes.
QueueOutgoing(P, msg) ==
    LET Q == ReadIncoming(P)
    IN  IF Q.sock = "open" THEN [Q EXCEPT !.out = Append(@, msg)] ELSE Q

-----------------------------------------------------------------------------
(* Deletion *)

\* What a Msger does when told that the Msger with id dead is destroyed.
OnMsgerDestroyed(P, id, dead) ==
    CASE P.msgers[id].kind = "COMRelay" ->
            [P EXCEPT !.msgers[id].unused = TRUE, !.msgers[id].pExtern = @ /\ dead = P.msgers[id].to]
      [] P.msgers[id].kind \in {"Extern", "caller", "server"} /\ dead = P.msgers[id].src ->
            [P EXCEPT !.msgers[id].unused = TRUE]
      [] OTHER -> P

\* mutant: the last id is released with its Msger alive.
FreeMridAlive(P, id) == IF id + 1 = P.size THEN [P EXCEPT !.size = id] ELSE P
FreeMrid(P, id) ==
    CASE id >= P.size -> P
      [] id = P.size - 1 /\ ~Live(P, id) -> [P EXCEPT !.size = id]
      [] (id < P.size - 1 \/ Live(P, id)) /\ P.creators[id] # id ->
            LET Q == [P EXCEPT !.creators[id] = id]
            IN  IF Live(P, id) THEN OnMsgerDestroyed(Q, id, P.creators[id]) ELSE Q
      [] OTHER -> P

\* The erased RelayProxy's PCOM frees its id.
UnregisterRelay(P, id) ==
    IF RelayById(P, id) = 0 THEN P
    ELSE FreeMrid([P EXCEPT !.relays = RemoveAt(@, RelayById(P, id))], id)

\* mutant: the relay goes without a word to the other side.
DestroyRelaySilently(P, r, id) ==
    CASE ~r.pExtern -> FreeMrid(P, r.to)
      [] r.pExtern /\ ExternAlive(P) -> FreeMrid(UnregisterRelay(P, id), r.to)
      [] OTHER -> Ends(P, "crashed")
\* ~COMRelay, then ~PCOM of _localp, which frees the local object's id.
DestroyRelay(P, r, id) ==
    LET told == IF r.extid = 0 THEN P ELSE QueueOutgoing(P, ExtMsg(r.extid, "Delete", About(r.session, 0)))
    IN  CASE ~r.pExtern -> FreeMrid(P, r.to)
          [] r.pExtern /\ ExternAlive(P) -> FreeMrid(UnregisterRelay(told, id), r.to)
          [] OTHER -> Ends(P, "crashed")

\* ~Extern: with it go its relay proxies, in order.
DestroyExtern(P) ==
    FoldLeft(FreeMrid, [P EXCEPT !.sock = "closed", !.relays = <<>>],
             [k \in DOMAIN P.relays |-> P.relays[k].dest])

Destroy(P, r, id) ==
    CASE r.kind = "COMRelay" -> DestroyRelay(P, r, id)
      [] r.kind = "Extern" -> DestroyExtern(P)
      [] OTHER -> P

DeleteMsger(P, id) ==
    LET crid == P.creators[id]
        Q == Destroy([P EXCEPT !.msgers[id] = NoMsger, !.gone = @ \cup ({P.msgers[id].session} \ {0})],
                     P.msgers[id], id)
        Notified == CASE crid >= Q.size -> Q
                      [] Live(Q, crid) -> OnMsgerDestroyed(Q, crid, id)
                      [] OTHER -> FreeMrid(Q, id)
        FreeIfCreated(R, i) == IF i < R.size /\ R.creators[i] = id THEN FreeMrid(R, i) ELSE R
    IN  FoldLeft(FreeIfCreated, Notified, [i \in 1..LastMrid + 1 |-> i - 1])

\* App::DeleteUnusedMsgers, over the table as it was.
Deletable(P, id) == Live(P, id) /\ P.msgers[id].unused /\ ~HasMessagesFor(P, id)
DeleteUnusedMsgers(P) ==
    LET DeleteIfUnused(Q, id) == IF Q.state = "running" /\ Deletable(Q, id) THEN DeleteMsger(Q, id) ELSE Q
    IN  FoldLeft(DeleteIfUnused, P, [i \in 1..P.size |-> i - 1])

-----------------------------------------------------------------------------
(* Errors *)

\* App::ForwardError: each Msger from oid on declines the error, is marked
\* unused, and the error goes to its creator, until one handles it or there is
\* none to ask.  A relay handles its local object's, by a message to the other
\* side.
Handles(P, id, from) ==
    \/ P.msgers[id].kind \in {"App", "caller"}
    \/ P.msgers[id].kind = "COMRelay" /\ P.msgers[id].pExtern /\ from = P.msgers[id].to
OnError(P, id) ==
    LET m == P.msgers[id]
    IN  CASE m.kind # "COMRelay" -> P
          [] m.kind = "COMRelay" /\ ExternAlive(P) ->
                QueueOutgoing(P, ExtMsg(m.extid, "Error", About(m.session, 0)))
          [] OTHER -> Ends(P, "crashed")
ForwardError(P, oid, eoid) ==
    LET Step(e, i) ==
            CASE ~e.P.error \/ ~Live(e.P, e.at) -> e
              [] e.P.error /\ Live(e.P, e.at) /\ Handles(e.P, e.at, e.from) ->
                    [e EXCEPT !.P = [OnError(e.P, e.at) EXCEPT !.error = FALSE]]
              [] OTHER -> [e EXCEPT !.P.msgers[e.at].unused = TRUE, !.at = e.P.msgers[e.at].src, !.from = e.at]
    IN  FoldLeft(Step, [P |-> P, at |-> oid, from |-> eoid], [i \in 1..LastMrid |-> i]).P

-----------------------------------------------------------------------------
(* COMRelay *)

\* mutant: one extid for all.
CreateExtidOfExtern(P, id) == IF P.side = "client" THEN ExternId ELSE ExternId + extid_ServerBase
CreateExtidFromRelayId(P, id) == IF P.side = "client" THEN id ELSE id + extid_ServerBase

\* Extern::RegisterRelay, and the extid it returns.
RegisterRelay(P, id) ==
    IF RelayById(P, id) # 0 THEN P
    ELSE [P EXCEPT !.relays = Append(@, [dest |-> id, extid |-> CreateExtidFromRelayId(P, id)])]
RegisteredExtid(P, id) == P.relays[RelayById(P, id)].extid

\* COMRelay::Dispatch of a message that is not COM's: to the other side, or to
\* the local object.  A relay without an Extern takes the one that imports the
\* interface of the message, which is the one calls are made through.
Registered(P, id) ==
    IF P.msgers[id].extid # 0 THEN P
    ELSE LET Q == RegisterRelay(P, id)
         IN  [Q EXCEPT !.msgers[id].extid = RegisteredExtid(Q, id), !.msgers[id].unused = FALSE]
\* mutant: the relay does not keep the id of the object it makes.
ForwardUnkept(P, id, msg) ==
    IF msg.src = P.msgers[id].to
      THEN QueueOutgoing(P, ExtMsg(P.msgers[id].extid, msg.op, msg.about))
      ELSE Send(P, id, P.msgers[id].to, msg.op, msg.about)
Forward(P, id, msg) ==
    IF msg.src = P.msgers[id].to
      THEN QueueOutgoing(P, ExtMsg(P.msgers[id].extid, msg.op, msg.about))
      ELSE [Send(P, id, P.msgers[id].to, msg.op, msg.about) EXCEPT !.msgers[id].to = LinkDest(P, @)]
Relay(P, id, msg) ==
    CASE P.msgers[id].pExtern /\ ~ExternAlive(P) -> Ends(P, "crashed")
      [] P.msgers[id].pExtern /\ ExternAlive(P) -> Forward(Registered(P, id), id, msg)
      [] ~P.msgers[id].pExtern /\ ExternAlive(P) /\ P.importing /\ msg.op = "call" ->
            Forward(Registered([P EXCEPT !.msgers[id].pExtern = TRUE], id), id, msg)
      [] OTHER -> [P EXCEPT !.error = TRUE]

\* mutant: the relay is not told to end.
COM_DeleteKept(P, id) == [P EXCEPT !.msgers[id].pExtern = FALSE, !.msgers[id].extid = 0]
COM_Delete(P, id) ==
    [P EXCEPT !.msgers[id].pExtern = FALSE, !.msgers[id].extid = 0, !.msgers[id].unused = TRUE]

\* The error is given to the local object first.
COM_Error(P, id) == ForwardError([P EXCEPT !.error = TRUE], P.msgers[id].to, id)

-----------------------------------------------------------------------------
(* Steps of a process *)

Init ==
    /\ proc = [s \in Sides |-> NewProcess(s)]
    /\ heard = [s \in Sides |-> [k \in 1..Sessions |-> <<>>]]

Says(P, k, n) == [P EXCEPT !.said[k] = Append(@, n)]
Gone(k) == \E s \in Sides : k \in proc[s].gone

Running(s) == proc[s].state = "running"

\* What a process can read in a step of its own: nothing, or all that the other
\* side has queued.  It is read only where the step serves the socket.
Steps(s, Step(_)) ==
    \E in \in {<<>>, proc[Peer(s)].out} :
        \E Q \in Step([proc[s] EXCEPT !.in = in]) :
            /\ Q.in = <<>>
            /\ proc' = [proc EXCEPT ![s] = Q, ![Peer(s)].out = IF in = <<>> THEN @ ELSE <<>>]

\* The application starts a caller, which sends its first request: a relay is
\* made for it.
Started(P) == Cardinality({k \in 1..Sessions : P.said[k] # <<>>})
Calls(P) == FoldFunction(LAMBDA q, n : n + Len(q), 0, P.said)
Start ==
    LET P == proc["client"]
        k == Started(P) + 1
        id == NewId(P)
        Q == [P EXCEPT !.size = Max({@, id + 1}), !.creators[id] = mrid_App,
                       !.msgers[id] = Msger("caller", mrid_App, mrid_New, k)]
        relay == NewId(Q)
    IN  /\ Running("client") /\ P.importing /\ k <= Sessions /\ Calls(P) < MaxCalls
        /\ ~Reopen => P.gone = {}
        /\ proc' = [proc EXCEPT !["client"] =
                        [Says(Send(Q, id, mrid_New, "call", About(k, 1)), k, 1) EXCEPT !.msgers[id].to = relay]]
        /\ UNCHANGED heard

Callers(P) == {id \in Mrid : P.msgers[id].kind = "caller" /\ ~P.msgers[id].unused}

CallAgain ==
    LET P == proc["client"]
    IN  /\ Running("client") /\ Calls(P) < MaxCalls
        /\ \E id \in Callers(P) :
            LET k == P.msgers[id].session
                n == Len(P.said[k]) + 1
            IN  proc' = [proc EXCEPT !["client"] = Says(Send(P, id, P.msgers[id].to, "call", About(k, n)), k, n)]
        /\ UNCHANGED heard

End ==
    LET P == proc["client"]
        Sent(id) == P.msgers[P.msgers[id].to].kind = "COMRelay" => P.msgers[P.msgers[id].to].extid # 0
    IN  /\ Running("client")
        /\ \E id \in Callers(P) :
            /\ Hasty \/ Sent(id)
            /\ proc' = [proc EXCEPT !["client"].msgers[id].unused = TRUE]
        /\ UNCHANGED heard

\* Extern_Close, by a message of an application that is otherwise idle.
AppCloses(s) ==
    /\ Closing /\ Running(s) /\ ExternAlive(proc[s]) /\ proc[s].sock = "open"
    /\ proc[s].inq = <<>> /\ proc[s].outq = <<>>
    /\ proc' = [proc EXCEPT ![s] = Extern_Close(@)]
    /\ UNCHANGED heard

\* The object called replies, and may end, or it fails.
Served(P, id, msg) ==
    LET reply == Send(P, id, P.msgers[id].to, "reply", msg.about)
        replied == IF P.msgers[id].session = msg.about.session
                     THEN Says(reply, msg.about.session, msg.about.n) ELSE reply
    IN  {replied, [replied EXCEPT !.msgers[id].unused = TRUE], [P EXCEPT !.error = TRUE]}

\* What dispatching a message to the Msger with its id leaves.
Dispatched(P, id, msg) ==
    LET kind == P.msgers[id].kind
    IN  CASE ~Live(P, id) -> {P}
          [] kind = "COMRelay" /\ msg.op = "Delete" -> {COM_Delete(P, id)}
          [] kind = "COMRelay" /\ msg.op = "Error" -> {COM_Error(P, id)}
          [] kind = "COMRelay" /\ msg.op \in {"call", "reply"} -> {Relay(P, id, msg)}
          [] kind = "Extern" /\ msg.op = "Export" -> {[P EXCEPT !.importing = P.side = "client"]}
          [] kind = "server" /\ msg.op = "call" -> Served(P, id, msg)
          [] OTHER -> {P}

\* An error found after the dispatch, from wherever, is the destination's.
Checked(P, id) ==
    LET Q == ForwardError(P, id, id)
    IN  IF Q.error THEN Ends(Q, "quit") ELSE Q

IsFor(m, k) == m.kind \in {"caller", "server"} /\ m.session = k
Dispatch(s) ==
    LET msg == Head(proc[s].inq)
        id == msg.dest
        k == msg.about.session
        ToDest(P) == {IF Live(P, id) THEN Checked(Q, id) ELSE Q :
                        Q \in Dispatched([P EXCEPT !.inq = Tail(@)], id, msg)}
    IN  /\ Running(s) /\ proc[s].inq # <<>>
        /\ Steps(s, ToDest)
        /\ heard' = IF IsFor(proc[s].msgers[id], k) /\ ~Gone(k)
                      THEN [heard EXCEPT ![s][k] = Append(@, msg.about.n)] ELSE heard

\* The Extern's Timer has found the socket ready.
TimerR_Timer(s) ==
    LET Read(P) == {IF P.in = <<>> THEN Extern_Close(P) ELSE Checked(ReadIncoming(P), ExternId)}
        out == proc[Peer(s)].out
    IN  /\ Running(s) /\ ExternAlive(proc[s]) /\ proc[s].sock = "open"
        /\ out # <<>> \/ proc[Peer(s)].sock = "closed"
        /\ \E Q \in Read([proc[s] EXCEPT !.in = out]) : proc' = [proc EXCEPT ![s] = Q, ![Peer(s)].out = <<>>]
        /\ UNCHANGED heard

\* DeleteUnusedMsgers, and SwapQueues of the next iteration.
EndIteration(s) ==
    LET Housekeep(P) == {[Q EXCEPT !.inq = Q.outq, !.outq = <<>>] : Q \in {DeleteUnusedMsgers(P)}}
    IN  /\ Running(s) /\ proc[s].inq = <<>>
        /\ proc[s].outq # <<>> \/ \E id \in Mrid : Deletable(proc[s], id)
        /\ Steps(s, Housekeep)
        /\ UNCHANGED heard

Run(s) == Dispatch(s) \/ TimerR_Timer(s) \/ EndIteration(s)

Next ==
    \/ Start \/ CallAgain \/ End
    \/ \E s \in Sides : Run(s) \/ AppCloses(s)

\* Weak fairness of Run(s); CanRun(s) is when it is enabled.
CanRun(s) ==
    /\ Running(s)
    /\ \/ proc[s].inq # <<>> \/ proc[s].outq # <<>> \/ \E id \in Mrid : Deletable(proc[s], id)
       \/ /\ ExternAlive(proc[s]) /\ proc[s].sock = "open"
          /\ proc[Peer(s)].out # <<>> \/ proc[Peer(s)].sock = "closed"
Fairness == \A s \in Sides : <>[]CanRun(s) => []<><<Run(s)>>_vars

Spec == Init /\ [][Next]_vars /\ Fairness
-----------------------------------------------------------------------------
TypeOK ==
    \A s \in Sides : LET P == proc[s] IN
        /\ P.side = s /\ P.state \in {"running", "quit", "crashed"} /\ P.sock \in {"open", "closed"}
        /\ P.size \in 0..LastMrid + 1
        /\ \A id \in Mrid :
            /\ P.msgers[id].kind \in {"none", "App", "Extern", "COMRelay", "caller", "server"}
            /\ P.msgers[id].to \in 0..mrid_New
            /\ Live(P, id) \/ P.msgers[id] = NoMsger
            /\ P.creators[id] \in Mrid
        /\ \A m \in ToSet(P.inq) \cup ToSet(P.outq) : m.dest \in Mrid
        /\ \A r \in ToSet(P.relays) : r.dest \in Mrid

Up == \A s \in Sides : Running(s) /\ proc[s].sock = "open"

\* A message on its way to an object is one of the object's own session: of two
\* sessions that have lost neither an object nor a relay, the relay tables and
\* extids of the two sides never join the caller of one to the object of the
\* other.  The whole link from QueueOutgoing through AcceptIncomingMessage to
\* COMRelay::Dispatch is relied on.  (An extid used again while its old proxy
\* remains is not in question: that takes a session that has lost its relay.)
RightObject == \A s \in Sides : \A msg \in ToSet(proc[s].inq) :
    LET m == proc[s].msgers[msg.dest]
    IN  m.kind \in {"caller", "server"} /\ m.session # msg.about.session =>
            Gone(m.session) \/ Gone(msg.about.session)

\* AcceptIncomingMessage refuses, and closes the connection for all sessions,
\* only a message of a session that has lost its object or a relay: one that
\* crossed a COM Delete.
RefusedExplained == \A s \in Sides : \A msg \in proc[s].refused : Gone(msg.about.session)

\* When a caller has ended and its relay with it, then the other process has at
\* some time ended its relay or the object that was called, or will: the COM
\* Delete of ~COMRelay reaches it, whatever crosses it on the way, while the
\* connection lasts.  Not that the object stays away: if it had ended by itself
\* and a call that was still behind makes it again, the property asks no more.
Ended(s, k) == k \in proc[s].gone /\ \A id \in Mrid : proc[s].msgers[id].session # k
EndsReachServer == \A k \in 1..Sessions :
    Ended("client", k) ~> k \in proc["server"].gone \/ ~Ended("client", k) \/ ~Up

\* When an object has ended and its relay with it, its caller and the caller's
\* relay end too, or a new message makes the object again, while the connection
\* lasts.
EndsReachCaller == \A k \in 1..Sessions :
    Ended("server", k) ~> Ended("client", k) \/ ~Ended("server", k) \/ ~Up
=============================================================================
