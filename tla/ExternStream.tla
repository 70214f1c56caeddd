---------------------------- MODULE ExternStream ----------------------------
(***************************************************************************)
(* The framing of messages on the socket between two Extern objects        *)
(* (xcom.cc: Extern::ExtMsg, QueueOutgoing, TimerR_Timer, WriteOutgoing,   *)
(* ReadIncoming): messages written by sendmsg in pieces of any length,     *)
(* several in one call, file descriptors passed with the first piece of    *)
(* their message, and put together again from whatever recvmsg returns.    *)
(*                                                                         *)
(* Two processes run, each single threaded; a step is one system call of   *)
(* one of them with what the code does up to the next.  pc is the loop a   *)
(* process is in, "idle" when it is in none and may be polling or running  *)
(* another Msger.  A call interrupted by a signal is made again: a stutter.*)
(*                                                                         *)
(* The unit of the stream is a piece of a message: FixedSz pieces of fixed *)
(* header (the body size sz in the first, extid, fdoffset and the header   *)
(* size hsz in the last), NamesSz of method name and BodySz of body where  *)
(* there is one.  What a piece says follows from its place in the stream,  *)
(* so the stream is kept as the pieces' places and the files passed with   *)
(* them.  A message's place is the number of pieces queued before it.      *)
(* Method names, bodies and the extids are well formed here: their         *)
(* validation is in Marshal, their routing in ExternRelay.  Credentials    *)
(* are left out, and applications keep the files they open and receive.    *)
(***************************************************************************)
EXTENDS Naturals, Sequences, FiniteSetsExt

CONSTANTS
    Scripts,         \* what the applications of the two processes may do, in
                     \* order: functions from Sides to sequences of Acts
    SocketSz,        \* pieces of message the socket holds in one direction
    MaxFds,          \* size of a process's descriptor table
    MaxIOVecs,       \* iovecs sendmsg takes in one call: IOV_MAX, 1024
    OpenWhileWriting \* files are opened while a message with a file has been
                     \* written in part

Acts == {"body", "empty", "file", "badfd", "open", "close"}

ASSUME SocketAssumption == SocketSz \in Nat \ {0}
ASSUME FdsAssumption == MaxFds \in Nat
ASSUME IOVecsAssumption == MaxIOVecs \in Nat
ASSUME OpenAssumption == OpenWhileWriting \in BOOLEAN

Sides == {"client", "server"}
ASSUME ScriptsAssumption == Scripts \subseteq [Sides -> Seq(Acts)]
Peer(s) == IF s = "client" THEN "server" ELSE "client"

FixedSz == 2
NamesSz == 1
BodySz == 2

VARIABLES
    sockfd,    \* _sockfd: not opened yet, open, or closed
    script,    \* what the application has left to do
    outq,      \* _outq
    bwritten,  \* _bwritten
    bread,     \* _bread
    infd,      \* _infd: the number of the descriptor received, NoFd if none
    watch,     \* what _timer watches the socket for
    error,     \* the error reported by the Extern
    pc,        \* the loop the process is in
    fds,       \* the process's descriptor table: the file each number refers to
    files,     \* files opened so far, which are told apart by their number
    wire,      \* pieces in the socket's buffer, by sender
    sent,      \* messages queued so far
    delivered, \* messages accepted so far
    \* and of what happened earlier, for the properties alone:
    split,     \* a write of this side has ended within a fixed header
    stolen,    \* a write of this side has closed a file it did not pass
    full       \* a file came when this side's descriptor table was full

history == <<split, stolen, full>>
vars == <<sockfd, script, outq, bwritten, bread, infd, watch, error, pc,
          fds, files, wire, sent, delivered, history>>

-----------------------------------------------------------------------------
NoFile == 0
NoFd == 0       \* descriptor -1

\* A message: the size of its body, whether fdoffset says it has a descriptor,
\* the descriptor's number in the sending process, the file it referred to
\* when the message was sent, and its place in the stream.
Message(act, start, fd, file) ==
    [sz |-> IF act = "empty" THEN 0 ELSE BodySz,
     hasFd |-> act \in {"file", "badfd"}, fd |-> fd, file |-> file, start |-> start]

HeaderSize == FixedSz + NamesSz
Size(m) == m.sz + HeaderSize
End(m) == m.start + Size(m)
PassedFd(m) == IF m.hasFd THEN m.fd ELSE NoFd

\* The length of the stream of s.
Total(s) == IF sent[s] = <<>> THEN 0 ELSE End(sent[s][Len(sent[s])])

\* A piece of the stream, and the file that comes with it.
Piece(at, file) == [at |-> at, file |-> file]

Fds == 1..MaxFds

Init ==
    /\ sockfd = [s \in Sides |-> "none"]
    /\ script \in Scripts
    /\ outq = [s \in Sides |-> <<>>] /\ bwritten = [s \in Sides |-> 0]
    /\ bread = [s \in Sides |-> 0] /\ infd = [s \in Sides |-> NoFd]
    /\ watch = [s \in Sides |-> "none"] /\ error = [s \in Sides |-> "no"]
    /\ pc = [s \in Sides |-> "idle"]
    /\ fds = [s \in Sides |-> [f \in Fds |-> NoFile]]
    /\ files = 0
    /\ wire = [s \in Sides |-> <<>>]
    /\ sent = [s \in Sides |-> <<>>] /\ delivered = [s \in Sides |-> <<>>]
    /\ split = [s \in Sides |-> FALSE] /\ stolen = [s \in Sides |-> FALSE]
    /\ full = [s \in Sides |-> FALSE]

-----------------------------------------------------------------------------
(* Queueing, opening and closing *)

\* mutant: the message waits for the socket's next event
QueueOutgoingLater(s, m) ==
    /\ outq' = [outq EXCEPT ![s] = Append(@, m)]
    /\ sent' = [sent EXCEPT ![s] = Append(@, m)]
    /\ UNCHANGED pc

\* QueueOutgoing, which goes on to serve the socket at once.
QueueOutgoing(s, m) ==
    /\ outq' = [outq EXCEPT ![s] = Append(@, m)]
    /\ sent' = [sent EXCEPT ![s] = Append(@, m)]
    /\ pc' = [pc EXCEPT ![s] = IF sockfd[s] = "closed" THEN "idle" ELSE "read"]

\* Extern_Open with a socket AttachToSocket accepts: the handshake begins with
\* an Export message.
Open(s) ==
    /\ pc[s] = "idle" /\ sockfd[s] = "none"
    /\ sockfd' = [sockfd EXCEPT ![s] = "open"]
    /\ QueueOutgoing(s, Message("body", 0, NoFd, NoFile))
    /\ UNCHANGED <<script, bwritten, bread, infd, watch, error, fds, files, wire, delivered, history>>

\* Extern_Close.  What the other side wrote is lost; what was written to it is not.
Close(s) ==
    /\ sockfd' = [sockfd EXCEPT ![s] = "closed"]
    /\ wire' = [wire EXCEPT ![Peer(s)] = <<>>]
    /\ pc' = [pc EXCEPT ![s] = "idle"]

\* A file is opened, or a file received is installed, under the lowest free
\* number.
FreeFds(s) == {f \in Fds : fds[s][f] = NoFile}
LowestFd(s) == Min(FreeFds(s))
Installed(s, file) == [fds EXCEPT ![s][LowestFd(s)] = file]
OpenFile(s) ==
    /\ ~OpenWhileWriting => ~(outq[s] # <<>> /\ bwritten[s] > 0 /\ Head(outq[s]).hasFd)
    /\ FreeFds(s) # {}
    /\ files' = files + 1
    /\ fds' = Installed(s, files')

\* The next thing the application does: a message to the other side, perhaps
\* with a file just opened or with the -1 of a failed open, another file
\* opened for itself, or PExtern::Close.
Act(s, act) ==
    /\ pc[s] = "idle" /\ sockfd[s] # "none"
    /\ script[s] # <<>> /\ Head(script[s]) = act
    /\ script' = [script EXCEPT ![s] = Tail(@)]
    /\ UNCHANGED <<bwritten, bread, infd, error, delivered, history>>

SendPlain(s) ==
    /\ \E act \in {"body", "empty", "badfd"} :
        /\ Act(s, act)
        /\ QueueOutgoing(s, Message(act, Total(s), NoFd, NoFile))
    /\ UNCHANGED <<sockfd, watch, fds, files, wire>>

SendFile(s) ==
    /\ Act(s, "file")
    /\ OpenFile(s)
    /\ QueueOutgoing(s, Message("file", Total(s), LowestFd(s), files'))
    /\ UNCHANGED <<sockfd, watch, wire>>

AppOpens(s) ==
    /\ Act(s, "open")
    /\ OpenFile(s)
    /\ UNCHANGED <<sockfd, outq, watch, pc, wire, sent>>

AppCloses(s) ==
    /\ Act(s, "close")
    /\ Close(s)
    /\ UNCHANGED <<outq, watch, fds, files, sent>>

\* The Timer reports the socket ready, hung up included; it watches once.
TimerR_Timer(s) ==
    /\ pc[s] = "idle" /\ sockfd[s] = "open" /\ watch[s] # "none"
    /\ \/ wire[Peer(s)] # <<>> \/ sockfd[Peer(s)] = "closed"
       \/ watch[s] = "ReadWrite" /\ Len(wire[s]) < SocketSz
    /\ watch' = [watch EXCEPT ![s] = "none"]
    /\ pc' = [pc EXCEPT ![s] = "read"]
    /\ UNCHANGED <<sockfd, script, outq, bwritten, bread, infd, error, fds, files,
                   wire, sent, delivered, history>>

-----------------------------------------------------------------------------
(* WriteOutgoing: sendmsg *)

\* The messages one sendmsg call takes: the first with its file, and those
\* after it up to the next that has one.
AggregatedAll(s) == Len(outq[s])   \* mutant: whatever they carry
Aggregated(s) ==
    LET q == outq[s]
        first == IF PassedFd(q[1]) # NoFd THEN 1 ELSE 0
        stops == {k \in first + 1..Len(q) : q[k].hasFd}
    IN  IF stops = {} THEN Len(q) ELSE Min(stops) - 1

\* What sendmsg is given (WriteIOVecs): the messages less the pieces of the
\* first already written, with the first one's file unless it has been passed.
IOVecs(s) ==
    LET q == outq[s]
        from == q[1].start + bwritten[s]
        passes == PassedFd(q[1]) # NoFd /\ bwritten[s] = 0
    IN  IF Aggregated(s) = 0 THEN <<>>
        ELSE [k \in 1..End(q[Aggregated(s)]) - from |->
                Piece(from + k, IF k = 1 /\ passes THEN fds[s][q[1].fd] ELSE NoFile)]

\* There are two iovecs for each message, and they may be more than sendmsg
\* takes: EMSGSIZE.
TooMany(s) == 2 * Aggregated(s) > MaxIOVecs

\* The control data names a descriptor that is no longer open: EBADF.
BadDescriptor(s) ==
    /\ PassedFd(outq[s][1]) # NoFd /\ bwritten[s] = 0
    /\ fds[s][outq[s][1].fd] = NoFile

\* Or the other end has closed: EPIPE.
SendError(s) == IF TooMany(s) THEN "EMSGSIZE"
                ELSE IF BadDescriptor(s) THEN "EBADF"
                ELSE IF sockfd[Peer(s)] = "closed" THEN "EPIPE" ELSE "no"

\* How many messages of q have been written whole, when bw pieces have been.
Ndone(q, bw) == Max({0} \cup {k \in DOMAIN q : End(q[k]) <= q[1].start + bw})

\* mutant: bwritten still counts the messages erased
ErasedUncounted(q, bw) == [outq |-> SubSeq(q, Ndone(q, bw) + 1, Len(q)), bwritten |-> bw]

\* They are erased.
Erased(q, bw) ==
    [outq |-> SubSeq(q, Ndone(q, bw) + 1, Len(q)),
     bwritten |-> IF Ndone(q, bw) = 0 THEN bw ELSE q[1].start + bw - End(q[Ndone(q, bw)])]

\* The descriptor of the first message is closed after each write of it, by
\* number: the first closes the file it passed, a later one whatever has come
\* under that number since.
ClosesAnother(s) ==
    bwritten[s] > 0 /\ PassedFd(outq[s][1]) # NoFd /\ fds[s][PassedFd(outq[s][1])] # NoFile

\* sendmsg takes some of it.
SendMsg(s) ==
    /\ pc[s] = "write" /\ outq[s] # <<>> /\ SendError(s) = "no"
    /\ \E n \in 1..Min({Len(IOVecs(s)), SocketSz - Len(wire[s])}) :
        LET left == Erased(outq[s], bwritten[s] + n)
            passedfd == PassedFd(outq[s][1])
        IN  /\ wire' = [wire EXCEPT ![s] = @ \o SubSeq(IOVecs(s), 1, n)]
            /\ split' = [split EXCEPT ![s] = @ \/ left.bwritten \in 1..FixedSz-1]
            /\ stolen' = [stolen EXCEPT ![s] = @ \/ ClosesAnother(s)]
            /\ fds' = [fds EXCEPT ![s] = [f \in Fds |-> IF f = passedfd THEN NoFile ELSE @[f]]]
            /\ outq' = [outq EXCEPT ![s] = left.outq]
            /\ bwritten' = [bwritten EXCEPT ![s] = left.bwritten]
    /\ UNCHANGED <<sockfd, script, bread, infd, watch, error, pc, files, sent, delivered, full>>

\* All is written, or the socket is full: TimerR_Timer watches it.
Written(s) ==
    /\ pc[s] = "write"
    /\ \/ /\ outq[s] = <<>>
          /\ watch' = [watch EXCEPT ![s] = "Read"]
       \/ /\ outq[s] # <<>> /\ IOVecs(s) # <<>> /\ SendError(s) = "no"
          /\ Len(wire[s]) >= SocketSz
          /\ watch' = [watch EXCEPT ![s] = "ReadWrite"]
    /\ pc' = [pc EXCEPT ![s] = "idle"]
    /\ UNCHANGED <<sockfd, script, outq, bwritten, bread, infd, error, fds, files,
                   wire, sent, delivered, history>>

\* A message with descriptor -1 leaves nothing to write and sendmsg returns 0,
\* which WriteOutgoing takes for the other end having closed.
NothingToSend(s) ==
    /\ pc[s] = "write" /\ outq[s] # <<>> /\ IOVecs(s) = <<>> /\ SendError(s) = "no"
    /\ Close(s)
    /\ UNCHANGED <<script, outq, bwritten, bread, infd, watch, error, fds, files,
                   sent, delivered, history>>

\* ErrorLibc and Extern_Close.
SendFails(s) ==
    /\ pc[s] = "write" /\ outq[s] # <<>> /\ SendError(s) # "no"
    /\ error' = [error EXCEPT ![s] = SendError(s)]
    /\ Close(s)
    /\ UNCHANGED <<script, outq, bwritten, bread, infd, watch, fds, files, sent, delivered, history>>

-----------------------------------------------------------------------------
(* ReadIncoming: recvmsg *)

\* The message being read and, when its fixed header has come, the next one.
Incoming(s) == sent[Peer(s)][Len(delivered[s]) + 1]
Following(s) == sent[Peer(s)][Len(delivered[s]) + 2]

\* The length of what recvmsg is given.  While the fixed header is incomplete
\* the length of the body is what has come of sz, and there is no body yet.
HeaderRoom(s) == FixedSz - bread[s]
UnallocatedRoom(s) == IF bread[s] = 0 THEN 0 ELSE Incoming(s).sz
Room(s) ==
    IF bread[s] < FixedSz THEN HeaderRoom(s) + UnallocatedRoom(s)
                          ELSE Size(Incoming(s)) - bread[s] + FixedSz

\* What one recvmsg call receives: all there is room for, but no more than one
\* of the files that come with it.
Received(s) ==
    LET w == wire[Peer(s)]
        withFile == {k \in DOMAIN w : w[k].file # NoFile}
        next == {k \in withFile : \E k1 \in withFile : k1 < k}
    IN  SubSeq(w, 1, Min({Len(w), Room(s)} \cup {k - 1 : k \in next}))
FileOf(pieces) ==
    LET f == {pieces[k].file : k \in DOMAIN pieces} \ {NoFile}
    IN  IF f = {} THEN NoFile ELSE CHOOSE x \in f : TRUE

Reading(s) ==
    /\ pc[s] = "read"
    /\ UNCHANGED <<script, outq, bwritten, watch, files, sent, split, stolen>>

\* The kernel installs a file that comes, as one more descriptor of the
\* process; when the table is full it drops it and the rest is received.
ReceiveFile(s) ==
    LET file == FileOf(Received(s))
    IN  /\ fds' = IF file = NoFile \/ FreeFds(s) = {} THEN fds ELSE Installed(s, file)
        /\ full' = [full EXCEPT ![s] = @ \/ (file # NoFile /\ FreeFds(s) = {})]
ReceivedFd(s) ==
    IF FileOf(Received(s)) = NoFile \/ FreeFds(s) = {} THEN NoFd ELSE LowestFd(s)

\* Error or ErrorLibc, and Extern_Close.
ReadError(s, e) ==
    /\ error' = [error EXCEPT ![s] = e]
    /\ Close(s)
    /\ UNCHANGED <<bread, infd, delivered>>

\* There is no body yet to receive into.
Unallocated(s) == bread[s] < FixedSz /\ Len(Received(s)) > HeaderRoom(s)
SecondFile(s) == ReceivedFd(s) # NoFd /\ infd[s] # NoFd

ReadRefused(s) ==
    /\ Reading(s)
    /\ \/ Unallocated(s) /\ ReadError(s, "EFAULT") /\ UNCHANGED <<fds, full>>
       \/ /\ ~Unallocated(s) /\ SecondFile(s)
          /\ ReadError(s, "multiple file descriptors") /\ ReceiveFile(s)

\* While the size of the header has not come ExtMsg::Size is that of the body,
\* and of a message without a body the first pieces are taken for a whole one.
\* The assert at xcom.cc:609 ends the process: fdoffset has not come either.
Misread(s) == bread[s] + Len(Received(s)) < FixedSz /\ Incoming(s).sz = 0
Misreads(s) ==
    /\ Reading(s)
    /\ Received(s) # <<>> /\ ~SecondFile(s) /\ Misread(s)
    /\ ReceiveFile(s)
    /\ sockfd' = [sockfd EXCEPT ![s] = "closed"]
    /\ wire' = [wire EXCEPT ![Peer(s)] = <<>>]
    /\ pc' = [pc EXCEPT ![s] = "aborted"]
    /\ UNCHANGED <<bread, infd, error, delivered>>

\* A descriptor received is kept until it is written into the body of its
\* message.
KeptAlways(m, complete, fd) == fd         \* mutant: and after
Kept(m, complete, fd) == IF complete /\ m.hasFd THEN NoFd ELSE fd

\* The file the number fd refers to, once one has been received.
FileUnder(s, fd) == IF fd = NoFd THEN NoFile ELSE fds'[s][fd]

\* What was received completes the message being read, which is accepted with
\* whatever the number that came for it refers to by now, or it does not.
RecvMsg(s) ==
    /\ Reading(s)
    /\ Received(s) # <<>> /\ ~Unallocated(s) /\ ~SecondFile(s) /\ ~Misread(s)
    /\ ReceiveFile(s)
    /\ LET in == Incoming(s)
           br == bread[s] + Len(Received(s))
           complete == br >= Size(in)
           left == IF complete THEN br - Size(in) ELSE br
           have == IF infd[s] # NoFd THEN infd[s] ELSE ReceivedFd(s)
           kept == Kept(in, complete, have)
           invalid == left = FixedSz /\ kept = NoFd
                        /\ (IF complete THEN Following(s) ELSE in).hasFd
       IN  /\ bread' = [bread EXCEPT ![s] = left]
           /\ infd' = [infd EXCEPT ![s] = kept]
           /\ delivered' = [delivered EXCEPT ![s] =
                IF ~complete THEN @
                ELSE Append(@, [in EXCEPT !.file = IF in.hasFd THEN FileUnder(s, have) ELSE NoFile])]
           /\ IF invalid
                THEN Close(s) /\ error' = [error EXCEPT ![s] = "invalid message"]
                ELSE /\ wire' = [wire EXCEPT ![Peer(s)] =
                                    SubSeq(@, Len(Received(s)) + 1, Len(@))]
                     /\ UNCHANGED <<sockfd, error, pc>>

\* mutant: the message queued waits for the next event
NothingToReadOrWrite(s) ==
    /\ Reading(s)
    /\ wire[Peer(s)] = <<>> /\ sockfd[Peer(s)] # "closed"
    /\ pc' = [pc EXCEPT ![s] = "idle"]
    /\ UNCHANGED <<sockfd, bread, infd, error, fds, full, wire, delivered>>

\* EAGAIN: on to writing.
NothingToRead(s) ==
    /\ Reading(s)
    /\ wire[Peer(s)] = <<>> /\ sockfd[Peer(s)] # "closed"
    /\ pc' = [pc EXCEPT ![s] = "write"]
    /\ UNCHANGED <<sockfd, bread, infd, error, fds, full, wire, delivered>>

\* The other end has closed: this end closes too, without an error.
PeerClosed(s) ==
    /\ Reading(s)
    /\ wire[Peer(s)] = <<>> /\ sockfd[Peer(s)] = "closed"
    /\ Close(s)
    /\ UNCHANGED <<bread, infd, error, fds, full, delivered>>

-----------------------------------------------------------------------------
Serve(s) ==
    \/ SendMsg(s) \/ Written(s) \/ NothingToSend(s) \/ SendFails(s)
    \/ RecvMsg(s) \/ ReadRefused(s) \/ Misreads(s) \/ NothingToRead(s) \/ PeerClosed(s)

Run(s) == Open(s) \/ TimerR_Timer(s) \/ Serve(s)

Application(s) == SendPlain(s) \/ SendFile(s) \/ AppOpens(s) \/ AppCloses(s)

Next == \E s \in Sides : Run(s) \/ Application(s)

\* Each process is opened by the message that was sent to it, gets the events
\* its Timer watches for, and goes on with the loop it is in.
Fairness == \A s \in Sides : WF_vars(Run(s))

Safety == Init /\ [][Next]_vars

Spec == Safety /\ Fairness
-----------------------------------------------------------------------------
Messages == [sz : {0, BodySz}, hasFd : BOOLEAN, fd : Fds \cup {NoFd}, file : Nat, start : Nat]
Pieces == [at : Nat \ {0}, file : Nat]

TypeOK == \A s \in Sides :
    /\ sockfd[s] \in {"none", "open", "closed"} /\ script[s] \in Seq(Acts)
    /\ outq[s] \in Seq(Messages) /\ sent[s] \in Seq(Messages) /\ delivered[s] \in Seq(Messages)
    /\ bwritten[s] \in 0..HeaderSize + BodySz - 1 /\ bread[s] \in 0..HeaderSize + BodySz - 1
    /\ infd[s] \in Fds \cup {NoFd}
    /\ watch[s] \in {"none", "Read", "ReadWrite"} /\ pc[s] \in {"idle", "read", "write", "aborted"}
    /\ error[s] \in {"no", "EMSGSIZE", "EPIPE", "EBADF", "EFAULT", "multiple file descriptors",
                     "invalid message"}
    /\ fds[s] \in [Fds -> Nat] /\ files \in Nat
    /\ wire[s] \in Seq(Pieces)
    /\ split[s] \in BOOLEAN /\ stolen[s] \in BOOLEAN /\ full[s] \in BOOLEAN

Up == \A s \in Sides : sockfd[s] # "closed"

\* No write of either side has closed a file that it did not pass.
NoTheft == \A s \in Sides : ~stolen[s]

\* Each direction of the connection is a Channel.
ButFile(m) == [m EXCEPT !.file = NoFile]
Requests == INSTANCE Channel WITH Content <- ButFile,
    sent <- sent["client"], delivered <- delivered["server"], up <- Up, intact <- NoTheft
Replies == INSTANCE Channel WITH Content <- ButFile,
    sent <- sent["server"], delivered <- delivered["client"], up <- Up, intact <- NoTheft

\* Whatever pieces sendmsg and recvmsg make of them, the messages queued with
\* QueueOutgoing on one side are accepted on the other in their order, once,
\* and with their own file until a write closes one that it did not pass
\* (xcom.cc:527-529); and all of them, unless the connection is closed.
ImplementsChannel == Requests!Spec /\ Replies!Spec

\* The places in the stream of s where its reader and its writer have got to.
ReadTo(s) ==
    LET next == Len(delivered[Peer(s)]) + 1
    IN  IF next > Len(sent[s]) THEN Total(s) ELSE sent[s][next].start + bread[Peer(s)]
WrittenTo(s) == IF outq[s] = <<>> THEN Total(s) ELSE outq[s][1].start + bwritten[s]

\* bwritten, bread and the erasing of _outq agree on one stream (the assert at
\* xcom.cc:537): as long as the reader has not closed, the pieces under way are
\* those between the place it has got to and the one the writer has got to, none
\* twice and none left out, and a file travels with the first piece of a message
\* that has one, its own unless that was closed before.
StreamWhole == \A s \in Sides : sockfd[Peer(s)] # "closed" =>
    /\ ReadTo(s) + Len(wire[s]) = WrittenTo(s)
    /\ \A k \in DOMAIN wire[s] :
        /\ wire[s][k].at = ReadTo(s) + k
        /\ wire[s][k].file # NoFile => \E i \in DOMAIN sent[s] :
             /\ sent[s][i].start + 1 = wire[s][k].at /\ sent[s][i].hasFd
             /\ stolen[s] \/ sent[s][i].file = wire[s][k].file

\* A descriptor that has come in belongs to the message whose header is being
\* read, so that _infd can be given to it (xcom.cc:607), and its number refers to
\* the file passed with that message: unless a write has closed that.
FileInHand == \A s \in Sides : infd[s] # NoFd /\ sockfd[s] = "open" =>
    /\ bread[s] > 0 /\ Incoming(s).hasFd
    /\ NoTheft => fds[s][infd[s]] = Incoming(s).file

\* Every error a connection between two processes of this program reports has
\* its reason: the other end closed while this one was about to write; more
\* messages were queued than sendmsg takes; the file to be passed had been closed
\* by a write of an earlier message; a fixed header was split, which is also the
\* only reason for a process to abort; two messages with descriptors came one
\* after the other; a descriptor came that the table had no room for.
ErrorExplained == \A s \in Sides :
    /\ error[s] = "EPIPE" => sockfd[Peer(s)] = "closed"
    /\ error[s] = "EMSGSIZE" => 2 * Len(outq[s]) > MaxIOVecs
    /\ error[s] = "EBADF" => stolen[s]
    /\ error[s] = "EFAULT" \/ pc[s] = "aborted" => split[Peer(s)]
    /\ error[s] = "multiple file descriptors" =>
        \E k \in 2..Len(sent[Peer(s)]) : sent[Peer(s)][k].hasFd /\ sent[Peer(s)][k-1].hasFd
    /\ error[s] = "invalid message" => full[s]

\* TimerR_Timer leaves no connection unattended: the socket is watched for
\* reading, and for writing as long as something is queued.
Watched == \A s \in Sides : pc[s] = "idle" /\ sockfd[s] = "open" =>
    watch[s] = IF outq[s] = <<>> THEN "Read" ELSE "ReadWrite"
=============================================================================
