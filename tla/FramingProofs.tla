--------------------------- MODULE FramingProofs ---------------------------
(***************************************************************************)
(* Theorems about ExternStream: the framing of messages on the socket.     *)
(* The inductive invariant says, for the stream of each side, how the      *)
(* messages sent lie in it (Layout), that what was accepted is a beginning *)
(* of it (Prefix), where its reader has got to (Place), and which messages *)
(* have files (FilesSent).  A second one, FilesKnown, says which file is   *)
(* where as long as no write has closed one that it did not pass; with     *)
(* files passed one way only none ever does.  The last section is about    *)
(* the socket alone: whatever the two applications do and however little   *)
(* it holds, no connection is left unattended.                             *)
(***************************************************************************)
EXTENDS ExternStream, SequenceTheorems, WellFoundedInduction, TLAPS

-----------------------------------------------------------------------------
(* Least and greatest elements *)

LEMMA LeastNat ==
    ASSUME NEW T \in SUBSET Nat, T # {}
    PROVE  \E m \in T : \A k \in T : m <= k
<1> DEFINE R == OpToRel(<, Nat)
<1>1. IsWellFoundedOn(R, Nat)
  BY NatLessThanWellFounded
<1>2. PICK m \in T : \A k \in T : ~(<<k, m>> \in R)
  <2> HIDE DEF R
  <2> QED BY <1>1, WFMin
<1>3. \A k \in T : k < m => <<k, m>> \in R
  BY DEF OpToRel
<1>4. \A k \in T : ~(k < m)
  <2> HIDE DEF R
  <2> QED BY <1>2, <1>3
<1> HIDE DEF R
<1> QED BY <1>4

LEMMA MinProperty ==
    ASSUME NEW T \in SUBSET Nat, T # {}
    PROVE  Min(T) \in T /\ \A k \in T : Min(T) <= k
BY LeastNat DEF Min

LEMMA MaxProperty ==
    ASSUME NEW T \in SUBSET Nat, T # {}, NEW n \in Nat, \A k \in T : k <= n
    PROVE  Max(T) \in T /\ \A k \in T : k <= Max(T)
<1> DEFINE U == {n - k : k \in T}
<1>1. U \in SUBSET Nat /\ U # {}
  <2>1. \A k \in T : n - k \in Nat
    OBVIOUS
  <2>2. U # {}
    OBVIOUS
  <2> QED BY <2>1, <2>2
<1>2. PICK m \in U : \A k \in U : m <= k
  <2> HIDE DEF U
  <2> QED BY <1>1, LeastNat
<1>3. PICK x \in T : m = n - x
  BY <1>2
<1>4. \A k \in T : x >= k
  <2> TAKE k \in T
  <2>1. n - k \in U
    OBVIOUS
  <2>2. m <= n - k
    BY <1>2, <2>1
  <2> QED BY <1>3, <2>2
<1> QED BY <1>3, <1>4 DEF Max

-----------------------------------------------------------------------------
(* The inductive invariant *)

Errors == {"no", "EMSGSIZE", "EPIPE", "EBADF", "EFAULT", "multiple file descriptors",
           "invalid message"}

\* The types of the variables.  How far bwritten goes follows from Layout; a
\* process in a loop has its socket open, and has sent nothing before that.
Typed ==
    /\ sockfd \in [Sides -> {"none", "open", "closed"}]
    /\ script \in [Sides -> Seq(Acts)]
    /\ outq \in [Sides -> Seq(Messages)]
    /\ sent \in [Sides -> Seq(Messages)]
    /\ delivered \in [Sides -> Seq(Messages)]
    /\ bwritten \in [Sides -> Nat] /\ bread \in [Sides -> Nat]
    /\ infd \in [Sides -> Fds \cup {NoFd}] /\ files \in Nat
    /\ watch \in [Sides -> {"none", "Read", "ReadWrite"}]
    /\ pc \in [Sides -> {"idle", "read", "write", "aborted"}]
    /\ error \in [Sides -> Errors]
    /\ fds \in [Sides -> [Fds -> Nat]]
    /\ wire \in [Sides -> Seq(Pieces)] /\ split \in [Sides -> BOOLEAN]
    /\ stolen \in [Sides -> BOOLEAN] /\ full \in [Sides -> BOOLEAN]
    /\ \A s \in Sides : /\ pc[s] \in {"read", "write"} => sockfd[s] = "open"
                        /\ sockfd[s] = "none" => sent[s] = <<>>
    /\ \A s \in Sides : bread[s] < HeaderSize + BodySz

\* The messages sent lie one after the other; the queue is the last of them,
\* and only a part of its first has been written.
Layout(s) ==
    /\ \A i \in DOMAIN sent[s] : sent[s][i].start = IF i = 1 THEN 0 ELSE End(sent[s][i-1])
    /\ \A i, j \in DOMAIN sent[s] : i < j => End(sent[s][i]) <= sent[s][j].start
    /\ Len(outq[s]) <= Len(sent[s])
    /\ \A k \in DOMAIN outq[s] : outq[s][k] = sent[s][Len(sent[s]) - Len(outq[s]) + k]
    /\ IF outq[s] = <<>> THEN bwritten[s] = 0 ELSE bwritten[s] < Size(outq[s][1])
    /\ bwritten[s] \in 1..FixedSz-1 => split[s]

\* What the other side accepted is as many messages as were sent first.
Accepted(s) == delivered[Peer(s)]
Prefix(s) == Len(Accepted(s)) <= Len(sent[s])

\* The reader is in the message after those.
Next1(s) == Len(Accepted(s)) + 1
InMessage(s) ==
    /\ IF Len(Accepted(s)) = Len(sent[s]) THEN bread[Peer(s)] = 0
       ELSE bread[Peer(s)] < Size(sent[s][Next1(s)])
    /\ bread[Peer(s)] \in 1..FixedSz-1 => split[s]

\* The pieces on the wire follow from there to where the writer is.
Whole(s) ==
    /\ ReadTo(s) + Len(wire[s]) = WrittenTo(s)
    /\ \A k \in DOMAIN wire[s] : wire[s][k].at = ReadTo(s) + k

\* A file comes with the first piece of every message that has one, and with
\* no other.
WithFiles(s) ==
    /\ \A k \in DOMAIN wire[s] : wire[s][k].file # NoFile =>
        \E i \in DOMAIN sent[s] : sent[s][i].start + 1 = wire[s][k].at
    /\ \A k \in DOMAIN wire[s], i \in DOMAIN sent[s] :
        sent[s][i].start + 1 = wire[s][k].at =>
            (wire[s][k].file # NoFile <=> sent[s][i].file # NoFile)

\* The reader holds a descriptor for the message it is in, if that has one and
\* there was room for it; without one it does not get beyond the fixed header.
InHand(s) ==
    /\ infd[Peer(s)] # NoFd => bread[Peer(s)] > 0 /\ sent[s][Next1(s)].file # NoFile
    /\ bread[Peer(s)] > 0 /\ sent[s][Next1(s)].file # NoFile /\ infd[Peer(s)] = NoFd =>
        full[Peer(s)] /\ bread[Peer(s)] < FixedSz

Place(s) == sockfd[Peer(s)] # "closed" =>
    InMessage(s) /\ Whole(s) /\ WithFiles(s) /\ InHand(s)

\* A message says it has a descriptor when it has one, or when opening failed;
\* then nothing of it is ever written.
FilesSent(s) == \A i \in DOMAIN sent[s] :
    /\ sent[s][i].fd = NoFd <=> sent[s][i].file = NoFile
    /\ ~sent[s][i].hasFd => sent[s][i].fd = NoFd
    /\ sent[s][i].hasFd /\ sent[s][i].fd = NoFd => WrittenTo(s) <= sent[s][i].start

Stream(s) == Layout(s) /\ Prefix(s) /\ Place(s) /\ FilesSent(s)

FramingInv == Typed /\ \A s \in Sides : Stream(s)

-----------------------------------------------------------------------------
(* Places in the stream *)

LEMMA Peers == \A s \in Sides : Peer(s) \in Sides /\ Peer(s) # s /\ Peer(Peer(s)) = s
BY DEF Peer, Sides

LEMMA Sizes == \A m \in Messages :
    /\ Size(m) \in {3, 5} /\ m.start \in Nat /\ End(m) = m.start + Size(m) /\ End(m) \in Nat
    /\ m.sz \in {0, 2} /\ Size(m) = m.sz + 3
    /\ m.fd \in Nat /\ m.file \in Nat /\ m.hasFd \in BOOLEAN
    /\ m.fd # NoFd => m.fd \in Fds
BY FdsAssumption DEF Messages, Size, End, HeaderSize, FixedSz, NamesSz, BodySz, Fds, NoFd

\* The stream of s ends with the last message, and its writer is within it.
LEMMA Extent ==
    ASSUME NEW s \in Sides, sent[s] \in Seq(Messages), outq[s] \in Seq(Messages),
           bwritten[s] \in Nat, Layout(s)
    PROVE  /\ Total(s) \in Nat /\ WrittenTo(s) \in Nat /\ WrittenTo(s) <= Total(s)
           /\ \A i \in DOMAIN sent[s] : End(sent[s][i]) <= Total(s)
           /\ outq[s] # <<>> => WrittenTo(s) < Total(s)
<1>1. \A i \in DOMAIN sent[s] : sent[s][i] \in Messages
  OBVIOUS
<1>2. CASE sent[s] = <<>>
  <2>1. outq[s] = <<>>
    BY <1>2 DEF Layout
  <2> QED BY <1>2, <2>1 DEF Total, WrittenTo
<1>3. CASE sent[s] # <<>>
  <2> DEFINE n == Len(sent[s])
  <2>1. n \in DOMAIN sent[s] /\ Total(s) = End(sent[s][n]) /\ sent[s][n] \in Messages
    BY <1>3, <1>1 DEF Total
  <2>2. Total(s) \in Nat
    BY <2>1, Sizes
  <2>3. \A i \in DOMAIN sent[s] : End(sent[s][i]) <= Total(s)
    <3> TAKE i \in DOMAIN sent[s]
    <3>1. CASE i = n
      BY <3>1, <2>1, <2>2
    <3>2. CASE i # n
      <4>1. i < n /\ i \in Nat
        BY <3>2
      <4>2. End(sent[s][i]) <= sent[s][n].start
        BY <4>1, <2>1 DEF Layout
      <4>3. sent[s][i] \in Messages
        BY <1>1
      <4>4. sent[s][n].start < End(sent[s][n]) /\ sent[s][n].start \in Nat
        BY <2>1, Sizes
      <4>5. End(sent[s][i]) \in Nat
        BY <4>3, Sizes
      <4> HIDE DEF n
      <4> QED BY <4>2, <4>4, <4>5, <2>1, <2>2
    <3> QED BY <3>1, <3>2
  <2>4. CASE outq[s] = <<>>
    BY <2>4, <2>2, <2>3 DEF WrittenTo
  <2>5. CASE outq[s] # <<>>
    <3>1. outq[s][1] \in Messages /\ bwritten[s] < Size(outq[s][1])
      BY <2>5 DEF Layout
    <3>2. PICK j \in DOMAIN sent[s] : outq[s][1] = sent[s][j]
      BY <2>5 DEF Layout
    <3>3. WrittenTo(s) = outq[s][1].start + bwritten[s]
      BY <2>5 DEF WrittenTo
    <3>4. WrittenTo(s) \in Nat /\ WrittenTo(s) < End(sent[s][j])
      BY <3>1, <3>2, <3>3, Sizes, SMTT(30)
    <3> QED BY <3>4, <2>2, <2>3, <1>1, Sizes
  <2> QED BY <2>2, <2>3, <2>4, <2>5
<1> QED BY <1>2, <1>3

\* Messages are in order, and only the same ones overlap.
LEMMA Ordered ==
    ASSUME NEW s \in Sides, sent[s] \in Seq(Messages), Layout(s),
           NEW i \in DOMAIN sent[s], NEW j \in DOMAIN sent[s],
           sent[s][j].start < End(sent[s][i])
    PROVE  j <= i
<1>1. /\ End(sent[s][i]) \in Nat /\ sent[s][j].start \in Nat
      /\ i \in Nat /\ j \in Nat
  BY Sizes
<1>2. i < j => End(sent[s][i]) <= sent[s][j].start
  BY DEF Layout
<1> QED BY <1>1, <1>2

\* The queue is part of what was sent.
LEMMA Queued ==
    ASSUME NEW s \in Sides, sent[s] \in Seq(Messages), outq[s] \in Seq(Messages), Layout(s),
           NEW k \in DOMAIN outq[s]
    PROVE  /\ Len(sent[s]) - Len(outq[s]) + k \in DOMAIN sent[s]
           /\ outq[s][k] = sent[s][Len(sent[s]) - Len(outq[s]) + k]
           /\ outq[s][k] \in Messages /\ k \in Nat \ {0} /\ k <= Len(outq[s])
<1>1. k \in 1..Len(outq[s]) /\ outq[s][k] \in Messages
  OBVIOUS
<1>2. Len(outq[s]) <= Len(sent[s]) /\ Len(outq[s]) \in Nat /\ Len(sent[s]) \in Nat
  BY DEF Layout
<1>3. Len(sent[s]) - Len(outq[s]) + k \in 1..Len(sent[s])
  <2>1. \A n, o \in Nat : o <= n => \A x \in 1..o : n - o + x \in 1..n
    OBVIOUS
  <2> QED BY <1>1, <1>2, <2>1
<1>4. outq[s][k] = sent[s][Len(sent[s]) - Len(outq[s]) + k]
  BY DEF Layout
<1>5. DOMAIN sent[s] = 1..Len(sent[s])
  OBVIOUS
<1>6. k \in Nat \ {0} /\ k <= Len(outq[s])
  BY <1>1, <1>2
<1> QED BY <1>1, <1>3, <1>4, <1>5, <1>6

\* Where the writer is inside a message, that one heads the queue.
LEMMA WriterInside ==
    ASSUME NEW s \in Sides, sent[s] \in Seq(Messages), outq[s] \in Seq(Messages),
           bwritten[s] \in Nat, Layout(s), NEW i \in DOMAIN sent[s],
           sent[s][i].start < WrittenTo(s), WrittenTo(s) < End(sent[s][i])
    PROVE  outq[s] # <<>> /\ WrittenTo(s) = sent[s][i].start + bwritten[s]
<1>1. sent[s][i] \in Messages
  OBVIOUS
<1>2. outq[s] # <<>>
  <2> SUFFICES ASSUME outq[s] = <<>> PROVE FALSE
    OBVIOUS
  <2>1. WrittenTo(s) = Total(s)
    BY DEF WrittenTo
  <2>2. End(sent[s][i]) <= Total(s) /\ Total(s) \in Nat
    BY Extent
  <2> QED BY <1>1, <2>1, <2>2, Sizes
<1> DEFINE j == Len(sent[s]) - Len(outq[s]) + 1
<1>3. j \in DOMAIN sent[s] /\ outq[s][1] = sent[s][j] /\ sent[s][j] \in Messages
  <2>1. 1 \in DOMAIN outq[s]
    BY <1>2
  <2> QED BY <2>1, Queued
<1>4. WrittenTo(s) = sent[s][j].start + bwritten[s] /\ bwritten[s] < Size(sent[s][j])
  BY <1>2, <1>3 DEF WrittenTo, Layout
<1> HIDE DEF j
<1>5. sent[s][j].start <= WrittenTo(s) /\ WrittenTo(s) < End(sent[s][j])
  <2>1. sent[s][j].start \in Nat /\ Size(sent[s][j]) \in Nat
        /\ End(sent[s][j]) = sent[s][j].start + Size(sent[s][j])
    BY <1>3, Sizes
  <2> QED BY <1>4, <2>1
<1>6. /\ sent[s][j].start \in Nat /\ End(sent[s][j]) \in Nat /\ sent[s][i].start \in Nat
      /\ End(sent[s][i]) \in Nat /\ WrittenTo(s) \in Nat
  BY <1>1, <1>3, Sizes, Extent
<1>7. j <= i /\ i <= j
  BY <1>3, <1>5, <1>6, Ordered
<1> QED BY <1>2, <1>3, <1>4, <1>7

\* The head of the queue is where the writer is.
LEMMA Head1 ==
    ASSUME NEW s \in Sides, sent[s] \in Seq(Messages), outq[s] \in Seq(Messages),
           bwritten[s] \in Nat, Layout(s), outq[s] # <<>>
    PROVE  /\ WrittenTo(s) = outq[s][1].start + bwritten[s]
           /\ bwritten[s] < Size(outq[s][1]) /\ outq[s][1] \in Messages
BY Queued DEF Layout, WrittenTo

\* What Typed and Stream say of one stream.
LEMMA Parts ==
    ASSUME FramingInv, NEW s \in Sides
    PROVE  /\ sent[s] \in Seq(Messages) /\ outq[s] \in Seq(Messages)
           /\ delivered[Peer(s)] \in Seq(Messages) /\ wire[s] \in Seq(Pieces)
           /\ bwritten[s] \in Nat /\ bread[Peer(s)] \in Nat
           /\ infd[Peer(s)] \in Fds \cup {NoFd}
           /\ fds[s] \in [Fds -> Nat] /\ split[s] \in BOOLEAN
           /\ Len(sent[s]) \in Nat /\ DOMAIN sent[s] = 1..Len(sent[s])
           /\ Len(outq[s]) \in Nat /\ DOMAIN outq[s] = 1..Len(outq[s])
           /\ Len(wire[s]) \in Nat /\ DOMAIN wire[s] = 1..Len(wire[s])
           /\ Len(Accepted(s)) \in Nat /\ DOMAIN Accepted(s) = 1..Len(Accepted(s))
           /\ Layout(s) /\ Prefix(s) /\ Place(s) /\ FilesSent(s)
<1>1. /\ sent[s] \in Seq(Messages) /\ outq[s] \in Seq(Messages)
      /\ delivered[Peer(s)] \in Seq(Messages) /\ wire[s] \in Seq(Pieces)
      /\ bwritten[s] \in Nat /\ bread[Peer(s)] \in Nat
      /\ infd[Peer(s)] \in Fds \cup {NoFd}
      /\ fds[s] \in [Fds -> Nat] /\ split[s] \in BOOLEAN
  BY Peers DEF FramingInv, Typed
<1>2. /\ Len(sent[s]) \in Nat /\ DOMAIN sent[s] = 1..Len(sent[s])
      /\ Len(outq[s]) \in Nat /\ DOMAIN outq[s] = 1..Len(outq[s])
      /\ Len(wire[s]) \in Nat /\ DOMAIN wire[s] = 1..Len(wire[s])
      /\ Len(Accepted(s)) \in Nat /\ DOMAIN Accepted(s) = 1..Len(Accepted(s))
  BY <1>1 DEF Accepted
<1> QED BY <1>1, <1>2 DEF FramingInv, Stream

\* While the reader has not closed, it is in a message that was sent, or at the
\* end of all of them.
LEMMA Reading1 ==
    ASSUME FramingInv, NEW s \in Sides, sockfd[Peer(s)] # "closed"
    PROVE  /\ ReadTo(s) \in Nat /\ InMessage(s) /\ Whole(s) /\ WithFiles(s) /\ InHand(s)
           /\ WrittenTo(s) \in Nat /\ ReadTo(s) <= WrittenTo(s) /\ WrittenTo(s) <= Total(s)
           /\ Total(s) \in Nat
           /\ Next1(s) \in Nat \ {0}
           /\ Len(Accepted(s)) = Len(sent[s]) => ReadTo(s) = Total(s) /\ bread[Peer(s)] = 0
           /\ Len(Accepted(s)) # Len(sent[s]) =>
                /\ Next1(s) \in DOMAIN sent[s] /\ sent[s][Next1(s)] \in Messages
                /\ ReadTo(s) = sent[s][Next1(s)].start + bread[Peer(s)]
                /\ bread[Peer(s)] < Size(sent[s][Next1(s)])
<1>1. InMessage(s) /\ Whole(s) /\ WithFiles(s) /\ InHand(s)
  BY Parts DEF Place
<1>2. Total(s) \in Nat /\ WrittenTo(s) \in Nat /\ WrittenTo(s) <= Total(s)
  BY Parts, Extent
<1>3. Len(Accepted(s)) <= Len(sent[s]) /\ Len(Accepted(s)) \in Nat /\ Len(sent[s]) \in Nat
      /\ Next1(s) = Len(Accepted(s)) + 1
  BY Parts DEF Prefix, Next1
<1>4. CASE Len(Accepted(s)) = Len(sent[s])
  <2>1. ReadTo(s) = Total(s) /\ bread[Peer(s)] = 0
    BY <1>1, <1>3, <1>4 DEF ReadTo, InMessage, Accepted
  <2> QED BY <1>1, <1>2, <1>3, <1>4, <2>1, Parts DEF Whole
<1>5. CASE Len(Accepted(s)) # Len(sent[s])
  <2>1. Next1(s) \in DOMAIN sent[s] /\ ~(Next1(s) > Len(sent[s]))
    BY <1>3, <1>5, Parts
  <2>2. sent[s][Next1(s)] \in Messages
    BY <2>1, Parts
  <2>3. ReadTo(s) = sent[s][Next1(s)].start + bread[Peer(s)]
    BY <2>1 DEF ReadTo, Next1, Accepted
  <2>4. ReadTo(s) \in Nat
    BY <2>2, <2>3, Sizes, Parts
  <2>5. bread[Peer(s)] < Size(sent[s][Next1(s)])
    BY <1>1, <1>5 DEF InMessage
  <2>6. ReadTo(s) <= WrittenTo(s)
    BY <1>1, <1>2, <2>4, Parts DEF Whole
  <2> QED BY <1>1, <1>2, <1>3, <1>5, <2>1, <2>2, <2>3, <2>4, <2>5, <2>6
<1> QED BY <1>4, <1>5

-----------------------------------------------------------------------------
(* Steps that leave a stream alone *)

LEMMA Unmoved ==
    ASSUME NEW s \in Sides, Stream(s), sent'[s] = sent[s], outq'[s] = outq[s],
           bwritten'[s] = bwritten[s], split'[s] = split[s],
           delivered'[Peer(s)] = delivered[Peer(s)],
           \/ sockfd'[Peer(s)] = "closed"
           \/ /\ sockfd[Peer(s)] # "closed" /\ wire'[s] = wire[s]
              /\ bread'[Peer(s)] = bread[Peer(s)] /\ infd'[Peer(s)] = infd[Peer(s)]
              /\ full[Peer(s)] => full'[Peer(s)]
    PROVE  Stream(s)'
<1>1. Total(s)' = Total(s) /\ WrittenTo(s)' = WrittenTo(s)
  BY DEF Total, WrittenTo
<1>2. Layout(s)' /\ Prefix(s)' /\ FilesSent(s)'
  BY <1>1 DEF Stream, Layout, Prefix, Accepted, FilesSent
<1>3. Place(s)'
  <2>1. CASE sockfd'[Peer(s)] = "closed"
    BY <2>1 DEF Place
  <2>2. CASE /\ sockfd[Peer(s)] # "closed" /\ wire'[s] = wire[s]
             /\ bread'[Peer(s)] = bread[Peer(s)] /\ infd'[Peer(s)] = infd[Peer(s)]
             /\ full[Peer(s)] => full'[Peer(s)]
    <3>1. InMessage(s) /\ Whole(s) /\ WithFiles(s) /\ InHand(s)
      BY <2>2 DEF Stream, Place
    <3>2. ReadTo(s)' = ReadTo(s) /\ Next1(s)' = Next1(s) /\ Accepted(s)' = Accepted(s)
      BY <1>1, <2>2 DEF ReadTo, Next1, Accepted
    <3>3. InMessage(s)' /\ Whole(s)' /\ WithFiles(s)'
      BY <1>1, <2>2, <3>1, <3>2 DEF InMessage, Whole, WithFiles
    <3>4. InHand(s)'
      BY <2>2, <3>1, <3>2 DEF InHand
    <3> QED BY <3>3, <3>4 DEF Place
  <2> QED BY <2>1, <2>2
<1> QED BY <1>2, <1>3 DEF Stream

\* A side that closes what it reads from, and does nothing else to a stream.
LEMMA ClosingKeeps ==
    ASSUME FramingInv, NEW a \in Sides,
           sockfd' = [sockfd EXCEPT ![a] = "closed"], wire' = [wire EXCEPT ![Peer(a)] = <<>>],
           UNCHANGED <<sent, outq, bwritten, split, delivered, bread, infd>>,
           \A x \in Sides : full[x] => full'[x]
    PROVE  \A s \in Sides : Stream(s)'
<1> SUFFICES ASSUME NEW s \in Sides PROVE Stream(s)'
  OBVIOUS
<1>1. Stream(s) /\ sockfd \in [Sides -> {"none", "open", "closed"}] /\ wire \in [Sides -> Seq(Pieces)]
  BY DEF FramingInv, Typed
<1>2. CASE s = a
  <2>1. Peer(s) # s /\ Peer(s) \in Sides
    BY Peers
  <2>2. wire'[s] = wire[s] /\ sockfd'[Peer(s)] = sockfd[Peer(s)]
    BY <1>1, <1>2, <2>1
  <2> QED BY <1>1, <2>1, <2>2, Unmoved
<1>3. CASE s # a
  <2>1. Peer(s) = a
    BY <1>3 DEF Peer, Sides
  <2>2. sockfd'[Peer(s)] = "closed"
    BY <1>1, <2>1
  <2> QED BY <1>1, <2>2, Unmoved
<1> QED BY <1>2, <1>3

-----------------------------------------------------------------------------
(* Opening files and queueing messages *)

LEMMA Lowest == \A s : FreeFds(s) # {} => LowestFd(s) \in FreeFds(s)
<1> SUFFICES ASSUME NEW s, FreeFds(s) # {} PROVE LowestFd(s) \in FreeFds(s)
  OBVIOUS
<1>1. FreeFds(s) \in SUBSET Nat
  BY FdsAssumption DEF FreeFds, Fds
<1> QED BY <1>1, MinProperty DEF LowestFd

\* Opening a file takes a number that is free.
LEMMA Opening ==
    ASSUME Typed, NEW a \in Sides, OpenFile(a)
    PROVE  /\ LowestFd(a) \in Fds /\ LowestFd(a) # NoFd /\ fds[a][LowestFd(a)] = NoFile
           /\ files' = files + 1 /\ files' \in Nat
           /\ fds' \in [Sides -> [Fds -> Nat]]
           /\ fds' = [fds EXCEPT ![a] = [@ EXCEPT ![LowestFd(a)] = files']]
<1>1. files \in Nat /\ fds \in [Sides -> [Fds -> Nat]]
  BY DEF Typed
<1>2. LowestFd(a) \in FreeFds(a)
  BY Lowest DEF OpenFile
<1>3. files' = files + 1 /\ fds' = [fds EXCEPT ![a][LowestFd(a)] = files']
  BY DEF OpenFile, Installed
<1> QED BY <1>1, <1>2, <1>3, FdsAssumption DEF FreeFds, Fds, NoFd

\* What a message must be like to be queued: it comes last, and says it has a
\* descriptor if it has one.
Fresh(a, m) ==
    /\ m \in Messages /\ m.start = Total(a)
    /\ m.fd = NoFd <=> m.file = NoFile
    /\ ~m.hasFd => m.fd = NoFd

\* A sequence with one more element.
LEMMA OneMore ==
    ASSUME NEW S, NEW q \in Seq(S), NEW m \in S, NEW r, r = Append(q, m)
    PROVE  /\ Len(q) \in Nat /\ Len(r) = Len(q) + 1 /\ r # <<>> /\ r \in Seq(S)
           /\ DOMAIN q = 1..Len(q) /\ DOMAIN r = 1..Len(q) + 1
           /\ \A k \in 1..Len(q) : r[k] = q[k]
           /\ r[Len(q) + 1] = m
           /\ \A k \in 1..Len(q) + 1 : k \in 1..Len(q) \/ k = Len(q) + 1
BY AppendProperties, LenProperties

\* sent is longer by one message that begins where the stream ended.
LEMMA QueueingLayout ==
    ASSUME NEW a \in Sides, sent[a] \in Seq(Messages), outq[a] \in Seq(Messages),
           bwritten[a] \in Nat, Layout(a), NEW m \in Messages, m.start = Total(a),
           outq'[a] = Append(outq[a], m), sent'[a] = Append(sent[a], m),
           bwritten' = bwritten, split' = split
    PROVE  Layout(a)' /\ WrittenTo(a)' = WrittenTo(a)
<1> DEFINE n == Len(sent[a])  o == Len(outq[a])
<1>1. /\ n \in Nat /\ Len(sent'[a]) = n + 1 /\ DOMAIN sent'[a] = 1..n+1 /\ DOMAIN sent[a] = 1..n
      /\ sent'[a][n+1] = m /\ \A i \in 1..n : sent'[a][i] = sent[a][i]
      /\ \A i \in 1..n+1 : i \in 1..n \/ i = n+1
  BY OneMore
<1>2. /\ o \in Nat /\ Len(outq'[a]) = o + 1 /\ DOMAIN outq'[a] = 1..o+1 /\ DOMAIN outq[a] = 1..o
      /\ outq'[a][o+1] = m /\ \A k \in 1..o : outq'[a][k] = outq[a][k] /\ outq'[a] # <<>>
      /\ \A i \in 1..o+1 : i \in 1..o \/ i = o+1
  BY OneMore
<1>3. /\ Total(a) \in Nat /\ WrittenTo(a) \in Nat /\ WrittenTo(a) <= Total(a)
      /\ \A i \in 1..n : End(sent[a][i]) <= Total(a)
  BY <1>1, Extent
<1>4. o <= n
  BY DEF Layout
<1>5. (outq[a] = <<>> => o = 0) /\ (outq[a] # <<>> => 1 \in 1..o)
  BY <1>2
<1>6. (sent[a] = <<>> => n = 0) /\ (sent[a] # <<>> => n \in 1..n)
  BY <1>1
<1>7. WrittenTo(a)' = WrittenTo(a)
  <2>1. WrittenTo(a)' = outq'[a][1].start + bwritten[a]
    BY <1>2 DEF WrittenTo
  <2>2. CASE outq[a] = <<>>
    BY <1>2, <1>3, <1>5, <2>1, <2>2 DEF WrittenTo, Layout
  <2>3. CASE outq[a] # <<>>
    BY <1>2, <1>5, <2>1, <2>3 DEF WrittenTo
  <2> QED BY <2>2, <2>3
<1>8. \A i \in DOMAIN sent'[a] : sent'[a][i].start = IF i = 1 THEN 0 ELSE End(sent'[a][i-1])
  <2> SUFFICES ASSUME NEW i \in 1..n+1
               PROVE  sent'[a][i].start = IF i = 1 THEN 0 ELSE End(sent'[a][i-1])
    BY <1>1
  <2>1. CASE i \in 1..n
    <3>1. i = 1 \/ i-1 \in 1..n
      BY <1>1, <2>1
    <3> QED BY <1>1, <2>1, <3>1 DEF Layout
  <2>2. CASE i = n+1
    <3>1. CASE n = 0
      BY <1>1, <1>6, <2>2, <3>1 DEF Total
    <3>2. CASE n # 0
      <4>1. n+1 # 1 /\ (n+1)-1 = n /\ n \in 1..n
        BY <1>1, <3>2
      <4> QED BY <1>1, <1>6, <2>2, <3>2, <4>1 DEF Total
    <3> QED BY <3>1, <3>2
  <2> QED BY <1>1, <2>1, <2>2
<1>9. \A i, j \in DOMAIN sent'[a] : i < j => End(sent'[a][i]) <= sent'[a][j].start
  <2> SUFFICES ASSUME NEW i \in 1..n+1, NEW j \in 1..n+1, i < j
               PROVE  End(sent'[a][i]) <= sent'[a][j].start
    BY <1>1
  <2>1. i \in 1..n
    BY <1>1
  <2>2. CASE j \in 1..n
    BY <1>1, <2>1, <2>2 DEF Layout
  <2>3. CASE j = n+1
    BY <1>1, <1>3, <2>1, <2>3
  <2> QED BY <1>1, <2>2, <2>3
<1>10. \A k \in DOMAIN outq'[a] : outq'[a][k] = sent'[a][Len(sent'[a]) - Len(outq'[a]) + k]
  <2> SUFFICES ASSUME NEW k \in 1..o+1 PROVE outq'[a][k] = sent'[a][Len(sent'[a]) - Len(outq'[a]) + k]
    BY <1>2
  <2>1. Len(sent'[a]) - Len(outq'[a]) + k = n - o + k
    BY <1>1, <1>2
  <2>2. CASE k \in 1..o
    <3>1. n - o + k \in 1..n /\ outq[a][k] = sent[a][n - o + k]
      BY <1>1, <1>2, <2>2, Queued
    <3> QED BY <1>1, <1>2, <2>1, <2>2, <3>1
  <2>3. CASE k = o+1
    <3>1. n - o + k = n + 1
      <4> HIDE DEF n, o
      <4> QED BY <1>1, <1>2, <2>3
    <3> QED BY <1>1, <1>2, <2>1, <2>3, <3>1
  <2> QED BY <1>2, <2>2, <2>3
<1>11. bwritten[a] < Size(outq'[a][1])
  <2>1. CASE outq[a] = <<>>
    BY <1>2, <1>5, <2>1, Sizes DEF Layout
  <2>2. CASE outq[a] # <<>>
    BY <1>2, <1>5, <2>2 DEF Layout
  <2> QED BY <2>1, <2>2
<1>12. Len(outq'[a]) <= Len(sent'[a])
  BY <1>1, <1>2, <1>4
<1>13. bwritten'[a] \in 1..FixedSz-1 => split'[a]
  BY DEF Layout
<1>14. IF outq'[a] = <<>> THEN bwritten'[a] = 0 ELSE bwritten'[a] < Size(outq'[a][1])
  BY <1>2, <1>11
<1> HIDE DEF n, o
<1> QED BY <1>7, <1>8, <1>9, <1>10, <1>12, <1>13, <1>14 DEF Layout

LEMMA Queueing ==
    ASSUME FramingInv, NEW a \in Sides, NEW m, Fresh(a, m), QueueOutgoing(a, m),
           UNCHANGED <<bwritten, bread, infd, wire, split, delivered, full>>,
           sockfd'[Peer(a)] = sockfd[Peer(a)]
    PROVE  Stream(a)'
<1> DEFINE n == Len(sent[a])  p == Peer(a)
<1>1. /\ outq'[a] = Append(outq[a], m) /\ sent'[a] = Append(sent[a], m)
      /\ m \in Messages /\ m.start = Total(a)
  BY DEF QueueOutgoing, FramingInv, Typed, Fresh
<1>2. Layout(a)' /\ WrittenTo(a)' = WrittenTo(a)
  BY <1>1, Parts, QueueingLayout
<1>3. /\ n \in Nat /\ Len(sent'[a]) = n + 1 /\ DOMAIN sent'[a] = 1..n+1 /\ DOMAIN sent[a] = 1..n
      /\ sent'[a][n+1] = m /\ \A i \in 1..n : sent'[a][i] = sent[a][i]
      /\ \A i \in 1..n+1 : i \in 1..n \/ i = n+1
  BY <1>1, Parts, OneMore
<1>5. /\ Total(a) \in Nat /\ WrittenTo(a) \in Nat /\ WrittenTo(a) <= Total(a)
  BY Parts, Extent
<1>6. Accepted(a)' = Accepted(a) /\ Next1(a)' = Next1(a) /\ Len(Accepted(a)) \in Nat
      /\ Len(Accepted(a)) <= n
  BY Parts DEF Accepted, Next1, Prefix
<1>7. Prefix(a)'
  BY <1>3, <1>6 DEF Prefix
<1>8. Place(a)'
  <2> SUFFICES ASSUME sockfd[p] # "closed" PROVE InMessage(a)' /\ Whole(a)' /\ WithFiles(a)' /\ InHand(a)'
    BY DEF Place
  <2>1. InMessage(a) /\ Whole(a) /\ WithFiles(a) /\ InHand(a)
    BY Parts DEF Place
  <2>2. bread'[p] = bread[p] /\ infd'[p] = infd[p] /\ wire'[a] = wire[a] /\ split'[a] = split[a]
    OBVIOUS
  <2>5. /\ InMessage(a)' /\ ReadTo(a)' = ReadTo(a)
        /\ bread[p] # 0 => sent'[a][Next1(a)] = sent[a][Next1(a)]
    <3>1. CASE Len(Accepted(a)) = n
      <4>1. bread[p] = 0
        BY <2>1, <3>1 DEF InMessage
      <4>2. Next1(a) = n+1 /\ sent'[a][Next1(a)] = m
        BY <1>3, <3>1 DEF Next1
      <4>3. InMessage(a)'
        BY <1>1, <1>3, <1>6, <2>2, <3>1, <4>1, <4>2, Sizes DEF InMessage, FixedSz
      <4>4. ReadTo(a) = Total(a)
        BY <1>3, <3>1 DEF ReadTo, Accepted
      <4>5. ReadTo(a)' = m.start
        BY <1>1, <1>3, <1>5, <2>2, <3>1, <4>1 DEF ReadTo, Accepted
      <4> QED BY <1>1, <4>1, <4>3, <4>4, <4>5
    <3>2. CASE Len(Accepted(a)) # n
      <4>1. Next1(a) \in 1..n /\ sent'[a][Next1(a)] = sent[a][Next1(a)]
        BY <1>3, <1>6, <3>2 DEF Next1
      <4>2. InMessage(a)'
        BY <1>3, <1>6, <2>1, <2>2, <3>2, <4>1 DEF InMessage
      <4>3. ReadTo(a)' = ReadTo(a)
        BY <1>3, <1>6, <2>2, <3>2, <4>1 DEF ReadTo, Accepted, Next1
      <4> QED BY <4>1, <4>2, <4>3
    <3> QED BY <3>1, <3>2
  <2>6. Whole(a)'
    BY <1>2, <2>1, <2>2, <2>5 DEF Whole
  <2>7. \A k \in DOMAIN wire[a] : wire[a][k].at \in Nat /\ wire[a][k].at <= Total(a)
    <3> SUFFICES ASSUME NEW k \in DOMAIN wire[a]
                 PROVE  wire[a][k].at \in Nat /\ wire[a][k].at <= Total(a)
      OBVIOUS
    <3>1. wire[a][k] \in Pieces /\ k \in 1..Len(wire[a]) /\ Len(wire[a]) \in Nat
      BY Parts
    <3>2. wire[a][k].at \in Nat /\ wire[a][k].at = ReadTo(a) + k
      BY <2>1, <3>1 DEF Whole, Pieces
    <3>3. ReadTo(a) + Len(wire[a]) = WrittenTo(a) /\ ReadTo(a) \in Nat
      BY <2>1, Reading1 DEF Whole
    <3> QED BY <1>5, <3>1, <3>2, <3>3
  <2>8. WithFiles(a)'
    <3>1. \A k \in DOMAIN wire[a] : wire[a][k].file # NoFile =>
            \E i \in 1..n+1 : sent'[a][i].start + 1 = wire[a][k].at
      BY <1>3, <2>1, SMTT(30) DEF WithFiles
    <3>2. \A k \in DOMAIN wire[a], i \in 1..n+1 :
            sent'[a][i].start + 1 = wire[a][k].at =>
                (wire[a][k].file # NoFile <=> sent'[a][i].file # NoFile)
      <4> SUFFICES ASSUME NEW k \in DOMAIN wire[a], NEW i \in 1..n+1,
                          sent'[a][i].start + 1 = wire[a][k].at
                   PROVE  wire[a][k].file # NoFile <=> sent'[a][i].file # NoFile
        OBVIOUS
      <4>1. i \in 1..n
        BY <1>1, <1>3, <1>5, <2>7
      <4>2. sent[a][i].start + 1 = wire[a][k].at =>
              (wire[a][k].file # NoFile <=> sent[a][i].file # NoFile)
        BY <1>3, <2>1, <4>1 DEF WithFiles
      <4> QED BY <1>3, <4>1, <4>2
    <3> QED BY <1>3, <2>2, <3>1, <3>2 DEF WithFiles
  <2>9. InHand(a)'
    <3>1. bread[p] \in Nat
      BY Parts
    <3> QED BY <1>6, <2>1, <2>2, <2>5, <3>1 DEF InHand
  <2> QED BY <2>5, <2>6, <2>8, <2>9
<1>9. FilesSent(a)'
  <2> SUFFICES ASSUME NEW i \in 1..n+1
               PROVE  /\ sent'[a][i].fd = NoFd <=> sent'[a][i].file = NoFile
                      /\ ~sent'[a][i].hasFd => sent'[a][i].fd = NoFd
                      /\ sent'[a][i].hasFd /\ sent'[a][i].fd = NoFd =>
                          WrittenTo(a) <= sent'[a][i].start
    BY <1>2, <1>3 DEF FilesSent
  <2>1. CASE i \in 1..n
    <3>1. FilesSent(a) /\ i \in DOMAIN sent[a]
      BY <2>1, Parts
    <3> QED BY <1>3, <2>1, <3>1 DEF FilesSent
  <2>2. CASE i = n+1
    BY <1>1, <1>3, <1>5, <2>2 DEF Fresh
  <2> QED BY <1>3, <2>1, <2>2
<1> QED BY <1>2, <1>7, <1>8, <1>9 DEF Stream

-----------------------------------------------------------------------------
(* Writing *)

\* The messages one sendmsg takes have no descriptor to pass, but the first,
\* which has one if it says so.
LEMMA Aggregates ==
    ASSUME FramingInv, NEW a \in Sides, outq[a] # <<>>
    PROVE  /\ Aggregated(a) \in 0..Len(outq[a])
           /\ \A k \in 2..Aggregated(a) : ~outq[a][k].hasFd
           /\ Aggregated(a) > 0 => (outq[a][1].hasFd => PassedFd(outq[a][1]) # NoFd)
<1> DEFINE q == outq[a]
           first == IF PassedFd(q[1]) # NoFd THEN 1 ELSE 0
           stops == {k \in first + 1..Len(q) : q[k].hasFd}
<1>1. Len(q) \in Nat \ {0} /\ first \in {0, 1}
  BY Parts
<1>2. Aggregated(a) = IF stops = {} THEN Len(q) ELSE Min(stops) - 1
  BY DEF Aggregated
<1>3. stops \in SUBSET Nat
  BY <1>1
<1>4. CASE stops = {}
  <2>1. \A k \in first + 1..Len(q) : ~q[k].hasFd
    BY <1>4
  <2>2. \A k \in 2..Len(q) : k \in first + 1..Len(q)
    BY <1>1
  <2>3. first = 0 => 1 \in first + 1..Len(q)
    BY <1>1
  <2> HIDE DEF stops
  <2> QED BY <1>1, <1>2, <1>4, <2>1, <2>2, <2>3
<1>5. CASE stops # {}
  <2>1. Min(stops) \in stops /\ \A k \in stops : Min(stops) <= k
    <3> HIDE DEF stops
    <3> QED BY <1>3, <1>5, MinProperty
  <2>2. Min(stops) \in first + 1..Len(q) /\ Min(stops) \in Nat
    BY <1>1, <2>1
  <2>3. \A k \in first + 1..Len(q) : k < Min(stops) => ~q[k].hasFd
    <3> SUFFICES ASSUME NEW k \in first + 1..Len(q), k < Min(stops), q[k].hasFd PROVE FALSE
      OBVIOUS
    <3>1. k \in stops
      OBVIOUS
    <3>2. Min(stops) <= k
      BY <2>1, <3>1
    <3> HIDE DEF stops
    <3> QED BY <1>1, <2>2, <3>2
  <2> DEFINE m == Min(stops)
  <2>4. m \in first + 1..Len(q) /\ \A k \in first + 1..Len(q) : k < m => ~q[k].hasFd
    BY <2>2, <2>3
  <2>5. Aggregated(a) = m - 1
    BY <1>2, <1>5
  <2> HIDE DEF stops, m
  <2>6. m - 1 \in 0..Len(q)
    BY <1>1, <2>4
  <2>7. \A k \in 2..m - 1 : k \in first + 1..Len(q) /\ k < m
    BY <1>1, <2>4
  <2>8. first = 0 /\ m - 1 > 0 => 1 \in first + 1..Len(q) /\ 1 < m
    BY <1>1, <2>4
  <2>9. first # 0 => PassedFd(q[1]) # NoFd
    OBVIOUS
  <2> HIDE DEF first
  <2> QED BY <1>1, <2>4, <2>5, <2>6, <2>7, <2>8, <2>9
<1> QED BY <1>4, <1>5

LEMMA ErasedFields ==
    ASSUME NEW q, NEW bw, NEW d, d = Ndone(q, bw)
    PROVE  /\ Erased(q, bw).outq = SubSeq(q, d + 1, Len(q))
           /\ Erased(q, bw).bwritten = IF d = 0 THEN bw ELSE q[1].start + bw - End(q[d])
BY DEF Erased

\* The messages of a queue lie one after the other.
Contiguous(q) == \A k \in 1..Len(q) : k > 1 => q[k].start = End(q[k-1])
Within(q, bw) == q[1].start + bw <= End(q[Len(q)])

\* What is left of a queue when it has been written up to some place.
LEMMA Erasing ==
    ASSUME NEW q \in Seq(Messages), Len(q) \in Nat \ {0}, NEW bw \in Nat, Contiguous(q),
           Within(q, bw)
    PROVE  \E d \in 0..Len(q) :
             /\ Erased(q, bw).outq = SubSeq(q, d + 1, Len(q))
             /\ Erased(q, bw).bwritten \in Nat
             /\ d > 0 => End(q[d]) <= q[1].start + bw
             /\ d = Len(q) => /\ Erased(q, bw).bwritten = 0
                              /\ q[1].start + bw = End(q[Len(q)])
             /\ d < Len(q) => /\ q[d+1].start + Erased(q, bw).bwritten = q[1].start + bw
                              /\ Erased(q, bw).bwritten < Size(q[d+1])
<1> DEFINE d == Ndone(q, bw)  at == q[1].start + bw  left == Erased(q, bw).bwritten
           ends == {0} \cup {k \in DOMAIN q : End(q[k]) <= at}
<1>1. /\ Len(q) \in Nat \ {0} /\ DOMAIN q = 1..Len(q)
      /\ \A k \in 1..Len(q) : q[k] \in Messages
  BY LenProperties
<1>2. \A k \in 1..Len(q) : q[k].start \in Nat /\ Size(q[k]) \in Nat
                            /\ End(q[k]) = q[k].start + Size(q[k]) /\ End(q[k]) \in Nat
  BY <1>1, Sizes
<1>3. at \in Nat /\ at <= End(q[Len(q)])
  BY <1>1, <1>2 DEF Within
<1>4. d \in ends /\ \A k \in ends : k <= d
  <2>1. /\ ends \in SUBSET Nat /\ ends # {} /\ \A k \in ends : k <= Len(q)
    BY <1>1
  <2>2. d = Max(ends)
    BY DEF Ndone
  <2> HIDE DEF ends
  <2> QED BY <1>1, <2>1, <2>2, MaxProperty
<1>5. d \in 0..Len(q) /\ (d > 0 => End(q[d]) <= at)
  BY <1>1, <1>4
<1>6. Erased(q, bw).outq = SubSeq(q, d + 1, Len(q)) /\ left = IF d = 0 THEN bw ELSE at - End(q[d])
  <2>1. \A x : x = Ndone(q, bw) =>
          /\ Erased(q, bw).outq = SubSeq(q, x + 1, Len(q))
          /\ Erased(q, bw).bwritten = IF x = 0 THEN bw ELSE q[1].start + bw - End(q[x])
    BY ErasedFields
  <2>2. d = Ndone(q, bw) /\ left = Erased(q, bw).bwritten /\ at = q[1].start + bw
    OBVIOUS
  <2>3. CASE d = 0
    <3> HIDE DEF d, left, at
    <3>1. left = bw /\ Erased(q, bw).outq = SubSeq(q, d + 1, Len(q))
      BY <2>1, <2>2, <2>3
    <3> QED BY <2>3, <3>1
  <2>4. CASE d # 0
    <3> HIDE DEF d, left, at
    <3>1. left = q[1].start + bw - End(q[d]) /\ Erased(q, bw).outq = SubSeq(q, d + 1, Len(q))
      BY <2>1, <2>2, <2>4
    <3>2. left = at - End(q[d])
      <4>1. End(q[d]) \in Nat /\ q[1].start \in Nat
        BY <1>1, <1>2, <1>5, <2>4
      <4> QED BY <1>3, <2>2, <3>1, <4>1
    <3> QED BY <2>4, <3>1, <3>2
  <2> QED BY <2>3, <2>4
<1> HIDE DEF d, left
<1>7. d < Len(q) => at < End(q[d+1])
  <2> SUFFICES ASSUME d < Len(q), ~(at < End(q[d+1])) PROVE FALSE
    OBVIOUS
  <2>1. d + 1 \in 1..Len(q)
    BY <1>1, <1>5
  <2>2. End(q[d+1]) <= at
    BY <1>1, <1>2, <1>3, <2>1
  <2>3. d + 1 \in ends
    BY <1>1, <2>1, <2>2
  <2>4. d + 1 <= d
    BY <1>4, <2>3
  <2> QED BY <1>5, <2>4
<1> HIDE DEF at, ends
<1>8. d = Len(q) => left = 0 /\ at = End(q[Len(q)])
  BY <1>1, <1>2, <1>3, <1>6, <1>5
<1>9. d < Len(q) => q[d+1].start + left = at /\ left < Size(q[d+1]) /\ left \in Nat
  <2> SUFFICES ASSUME d < Len(q)
               PROVE  q[d+1].start + left = at /\ left < Size(q[d+1]) /\ left \in Nat
    OBVIOUS
  <2>1. d + 1 \in 1..Len(q) /\ at < End(q[d+1])
    BY <1>1, <1>5, <1>7
  <2>2. CASE d = 0
    <3>1. left = bw /\ d + 1 = 1
      BY <1>6, <2>2
    <3> QED BY <1>2, <2>1, <3>1 DEF at
  <2>3. CASE d # 0
    <3>1. left = at - End(q[d]) /\ d \in 1..Len(q) /\ End(q[d]) <= at
      BY <1>1, <1>6, <1>5, <2>3
    <3>2. q[d+1].start = End(q[d])
      BY <1>5, <2>1, <2>3 DEF Contiguous
    <3> QED BY <1>2, <1>3, <2>1, <3>1, <3>2
  <2> QED BY <2>2, <2>3
<1>10. left \in Nat
  <2>1. \A x \in Nat : \A y \in 0..x : y = x \/ y < x
    OBVIOUS
  <2>2. d = Len(q) \/ d < Len(q)
    BY <1>1, <1>5, <2>1
  <2> QED BY <1>8, <1>9, <2>2
<1> QED BY <1>6, <1>5, <1>8, <1>9, <1>10 DEF at, left

\* What was sent is either written whole or in the queue.
LEMMA SentOrQueued ==
    ASSUME FramingInv, NEW a \in Sides, outq[a] # <<>>, NEW i \in DOMAIN sent[a]
    PROVE  \/ End(sent[a][i]) <= outq[a][1].start
           \/ \E k \in DOMAIN outq[a] :
                sent[a][i] = outq[a][k] /\ i = Len(sent[a]) - Len(outq[a]) + k
<1> DEFINE n == Len(sent[a])  o == Len(outq[a])
<1>1. n \in Nat /\ o \in Nat \ {0} /\ i \in 1..n /\ o <= n
  BY Parts DEF Layout
<1>2. 1 \in DOMAIN outq[a] /\ DOMAIN outq[a] = 1..o
  BY <1>1, Parts
<1>3. n - o + 1 \in DOMAIN sent[a] /\ outq[a][1] = sent[a][n - o + 1]
  BY <1>2, Parts, Queued
<1>4. CASE i < n - o + 1
  <2>1. \A x, y \in DOMAIN sent[a] : x < y => End(sent[a][x]) <= sent[a][y].start
    BY Parts DEF Layout
  <2> QED BY <1>3, <1>4, <2>1
<1>5. CASE ~(i < n - o + 1)
  <2>1. \E k \in 1..o : i = n - o + k
    <3>1. i - (n - o) \in 1..o /\ i = n - o + (i - (n - o))
      <4> HIDE DEF n, o
      <4> QED BY <1>1, <1>5
    <3> QED BY <3>1
  <2>2. PICK k \in DOMAIN outq[a] : i = n - o + k
    BY <1>2, <2>1
  <2>3. outq[a][k] = sent[a][n - o + k]
    BY Parts, Queued
  <2> QED BY <2>2, <2>3
<1> QED BY <1>4, <1>5

\* The queue lies in order.
LEMMA QueueOrdered ==
    ASSUME FramingInv, NEW a \in Sides
    PROVE  /\ \A j, k \in DOMAIN outq[a] : j < k => End(outq[a][j]) <= outq[a][k].start
           /\ Contiguous(outq[a])
           /\ \A k \in DOMAIN outq[a] : outq[a][k] \in Messages
<1> DEFINE n == Len(sent[a])  o == Len(outq[a])
<1>1. /\ n \in Nat /\ o \in Nat /\ o <= n /\ DOMAIN outq[a] = 1..o
      /\ \A k \in 1..o : /\ n - o + k \in DOMAIN sent[a] /\ outq[a][k] = sent[a][n - o + k]
                         /\ outq[a][k] \in Messages
  BY Parts, Queued, ZenonT(30) DEF Layout
<1>2. \A x, y \in DOMAIN sent[a] : x < y => End(sent[a][x]) <= sent[a][y].start
  BY Parts DEF Layout
<1>3. \A j, k \in 1..o : j < k => End(outq[a][j]) <= outq[a][k].start
  <2> SUFFICES ASSUME NEW j \in 1..o, NEW k \in 1..o, j < k
               PROVE  End(outq[a][j]) <= outq[a][k].start
    OBVIOUS
  <2>1. n - o + j < n - o + k
    <3> HIDE DEF n, o
    <3> QED BY <1>1
  <2> QED BY <1>1, <1>2, <2>1
<1>4. \A k \in 1..o : k > 1 => outq[a][k].start = End(outq[a][k-1])
  <2> SUFFICES ASSUME NEW k \in 1..o, k > 1 PROVE outq[a][k].start = End(outq[a][k-1])
    OBVIOUS
  <2>1. k - 1 \in 1..o /\ n - o + (k - 1) = (n - o + k) - 1 /\ n - o + k # 1
    <3> HIDE DEF n, o
    <3> QED BY <1>1
  <2>2. sent[a][n - o + k].start = End(sent[a][(n - o + k) - 1])
    <3>1. n - o + k \in DOMAIN sent[a]
      BY <1>1
    <3> QED BY <2>1, <3>1, Parts DEF Layout
  <2>3. outq[a][k] = sent[a][n - o + k] /\ outq[a][k-1] = sent[a][n - o + (k-1)]
    BY <1>1, <2>1
  <2> QED BY <2>1, <2>2, <2>3
<1> QED BY <1>1, <1>3, <1>4 DEF Contiguous

LEMMA PieceFields ==
    ASSUME NEW x, NEW y
    PROVE  /\ Piece(x, y).at = x /\ Piece(x, y).file = y
           /\ x \in Nat \ {0} /\ y \in Nat => Piece(x, y) \in Pieces
BY DEF Piece, Pieces

\* The file that goes with the first piece a sendmsg is given, if any.
Passing(a) == IF bwritten[a] = 0 /\ outq[a][1].fd # NoFd THEN fds[a][outq[a][1].fd] ELSE NoFile

\* What one sendmsg is given: pieces that follow those written, up to the end
\* of a message; a file comes with the first, if that begins its message.
LEMMA Offered ==
    ASSUME FramingInv, NEW a \in Sides, outq[a] # <<>>
    PROVE  /\ IOVecs(a) \in Seq(Pieces)
           /\ Len(IOVecs(a)) \in Nat /\ DOMAIN IOVecs(a) = 1..Len(IOVecs(a))
           /\ \A k \in 1..Len(IOVecs(a)) :
                /\ IOVecs(a)[k].at = WrittenTo(a) + k
                /\ IOVecs(a)[k].file = IF k = 1 THEN Passing(a) ELSE NoFile
           /\ IOVecs(a) # <<>> =>
                \E g \in 1..Len(outq[a]) :
                    /\ WrittenTo(a) + Len(IOVecs(a)) = End(outq[a][g])
                    /\ \A k \in 2..g : ~outq[a][k].hasFd
                    /\ outq[a][1].hasFd => outq[a][1].fd # NoFd
<1> DEFINE q == outq[a]  g == Aggregated(a)  from == WrittenTo(a)
           passes == PassedFd(q[1]) # NoFd /\ bwritten[a] = 0
           file == Passing(a)
           len == End(q[g]) - from
<1>1. /\ q \in Seq(Messages) /\ Len(q) \in Nat \ {0} /\ DOMAIN q = 1..Len(q)
      /\ bwritten[a] \in Nat
  BY Parts
<1>2. \A k \in 1..Len(q) : q[k] \in Messages
  BY <1>1
<1>3. from = q[1].start + bwritten[a] /\ bwritten[a] < Size(q[1]) /\ from \in Nat /\ from < End(q[1])
  <2>1. from = q[1].start + bwritten[a] /\ bwritten[a] < Size(q[1]) /\ q[1] \in Messages
    BY Parts, Head1
  <2> QED BY <1>1, <2>1, Sizes
<1>4. /\ g \in 0..Len(q) /\ \A k \in 2..g : ~q[k].hasFd
      /\ g > 0 => (q[1].hasFd => PassedFd(q[1]) # NoFd)
  BY Aggregates
<1>7. PICK i \in DOMAIN sent[a] : q[1] = sent[a][i]
  <2>1. 1 \in DOMAIN outq[a]
    BY <1>1
  <2>2. /\ Len(sent[a]) - Len(outq[a]) + 1 \in DOMAIN sent[a]
        /\ outq[a][1] = sent[a][Len(sent[a]) - Len(outq[a]) + 1]
    BY <2>1, Parts, Queued
  <2> QED BY <2>2
<1>5. CASE g = 0
  <2>1. IOVecs(a) = <<>>
    BY <1>5 DEF IOVecs
  <2> QED BY <2>1
<1>6. CASE g # 0
  <2>1. g \in 1..Len(q)
    BY <1>1, <1>4, <1>6
  <2>2. End(q[g]) \in Nat /\ End(q[1]) \in Nat /\ End(q[1]) <= End(q[g])
    <3>1. q[g] \in Messages /\ q[1] \in Messages
      BY <1>1, <1>2, <2>1
    <3>2. CASE g = 1
      BY <3>1, <3>2, Sizes
    <3>3. CASE g # 1
      <4>1. End(q[1]) <= q[g].start
        BY <1>1, <2>1, <3>3, QueueOrdered
      <4> HIDE DEF q, g
      <4> QED BY <3>1, <4>1, Sizes
    <3> QED BY <3>2, <3>3
  <2>3. len \in Nat \ {0} /\ from + len = End(q[g])
    <3> HIDE DEF from, q, g
    <3> QED BY <1>3, <2>2
  <2>4. file \in Nat /\ file = IF passes THEN fds[a][q[1].fd] ELSE NoFile
    <3>1. passes <=> bwritten[a] = 0 /\ q[1].fd # NoFd
      <4>1. ~q[1].hasFd => q[1].fd = NoFd
        BY <1>7, Parts DEF FilesSent
      <4> QED BY <4>1 DEF PassedFd
    <3>2. q[1].fd # NoFd => q[1].fd \in Fds
      <4>1. q[1] \in Messages
        BY <1>1, <1>2
      <4> QED BY <4>1, Sizes
    <3>3. q[1].fd # NoFd => fds[a][q[1].fd] \in Nat
      <4>1. fds[a] \in [Fds -> Nat]
        BY Parts
      <4> HIDE DEF q
      <4> QED BY <3>2, <4>1
    <3> QED BY <3>1, <3>3 DEF Passing, NoFile
  <2>5. IOVecs(a) = [k \in 1..len |-> Piece(from + k, IF k = 1 /\ passes THEN fds[a][q[1].fd] ELSE NoFile)]
    BY <1>3, <1>6 DEF IOVecs
  <2>6. \A k \in 1..len : IOVecs(a)[k] = Piece(from + k, IF k = 1 THEN file ELSE NoFile)
    BY <2>4, <2>5
  <2> HIDE DEF len, file, from, passes
  <2>7. \A k \in 1..len : IOVecs(a)[k] \in Pieces
    <3> SUFFICES ASSUME NEW k \in 1..len PROVE IOVecs(a)[k] \in Pieces
      OBVIOUS
    <3>1. from + k \in Nat \ {0}
      BY <1>3, <2>3
    <3>2. (IF k = 1 THEN file ELSE NoFile) \in Nat
      BY <2>4 DEF NoFile
    <3> QED BY <2>6, <3>1, <3>2, PieceFields
  <2>8. IOVecs(a) \in Seq(Pieces) /\ Len(IOVecs(a)) = len
    <3>1. IOVecs(a) \in [1..len -> Pieces]
      BY <2>5, <2>7
    <3> QED BY <2>3, <3>1
  <2>9. \A k \in 1..len : /\ IOVecs(a)[k].at = from + k
                          /\ IOVecs(a)[k].file = IF k = 1 THEN file ELSE NoFile
    BY <2>6, PieceFields
  <2>10. q[1].hasFd => q[1].fd # NoFd
    BY <1>4, <2>1 DEF PassedFd
  <2> QED BY <1>1, <1>4, <2>1, <2>3, <2>8, <2>9, <2>10 DEF from, file
<1> QED BY <1>5, <1>6

\* Putting together what was on the wire and what is written.
LEMMA Joined ==
    ASSUME NEW w \in Seq(Pieces), NEW v \in Seq(Pieces), NEW n \in Nat, n <= Len(v)
    PROVE  /\ w \o SubSeq(v, 1, n) \in Seq(Pieces)
           /\ Len(w \o SubSeq(v, 1, n)) = Len(w) + n
           /\ \A k \in 1..Len(w) : (w \o SubSeq(v, 1, n))[k] = w[k]
           /\ \A j \in 1..n : (w \o SubSeq(v, 1, n))[Len(w) + j] = v[j]
<1> DEFINE x == SubSeq(v, 1, n)
<1>1. x \in Seq(Pieces) /\ Len(x) = n /\ \A j \in 1..n : x[j] = v[j]
  OBVIOUS
<1> HIDE DEF x
<1> QED BY <1>1

\* What is left of a sequence without its first d elements.
LEMMA Rest ==
    ASSUME NEW T, NEW z \in Seq(T), NEW d \in 0..Len(z)
    PROVE  /\ SubSeq(z, d + 1, Len(z)) \in Seq(T)
           /\ Len(SubSeq(z, d + 1, Len(z))) = Len(z) - d /\ Len(z) - d \in Nat
           /\ DOMAIN SubSeq(z, d + 1, Len(z)) = 1..Len(z) - d
           /\ \A k \in 1..Len(z) - d : d + k \in 1..Len(z) /\ SubSeq(z, d + 1, Len(z))[k] = z[d + k]
<1> DEFINE x == SubSeq(z, d + 1, Len(z))
<1>1. Len(z) \in Nat /\ d \in Nat /\ d <= Len(z) /\ DOMAIN z = 1..Len(z)
  OBVIOUS
<1>2. \A k \in 1..Len(z) - d : d + k \in 1..Len(z)
  BY <1>1
<1>3. x \in Seq(T) /\ Len(x) = Len(z) - d
  <2>1. \A i \in d+1..Len(z) : z[i] \in T
    BY <1>1
  <2>2. /\ SubSeq(z, d+1, Len(z)) \in Seq(T)
        /\ Len(SubSeq(z, d+1, Len(z))) = IF d+1 <= Len(z) THEN Len(z)-(d+1)+1 ELSE 0
    BY <1>1, <2>1, SubSeqProperties
  <2>3. \A l, e \in Nat : e <= l => (IF e+1 <= l THEN l-(e+1)+1 ELSE 0) = l - e
    OBVIOUS
  <2> QED BY <1>1, <2>2, <2>3
<1>4. \A k \in 1..Len(z) - d : x[k] = z[d + k]
  <2> SUFFICES ASSUME NEW k \in 1..Len(z) - d PROVE x[k] = z[d + k]
    OBVIOUS
  <2>1. x[k] = z[d + 1 + k - 1]
    BY <1>1
  <2>2. d + 1 + k - 1 = d + k
    BY <1>1
  <2> QED BY <2>1, <2>2
<1>5. Len(z) - d \in Nat
  BY <1>1
<1> HIDE DEF x
<1>6. DOMAIN x = 1..Len(z) - d
  BY <1>3, <1>5
<1> QED BY <1>2, <1>3, <1>4, <1>5, <1>6 DEF x

\* Queued messages have a descriptor if they say so.
LEMMA QueueFiles ==
    ASSUME FramingInv, NEW a \in Sides
    PROVE  \A k \in DOMAIN outq[a] :
                /\ outq[a][k].fd = NoFd <=> outq[a][k].file = NoFile
                /\ ~outq[a][k].hasFd => outq[a][k].fd = NoFd
<1> DEFINE m == Len(sent[a]) - Len(outq[a])
<1>1. \A k \in DOMAIN outq[a] : m + k \in DOMAIN sent[a] /\ outq[a][k] = sent[a][m + k]
  BY Parts, Queued
<1> HIDE DEF m
<1> QED BY <1>1, Parts DEF FilesSent

\* A file goes with the first piece of a message that has one.
LEMMA PassingFile ==
    ASSUME FramingInv, NEW a \in Sides, outq[a] # <<>>, SendError(a) = "no"
    PROVE  Passing(a) # NoFile <=> bwritten[a] = 0 /\ outq[a][1].file # NoFile
<1>1. 1 \in DOMAIN outq[a]
  BY Parts
<1>2. /\ outq[a][1].fd = NoFd <=> outq[a][1].file = NoFile
      /\ ~outq[a][1].hasFd => outq[a][1].fd = NoFd
  BY <1>1, QueueFiles
<1>3. ~BadDescriptor(a)
  BY DEF SendError
<1> QED BY <1>2, <1>3 DEF Passing, BadDescriptor, PassedFd

\* What a sendmsg leaves in the queue.
LEMMA Taking ==
    ASSUME FramingInv, NEW a \in Sides, outq[a] # <<>>, NEW n \in 1..Len(IOVecs(a))
    PROVE  \E d \in 0..Len(outq[a]) :
             /\ Erased(outq[a], bwritten[a] + n).outq = SubSeq(outq[a], d + 1, Len(outq[a]))
             /\ Erased(outq[a], bwritten[a] + n).bwritten \in Nat
             /\ d = 0 => Erased(outq[a], bwritten[a] + n).bwritten = bwritten[a] + n
             /\ d = Len(outq[a]) => /\ Erased(outq[a], bwritten[a] + n).bwritten = 0
                                    /\ WrittenTo(a) + n = Total(a)
             /\ d < Len(outq[a]) =>
                 /\ outq[a][d+1].start + Erased(outq[a], bwritten[a] + n).bwritten = WrittenTo(a) + n
                 /\ Erased(outq[a], bwritten[a] + n).bwritten < Size(outq[a][d+1])
<1> DEFINE q == outq[a]  bw == bwritten[a] + n  W == WrittenTo(a)
<1>1. /\ q \in Seq(Messages) /\ Len(q) \in Nat \ {0} /\ DOMAIN q = 1..Len(q) /\ Contiguous(q)
      /\ \A k \in 1..Len(q) : q[k] \in Messages
      /\ Len(sent[a]) \in Nat
  BY Parts, QueueOrdered
<1>2. /\ Len(IOVecs(a)) \in Nat /\ n \in Nat \ {0} /\ IOVecs(a) # <<>> /\ n <= Len(IOVecs(a))
  <2>1. Len(IOVecs(a)) \in Nat
    BY Offered
  <2>2. IOVecs(a) # <<>>
    <3> SUFFICES ASSUME IOVecs(a) = <<>> PROVE FALSE
      OBVIOUS
    <3> QED OBVIOUS
  <2> QED BY <2>1, <2>2
<1>3. PICK g \in 1..Len(q) : W + Len(IOVecs(a)) = End(q[g])
  BY <1>2, Offered
<1>4. W = q[1].start + bwritten[a] /\ bwritten[a] \in Nat /\ q[1].start \in Nat
  <2>1. q[1] \in Messages /\ W = q[1].start + bwritten[a]
    BY Parts, Head1
  <2> QED BY <2>1, Sizes, Parts
<1>5. End(q[g]) <= End(q[Len(q)]) /\ End(q[g]) \in Nat /\ End(q[Len(q)]) \in Nat
  <2>1. Len(q) \in 1..Len(q) /\ q[g] \in Messages /\ q[Len(q)] \in Messages
    BY <1>1
  <2>2. CASE g = Len(q)
    BY <2>1, <2>2, Sizes
  <2>3. CASE g # Len(q)
    <3>1. End(q[g]) <= q[Len(q)].start
      BY <1>1, <2>1, <2>3, QueueOrdered
    <3> HIDE DEF q
    <3> QED BY <2>1, <3>1, Sizes
  <2> QED BY <2>2, <2>3
<1>6. q[1].start + bw = W + n /\ bw \in Nat
  <2> HIDE DEF q, W
  <2> QED BY <1>2, <1>4
<1>7. Within(q, bw)
  <2>1. W + n <= End(q[Len(q)])
    <3> HIDE DEF q, W
    <3> QED BY <1>2, <1>3, <1>4, <1>5
  <2> HIDE DEF q, W, bw
  <2> QED BY <1>6, <2>1 DEF Within
<1>8. End(q[Len(q)]) = Total(a)
  <2>1. Len(q) \in DOMAIN q /\ Len(sent[a]) - Len(q) + Len(q) = Len(sent[a])
    <3> HIDE DEF q
    <3> QED BY <1>1
  <2>2. q[Len(q)] = sent[a][Len(sent[a])] /\ Len(sent[a]) \in DOMAIN sent[a]
    <3>1. /\ Len(sent[a]) - Len(q) + Len(q) \in DOMAIN sent[a]
          /\ q[Len(q)] = sent[a][Len(sent[a]) - Len(q) + Len(q)]
      BY <2>1, Parts, Queued
    <3> QED BY <2>1, <3>1
  <2> QED BY <2>2 DEF Total
<1>9. PICK d \in 0..Len(q) :
        /\ Erased(q, bw).outq = SubSeq(q, d + 1, Len(q))
        /\ Erased(q, bw).bwritten \in Nat
        /\ d > 0 => End(q[d]) <= q[1].start + bw
        /\ d = Len(q) => /\ Erased(q, bw).bwritten = 0
                         /\ q[1].start + bw = End(q[Len(q)])
        /\ d < Len(q) => /\ q[d+1].start + Erased(q, bw).bwritten = q[1].start + bw
                         /\ Erased(q, bw).bwritten < Size(q[d+1])
  <2> HIDE DEF q, bw
  <2> QED BY <1>1, <1>6, <1>7, Erasing
<1>10. d = 0 => Erased(q, bw).bwritten = bw
  <2> HIDE DEF q, bw
  <2> QED BY <1>1, <1>4, <1>6, <1>9
<1> QED BY <1>6, <1>8, <1>9, <1>10

\* What a sendmsg changes: n pieces go onto the wire, and d messages out of
\* the queue.
LEMMA Sent1 ==
    ASSUME FramingInv, NEW a \in Sides, SendMsg(a)
    PROVE  /\ outq[a] # <<>> /\ SendError(a) = "no"
           /\ UNCHANGED <<sockfd, script, bread, infd, watch, error, pc, files, sent, delivered, full>>
           /\ stolen' = [stolen EXCEPT ![a] = @ \/ ClosesAnother(a)]
           /\ \E n \in 1..Len(IOVecs(a)), d \in 0..Len(outq[a]) :
                /\ wire' = [wire EXCEPT ![a] = @ \o SubSeq(IOVecs(a), 1, n)]
                /\ outq' = [outq EXCEPT ![a] = SubSeq(outq[a], d + 1, Len(outq[a]))]
                /\ split' = [split EXCEPT ![a] = @ \/ bwritten'[a] \in 1..FixedSz-1]
                /\ fds' = [fds EXCEPT ![a] = [f \in Fds |->
                            IF f = PassedFd(outq[a][1]) THEN NoFile ELSE fds[a][f]]]
                /\ bwritten'[a] \in Nat /\ bwritten' = [bwritten EXCEPT ![a] = bwritten'[a]]
                /\ d = 0 => bwritten'[a] = bwritten[a] + n
                /\ d = Len(outq[a]) => bwritten'[a] = 0 /\ WrittenTo(a) + n = Total(a)
                /\ d < Len(outq[a]) => /\ outq[a][d+1].start + bwritten'[a] = WrittenTo(a) + n
                                       /\ bwritten'[a] < Size(outq[a][d+1])
<1>1. outq[a] # <<>> /\ SendError(a) = "no"
  BY DEF SendMsg
<1>2. PICK n \in 1..Min({Len(IOVecs(a)), SocketSz - Len(wire[a])}) :
        /\ wire' = [wire EXCEPT ![a] = @ \o SubSeq(IOVecs(a), 1, n)]
        /\ split' = [split EXCEPT ![a] =
                        @ \/ Erased(outq[a], bwritten[a] + n).bwritten \in 1..FixedSz-1]
        /\ fds' = [fds EXCEPT ![a] = [f \in Fds |->
                        IF f = PassedFd(outq[a][1]) THEN NoFile ELSE fds[a][f]]]
        /\ outq' = [outq EXCEPT ![a] = Erased(outq[a], bwritten[a] + n).outq]
        /\ bwritten' = [bwritten EXCEPT ![a] = Erased(outq[a], bwritten[a] + n).bwritten]
        /\ stolen' = [stolen EXCEPT ![a] = @ \/ ClosesAnother(a)]
  BY DEF SendMsg
<1>3. n \in 1..Len(IOVecs(a))
  <2> DEFINE x == Len(IOVecs(a))  y == SocketSz - Len(wire[a])
  <2>1. x \in Nat /\ y \in Int
    BY Parts, Offered, <1>1, SocketAssumption
  <2>2. Min({x, y}) \in {x, y} /\ Min({x, y}) <= x
    <3> HIDE DEF x, y
    <3>1. \E m \in {x, y} : \A k \in {x, y} : m <= k
      BY <2>1
    <3> QED BY <2>1, <3>1 DEF Min
  <2> HIDE DEF x, y
  <2>3. n \in 1..Min({x, y})
    BY DEF x, y
  <2>4. n \in 1..x
    BY <2>1, <2>2, <2>3
  <2> QED BY <2>4 DEF x
<1>4. bwritten'[a] = Erased(outq[a], bwritten[a] + n).bwritten
  BY <1>2 DEF FramingInv, Typed
<1>5. PICK d \in 0..Len(outq[a]) :
        /\ Erased(outq[a], bwritten[a] + n).outq = SubSeq(outq[a], d + 1, Len(outq[a]))
        /\ Erased(outq[a], bwritten[a] + n).bwritten \in Nat
        /\ d = 0 => Erased(outq[a], bwritten[a] + n).bwritten = bwritten[a] + n
        /\ d = Len(outq[a]) => /\ Erased(outq[a], bwritten[a] + n).bwritten = 0
                               /\ WrittenTo(a) + n = Total(a)
        /\ d < Len(outq[a]) =>
            /\ outq[a][d+1].start + Erased(outq[a], bwritten[a] + n).bwritten = WrittenTo(a) + n
            /\ Erased(outq[a], bwritten[a] + n).bwritten < Size(outq[a][d+1])
  BY <1>1, <1>3, Taking
<1>6. UNCHANGED <<sockfd, script, bread, infd, watch, error, pc, files, sent, delivered, full>>
  BY DEF SendMsg
<1> QED BY <1>1, <1>2, <1>3, <1>4, <1>5, <1>6

\* Of a message that begins where a sendmsg writes the file is passed there, and
\* only the first of the queue has one.
LEMMA NewFiles ==
    ASSUME FramingInv, NEW a \in Sides, outq[a] # <<>>,
           NEW j \in Nat \ {0}, j <= Len(IOVecs(a)),
           NEW i \in DOMAIN sent[a], NEW st \in Nat, st = sent[a][i].start,
           NEW W \in Nat, W = WrittenTo(a), st + 1 = W + j
    PROVE  \/ /\ sent[a][i] = outq[a][1] /\ bwritten[a] = 0
              /\ IOVecs(a)[j].file = Passing(a)
           \/ sent[a][i].file = NoFile /\ IOVecs(a)[j].file = NoFile
<1> DEFINE q == outq[a]
<1>1. /\ Len(q) \in Nat \ {0} /\ DOMAIN q = 1..Len(q)
      /\ \A k \in 1..Len(q) : q[k] \in Messages
      /\ bwritten[a] \in Nat /\ sent[a][i] \in Messages
  BY Parts, QueueOrdered
<1>2. IOVecs(a) # <<>> /\ Len(IOVecs(a)) \in Nat
  <2>1. Len(IOVecs(a)) \in Nat /\ Len(IOVecs(a)) # 0
    BY Offered
  <2>2. Len(<<>>) = 0
    OBVIOUS
  <2> QED BY <2>1, <2>2
<1>3. PICK g \in 1..Len(q) : /\ W + Len(IOVecs(a)) = End(q[g])
                             /\ \A k \in 2..g : ~q[k].hasFd
  BY <1>2, Offered
<1>4. IOVecs(a)[j].file = IF j = 1 THEN Passing(a) ELSE NoFile
  <2>1. j \in 1..Len(IOVecs(a))
    BY <1>2
  <2> QED BY <2>1, Offered
<1>5. W = q[1].start + bwritten[a] /\ q[1].start \in Nat /\ W < End(q[1]) /\ End(q[1]) \in Nat
  <2>1. W = q[1].start + bwritten[a] /\ bwritten[a] < Size(q[1]) /\ q[1] \in Messages
    BY Parts, Head1
  <2>2. /\ q[1].start \in Nat /\ Size(q[1]) \in Nat /\ End(q[1]) \in Nat
        /\ End(q[1]) = q[1].start + Size(q[1])
    BY <2>1, Sizes
  <2> HIDE DEF q
  <2> QED BY <1>1, <2>1, <2>2
<1>6. PICK l \in DOMAIN q : sent[a][i] = q[l]
  <2>1. st < End(sent[a][i]) /\ End(sent[a][i]) \in Nat
    <3>1. /\ Size(sent[a][i]) \in {3, 5} /\ End(sent[a][i]) \in Nat
          /\ End(sent[a][i]) = sent[a][i].start + Size(sent[a][i])
      BY <1>1, Sizes
    <3> QED BY <3>1
  <2>2. ~(End(sent[a][i]) <= q[1].start)
    <3> HIDE DEF q
    <3> QED BY <1>1, <1>5, <2>1, SMTT(30)
  <2> QED BY <2>2, SentOrQueued
<1>7. CASE l = 1
  <2>1. bwritten[a] = 0 /\ j = 1
    <3>1. st + 1 = q[1].start + bwritten[a] + j /\ q[1].start = st
      BY <1>1, <1>5, <1>6, <1>7
    <3>2. st \in Nat /\ bwritten[a] \in Nat /\ j \in Nat \ {0}
      BY <1>1
    <3>3. \A x, b, k \in Nat : k # 0 /\ x + 1 = x + b + k => b = 0 /\ k = 1
      OBVIOUS
    <3> HIDE DEF q
    <3> QED BY <3>1, <3>2, <3>3
  <2> QED BY <1>4, <1>6, <1>7, <2>1
<1>8. CASE l # 1
  <2>1. End(q[1]) <= st /\ l \in 1..Len(q) /\ l > 1
    <3>1. l \in 1..Len(q) /\ l > 1
      BY <1>1, <1>6, <1>8
    <3>2. End(q[1]) <= q[l].start
      BY <1>1, <3>1, QueueOrdered
    <3> QED BY <1>6, <3>1, <3>2
  <2>2. ~(j = 1)
    <3> HIDE DEF q
    <3> QED BY <1>5, <2>1
  <2>3. l <= g
    <3> SUFFICES ASSUME g < l PROVE FALSE
      BY <1>1, <2>1
    <3>1. End(q[g]) <= q[l].start
      BY <1>1, <2>1, QueueOrdered
    <3>2. W + Len(IOVecs(a)) <= st
      BY <1>3, <1>6, <3>1
    <3> QED BY <1>2, <3>2
  <2>4. q[l].file = NoFile
    <3>1. l \in 2..g
      BY <1>1, <2>1, <2>3
    <3> QED BY <1>3, <1>6, <3>1, QueueFiles
  <2> QED BY <1>4, <1>6, <2>2, <2>4
<1> QED BY <1>7, <1>8

LEMMA Sending ==
    ASSUME FramingInv, NEW a \in Sides, SendMsg(a)
    PROVE  Stream(a)'
<1> DEFINE q == outq[a]  o == Len(outq[a])  N == Len(sent[a])  W == WrittenTo(a)  p == Peer(a)
           wl == Len(wire[a])
<1>1. PICK n \in 1..Len(IOVecs(a)), d \in 0..o :
        /\ wire' = [wire EXCEPT ![a] = @ \o SubSeq(IOVecs(a), 1, n)]
        /\ outq' = [outq EXCEPT ![a] = SubSeq(q, d + 1, o)]
        /\ split' = [split EXCEPT ![a] = @ \/ bwritten'[a] \in 1..FixedSz-1]
        /\ fds' = [fds EXCEPT ![a] = [f \in Fds |->
                    IF f = PassedFd(q[1]) THEN NoFile ELSE fds[a][f]]]
        /\ bwritten'[a] \in Nat /\ bwritten' = [bwritten EXCEPT ![a] = bwritten'[a]]
        /\ d = 0 => bwritten'[a] = bwritten[a] + n
        /\ d = o => bwritten'[a] = 0 /\ W + n = Total(a)
        /\ d < o => q[d+1].start + bwritten'[a] = W + n /\ bwritten'[a] < Size(q[d+1])
  BY Sent1
<1>2. /\ q # <<>> /\ SendError(a) = "no"
      /\ UNCHANGED <<sockfd, script, bread, infd, watch, error, pc, files, sent, delivered, full>>
  BY Sent1
<1>3. /\ q \in Seq(Messages) /\ o \in Nat \ {0} /\ DOMAIN q = 1..o /\ N \in Nat /\ o <= N
      /\ \A k \in 1..o : q[k] \in Messages
      /\ bwritten[a] \in Nat /\ wire[a] \in Seq(Pieces) /\ wl \in Nat /\ DOMAIN wire[a] = 1..wl
  BY <1>2, Parts, QueueOrdered DEF Layout
<1>4. /\ IOVecs(a) \in Seq(Pieces) /\ Len(IOVecs(a)) \in Nat
      /\ n \in Nat \ {0} /\ n <= Len(IOVecs(a)) /\ IOVecs(a) # <<>>
  <2>1. IOVecs(a) \in Seq(Pieces) /\ Len(IOVecs(a)) \in Nat
    BY <1>2, Offered
  <2> QED BY <2>1
<1>5. /\ outq'[a] = SubSeq(q, d + 1, o) /\ outq'[a] \in Seq(Messages)
      /\ Len(outq'[a]) = o - d /\ Len(outq'[a]) \in Nat /\ DOMAIN outq'[a] = 1..o-d
      /\ \A k \in 1..o-d : d + k \in 1..o /\ outq'[a][k] = q[d+k]
  <2>1. outq'[a] = SubSeq(q, d + 1, o)
    BY <1>1 DEF FramingInv, Typed
  <2>2. d \in 0..Len(q) /\ o = Len(q) /\ q \in Seq(Messages)
    BY <1>3
  <2> HIDE DEF q, o
  <2>3. /\ SubSeq(q, d + 1, o) \in Seq(Messages)
        /\ Len(SubSeq(q, d + 1, o)) = o - d /\ o - d \in Nat
        /\ DOMAIN SubSeq(q, d + 1, o) = 1..o - d
        /\ \A k \in 1..o - d : d + k \in 1..o /\ SubSeq(q, d + 1, o)[k] = q[d + k]
    BY <2>2, Rest
  <2> QED BY <2>1, <2>3
<1>6. W = q[1].start + bwritten[a] /\ W \in Nat /\ q[1].start \in Nat
  <2>1. W = q[1].start + bwritten[a] /\ q[1] \in Messages
    BY <1>2, Parts, Head1
  <2>2. q[1].start \in Nat
    BY <2>1, Sizes
  <2> QED BY <1>3, <2>1, <2>2
<1>7. WrittenTo(a)' = W + n
  <2>1. sent' = sent
    BY <1>2
  <2>2. CASE d = o
    <3>1. outq'[a] = <<>>
      BY <1>5, <2>2
    <3>2. Total(a)' = Total(a)
      BY <2>1 DEF Total
    <3> QED BY <1>1, <2>2, <3>1, <3>2 DEF WrittenTo
  <2>3. CASE d < o
    <3>1. outq'[a] # <<>> /\ outq'[a][1] = q[d+1]
      BY <1>3, <1>5, <2>3
    <3> QED BY <1>1, <2>3, <3>1 DEF WrittenTo
  <2> QED BY <1>3, <2>2, <2>3
<1>8. PICK g \in 1..o : /\ W + Len(IOVecs(a)) = End(q[g])
                        /\ \A k \in 2..g : ~q[k].hasFd
                        /\ q[1].hasFd => q[1].fd # NoFd
  BY <1>2, <1>4, Offered
<1>9. W + n <= End(q[g]) /\ End(q[g]) \in Nat
  <2>1. q[g] \in Messages
    BY <1>3
  <2> HIDE DEF W, q
  <2> QED BY <1>4, <1>6, <1>8, <2>1, Sizes
<1>10. \A k \in 1..o : q[k].start < W + n => k <= g
  <2> SUFFICES ASSUME NEW k \in 1..o, ~(k <= g) PROVE ~(q[k].start < W + n)
    OBVIOUS
  <2>1. g < k
    BY <1>3
  <2>2. End(q[g]) <= q[k].start
    BY <1>3, <2>1, QueueOrdered
  <2>3. q[k].start \in Nat
    BY <1>3, Sizes
  <2> HIDE DEF W, q
  <2> QED BY <1>4, <1>6, <1>9, <2>2, <2>3
<1>11. Layout(a)'
  <2>1. DOMAIN sent'[a] = DOMAIN sent[a] /\ sent' = sent
    BY <1>2
  <2>2. Len(outq'[a]) <= Len(sent'[a])
    <3> HIDE DEF o, N
    <3>1. Len(outq'[a]) = o - d /\ Len(sent'[a]) = N
      BY <1>5, <2>1 DEF N
    <3> QED BY <1>3, <3>1
  <2>3. \A k \in DOMAIN outq'[a] : outq'[a][k] = sent'[a][Len(sent'[a]) - Len(outq'[a]) + k]
    <3> SUFFICES ASSUME NEW k \in 1..o-d
                 PROVE  outq'[a][k] = sent'[a][Len(sent'[a]) - Len(outq'[a]) + k]
      BY <1>5
    <3>1. outq'[a][k] = q[d+k] /\ d + k \in DOMAIN q
      BY <1>3, <1>5
    <3>2. q[d+k] = sent[a][N - o + (d+k)]
      BY <3>1, Parts, Queued
    <3>3. Len(sent'[a]) - Len(outq'[a]) + k = N - o + (d+k)
      <4>1. Len(outq'[a]) = o - d /\ Len(sent'[a]) = N
        BY <1>5, <2>1
      <4> HIDE DEF o, N
      <4> QED BY <1>3, <4>1
    <3> QED BY <2>1, <3>1, <3>2, <3>3
  <2>4. IF outq'[a] = <<>> THEN bwritten'[a] = 0 ELSE bwritten'[a] < Size(outq'[a][1])
    <3>1. CASE d = o
      <4>1. outq'[a] = <<>>
        BY <1>5, <3>1
      <4> QED BY <1>1, <3>1, <4>1
    <3>2. CASE d < o
      <4>1. outq'[a] # <<>> /\ outq'[a][1] = q[d+1]
        BY <1>3, <1>5, <3>2
      <4> QED BY <1>1, <3>2, <4>1
    <3> QED BY <1>3, <3>1, <3>2
  <2>5. bwritten'[a] \in 1..FixedSz-1 => split'[a]
    BY <1>1, ZenonT(30) DEF FramingInv, Typed
  <2>6. /\ \A i \in DOMAIN sent[a] : sent[a][i].start = IF i = 1 THEN 0 ELSE End(sent[a][i-1])
        /\ \A i, j \in DOMAIN sent[a] : i < j => End(sent[a][i]) <= sent[a][j].start
    BY Parts DEF Layout
  <2> HIDE DEF o, N, q
  <2> QED BY <2>1, <2>2, <2>3, <2>4, <2>5, <2>6 DEF Layout
<1>12. Prefix(a)'
  BY <1>2, Parts DEF Prefix, Accepted
<1>13. FilesSent(a)'
  <2>1. \A i \in DOMAIN sent[a] : sent[a][i].hasFd /\ sent[a][i].fd = NoFd => W + n <= sent[a][i].start
    <3> SUFFICES ASSUME NEW i \in DOMAIN sent[a], sent[a][i].hasFd, sent[a][i].fd = NoFd
                 PROVE  W + n <= sent[a][i].start
      OBVIOUS
    <3>1. W <= sent[a][i].start /\ sent[a][i] \in Messages
      BY Parts DEF FilesSent
    <3>2. sent[a][i].start \in Nat /\ sent[a][i].start < End(sent[a][i]) /\ End(sent[a][i]) \in Nat
      BY <3>1, Sizes
    <3>3. ~(End(sent[a][i]) <= q[1].start)
      <4> HIDE DEF W, q
      <4> QED BY <1>3, <1>6, <3>1, <3>2, SMTT(30)
    <3>4. PICK k \in DOMAIN q : sent[a][i] = q[k]
      BY <1>2, <3>3, SentOrQueued
    <3>5. ~(k <= g)
      <4>1. k # 1
        BY <1>8, <3>4
      <4>2. k \notin 2..g
        BY <1>8, <3>4
      <4> QED BY <1>3, <4>1, <4>2
    <3>6. ~(q[k].start < W + n)
      BY <1>3, <1>10, <3>5
    <3> HIDE DEF W, q
    <3> QED BY <1>4, <1>6, <3>2, <3>4, <3>6
  <2> QED BY <1>2, <1>7, <2>1, Parts DEF FilesSent
<1>14. Place(a)'
  <2> SUFFICES ASSUME sockfd[p] # "closed" PROVE InMessage(a)' /\ Whole(a)' /\ WithFiles(a)' /\ InHand(a)'
    BY <1>2 DEF Place
  <2> DEFINE x == wire'[a]  v == IOVecs(a)
  <2>1. /\ InMessage(a) /\ Whole(a) /\ WithFiles(a) /\ InHand(a) /\ ReadTo(a) \in Nat
    BY Reading1
  <2>2. /\ x \in Seq(Pieces) /\ Len(x) = wl + n /\ DOMAIN x = 1..wl+n
        /\ \A k \in 1..wl : x[k] = wire[a][k]
        /\ \A j \in 1..n : x[wl+j] = v[j]
    <3>1. x = wire[a] \o SubSeq(v, 1, n)
      BY <1>1 DEF FramingInv, Typed
    <3> HIDE DEF x, v
    <3>2. v \in Seq(Pieces) /\ n \in Nat /\ n <= Len(v)
      BY <1>4 DEF v
    <3>3. /\ x \in Seq(Pieces) /\ Len(x) = wl + n
          /\ \A k \in 1..wl : x[k] = wire[a][k]
          /\ \A j \in 1..n : x[wl+j] = v[j]
      <4>1. wl = Len(wire[a]) /\ wire[a] \in Seq(Pieces)
        BY <1>3
      <4> QED BY <3>1, <3>2, <4>1, Joined
    <3> QED BY <3>3
  <2>3. \A k \in 1..wl+n : k \in 1..wl \/ \E j \in 1..n : k = wl + j
    <3> SUFFICES ASSUME NEW k \in 1..wl+n, ~(k \in 1..wl) PROVE \E j \in 1..n : k = wl + j
      OBVIOUS
    <3>1. k - wl \in 1..n /\ k = wl + (k - wl)
      <4> HIDE DEF wl
      <4> QED BY <1>3, <1>4
    <3> QED BY <3>1
  <2>4. \A j \in 1..n : /\ v[j].at = W + j
                         /\ v[j].file = IF j = 1 THEN Passing(a) ELSE NoFile
    <3>1. \A j \in 1..n : j \in 1..Len(v)
      BY <1>4
    <3> QED BY <1>2, <3>1, Offered
  <2>5. InMessage(a)'
    BY <1>1, <1>2, <2>1 DEF InMessage, Accepted, Next1, FramingInv, Typed
  <2>6. ReadTo(a)' = ReadTo(a)
    BY <1>2 DEF ReadTo, Total
  <2>7. ReadTo(a) + wl = W
    BY <2>1 DEF Whole
  <2>8. Whole(a)'
    <3>1. ReadTo(a) + Len(x) = W + n
      <4> HIDE DEF W, wl, x
      <4> QED BY <1>3, <1>4, <1>6, <2>1, <2>2, <2>7
    <3>2. \A k \in 1..wl+n : x[k].at = ReadTo(a) + k
      <4> SUFFICES ASSUME NEW k \in 1..wl+n PROVE x[k].at = ReadTo(a) + k
        OBVIOUS
      <4>1. CASE k \in 1..wl
        BY <1>3, <2>1, <2>2, <4>1 DEF Whole
      <4>2. CASE \E j \in 1..n : k = wl + j
        <5>1. PICK j \in 1..n : k = wl + j
          BY <4>2
        <5>2. x[k].at = W + j
          BY <2>2, <2>4, <5>1
        <5>3. W + j = ReadTo(a) + k
          <6> HIDE DEF W, wl
          <6> QED BY <1>3, <1>4, <1>6, <2>1, <2>7, <5>1
        <5> QED BY <5>2, <5>3
      <4> QED BY <2>3, <4>1, <4>2
    <3> QED BY <1>7, <2>2, <2>6, <3>1, <3>2 DEF Whole
  <2>9. PICK h \in DOMAIN sent[a] : sent[a][h] = q[1]
    <3>1. 1 \in DOMAIN outq[a]
      BY <1>3
    <3>2. N - o + 1 \in DOMAIN sent[a] /\ outq[a][1] = sent[a][N - o + 1]
      BY <3>1, Parts, Queued
    <3> QED BY <3>2
  <2>10. Passing(a) # NoFile <=> bwritten[a] = 0 /\ q[1].file # NoFile
    BY <1>2, PassingFile
  <2>11. \A k \in 1..wl+n : x[k].file # NoFile =>
          \E i \in DOMAIN sent[a] : sent[a][i].start + 1 = x[k].at
    <3> SUFFICES ASSUME NEW k \in 1..wl+n, x[k].file # NoFile
                 PROVE  \E i \in DOMAIN sent[a] : sent[a][i].start + 1 = x[k].at
      OBVIOUS
    <3>1. CASE k \in 1..wl
      <4>1. x[k] = wire[a][k] /\ k \in DOMAIN wire[a]
        BY <1>3, <2>2, <3>1
      <4> QED BY <2>1, <4>1 DEF WithFiles
    <3>2. CASE \E j \in 1..n : k = wl + j
      <4>1. PICK j \in 1..n : k = wl + j
        BY <3>2
      <4>2. x[k] = v[j] /\ v[j].at = W + j
            /\ v[j].file = IF j = 1 THEN Passing(a) ELSE NoFile
        BY <2>2, <2>4, <4>1
      <4>3. j = 1 /\ bwritten[a] = 0
        BY <2>10, <4>2
      <4>4. x[k].at = q[1].start + 1
        BY <1>6, <4>2, <4>3
      <4> QED BY <2>9, <4>4
    <3> QED BY <2>3, <3>1, <3>2
  <2>12. \A k \in 1..wl+n, i \in DOMAIN sent[a] :
          sent[a][i].start + 1 = x[k].at => (x[k].file # NoFile <=> sent[a][i].file # NoFile)
    <3> SUFFICES ASSUME NEW k \in 1..wl+n, NEW i \in DOMAIN sent[a], sent[a][i].start + 1 = x[k].at
                 PROVE  x[k].file # NoFile <=> sent[a][i].file # NoFile
      OBVIOUS
    <3>1. CASE k \in 1..wl
      <4>1. x[k] = wire[a][k] /\ k \in DOMAIN wire[a]
        BY <1>3, <2>2, <3>1
      <4> QED BY <2>1, <4>1 DEF WithFiles
    <3>2. CASE \E j \in 1..n : k = wl + j
      <4>1. PICK j \in 1..n : k = wl + j
        BY <3>2
      <4>2. x[k] = v[j] /\ v[j].at = W + j
        BY <2>2, <2>4, <4>1
      <4>3. sent[a][i] \in Messages
        BY Parts
      <4>4. sent[a][i].start \in Nat
        BY <4>3, Sizes
      <4>5. sent[a][i].start + 1 = W + j /\ j \in Nat \ {0} /\ j <= n
        BY <1>4, <4>2
      <4>6. WrittenTo(a) \in Nat /\ j <= Len(v)
        BY <1>4, <1>6, <4>5
      <4> HIDE DEF W, v, x
      <4>7. \A st \in Nat : st = sent[a][i].start /\ st + 1 = WrittenTo(a) + j =>
              \/ /\ sent[a][i] = outq[a][1] /\ bwritten[a] = 0
                 /\ IOVecs(a)[j].file = Passing(a)
              \/ sent[a][i].file = NoFile /\ IOVecs(a)[j].file = NoFile
        BY <1>2, <4>5, <4>6, NewFiles DEF v
      <4>8. v[j].file # NoFile <=> sent[a][i].file # NoFile
        BY <2>10, <4>4, <4>5, <4>7 DEF W, v
      <4> QED BY <4>2, <4>8
    <3> QED BY <2>3, <3>1, <3>2
  <2>13. WithFiles(a)'
    BY <1>2, <2>2, <2>11, <2>12 DEF WithFiles
  <2>14. InHand(a)'
    BY <1>2, <2>1 DEF InHand, Next1, Accepted
  <2> QED BY <2>5, <2>8, <2>13, <2>14
<1> QED BY <1>11, <1>12, <1>13, <1>14 DEF Stream

-----------------------------------------------------------------------------
(* Reading *)

\* Something can be received, and not beyond the fixed header of the message
\* after the one being read.
LEMMA Rooms ==
    ASSUME FramingInv, NEW s \in Sides, sockfd[Peer(s)] # "closed"
    PROVE  /\ Room(Peer(s)) \in Nat \ {0}
           /\ bread[Peer(s)] = 0 => Room(Peer(s)) = FixedSz
           /\ bread[Peer(s)] # 0 =>
                /\ Next1(s) \in DOMAIN sent[s]
                /\ Incoming(Peer(s)) = sent[s][Next1(s)] /\ sent[s][Next1(s)] \in Messages
                /\ Room(Peer(s)) = IF bread[Peer(s)] < FixedSz
                                   THEN FixedSz - bread[Peer(s)] + Incoming(Peer(s)).sz
                                   ELSE Size(Incoming(Peer(s))) - bread[Peer(s)] + FixedSz
<1> DEFINE p == Peer(s)  br == bread[p]  m == sent[s][Next1(s)]
<1>1. br \in Nat /\ Peer(p) = s
  BY Parts, Peers
<1>2. Incoming(p) = m
  BY <1>1 DEF Incoming, Next1, Accepted
<1>3. br # 0 => Next1(s) \in DOMAIN sent[s] /\ m \in Messages /\ br < Size(m)
  BY Reading1
<1>4. Room(p) = IF br < FixedSz THEN FixedSz - br + (IF br = 0 THEN 0 ELSE m.sz)
                                ELSE Size(m) - br + FixedSz
  BY <1>2 DEF Room, HeaderRoom, UnallocatedRoom
<1>5. CASE br = 0
  BY <1>4, <1>5 DEF FixedSz
<1>6. CASE br # 0
  <2>1. m.sz \in {0, 2} /\ Size(m) \in {3, 5}
    BY <1>3, <1>6, Sizes
  <2>2. Room(p) = IF br < FixedSz THEN FixedSz - br + m.sz ELSE Size(m) - br + FixedSz
    BY <1>4, <1>6
  <2> HIDE DEF m, br, p
  <2>3. Room(p) \in Nat \ {0}
    BY <1>1, <1>3, <1>6, <2>1, <2>2 DEF FixedSz
  <2> QED BY <1>2, <1>3, <1>6, <2>2, <2>3 DEF m, br, p
<1> QED BY <1>5, <1>6

\* recvmsg takes the pieces that came first, with the file of one of them.
LEMMA Reception ==
    ASSUME FramingInv, NEW s \in Sides, sockfd[Peer(s)] # "closed", wire[s] # <<>>
    PROVE  \E n \in 1..Len(wire[s]) :
             /\ Received(Peer(s)) = SubSeq(wire[s], 1, n)
             /\ Len(Received(Peer(s))) = n /\ n <= Room(Peer(s))
             /\ \/ n = Len(wire[s]) \/ n = Room(Peer(s))
                \/ n + 1 \in DOMAIN wire[s] /\ wire[s][n+1].file # NoFile
             /\ \A k \in 1..n : wire[s][k].file # NoFile =>
                    FileOf(Received(Peer(s))) = wire[s][k].file
             /\ FileOf(Received(Peer(s))) \in Nat
             /\ FileOf(Received(Peer(s))) # NoFile =>
                    \E k \in 1..n : wire[s][k].file = FileOf(Received(Peer(s)))
<1> DEFINE p == Peer(s)  w == wire[s]  r == Received(p)
           withFile == {k \in DOMAIN w : w[k].file # NoFile}
           next == {k \in withFile : \E k1 \in withFile : k1 < k}
           ends == {Len(w), Room(p)} \cup {k - 1 : k \in next}
           n == Min(ends)
<1>1. /\ w \in Seq(Pieces) /\ DOMAIN w = 1..Len(w) /\ Len(w) \in Nat \ {0} /\ Peer(p) = s
      /\ Room(p) \in Nat \ {0}
  BY Parts, Peers, Rooms
<1>2. \A k \in next : k \in 1..Len(w) /\ k - 1 \in Nat \ {0}
  <2> SUFFICES ASSUME NEW k \in next PROVE k \in 1..Len(w) /\ k - 1 \in Nat \ {0}
    OBVIOUS
  <2>1. PICK k1 \in 1..Len(w) : k1 < k
    BY <1>1
  <2>2. k \in 1..Len(w)
    BY <1>1
  <2> HIDE DEF next, w
  <2> QED BY <1>1, <2>1, <2>2
<1>3. ends \in SUBSET (Nat \ {0})
  <2> HIDE DEF next, w
  <2> QED BY <1>1, <1>2
<1>4. n \in ends /\ \A k \in ends : n <= k
  <2> HIDE DEF next, w
  <2>1. ends # {} /\ ends \in SUBSET Nat
    BY <1>3
  <2> HIDE DEF ends
  <2> QED BY <2>1, MinProperty
<1>5. r = SubSeq(w, 1, n)
  BY <1>1 DEF Received
<1> HIDE DEF n
<1>6. n \in Nat \ {0} /\ n <= Len(w) /\ n <= Room(p)
  BY <1>3, <1>4
<1>7. n \in 1..Len(w)
  BY <1>1, <1>6
<1>8. r \in Seq(Pieces) /\ Len(r) = n /\ DOMAIN r = 1..n /\ \A k \in 1..n : r[k] = w[k]
  <2> HIDE DEF w, r, ends
  <2> QED BY <1>1, <1>5, <1>6
<1>9. n = Len(w) \/ n = Room(p) \/ (n + 1 \in DOMAIN w /\ w[n+1].file # NoFile)
  <2> SUFFICES ASSUME n # Len(w), n # Room(p) PROVE n + 1 \in DOMAIN w /\ w[n+1].file # NoFile
    OBVIOUS
  <2>1. PICK k \in next : n = k - 1
    BY <1>4
  <2>2. k = n + 1
    BY <1>1, <1>2, <2>1
  <2> QED BY <2>2
<1>10. \A k, l \in 1..n : k < l => ~(w[k].file # NoFile /\ w[l].file # NoFile)
  <2> SUFFICES ASSUME NEW k \in 1..n, NEW l \in 1..n, k < l, w[k].file # NoFile, w[l].file # NoFile
               PROVE  FALSE
    OBVIOUS
  <2>1. k \in withFile /\ l \in withFile
    BY <1>1, <1>6
  <2>2. l \in next
    BY <2>1
  <2>3. l - 1 \in ends
    BY <2>2
  <2>4. n <= l - 1
    BY <1>4, <2>3
  <2> HIDE DEF withFile, next, ends, w
  <2> QED BY <1>6, <2>4
<1> DEFINE f == {r[k].file : k \in DOMAIN r} \ {NoFile}
<1>11. FileOf(r) = IF f = {} THEN NoFile ELSE CHOOSE x \in f : TRUE
  BY DEF FileOf
<1>12. f = {} => FileOf(r) = NoFile
  BY <1>11
<1>13. f # {} => FileOf(r) \in f
  <2> HIDE DEF f
  <2> QED BY <1>11
<1>14. \A x \in f : x # NoFile /\ \E k \in 1..n : w[k].file = x
  BY <1>8
<1>15. \A k \in 1..n : w[k].file # NoFile => w[k].file \in f
  BY <1>8
<1> HIDE DEF f, r, withFile, next, ends
<1>16. \A k \in 1..n : w[k].file # NoFile => FileOf(r) = w[k].file
  <2> SUFFICES ASSUME NEW k \in 1..n, w[k].file # NoFile PROVE FileOf(r) = w[k].file
    OBVIOUS
  <2>1. FileOf(r) \in f
    BY <1>13, <1>15
  <2>2. PICK l \in 1..n : w[l].file = FileOf(r) /\ w[l].file # NoFile
    BY <1>14, <2>1
  <2>3. ~(k < l) /\ ~(l < k)
    BY <1>10, <2>2
  <2>4. k = l
    BY <1>6, <2>3
  <2> QED BY <2>2, <2>4
<1>17. FileOf(r) # NoFile => \E k \in 1..n : w[k].file = FileOf(r)
  BY <1>12, <1>13, <1>14
<1>18. FileOf(r) \in Nat
  <2>1. \A k \in 1..n : w[k] \in Pieces
    BY <1>1, <1>6
  <2>2. \A k \in 1..n : w[k].file \in Nat
    BY <2>1 DEF Pieces
  <2> QED BY <1>17, <2>2 DEF NoFile
<1> QED BY <1>5, <1>6, <1>7, <1>8, <1>9, <1>16, <1>17, <1>18 DEF r, p, w

\* A message of which something has been written has a file if it says so.
LEMMA Begun ==
    ASSUME FramingInv, NEW s \in Sides, NEW i \in DOMAIN sent[s], sent[s][i].start < WrittenTo(s)
    PROVE  sent[s][i].hasFd <=> sent[s][i].file # NoFile
<1>1. WrittenTo(s) \in Nat /\ sent[s][i] \in Messages
  BY Parts, Extent
<1>2. sent[s][i].start \in Nat /\ ~(WrittenTo(s) <= sent[s][i].start)
  BY <1>1, Sizes
<1> QED BY <1>2, Parts DEF FilesSent

\* The message being read, as soon as there is something to receive.
LEMMA AtHand ==
    ASSUME FramingInv, NEW s \in Sides, sockfd[Peer(s)] # "closed", wire[s] # <<>>
    PROVE  /\ Next1(s) \in DOMAIN sent[s] /\ sent[s][Next1(s)] \in Messages
           /\ Incoming(Peer(s)) = sent[s][Next1(s)]
           /\ bread[Peer(s)] \in Nat /\ bread[Peer(s)] < Size(sent[s][Next1(s)])
           /\ ReadTo(s) = sent[s][Next1(s)].start + bread[Peer(s)]
           /\ ReadTo(s) \in Nat /\ WrittenTo(s) \in Nat /\ Len(wire[s]) \in Nat \ {0}
           /\ WrittenTo(s) = ReadTo(s) + Len(wire[s])
           /\ sent[s][Next1(s)].hasFd <=> sent[s][Next1(s)].file # NoFile
<1>1. /\ ReadTo(s) \in Nat /\ WrittenTo(s) \in Nat /\ Whole(s) /\ WithFiles(s)
      /\ WrittenTo(s) <= Total(s) /\ Total(s) \in Nat
  BY Reading1
<1>2. Len(wire[s]) \in Nat \ {0} /\ bread[Peer(s)] \in Nat
  BY Parts
<1>3. WrittenTo(s) = ReadTo(s) + Len(wire[s])
  BY <1>1 DEF Whole
<1>4. Len(Accepted(s)) # Len(sent[s])
  <2> SUFFICES ASSUME Len(Accepted(s)) = Len(sent[s]) PROVE FALSE
    OBVIOUS
  <2>1. ReadTo(s) = Total(s)
    BY Reading1
  <2> QED BY <1>1, <1>2, <1>3, <2>1
<1>5. /\ Next1(s) \in DOMAIN sent[s] /\ sent[s][Next1(s)] \in Messages
      /\ ReadTo(s) = sent[s][Next1(s)].start + bread[Peer(s)]
      /\ bread[Peer(s)] < Size(sent[s][Next1(s)])
  BY <1>4, Reading1
<1>6. Incoming(Peer(s)) = sent[s][Next1(s)]
  BY Peers DEF Incoming, Next1, Accepted
<1>7. sent[s][Next1(s)].start < WrittenTo(s)
  <2>1. sent[s][Next1(s)].start \in Nat
    BY <1>5, Sizes
  <2> QED BY <1>1, <1>2, <1>3, <1>5, <2>1
<1>8. sent[s][Next1(s)].hasFd <=> sent[s][Next1(s)].file # NoFile
  BY <1>5, <1>7, Begun
<1> QED BY <1>1, <1>2, <1>3, <1>5, <1>6, <1>8

\* And the one after it, when some of that has been written too.
LEMMA NextAtHand ==
    ASSUME FramingInv, NEW s \in Sides, NEW i \in DOMAIN sent[s], End(sent[s][i]) < WrittenTo(s)
    PROVE  /\ i + 1 \in DOMAIN sent[s] /\ sent[s][i+1] \in Messages
           /\ sent[s][i+1].start = End(sent[s][i])
           /\ sent[s][i+1].hasFd <=> sent[s][i+1].file # NoFile
<1>1. /\ Len(sent[s]) \in Nat /\ i \in 1..Len(sent[s]) /\ DOMAIN sent[s] = 1..Len(sent[s])
      /\ sent[s][i] \in Messages
  BY Parts
<1>2. /\ WrittenTo(s) \in Nat /\ WrittenTo(s) <= Total(s) /\ Total(s) \in Nat
      /\ End(sent[s][i]) \in Nat
  BY <1>1, Parts, Extent, Sizes
<1>3. i # Len(sent[s])
  <2> SUFFICES ASSUME i = Len(sent[s]) PROVE FALSE
    OBVIOUS
  <2>1. Total(s) = End(sent[s][i])
    BY <1>1 DEF Total
  <2> QED BY <1>2, <2>1
<1>4. i + 1 \in 1..Len(sent[s]) /\ i + 1 # 1 /\ (i + 1) - 1 = i
  BY <1>1, <1>3
<1>5. sent[s][i+1].start = End(sent[s][i])
  BY <1>1, <1>4, Parts DEF Layout
<1>6. sent[s][i+1] \in Messages
  BY <1>1, <1>4, Parts
<1>7. sent[s][i+1].hasFd <=> sent[s][i+1].file # NoFile
  BY <1>1, <1>4, <1>5, Begun
<1> QED BY <1>1, <1>4, <1>5, <1>6, <1>7

\* f is the file that comes with the i-th message of s.
FromWire(s, f, i) == \E k \in DOMAIN wire[s] :
    wire[s][k].file = f /\ wire[s][k].at = sent[s][i].start + 1

\* The file received comes with a message that begins where it was read.
LEMMA FilesReceived ==
    ASSUME FramingInv, NEW s \in Sides, sockfd[Peer(s)] # "closed", wire[s] # <<>>,
           NEW n \in 1..Len(wire[s]), NEW f \in Nat,
           \A k \in 1..n : wire[s][k].file # NoFile => f = wire[s][k].file,
           f # NoFile => \E k \in 1..n : wire[s][k].file = f
    PROVE  /\ \A i \in DOMAIN sent[s] :
                /\ ReadTo(s) <= sent[s][i].start /\ sent[s][i].start < ReadTo(s) + n
                /\ sent[s][i].file # NoFile
                => f # NoFile
           /\ f # NoFile => \E i \in DOMAIN sent[s] :
                /\ ReadTo(s) <= sent[s][i].start /\ sent[s][i].start < ReadTo(s) + n
                /\ sent[s][i].file # NoFile /\ FromWire(s, f, i)
<1>1. /\ Len(wire[s]) \in Nat /\ DOMAIN wire[s] = 1..Len(wire[s])
      /\ ReadTo(s) \in Nat /\ Whole(s) /\ WithFiles(s) /\ n \in Nat
  BY Parts, Reading1
<1>2. \A i \in DOMAIN sent[s] : sent[s][i] \in Messages /\ sent[s][i].start \in Nat
  BY Parts, Sizes
<1>3. \A k \in 1..n : k \in DOMAIN wire[s] /\ k \in Nat \ {0} /\ k <= n /\ wire[s][k].at = ReadTo(s) + k
  <2>1. \A l \in Nat : n <= l => \A k \in 1..n : k \in 1..l /\ k \in Nat \ {0} /\ k <= n
    BY <1>1
  <2>2. n <= Len(wire[s])
    BY <1>1
  <2>3. \A k \in DOMAIN wire[s] : wire[s][k].at = ReadTo(s) + k
    BY <1>1 DEF Whole
  <2> QED BY <1>1, <2>1, <2>2, <2>3
<1>4. ASSUME NEW i \in DOMAIN sent[s],
             ReadTo(s) <= sent[s][i].start, sent[s][i].start < ReadTo(s) + n,
             sent[s][i].file # NoFile
      PROVE  f # NoFile
  <2> DEFINE k == sent[s][i].start + 1 - ReadTo(s)
  <2>1. k \in 1..n /\ sent[s][i].start + 1 = ReadTo(s) + k
    BY <1>1, <1>2, <1>4
  <2> HIDE DEF k
  <2>2. sent[s][i].start + 1 = wire[s][k].at /\ k \in DOMAIN wire[s]
    BY <1>3, <2>1
  <2>3. wire[s][k].file # NoFile
    BY <1>1, <1>4, <2>2 DEF WithFiles
  <2> QED BY <2>1, <2>3
<1>5. ASSUME f # NoFile
      PROVE  \E i \in DOMAIN sent[s] :
                /\ ReadTo(s) <= sent[s][i].start /\ sent[s][i].start < ReadTo(s) + n
                /\ sent[s][i].file # NoFile /\ FromWire(s, f, i)
  <2>1. PICK k \in 1..n : wire[s][k].file = f
    BY <1>5
  <2>2. PICK i \in DOMAIN sent[s] : sent[s][i].start + 1 = wire[s][k].at
    BY <1>1, <1>3, <1>5, <2>1 DEF WithFiles
  <2>3. sent[s][i].start + 1 = ReadTo(s) + k /\ k \in Nat \ {0} /\ k <= n /\ sent[s][i].start \in Nat
    BY <1>2, <1>3, <2>2
  <2>4. ReadTo(s) <= sent[s][i].start /\ sent[s][i].start < ReadTo(s) + n
    BY <1>1, <2>3
  <2>5. sent[s][i].file # NoFile
    BY <1>1, <1>3, <1>5, <2>1, <2>2 DEF WithFiles
  <2>6. FromWire(s, f, i)
    BY <1>3, <2>1, <2>2 DEF FromWire
  <2> QED BY <2>4, <2>5, <2>6
<1> QED BY <1>4, <1>5

\* A message that begins after another is behind it.
LEMMA Behind ==
    ASSUME FramingInv, NEW s \in Sides, NEW c \in DOMAIN sent[s], NEW i \in DOMAIN sent[s]
    PROVE  /\ sent[s][c].start <= sent[s][i].start => c <= i
           /\ sent[s][i].start < End(sent[s][c]) => i <= c
           /\ sent[s][c].start < sent[s][i].start => c < i
<1>1. /\ sent[s][c] \in Messages /\ sent[s][i] \in Messages /\ Layout(s) /\ sent[s] \in Seq(Messages)
      /\ c \in Nat /\ i \in Nat
  BY Parts
<1>2. /\ sent[s][c].start \in Nat /\ sent[s][i].start \in Nat /\ End(sent[s][i]) \in Nat
      /\ sent[s][i].start < End(sent[s][i])
  <2>1. /\ Size(sent[s][i]) \in {3, 5} /\ sent[s][i].start \in Nat
        /\ End(sent[s][i]) = sent[s][i].start + Size(sent[s][i])
    BY <1>1, Sizes
  <2>2. sent[s][c].start \in Nat
    BY <1>1, Sizes
  <2> QED BY <2>1, <2>2
<1>3. sent[s][c].start <= sent[s][i].start => c <= i
  BY <1>1, <1>2, Ordered
<1>4. sent[s][i].start < End(sent[s][c]) => i <= c
  BY <1>1, Ordered
<1>5. sent[s][c].start < sent[s][i].start => c <= i /\ c # i
  BY <1>2, <1>3
<1> QED BY <1>1, <1>3, <1>4, <1>5

\* A recvmsg that does not go beyond the message being read receives a file when
\* it receives the beginning of a message that has one.
LEMMA HeldWithin ==
    ASSUME FramingInv, NEW s \in Sides, sockfd[Peer(s)] # "closed", wire[s] # <<>>,
           NEW n \in 1..Len(wire[s]), NEW f \in Nat,
           \A k \in 1..n : wire[s][k].file # NoFile => f = wire[s][k].file,
           f # NoFile => \E k \in 1..n : wire[s][k].file = f,
           bread[Peer(s)] + n <= Size(sent[s][Next1(s)])
    PROVE  /\ f # NoFile => /\ bread[Peer(s)] = 0 /\ sent[s][Next1(s)].file # NoFile
                            /\ FromWire(s, f, Next1(s))
           /\ bread[Peer(s)] = 0 /\ sent[s][Next1(s)].file # NoFile => f # NoFile
<1> DEFINE c == Next1(s)  m == sent[s][c]  br == bread[Peer(s)]
<1>1. /\ c \in DOMAIN sent[s] /\ m \in Messages /\ br \in Nat /\ br < Size(m)
      /\ ReadTo(s) = m.start + br /\ ReadTo(s) \in Nat
      /\ Len(wire[s]) \in Nat
  BY AtHand
<1>2. /\ m.start \in Nat /\ Size(m) \in Nat /\ End(m) = m.start + Size(m) /\ n \in Nat \ {0}
      /\ br + n <= Size(m)
  BY <1>1, Sizes
<1>3. f # NoFile => br = 0 /\ m.file # NoFile /\ FromWire(s, f, c)
  <2> SUFFICES ASSUME f # NoFile PROVE br = 0 /\ m.file # NoFile /\ FromWire(s, f, c)
    OBVIOUS
  <2>1. PICK i \in DOMAIN sent[s] : /\ ReadTo(s) <= sent[s][i].start
                                    /\ sent[s][i].start < ReadTo(s) + n
                                    /\ sent[s][i].file # NoFile /\ FromWire(s, f, i)
    BY FilesReceived
  <2>2. sent[s][i].start \in Nat /\ i \in Nat /\ c \in Nat
    <3>1. /\ sent[s] \in Seq(Messages) /\ DOMAIN sent[s] = 1..Len(sent[s])
          /\ Len(Accepted(s)) \in Nat
      BY Parts
    <3>2. sent[s][i] \in Messages /\ i \in Nat /\ c \in Nat
      BY <1>1, <3>1
    <3> QED BY <3>2, Sizes
  <2>3. m.start <= sent[s][i].start /\ sent[s][i].start < End(m)
    <3> HIDE DEF m, br
    <3>1. \A st \in Nat : m.start + br <= st /\ st < m.start + br + n =>
                            m.start <= st /\ st < m.start + Size(m)
      BY <1>1, <1>2
    <3> QED BY <1>1, <1>2, <2>1, <2>2, <3>1
  <2>4. i = c
    <3>1. c <= i /\ i <= c
      BY <1>1, <2>3, Behind
    <3> QED BY <2>2, <3>1
  <2>5. br = 0
    <3>1. m.start + br <= m.start
      BY <1>1, <2>1, <2>4
    <3> HIDE DEF m, br
    <3> QED BY <1>1, <1>2, <3>1
  <2> QED BY <2>1, <2>4, <2>5
<1>4. br = 0 /\ m.file # NoFile => f # NoFile
  <2> SUFFICES ASSUME br = 0, m.file # NoFile PROVE f # NoFile
    OBVIOUS
  <2>1. ReadTo(s) <= m.start /\ m.start < ReadTo(s) + n
    <3> HIDE DEF m, br
    <3> QED BY <1>1, <1>2
  <2> QED BY <1>1, <2>1, FilesReceived, SMTT(30)
<1> HIDE DEF m, br, c
<1> QED BY <1>3, <1>4 DEF m, br, c

\* One that goes beyond it, by no more than a fixed header, receives the file of
\* the next.
LEMMA HeldBeyond ==
    ASSUME FramingInv, NEW s \in Sides, sockfd[Peer(s)] # "closed", wire[s] # <<>>,
           NEW n \in 1..Len(wire[s]), NEW f \in Nat,
           \A k \in 1..n : wire[s][k].file # NoFile => f = wire[s][k].file,
           f # NoFile => \E k \in 1..n : wire[s][k].file = f,
           bread[Peer(s)] # 0, Size(sent[s][Next1(s)]) < bread[Peer(s)] + n,
           bread[Peer(s)] + n <= Size(sent[s][Next1(s)]) + FixedSz
    PROVE  /\ Next1(s) + 1 \in DOMAIN sent[s] /\ sent[s][Next1(s) + 1] \in Messages
           /\ sent[s][Next1(s) + 1].start = End(sent[s][Next1(s)])
           /\ f # NoFile <=> sent[s][Next1(s) + 1].file # NoFile
           /\ f # NoFile => FromWire(s, f, Next1(s) + 1)
<1> DEFINE c == Next1(s)  m == sent[s][c]  br == bread[Peer(s)]  m2 == sent[s][c+1]
<1>1. /\ c \in DOMAIN sent[s] /\ m \in Messages /\ br \in Nat /\ br < Size(m)
      /\ ReadTo(s) = m.start + br /\ ReadTo(s) \in Nat
      /\ Len(wire[s]) \in Nat /\ WrittenTo(s) = ReadTo(s) + Len(wire[s])
      /\ br # 0 /\ Size(m) < br + n /\ br + n <= Size(m) + 2
  BY AtHand DEF FixedSz
<1>2. /\ m.start \in Nat /\ Size(m) \in Nat /\ End(m) = m.start + Size(m) /\ n \in Nat \ {0}
      /\ n <= Len(wire[s])
  BY <1>1, Sizes, SMTT(30)
<1>3. End(m) < WrittenTo(s)
  <2> HIDE DEF m, br
  <2> QED BY <1>1, <1>2
<1>4. c + 1 \in DOMAIN sent[s] /\ m2 \in Messages /\ m2.start = End(m)
  BY <1>1, <1>3, NextAtHand
<1>5. Size(m2) \in {3, 5} /\ End(m2) = m2.start + Size(m2) /\ m2.start \in Nat
  BY <1>4, Sizes
<1>6. f # NoFile => m2.file # NoFile /\ FromWire(s, f, c + 1)
  <2> SUFFICES ASSUME f # NoFile PROVE m2.file # NoFile /\ FromWire(s, f, c + 1)
    OBVIOUS
  <2>1. PICK i \in DOMAIN sent[s] : /\ ReadTo(s) <= sent[s][i].start
                                    /\ sent[s][i].start < ReadTo(s) + n
                                    /\ sent[s][i].file # NoFile /\ FromWire(s, f, i)
    BY FilesReceived
  <2>2. sent[s][i].start \in Nat /\ i \in Nat /\ c \in Nat
    <3>1. /\ sent[s] \in Seq(Messages) /\ DOMAIN sent[s] = 1..Len(sent[s])
          /\ Len(Accepted(s)) \in Nat
      BY Parts
    <3>2. sent[s][i] \in Messages /\ i \in Nat /\ c \in Nat
      BY <1>1, <3>1
    <3> QED BY <3>2, Sizes
  <2>3. m.start < sent[s][i].start /\ sent[s][i].start < End(m2)
    <3> HIDE DEF m, br, m2
    <3>1. \A st \in Nat : m.start + br <= st /\ st < m.start + br + n =>
                            m.start < st /\ st < m.start + Size(m) + Size(m2)
      <4>1. \A x, b, z, z2, k, st \in Nat :
              b # 0 /\ b + k <= z + 2 /\ z2 >= 3 /\ x + b <= st /\ st < x + b + k =>
                x < st /\ st < x + z + z2
        BY SMTT(30)
      <4>2. Size(m2) \in Nat /\ Size(m2) >= 3
        BY <1>5
      <4> QED BY <1>1, <1>2, <4>1, <4>2
    <3>2. End(m2) = m.start + Size(m) + Size(m2)
      BY <1>2, <1>4, <1>5
    <3> QED BY <1>1, <2>1, <2>2, <3>1, <3>2
  <2>4. c < i /\ i <= c + 1
    BY <1>1, <1>4, <2>3, Behind
  <2>5. i = c + 1
    BY <2>2, <2>4
  <2> QED BY <2>1, <2>5
<1>7. m2.file # NoFile => f # NoFile
  <2>1. ReadTo(s) <= m2.start /\ m2.start < ReadTo(s) + n
    <3> HIDE DEF m, br, m2
    <3> QED BY <1>1, <1>2, <1>4, <1>5
  <2> QED BY <1>4, <2>1, FilesReceived
<1> HIDE DEF m, m2, br, c
<1> QED BY <1>4, <1>6, <1>7 DEF m, m2, br, c

\* A reader stops within a fixed header only where the writer has.
LEMMA StopsWithin ==
    ASSUME FramingInv, NEW s \in Sides, sockfd[Peer(s)] # "closed", wire[s] # <<>>,
           NEW n \in 1..Len(wire[s]), NEW i \in DOMAIN sent[s],
           sent[s][i].start + 1 = ReadTo(s) + n,
           \/ n = Len(wire[s])
           \/ n + 1 \in DOMAIN wire[s] /\ wire[s][n+1].file # NoFile
    PROVE  split[s]
<1> DEFINE m == sent[s][i]  R == ReadTo(s)  W == WrittenTo(s)
<1>1. /\ R \in Nat /\ W \in Nat /\ Len(wire[s]) \in Nat /\ W = R + Len(wire[s])
      /\ Whole(s) /\ WithFiles(s) /\ n \in Nat
  BY AtHand, Reading1
<1>2. /\ m \in Messages /\ m.start \in Nat /\ Size(m) \in {3, 5} /\ End(m) = m.start + Size(m)
      /\ m.start + 1 = R + n /\ i \in Nat
  BY Parts, Sizes
<1>3. CASE n = Len(wire[s])
  <2>1. W = m.start + 1
    BY <1>1, <1>2, <1>3
  <2>2. m.start < W /\ W < End(m)
    <3> HIDE DEF m, W
    <3> QED BY <1>2, <2>1
  <2>3. W = m.start + bwritten[s] /\ bwritten[s] \in Nat
    BY <2>2, Parts, WriterInside
  <2>4. bwritten[s] = 1
    <3> HIDE DEF m, W
    <3> QED BY <1>2, <2>1, <2>3
  <2> QED BY <2>4, Parts DEF Layout, FixedSz
<1>4. CASE n + 1 \in DOMAIN wire[s] /\ wire[s][n+1].file # NoFile
  <2>1. wire[s][n+1].at = R + (n+1)
    BY <1>1, <1>4 DEF Whole
  <2>2. PICK j \in DOMAIN sent[s] : sent[s][j].start + 1 = wire[s][n+1].at
    BY <1>1, <1>4 DEF WithFiles
  <2>3. sent[s][j].start \in Nat /\ j \in Nat
    <3>1. sent[s][j] \in Messages /\ j \in Nat
      BY Parts
    <3> QED BY <3>1, Sizes
  <2>4. sent[s][j].start = m.start + 1
    <3>1. /\ sent[s][j].start + 1 = R + (n+1) /\ m.start + 1 = R + n
          /\ R \in Nat /\ n \in Nat /\ m.start \in Nat /\ sent[s][j].start \in Nat
      BY <1>1, <1>2, <2>1, <2>2, <2>3
    <3> HIDE DEF m, R
    <3> QED BY <3>1
  <2>5. m.start < sent[s][j].start /\ sent[s][j].start < End(m)
    <3> HIDE DEF m
    <3> QED BY <1>2, <2>3, <2>4
  <2>6. i < j /\ j <= i
    BY <2>5, Behind
  <2> QED BY <1>2, <2>3, <2>6
<1> QED BY <1>3, <1>4

LEMMA EmptyReceived ==
    ASSUME FramingInv, NEW s \in Sides, sockfd[Peer(s)] # "closed", wire[s] = <<>>
    PROVE  Received(Peer(s)) = <<>>
<1> DEFINE w == wire[s]  withFile == {k \in DOMAIN w : w[k].file # NoFile}
           next == {k \in withFile : \E k1 \in withFile : k1 < k}
           ends == {Len(w), Room(Peer(s))} \cup {k - 1 : k \in next}
<1>1. Len(w) = 0 /\ DOMAIN w = {}
  OBVIOUS
<1>2. next = {}
  BY <1>1
<1>3. Room(Peer(s)) \in Nat
  BY Rooms
<1> HIDE DEF next
<1>4. ends = {0, Room(Peer(s))}
  BY <1>1, <1>2
<1>5. ends \in SUBSET Nat /\ ends # {} /\ 0 \in ends
  BY <1>3, <1>4
<1> HIDE DEF ends
<1>6. Min(ends) \in ends /\ Min(ends) <= 0
  BY <1>5, MinProperty
<1>7. Min(ends) = 0
  <2>1. Min(ends) \in Nat
    BY <1>5, <1>6
  <2> QED BY <1>6, <2>1
<1>8. Received(Peer(s)) = SubSeq(w, 1, Min(ends))
  BY Peers DEF Received, ends, next
<1> QED BY <1>7, <1>8, SubSeqEmpty

\* The message being read as it is accepted, with what the number in hand refers
\* to by then.
Complete(s) == [sent[s][Next1(s)] EXCEPT
    !.file = IF sent[s][Next1(s)].hasFd THEN fds'[Peer(s)][infd[Peer(s)]] ELSE NoFile]

\* A recvmsg that leaves the reader of s in the i-th message leaves it with a
\* descriptor if that has a file and there was room for it: the one it had or a
\* new one, which refers to the file that came with the message.
KeepsFile(s, i) ==
    /\ infd'[Peer(s)] # NoFd => bread'[Peer(s)] > 0 /\ sent[s][i].file # NoFile
    /\ sent[s][i].file # NoFile /\ infd'[Peer(s)] = NoFd =>
        full'[Peer(s)] /\ (sockfd'[Peer(s)] # "closed" => bread'[Peer(s)] < FixedSz)
    /\ infd'[Peer(s)] # NoFd =>
        \/ infd'[Peer(s)] = infd[Peer(s)] /\ delivered' = delivered /\ fds' = fds
        \/ /\ infd[Peer(s)] = NoFd /\ FreeFds(Peer(s)) # {} /\ infd'[Peer(s)] = LowestFd(Peer(s))
           /\ \E f \in Nat \ {NoFile} : FromWire(s, f, i) /\ fds' = Installed(Peer(s), f)

\* What a recvmsg changes: n pieces come off the wire, unless it closes for want
\* of a descriptor, and they complete the message being read or they do not.
LEMMA Received1 ==
    ASSUME FramingInv, NEW s \in Sides, RecvMsg(Peer(s))
    PROVE  /\ sockfd[Peer(s)] # "closed" /\ wire[s] # <<>>
           /\ UNCHANGED <<script, outq, bwritten, watch, files, split, stolen, sent>>
           /\ bread'[Peer(s)] \in Nat /\ bread' = [bread EXCEPT ![Peer(s)] = bread'[Peer(s)]]
           /\ infd'[Peer(s)] \in Fds \cup {NoFd}
           /\ infd' = [infd EXCEPT ![Peer(s)] = infd'[Peer(s)]]
           /\ bread'[Peer(s)] \in 1..FixedSz-1 => split[s]
           /\ full' \in [Sides -> BOOLEAN] /\ \A x \in Sides : full[x] => full'[x]
           /\ \/ fds' = fds
              \/ FreeFds(Peer(s)) # {} /\ \E f \in Nat : fds' = Installed(Peer(s), f)
           /\ infd[Peer(s)] # NoFd => fds' = fds
           /\ \E n \in 1..Len(wire[s]) :
                /\ \/ /\ wire' = [wire EXCEPT ![s] = SubSeq(wire[s], n + 1, Len(wire[s]))]
                      /\ UNCHANGED <<sockfd, error, pc>>
                   \/ /\ Close(Peer(s)) /\ full'[Peer(s)]
                      /\ error' = [error EXCEPT ![Peer(s)] = "invalid message"]
                /\ \/ /\ bread[Peer(s)] + n < Size(sent[s][Next1(s)])
                      /\ bread'[Peer(s)] = bread[Peer(s)] + n
                      /\ delivered' = delivered
                      /\ KeepsFile(s, Next1(s))
                   \/ /\ bread[Peer(s)] + n = Size(sent[s][Next1(s)]) + bread'[Peer(s)]
                      /\ bread'[Peer(s)] <= FixedSz
                      /\ sent[s][Next1(s)].hasFd => infd[Peer(s)] # NoFd
                      /\ delivered' = [delivered EXCEPT ![Peer(s)] =
                            Append(delivered[Peer(s)], Complete(s))]
                      /\ IF bread'[Peer(s)] = 0 THEN infd'[Peer(s)] = NoFd
                         ELSE Next1(s) + 1 \in DOMAIN sent[s] /\ KeepsFile(s, Next1(s) + 1)
<1> DEFINE p == Peer(s)  c == Next1(s)  m == sent[s][c]  br == bread[p]  r == Received(p)
           f == FileOf(r)  br1 == br + Len(r)  complete == br1 >= Size(m)
           left == IF complete THEN br1 - Size(m) ELSE br1
           got == ReceivedFd(p)
           have == IF infd[p] # NoFd THEN infd[p] ELSE got
           kept == Kept(m, complete, have)
           next == IF complete THEN Following(p) ELSE m
           invalid == left = FixedSz /\ kept = NoFd /\ next.hasFd
<1>1. Peer(p) = s /\ p \in Sides /\ p # s
  BY Peers
<1>2. /\ pc[p] = "read" /\ r # <<>> /\ ~Unallocated(p) /\ ~SecondFile(p) /\ ~Misread(p)
      /\ UNCHANGED <<script, outq, bwritten, watch, files, split, stolen, sent>>
      /\ ReceiveFile(p)
  BY DEF RecvMsg, Reading
<1>3. sockfd[p] = "open"
  BY <1>1, <1>2 DEF FramingInv, Typed
<1>4. wire[s] # <<>>
  BY <1>2, <1>3, EmptyReceived
<1>5. PICK n \in 1..Len(wire[s]) :
        /\ Len(r) = n /\ n <= Room(p)
        /\ \/ n = Len(wire[s]) \/ n = Room(p)
           \/ n + 1 \in DOMAIN wire[s] /\ wire[s][n+1].file # NoFile
        /\ \A k \in 1..n : wire[s][k].file # NoFile => f = wire[s][k].file
        /\ f \in Nat
        /\ f # NoFile => \E k \in 1..n : wire[s][k].file = f
  BY <1>3, <1>4, Reception
<1>6. /\ c \in DOMAIN sent[s] /\ m \in Messages /\ Incoming(p) = m
      /\ br \in Nat /\ br < Size(m) /\ ReadTo(s) = m.start + br
      /\ ReadTo(s) \in Nat /\ WrittenTo(s) \in Nat /\ Len(wire[s]) \in Nat \ {0}
      /\ WrittenTo(s) = ReadTo(s) + Len(wire[s])
      /\ (m.hasFd <=> m.file # NoFile)
  BY <1>3, <1>4, AtHand
<1>7. /\ Size(m) \in {3, 5} /\ m.sz \in {0, 2} /\ Size(m) = m.sz + 3 /\ m.start \in Nat
      /\ End(m) = m.start + Size(m) /\ m.hasFd \in BOOLEAN /\ m.file \in Nat
      /\ n \in Nat \ {0} /\ n <= Len(wire[s]) /\ br1 = br + n
  BY <1>5, <1>6, Sizes
<1>8. /\ bread' = [bread EXCEPT ![p] = left]
      /\ infd' = [infd EXCEPT ![p] = kept]
      /\ delivered' = [delivered EXCEPT ![p] =
            IF ~complete THEN @
            ELSE Append(@, [m EXCEPT !.file = IF m.hasFd THEN FileUnder(p, have) ELSE NoFile])]
      /\ IF invalid
         THEN Close(p) /\ error' = [error EXCEPT ![p] = "invalid message"]
         ELSE /\ wire' = [wire EXCEPT ![s] = SubSeq(wire[s], n + 1, Len(wire[s]))]
              /\ UNCHANGED <<sockfd, error, pc>>
  BY <1>1, <1>5, <1>6 DEF RecvMsg
<1>9. /\ br < 2 => br + n <= 2 /\ Room(p) = IF br = 0 THEN 2 ELSE 2 - br + m.sz
      /\ br >= 2 => br + n <= Size(m) + 2 /\ Room(p) = Size(m) - br + 2
  <2>1. br < FixedSz => n <= FixedSz - br
    BY <1>2, <1>5, <1>6 DEF Unallocated, HeaderRoom, FixedSz
  <2>2. Room(p) = IF br = 0 THEN 2 ELSE IF br < 2 THEN 2 - br + m.sz ELSE Size(m) - br + 2
    <3> HIDE DEF m, br, c
    <3> QED BY <1>3, <1>6, Rooms DEF m, br, c, FixedSz
  <2> HIDE DEF m, br
  <2> QED BY <1>5, <1>6, <1>7, <2>1, <2>2, SMTT(30) DEF FixedSz
<1>10. /\ got \in Fds \cup {NoFd} /\ infd[p] \in Fds \cup {NoFd}
       /\ got # NoFd => /\ f # NoFile /\ infd[p] = NoFd /\ FreeFds(p) # {}
                        /\ got = LowestFd(p) /\ fds' = Installed(p, f)
       /\ got = NoFd => fds' = fds /\ (f # NoFile => full'[p])
       /\ full' \in [Sides -> BOOLEAN] /\ \A x \in Sides : full[x] => full'[x]
  <2>1. /\ full \in [Sides -> BOOLEAN] /\ infd[p] \in Fds \cup {NoFd}
    BY <1>1 DEF FramingInv, Typed
  <2>2. /\ fds' = IF f = NoFile \/ FreeFds(p) = {} THEN fds ELSE Installed(p, f)
        /\ full' = [full EXCEPT ![p] = @ \/ (f # NoFile /\ FreeFds(p) = {})]
    BY <1>2 DEF ReceiveFile
  <2>3. got = IF f = NoFile \/ FreeFds(p) = {} THEN NoFd ELSE LowestFd(p)
    BY DEF ReceivedFd
  <2>4. FreeFds(p) # {} => LowestFd(p) \in Fds /\ LowestFd(p) # NoFd
    <3> SUFFICES ASSUME FreeFds(p) # {} PROVE LowestFd(p) \in Fds /\ LowestFd(p) # NoFd
      OBVIOUS
    <3>1. LowestFd(p) \in Fds
      BY Lowest DEF FreeFds
    <3> QED BY <3>1, FdsAssumption DEF Fds, NoFd
  <2>5. got # NoFd => infd[p] = NoFd
    BY <1>2 DEF SecondFile
  <2> HIDE DEF got, f, p
  <2>6. /\ full' \in [Sides -> BOOLEAN] /\ full'[p] = (full[p] \/ (f # NoFile /\ FreeFds(p) = {}))
        /\ \A x \in Sides : full[x] => full'[x]
    BY <1>1, <2>1, <2>2
  <2> QED BY <2>1, <2>2, <2>3, <2>4, <2>5, <2>6
<1>11. /\ InHand(s)
       /\ infd[p] # NoFd => br > 0 /\ m.file # NoFile
       /\ br > 0 /\ m.file # NoFile /\ infd[p] = NoFd => full[p] /\ br < 2
  BY <1>3, Reading1 DEF InHand, FixedSz
<1>12. ASSUME br + n < Size(m)
       PROVE  /\ ~complete /\ left = br + n /\ kept = have
              /\ kept # NoFd => m.file # NoFile
              /\ m.file # NoFile /\ kept = NoFd => full'[p] /\ left <= 2
              /\ got # NoFd => FromWire(s, f, c)
              /\ invalid => m.file # NoFile /\ kept = NoFd
              /\ m.file # NoFile /\ kept = NoFd /\ left = 2 => invalid
  <2>1. ~complete /\ left = br + n
    <3> HIDE DEF m, br, r, c
    <3> QED BY <1>6, <1>7, <1>12
  <2>2. kept = have
    BY <2>1 DEF Kept
  <2>3. /\ f # NoFile => br = 0 /\ m.file # NoFile /\ FromWire(s, f, c)
        /\ br = 0 /\ m.file # NoFile => f # NoFile
    <3>1. br + n <= Size(m)
      BY <1>12, <1>6, <1>7
    <3> QED BY <1>3, <1>4, <1>5, <3>1, HeldWithin
  <2>4. have # NoFd => m.file # NoFile
    BY <1>10, <1>11, <2>3
  <2>5. m.file # NoFile /\ have = NoFd => full'[p] /\ br + n <= 2
    <3> SUFFICES ASSUME m.file # NoFile, have = NoFd PROVE full'[p] /\ br + n <= 2
      OBVIOUS
    <3>1. infd[p] = NoFd /\ got = NoFd
      OBVIOUS
    <3>2. CASE br = 0
      BY <1>9, <1>10, <2>3, <3>1, <3>2
    <3>3. CASE br > 0
      BY <1>1, <1>9, <1>10, <1>11, <3>1, <3>3
    <3> QED BY <1>6, <3>2, <3>3
  <2>6. invalid <=> left = FixedSz /\ kept = NoFd /\ m.hasFd
    BY <2>1
  <2> HIDE DEF m, br, got, have, kept, left, complete, f, p, c, invalid
  <2> QED BY <1>6, <1>10, <2>1, <2>2, <2>3, <2>4, <2>5, <2>6 DEF FixedSz
<1>13. ASSUME ~(br + n < Size(m))
       PROVE  /\ complete /\ left \in Nat /\ br + n = Size(m) + left /\ left <= 2 /\ br >= 2
              /\ m.hasFd => infd[p] # NoFd /\ have = infd[p]
              /\ IF left = 0 THEN kept = NoFd /\ ~invalid
                 ELSE /\ c + 1 \in DOMAIN sent[s]
                      /\ kept # NoFd => sent[s][c+1].file # NoFile /\ kept = got
                      /\ sent[s][c+1].file # NoFile /\ kept = NoFd => full'[p]
                      /\ got # NoFd => FromWire(s, f, c + 1)
                      /\ invalid <=> left = 2 /\ sent[s][c+1].file # NoFile /\ kept = NoFd
  <2>1. complete /\ left = br + n - Size(m)
    <3> HIDE DEF m, br, r, c
    <3> QED BY <1>6, <1>7, <1>13
  <2>2. left \in Nat /\ br + n = Size(m) + left /\ left <= 2 /\ br >= 2
    <3>1. \A z, b, k \in Nat :
            /\ z \in {3, 5} /\ ~(b + k < z)
            /\ b < 2 => b + k <= 2
            /\ b >= 2 => b + k <= z + 2
            => b + k - z \in Nat /\ b + k = z + (b + k - z) /\ b + k - z <= 2 /\ b >= 2
      OBVIOUS
    <3>2. /\ Size(m) \in Nat /\ Size(m) \in {3, 5} /\ br \in Nat /\ n \in Nat
          /\ br < 2 => br + n <= 2
          /\ br >= 2 => br + n <= Size(m) + 2
      <4>1. Size(m) \in {3, 5} /\ br \in Nat /\ n \in Nat
        BY <1>6, <1>7
      <4>2. (br < 2 => br + n <= 2) /\ (br >= 2 => br + n <= Size(m) + 2)
        BY <1>9
      <4> QED BY <4>1, <4>2
    <3> HIDE DEF m, br, left
    <3> QED BY <1>13, <2>1, <3>1, <3>2
  <2>3. IF m.hasFd THEN infd[p] # NoFd /\ have = infd[p] /\ got = NoFd /\ kept = NoFd
                   ELSE infd[p] = NoFd /\ have = got /\ kept = got
    <3>1. m.hasFd <=> infd[p] # NoFd
      <4> HIDE DEF m, br, left, p
      <4> QED BY <1>6, <1>11, <2>2
    <3>2. kept = IF m.hasFd THEN NoFd ELSE have
      BY <2>1 DEF Kept
    <3> QED BY <1>10, <3>1, <3>2
  <2>4. CASE left = 0
    <3>1. f = NoFile
      <4>1. br + n <= Size(m) /\ br # 0
        BY <1>7, <2>2, <2>4
      <4> QED BY <1>3, <1>4, <1>5, <4>1, HeldWithin
    <3>2. kept = NoFd
      BY <1>10, <2>3, <3>1
    <3>3. ~invalid
      BY <2>4 DEF FixedSz
    <3> HIDE DEF m, br, got, have, kept, left, complete, f, p, c, invalid
    <3> QED BY <2>1, <2>2, <2>3, <2>4, <3>2, <3>3
  <2>5. CASE left # 0
    <3>1. br # 0 /\ Size(m) < br + n /\ br + n <= Size(m) + FixedSz
      <4> HIDE DEF m, br, left
      <4> QED BY <1>6, <1>7, <2>2, <2>5 DEF FixedSz
    <3>2. /\ c + 1 \in DOMAIN sent[s] /\ (f # NoFile <=> sent[s][c+1].file # NoFile)
          /\ f # NoFile => FromWire(s, f, c + 1)
      BY <1>3, <1>4, <1>5, <3>1, HeldBeyond
    <3>3. sent[s][c+1].hasFd <=> sent[s][c+1].file # NoFile
      <4>1. End(m) < WrittenTo(s)
        <5> HIDE DEF m, br, left
        <5> QED BY <1>6, <1>7, <3>1, SMTT(30)
      <4> QED BY <1>6, <4>1, NextAtHand
    <3>4. Following(p) = sent[s][c+1]
      <4>1. Following(p) = sent[s][Len(Accepted(s)) + 2]
        BY <1>1 DEF Following, Accepted
      <4>2. Len(Accepted(s)) + 2 = c + 1
        BY Parts DEF Next1
      <4> QED BY <4>1, <4>2
    <3>5. invalid <=> left = 2 /\ sent[s][c+1].file # NoFile /\ kept = NoFd
      <4>1. invalid <=> left = 2 /\ kept = NoFd /\ sent[s][c+1].hasFd
        BY <2>1, <3>4 DEF FixedSz
      <4> HIDE DEF invalid, left, kept, c
      <4> QED BY <3>3, <4>1
    <3> HIDE DEF m, br, got, have, kept, left, complete, f, p, c, invalid
    <3>6. sent[s][c+1].file # NoFile /\ kept = NoFd => full'[p]
      BY <1>10, <2>3, <3>2
    <3>7. kept # NoFd => sent[s][c+1].file # NoFile /\ kept = got
      BY <1>10, <2>3, <3>2
    <3>8. got # NoFd => FromWire(s, f, c + 1)
      BY <1>10, <3>2
    <3> QED BY <2>1, <2>2, <2>3, <2>5, <3>2, <3>5, <3>6, <3>7, <3>8
  <2> QED BY <2>4, <2>5
<1>14. bread'[p] = left /\ infd'[p] = kept /\ left \in Nat /\ kept \in Fds \cup {NoFd}
  <2>1. bread'[p] = left /\ infd'[p] = kept
    BY <1>1, <1>8 DEF FramingInv, Typed
  <2>2. left \in Nat
    BY <1>6, <1>7, <1>12, <1>13, SMTT(30)
  <2>3. kept \in Fds \cup {NoFd}
    <3>1. have \in Fds \cup {NoFd}
      BY <1>10
    <3> HIDE DEF have
    <3> QED BY <3>1 DEF Kept
  <2> QED BY <2>1, <2>2, <2>3
<1>15. left \in 1..FixedSz-1 => split[s]
  <2> SUFFICES ASSUME left = 1 PROVE split[s]
    BY DEF FixedSz
  <2>1. PICK i \in DOMAIN sent[s] : sent[s][i].start + 1 = ReadTo(s) + n
    <3>1. CASE br + n < Size(m)
      <4>1. br + n = 1
        BY <1>12, <3>1
      <4>2. m.start + 1 = ReadTo(s) + n
        <5> HIDE DEF m, br
        <5> QED BY <1>6, <1>7, <4>1
      <4> QED BY <1>6, <4>2
    <3>2. CASE ~(br + n < Size(m))
      <4>1. br + n = Size(m) + 1 /\ c + 1 \in DOMAIN sent[s]
        BY <1>13, <3>2
      <4>2. End(m) < WrittenTo(s) /\ End(m) + 1 = ReadTo(s) + n
        <5>1. \A st, z, b, k, l \in Nat : b + k = z + 1 /\ k <= l =>
                st + z < st + b + l /\ st + z + 1 = st + b + k
          OBVIOUS
        <5>2. /\ Size(m) \in Nat /\ Len(wire[s]) \in Nat /\ m.start \in Nat /\ br \in Nat /\ n \in Nat
              /\ br + n = Size(m) + 1 /\ n <= Len(wire[s])
          BY <1>6, <1>7, <4>1
        <5> HIDE DEF m, br, left
        <5>3. /\ m.start + Size(m) < m.start + br + Len(wire[s])
              /\ m.start + Size(m) + 1 = m.start + br + n
          BY <5>1, <5>2
        <5> QED BY <1>6, <1>7, <5>3
      <4>3. sent[s][c+1].start = End(m)
        BY <1>6, <4>2, NextAtHand
      <4> QED BY <4>1, <4>2, <4>3
    <3> QED BY <3>1, <3>2
  <2>2. n # Room(p)
    <3>1. CASE br + n < Size(m)
      <4>1. br + n = 1
        BY <1>12, <3>1
      <4> HIDE DEF m, br, p
      <4> QED BY <1>6, <1>7, <1>9, <4>1
    <3>2. CASE ~(br + n < Size(m))
      <4>1. br + n = Size(m) + 1 /\ br >= 2
        BY <1>13, <3>2
      <4> HIDE DEF m, br, p
      <4> QED BY <1>6, <1>7, <1>9, <4>1, SMTT(30)
    <3> QED BY <3>1, <3>2
  <2> QED BY <1>3, <1>4, <1>5, <2>1, <2>2, StopsWithin
<1>16. bread' = [bread EXCEPT ![p] = bread'[p]] /\ infd' = [infd EXCEPT ![p] = infd'[p]]
  BY <1>8, <1>14
<1>17. /\ invalid => sockfd'[p] = "closed" /\ full'[p]
       /\ \/ /\ wire' = [wire EXCEPT ![s] = SubSeq(wire[s], n + 1, Len(wire[s]))]
             /\ UNCHANGED <<sockfd, error, pc>>
          \/ /\ Close(p) /\ full'[p]
             /\ error' = [error EXCEPT ![p] = "invalid message"]
  <2>1. invalid => full'[p]
    <3> HIDE DEF m, br, got, have, kept, left, complete, f, p, c, invalid
    <3> QED BY <1>12, <1>13
  <2>2. invalid => sockfd'[p] = "closed"
    <3>1. sockfd \in [Sides -> {"none", "open", "closed"}]
      BY DEF FramingInv, Typed
    <3> HIDE DEF invalid
    <3> QED BY <1>1, <1>8, <3>1 DEF Close
  <2> HIDE DEF m, br, got, have, kept, left, complete, f, c, invalid
  <2> QED BY <1>8, <2>1, <2>2
<1>18. /\ fds' = fds \/ (FreeFds(p) # {} /\ \E x \in Nat : fds' = Installed(p, x))
       /\ infd[p] # NoFd => fds' = fds
  <2> HIDE DEF got, f
  <2>1. CASE got = NoFd
    <3>1. fds' = fds
      BY <1>10, <2>1
    <3> QED BY <3>1
  <2>2. CASE got # NoFd
    <3>1. FreeFds(p) # {} /\ fds' = Installed(p, f) /\ infd[p] = NoFd /\ f \in Nat
      BY <1>5, <1>10, <2>2
    <3> QED BY <3>1
  <2> QED BY <2>1, <2>2
<1>19. /\ \A x \in Nat : x <= 2 /\ x # 2 => x < FixedSz
       /\ invalid => sockfd'[p] = "closed"
  <2>1. invalid => sockfd'[p] = "closed"
    BY <1>17
  <2> HIDE DEF invalid
  <2> QED BY <2>1 DEF FixedSz
<1>20. CASE br + n < Size(m)
  <2>1. bread'[p] = br + n
    BY <1>12, <1>14, <1>20
  <2>2. delivered' = delivered
    BY <1>8, <1>12, <1>20 DEF FramingInv, Typed
  <2>3. KeepsFile(s, c)
    <3> HIDE DEF m, br, got, have, kept, left, complete, f, p, invalid
    <3>1. infd'[p] # NoFd => bread'[p] > 0 /\ sent[s][c].file # NoFile
      BY <1>6, <1>7, <1>12, <1>14, <1>20, <2>1 DEF m
    <3>2. sent[s][c].file # NoFile /\ infd'[p] = NoFd =>
            full'[p] /\ (sockfd'[p] # "closed" => bread'[p] < FixedSz)
      <4>1. sent[s][c].file # NoFile /\ kept = NoFd =>
              full'[p] /\ left <= 2 /\ (left = 2 => invalid)
        BY <1>12, <1>20 DEF m
      <4> QED BY <1>14, <1>19, <4>1
    <3>3. infd'[p] # NoFd =>
            \/ infd'[p] = infd[p] /\ delivered' = delivered /\ fds' = fds
            \/ /\ infd[p] = NoFd /\ FreeFds(p) # {} /\ infd'[p] = LowestFd(p)
               /\ f \in Nat \ {NoFile} /\ FromWire(s, f, c) /\ fds' = Installed(p, f)
      <4>1. kept = have
        BY <1>12, <1>20
      <4>2. CASE infd[p] # NoFd
        BY <1>10, <1>14, <2>2, <4>1, <4>2 DEF have
      <4>3. CASE infd[p] = NoFd
        <5>1. kept = got
          BY <4>1, <4>3 DEF have
        <5> QED BY <1>5, <1>10, <1>12, <1>14, <1>20, <4>3, <5>1
      <4> QED BY <4>2, <4>3
    <3> QED BY <3>1, <3>2, <3>3 DEF KeepsFile, p
  <2> HIDE DEF complete, left, kept, have, got, invalid, f, br1
  <2>4. /\ bread'[p] = bread[p] + n /\ delivered' = delivered
        /\ br + n < Size(m) /\ KeepsFile(s, c)
    BY <1>20, <2>1, <2>2, <2>3
  <2>5. /\ fds' = fds \/ (FreeFds(p) # {} /\ \E x \in Nat : fds' = Installed(p, x))
        /\ infd[p] # NoFd => fds' = fds
    BY <1>18
  <2> QED BY <1>2, <1>3, <1>4, <1>10, <1>14, <1>15, <1>16, <1>17, <2>4, <2>5
<1>21. CASE ~(br + n < Size(m))
  <2>1. /\ br + n = Size(m) + bread'[p] /\ bread'[p] <= FixedSz
        /\ m.hasFd => infd[p] # NoFd
        /\ bread'[p] = 0 => infd'[p] = NoFd
        /\ bread'[p] # 0 => c + 1 \in DOMAIN sent[s]
    BY <1>13, <1>14, <1>21 DEF FixedSz
  <2>2. delivered' = [delivered EXCEPT ![p] = Append(delivered[p], Complete(s))]
    <3>1. m.hasFd => FileUnder(p, have) = fds'[p][infd[p]]
      BY <1>13, <1>21 DEF FileUnder
    <3>2. [m EXCEPT !.file = IF m.hasFd THEN FileUnder(p, have) ELSE NoFile] = Complete(s)
      <4> HIDE DEF have, p
      <4> QED BY <3>1 DEF Complete, p
    <3> QED BY <1>8, <1>13, <1>21, <3>2
  <2>3. ASSUME bread'[p] # 0 PROVE KeepsFile(s, c + 1)
    <3> HIDE DEF m, br, got, have, kept, left, complete, f, p, c, invalid
    <3>0. left # 0
      BY <1>14, <2>3
    <3>1. infd'[p] # NoFd => bread'[p] > 0 /\ sent[s][c+1].file # NoFile
      BY <1>13, <1>14, <1>21, <3>0
    <3>2. sent[s][c+1].file # NoFile /\ infd'[p] = NoFd =>
            full'[p] /\ (sockfd'[p] # "closed" => bread'[p] < FixedSz)
      <4>1. sent[s][c+1].file # NoFile /\ kept = NoFd =>
              full'[p] /\ left <= 2 /\ (left = 2 => invalid)
        BY <1>13, <1>21, <3>0
      <4> QED BY <1>14, <1>19, <4>1
    <3>3. infd'[p] # NoFd =>
            /\ infd[p] = NoFd /\ FreeFds(p) # {} /\ infd'[p] = LowestFd(p)
            /\ f \in Nat \ {NoFile} /\ FromWire(s, f, c + 1) /\ fds' = Installed(p, f)
      BY <1>5, <1>10, <1>13, <1>14, <1>21, <3>0
    <3> QED BY <3>1, <3>2, <3>3 DEF KeepsFile, p
  <2> HIDE DEF complete, left, kept, have, got, invalid, f, br1
  <2>4. /\ br + n = Size(m) + bread'[p] /\ bread'[p] <= FixedSz
        /\ m.hasFd => infd[p] # NoFd
        /\ delivered' = [delivered EXCEPT ![p] = Append(delivered[p], Complete(s))]
        /\ IF bread'[p] = 0 THEN infd'[p] = NoFd
           ELSE c + 1 \in DOMAIN sent[s] /\ KeepsFile(s, c + 1)
    BY <2>1, <2>2, <2>3
  <2>5. /\ fds' = fds \/ (FreeFds(p) # {} /\ \E x \in Nat : fds' = Installed(p, x))
        /\ infd[p] # NoFd => fds' = fds
    BY <1>18
  <2> QED BY <1>2, <1>3, <1>4, <1>10, <1>14, <1>15, <1>16, <1>17, <2>4, <2>5
<1> QED BY <1>20, <1>21

LEMMA Receiving ==
    ASSUME FramingInv, NEW s \in Sides, RecvMsg(Peer(s))
    PROVE  Stream(s)'
<1> DEFINE p == Peer(s)  c == Next1(s)  m == sent[s][c]  br == bread[p]  w == wire[s]
           D == Len(Accepted(s))
<1>1. /\ sockfd[p] # "closed" /\ w # <<>>
      /\ UNCHANGED <<outq, bwritten, split, sent>>
      /\ bread'[p] \in Nat
      /\ bread'[p] \in 1..FixedSz-1 => split[s]
  BY Received1
<1>2. PICK n \in 1..Len(w) :
        /\ \/ wire' = [wire EXCEPT ![s] = SubSeq(w, n + 1, Len(w))]
           \/ Close(p)
        /\ \/ /\ br + n < Size(m)
              /\ bread'[p] = br + n
              /\ delivered' = delivered
              /\ KeepsFile(s, c)
           \/ /\ br + n = Size(m) + bread'[p]
              /\ bread'[p] <= FixedSz
              /\ delivered' = [delivered EXCEPT ![p] = Append(delivered[p], Complete(s))]
              /\ IF bread'[p] = 0 THEN infd'[p] = NoFd
                 ELSE c + 1 \in DOMAIN sent[s] /\ KeepsFile(s, c + 1)
  BY Received1
<1>3. /\ c \in DOMAIN sent[s] /\ m \in Messages
      /\ br \in Nat /\ br < Size(m) /\ ReadTo(s) = m.start + br
      /\ ReadTo(s) \in Nat /\ WrittenTo(s) \in Nat /\ Len(w) \in Nat \ {0}
      /\ WrittenTo(s) = ReadTo(s) + Len(w)
  BY <1>1, AtHand
<1>4. /\ Size(m) \in {3, 5} /\ Size(m) \in Nat /\ m.start \in Nat
      /\ End(m) = m.start + Size(m) /\ n \in Nat \ {0} /\ n <= Len(w)
  BY <1>2, <1>3, Sizes
<1>5. /\ D \in Nat /\ D <= Len(sent[s]) /\ c = D + 1 /\ Accepted(s) = delivered[p]
      /\ DOMAIN Accepted(s) = 1..D /\ Len(sent[s]) \in Nat /\ DOMAIN sent[s] = 1..Len(sent[s])
      /\ w \in Seq(Pieces) /\ DOMAIN w = 1..Len(w) /\ delivered[p] \in Seq(Messages)
      /\ p \in Sides /\ p # s
  BY Parts, Peers DEF Prefix, Next1, Accepted
<1>6. Layout(s)' /\ FilesSent(s)' /\ WrittenTo(s)' = WrittenTo(s)
  <2>1. WrittenTo(s)' = WrittenTo(s)
    BY <1>1 DEF WrittenTo, Total
  <2>2. Layout(s)'
    BY <1>1, Parts DEF Layout
  <2>3. FilesSent(s)'
    BY <1>1, <2>1, Parts DEF FilesSent
  <2> QED BY <2>1, <2>2, <2>3
<1>7. /\ Prefix(s)' /\ ReadTo(s)' = ReadTo(s) + n /\ InMessage(s)'
      /\ sockfd'[p] # "closed" => InHand(s)'
  <2>1. CASE br + n < Size(m) /\ bread'[p] = br + n /\ delivered' = delivered /\ KeepsFile(s, c)
    <3>1. Accepted(s)' = Accepted(s) /\ Next1(s)' = c
      BY <2>1 DEF Accepted, Next1
    <3>2. Prefix(s)'
      BY <1>1, <3>1, Parts DEF Prefix
    <3>3. ReadTo(s)' = m.start + bread'[p]
      <4>1. ~(c > Len(sent[s]))
        BY <1>3, <1>5
      <4>2. sent' = sent /\ Len(delivered'[p]) + 1 = c
        BY <1>1, <1>5, <2>1
      <4> QED BY <4>1, <4>2 DEF ReadTo
    <3>4. InMessage(s)'
      <4>1. Len(Accepted(s)') # Len(sent[s])
        BY <1>3, <1>5, <3>1
      <4> QED BY <1>1, <2>1, <3>1, <4>1 DEF InMessage
    <3>5. ReadTo(s)' = ReadTo(s) + n
      <4> HIDE DEF m, br, w
      <4> QED BY <1>3, <1>4, <2>1, <3>3
    <3>6. sockfd'[p] # "closed" => InHand(s)'
      <4>1. sent' = sent
        BY <1>1
      <4> HIDE DEF m, br, w, c, D
      <4> QED BY <2>1, <3>1, <4>1 DEF KeepsFile, InHand, p
    <3> QED BY <3>2, <3>4, <3>5, <3>6
  <2>2. CASE /\ br + n = Size(m) + bread'[p] /\ bread'[p] <= FixedSz
             /\ delivered' = [delivered EXCEPT ![p] = Append(delivered[p], Complete(s))]
             /\ IF bread'[p] = 0 THEN infd'[p] = NoFd
                ELSE c + 1 \in DOMAIN sent[s] /\ KeepsFile(s, c + 1)
    <3>1. Len(Accepted(s)') = c /\ Next1(s)' = c + 1
      <4>1. Accepted(s)' = Append(delivered[p], Complete(s))
        BY <1>5, <2>2 DEF Accepted, FramingInv, Typed
      <4>2. Len(Append(delivered[p], Complete(s))) = D + 1
        <5> HIDE DEF m, D
        <5> QED BY <1>5 DEF D
      <4> QED BY <1>5, <4>1, <4>2 DEF Next1
    <3>2. c \in Nat \ {0} /\ c <= Len(sent[s])
      BY <1>3, <1>5
    <3>3. Prefix(s)'
      BY <1>1, <3>1, <3>2 DEF Prefix
    <3>4. ReadTo(s)' = End(m) + bread'[p] /\ InMessage(s)'
      <4>1. CASE c = Len(sent[s])
        <5>1. bread'[p] = 0
          BY <1>5, <2>2, <4>1
        <5>2. Total(s)' = End(m)
          <6>1. sent[s] # <<>>
            BY <1>3
          <6> QED BY <1>1, <4>1, <6>1 DEF Total
        <5>3. ReadTo(s)' = Total(s)'
          <6>1. Len(delivered'[p]) + 1 > Len(sent'[s])
            BY <1>1, <3>1, <3>2, <4>1 DEF Accepted
          <6> QED BY <6>1 DEF ReadTo
        <5>4. End(m) \in Nat
          BY <1>4
        <5>5. InMessage(s)'
          BY <1>1, <3>1, <4>1, <5>1 DEF InMessage, FixedSz
        <5> HIDE DEF m
        <5> QED BY <5>1, <5>2, <5>3, <5>4, <5>5
      <4>2. CASE c # Len(sent[s])
        <5>1. c + 1 \in DOMAIN sent[s] /\ ~(c + 1 > Len(sent[s])) /\ (c+1) - 1 = c /\ c + 1 # 1
          BY <1>5, <3>2, <4>2
        <5>2. sent[s][c+1].start = End(m) /\ sent[s][c+1] \in Messages
          BY <5>1, Parts DEF Layout
        <5>3. ReadTo(s)' = End(m) + bread'[p]
          <6>1. Len(delivered'[p]) + 1 = c + 1 /\ sent' = sent
            BY <1>1, <3>1 DEF Accepted
          <6> QED BY <5>1, <5>2, <6>1 DEF ReadTo
        <5>4. bread'[p] < Size(sent[s][c+1])
          <6>1. Size(sent[s][c+1]) \in {3, 5}
            BY <5>2, Sizes
          <6> QED BY <1>1, <2>2, <6>1 DEF FixedSz
        <5>5. InMessage(s)'
          BY <1>1, <3>1, <4>2, <5>4 DEF InMessage
        <5> QED BY <5>3, <5>5
      <4> QED BY <4>1, <4>2
    <3>5. ReadTo(s)' = ReadTo(s) + n
      <4>1. \A st, z, b, k, l \in Nat : b + k = z + l => st + z + l = st + b + k
        OBVIOUS
      <4> HIDE DEF m, br, w
      <4>2. /\ m.start \in Nat /\ Size(m) \in Nat /\ br \in Nat /\ n \in Nat /\ bread'[p] \in Nat
            /\ br + n = Size(m) + bread'[p]
        BY <1>1, <1>3, <1>4, <2>2
      <4>3. m.start + Size(m) + bread'[p] = m.start + br + n
        BY <4>1, <4>2
      <4> QED BY <1>3, <1>4, <3>4, <4>3
    <3>6. sockfd'[p] # "closed" => InHand(s)'
      <4>1. sent' = sent
        BY <1>1
      <4> HIDE DEF m, br, w, c, D
      <4>2. CASE bread'[p] = 0
        BY <2>2, <4>2 DEF InHand, p
      <4>3. CASE bread'[p] # 0
        BY <2>2, <3>1, <4>1, <4>3 DEF KeepsFile, InHand, p
      <4> QED BY <4>2, <4>3
    <3> QED BY <3>3, <3>4, <3>5, <3>6
  <2> QED BY <1>2, <2>1, <2>2
<1>8. CASE Close(p)
  <2>1. sockfd'[p] = "closed"
    BY <1>5, <1>8 DEF Close, FramingInv, Typed
  <2> QED BY <1>6, <1>7, <2>1 DEF Stream, Place
<1>9. CASE wire' = [wire EXCEPT ![s] = SubSeq(w, n + 1, Len(w))]
  <2>1. /\ wire'[s] = SubSeq(w, n + 1, Len(w)) /\ wire'[s] \in Seq(Pieces)
        /\ Len(wire'[s]) = Len(w) - n /\ DOMAIN wire'[s] = 1..Len(w)-n
        /\ \A k \in 1..Len(w)-n : n + k \in 1..Len(w) /\ wire'[s][k] = w[n+k]
    <3>1. wire'[s] = SubSeq(w, n + 1, Len(w))
      BY <1>9 DEF FramingInv, Typed
    <3>2. n \in 0..Len(w)
      BY <1>4
    <3> HIDE DEF w
    <3> DEFINE x == SubSeq(w, n + 1, Len(w))
    <3>3. /\ x \in Seq(Pieces) /\ Len(x) = Len(w) - n /\ DOMAIN x = 1..Len(w) - n
          /\ \A k \in 1..Len(w) - n : n + k \in 1..Len(w) /\ x[k] = w[n + k]
      <4>1. w \in Seq(Pieces)
        BY <1>5
      <4> QED BY <3>2, <4>1, Rest
    <3>4. wire'[s] = x
      BY <3>1
    <3> HIDE DEF x
    <3>5. x = SubSeq(w, n + 1, Len(w))
      BY DEF x
    <3> QED BY <3>3, <3>4, <3>5
  <2>2. Whole(s)'
    <3>1. Whole(s)
      BY <1>1, Reading1
    <3>2. ReadTo(s)' + Len(wire'[s]) = WrittenTo(s)
      <4> HIDE DEF w
      <4> QED BY <1>3, <1>4, <1>7, <2>1
    <3>3. \A k \in 1..Len(w)-n : wire'[s][k].at = ReadTo(s)' + k
      <4> SUFFICES ASSUME NEW k \in 1..Len(w)-n PROVE wire'[s][k].at = ReadTo(s)' + k
        OBVIOUS
      <4>1. wire'[s][k].at = ReadTo(s) + (n + k)
        BY <1>5, <2>1, <3>1 DEF Whole
      <4>2. ReadTo(s) + (n + k) = ReadTo(s)' + k
        <5> HIDE DEF w
        <5> QED BY <1>3, <1>4, <1>7
      <4> QED BY <4>1, <4>2
    <3> QED BY <1>6, <2>1, <3>2, <3>3 DEF Whole
  <2>3. WithFiles(s)'
    <3>1. WithFiles(s)
      BY <1>1, Reading1
    <3>2. \A k \in 1..Len(w)-n : wire'[s][k] = w[n+k] /\ n + k \in DOMAIN w
      BY <1>5, <2>1
    <3>3. \A k \in 1..Len(w)-n : wire'[s][k].file # NoFile =>
            \E i \in DOMAIN sent[s] : sent[s][i].start + 1 = wire'[s][k].at
      <4> SUFFICES ASSUME NEW k \in 1..Len(w)-n, wire'[s][k].file # NoFile
                   PROVE  \E i \in DOMAIN sent[s] : sent[s][i].start + 1 = wire'[s][k].at
        OBVIOUS
      <4> QED BY <3>1, <3>2 DEF WithFiles
    <3>4. \A k \in 1..Len(w)-n, i \in DOMAIN sent[s] :
            sent[s][i].start + 1 = wire'[s][k].at =>
                (wire'[s][k].file # NoFile <=> sent[s][i].file # NoFile)
      <4> SUFFICES ASSUME NEW k \in 1..Len(w)-n, NEW i \in DOMAIN sent[s],
                          sent[s][i].start + 1 = wire'[s][k].at
                   PROVE  wire'[s][k].file # NoFile <=> sent[s][i].file # NoFile
        OBVIOUS
      <4> QED BY <3>1, <3>2 DEF WithFiles
    <3> QED BY <1>1, <2>1, <3>3, <3>4 DEF WithFiles
  <2> QED BY <1>6, <1>7, <2>2, <2>3 DEF Stream, Place
<1> QED BY <1>2, <1>8, <1>9

-----------------------------------------------------------------------------
(* Every step keeps the invariant *)

LEMMA FramingInit == Init => FramingInv
<1> SUFFICES ASSUME Init PROVE FramingInv
  OBVIOUS
<1> USE DEF Init
<1>1. Typed
  <2>1. script \in [Sides -> Seq(Acts)]
    BY ScriptsAssumption
  <2>2. /\ outq \in [Sides -> Seq(Messages)] /\ sent \in [Sides -> Seq(Messages)]
        /\ delivered \in [Sides -> Seq(Messages)] /\ wire \in [Sides -> Seq(Pieces)]
    OBVIOUS
  <2>3. fds \in [Sides -> [Fds -> Nat]]
    BY DEF NoFile
  <2>4. \A s \in Sides : bread[s] < HeaderSize + BodySz
    BY DEF HeaderSize, FixedSz, NamesSz, BodySz
  <2> QED BY <2>1, <2>2, <2>3, <2>4 DEF Typed, NoFile, Errors
<1>2. ASSUME NEW s \in Sides PROVE Stream(s)
  <2>1. Peer(s) \in Sides
    BY Peers
  <2>2. /\ sent[s] = <<>> /\ outq[s] = <<>> /\ delivered[Peer(s)] = <<>> /\ wire[s] = <<>>
        /\ bwritten[s] = 0 /\ bread[Peer(s)] = 0 /\ infd[Peer(s)] = NoFd
    BY <2>1
  <2>3. Len(<<>>) = 0 /\ DOMAIN <<>> = {}
    OBVIOUS
  <2>4. Layout(s) /\ Prefix(s) /\ FilesSent(s)
    BY <2>2, <2>3 DEF Layout, Prefix, Accepted, FilesSent, FixedSz
  <2>5. ReadTo(s) = 0 /\ WrittenTo(s) = 0
    BY <2>2, <2>3 DEF ReadTo, WrittenTo, Total
  <2>6. InMessage(s) /\ Whole(s) /\ WithFiles(s) /\ InHand(s)
    BY <2>2, <2>3, <2>5 DEF InMessage, Whole, WithFiles, InHand, Accepted, FixedSz
  <2> QED BY <2>4, <2>6 DEF Stream, Place
<1> QED BY <1>1, <1>2 DEF FramingInv

LEMMA Made ==
    ASSUME NEW act, NEW start \in Nat, NEW fd \in Fds \cup {NoFd}, NEW file \in Nat
    PROVE  /\ Message(act, start, fd, file) \in Messages
           /\ Message(act, start, fd, file).start = start
           /\ Message(act, start, fd, file).fd = fd
           /\ Message(act, start, fd, file).file = file
           /\ Message(act, start, fd, file).hasFd <=> act \in {"file", "badfd"}
<1> DEFINE m == Message(act, start, fd, file)
<1>1. m \in Messages /\ m.start = start /\ m.fd = fd /\ m.file = file
  BY DEF Message, Messages, BodySz
<1>2. m.hasFd = (act \in {"file", "badfd"})
  BY DEF Message
<1>3. m.hasFd <=> act \in {"file", "badfd"}
  <2> HIDE DEF m
  <2> QED BY <1>2, Zenon
<1> QED BY <1>1, <1>3

\* The types, and one stream, after a message has been queued.
LEMMA QueueingTyped ==
    ASSUME Typed, NEW a \in Sides, NEW m \in Messages, QueueOutgoing(a, m)
    PROVE  /\ outq' \in [Sides -> Seq(Messages)] /\ sent' \in [Sides -> Seq(Messages)]
           /\ pc' \in [Sides -> {"idle", "read", "write", "aborted"}]
           /\ \A s \in Sides \ {a} : outq'[s] = outq[s] /\ sent'[s] = sent[s] /\ pc'[s] = pc[s]
           /\ pc'[a] = IF sockfd[a] = "closed" THEN "idle" ELSE "read"
<1>1. /\ outq \in [Sides -> Seq(Messages)] /\ sent \in [Sides -> Seq(Messages)]
      /\ pc \in [Sides -> {"idle", "read", "write", "aborted"}]
  BY DEF Typed
<1>2. /\ outq' = [outq EXCEPT ![a] = Append(outq[a], m)]
      /\ sent' = [sent EXCEPT ![a] = Append(sent[a], m)]
      /\ pc' = [pc EXCEPT ![a] = IF sockfd[a] = "closed" THEN "idle" ELSE "read"]
  BY DEF QueueOutgoing
<1>3. Append(outq[a], m) \in Seq(Messages) /\ Append(sent[a], m) \in Seq(Messages)
  BY <1>1
<1> QED BY <1>1, <1>2, <1>3

\* The streams after one side has queued a message.
LEMMA QueueingStreams ==
    ASSUME FramingInv, NEW a \in Sides, NEW m, Fresh(a, m), QueueOutgoing(a, m),
           UNCHANGED <<bwritten, bread, infd, wire, split, delivered, full>>,
           sockfd' = sockfd \/ (sockfd[a] = "none" /\ sockfd' = [sockfd EXCEPT ![a] = "open"])
    PROVE  \A s \in Sides : Stream(s)'
<1> SUFFICES ASSUME NEW s \in Sides PROVE Stream(s)'
  OBVIOUS
<1>1. sockfd \in [Sides -> {"none", "open", "closed"}] /\ Stream(s) /\ Typed /\ m \in Messages
  BY DEF FramingInv, Typed, Fresh
<1>2. CASE s = a
  <2>1. sockfd'[Peer(a)] = sockfd[Peer(a)]
    BY <1>1, Peers
  <2> QED BY <1>2, <2>1, Queueing
<1>3. CASE s # a
  <2>1. Peer(s) = a
    BY <1>3 DEF Peer, Sides
  <2>2. outq'[s] = outq[s] /\ sent'[s] = sent[s]
    BY <1>1, <1>3, QueueingTyped
  <2>3. sockfd'[a] = "closed" \/ sockfd[a] # "closed"
    BY <1>1
  <2> QED BY <1>1, <2>1, <2>2, <2>3, Unmoved
<1> QED BY <1>2, <1>3

LEMMA OpenStep ==
    ASSUME FramingInv, NEW a \in Sides, Open(a)
    PROVE  FramingInv'
<1> DEFINE m == Message("body", 0, NoFd, NoFile)
<1>1. /\ pc[a] = "idle" /\ sockfd[a] = "none" /\ sockfd' = [sockfd EXCEPT ![a] = "open"]
      /\ QueueOutgoing(a, m)
      /\ UNCHANGED <<script, bwritten, bread, infd, watch, error, fds, files, wire, delivered,
                     split, stolen, full>>
  BY DEF Open, history
<1>2. Typed /\ sent[a] = <<>>
  BY <1>1 DEF FramingInv, Typed
<1>3. m \in Messages /\ m.start = 0 /\ m.fd = NoFd /\ m.file = NoFile /\ ~m.hasFd
  <2>1. 0 \in Nat /\ NoFd \in Fds \cup {NoFd} /\ NoFile \in Nat
    BY DEF NoFile
  <2>2. \A act : act \notin {"file", "badfd"} =>
          /\ Message(act, 0, NoFd, NoFile) \in Messages
          /\ Message(act, 0, NoFd, NoFile).start = 0
          /\ Message(act, 0, NoFd, NoFile).fd = NoFd
          /\ Message(act, 0, NoFd, NoFile).file = NoFile
          /\ ~Message(act, 0, NoFd, NoFile).hasFd
    BY <2>1, Made
  <2> QED BY <2>2
<1> HIDE DEF m
<1>4. /\ outq' \in [Sides -> Seq(Messages)] /\ sent' \in [Sides -> Seq(Messages)]
      /\ pc' \in [Sides -> {"idle", "read", "write", "aborted"}]
      /\ \A s \in Sides \ {a} : outq'[s] = outq[s] /\ sent'[s] = sent[s] /\ pc'[s] = pc[s]
  BY <1>1, <1>2, <1>3, QueueingTyped
<1>5. sockfd' \in [Sides -> {"none", "open", "closed"}] /\ sockfd'[a] = "open"
      /\ \A s \in Sides \ {a} : sockfd'[s] = sockfd[s]
  BY <1>1, <1>2 DEF Typed
<1>6. Typed'
  <2>1. \A s \in Sides : /\ pc'[s] \in {"read", "write"} => sockfd'[s] = "open"
                         /\ sockfd'[s] = "none" => sent'[s] = <<>>
    BY <1>2, <1>4, <1>5 DEF Typed
  <2> QED BY <1>1, <1>2, <1>4, <1>5, <2>1 DEF Typed
<1>7. Fresh(a, m)
  <2>1. Total(a) = 0
    BY <1>2 DEF Total
  <2> QED BY <1>3, <2>1 DEF Fresh, NoFd, NoFile
<1>8. \A s \in Sides : Stream(s)'
  BY <1>1, <1>3, <1>7, QueueingStreams
<1> QED BY <1>6, <1>8 DEF FramingInv

LEMMA Acting ==
    ASSUME Typed, NEW a \in Sides, NEW act, Act(a, act)
    PROVE  /\ script' \in [Sides -> Seq(Acts)] /\ pc[a] = "idle" /\ sockfd[a] # "none"
           /\ UNCHANGED <<bwritten, bread, infd, error, split, stolen, full, delivered>>
<1>1. script \in [Sides -> Seq(Acts)] /\ script[a] # <<>> /\ script' = [script EXCEPT ![a] = Tail(@)]
  BY DEF Typed, Act
<1>2. Tail(script[a]) \in Seq(Acts)
  BY <1>1
<1>3. script' \in [Sides -> Seq(Acts)]
  BY <1>1, <1>2
<1> QED BY <1>3 DEF Act, history

LEMMA SendPlainStep ==
    ASSUME FramingInv, NEW a \in Sides, SendPlain(a)
    PROVE  FramingInv'
<1>1. PICK act \in {"body", "empty", "badfd"} :
        Act(a, act) /\ QueueOutgoing(a, Message(act, Total(a), NoFd, NoFile))
  BY DEF SendPlain
<1> DEFINE m == Message(act, Total(a), NoFd, NoFile)
<1>2. UNCHANGED <<sockfd, watch, fds, files, wire>>
  BY DEF SendPlain
<1>3. Typed
  BY DEF FramingInv
<1>4. /\ script' \in [Sides -> Seq(Acts)] /\ sockfd[a] # "none"
      /\ UNCHANGED <<bwritten, bread, infd, error, split, stolen, full, delivered>>
  BY <1>1, <1>3, Acting
<1>5. m \in Messages /\ m.start = Total(a) /\ m.fd = NoFd /\ m.file = NoFile
  <2>1. Total(a) \in Nat /\ NoFd \in Fds \cup {NoFd} /\ NoFile \in Nat
    BY Parts, Extent DEF NoFile
  <2> QED BY <2>1, Made
<1>6. QueueOutgoing(a, m)
  BY <1>1
<1> HIDE DEF m
<1>7. /\ outq' \in [Sides -> Seq(Messages)] /\ sent' \in [Sides -> Seq(Messages)]
      /\ pc' \in [Sides -> {"idle", "read", "write", "aborted"}]
      /\ \A s \in Sides \ {a} : outq'[s] = outq[s] /\ sent'[s] = sent[s] /\ pc'[s] = pc[s]
      /\ pc'[a] = IF sockfd[a] = "closed" THEN "idle" ELSE "read"
  BY <1>3, <1>5, <1>6, QueueingTyped
<1>8. Typed'
  <2>1. \A s \in Sides : /\ pc'[s] \in {"read", "write"} => sockfd'[s] = "open"
                         /\ sockfd'[s] = "none" => sent'[s] = <<>>
    BY <1>2, <1>3, <1>4, <1>7 DEF Typed
  <2> QED BY <1>2, <1>3, <1>4, <1>7, <2>1 DEF Typed
<1>9. Fresh(a, m)
  BY <1>5 DEF Fresh, NoFd, NoFile
<1>10. \A s \in Sides : Stream(s)'
  BY <1>2, <1>4, <1>5, <1>6, <1>9, QueueingStreams
<1> QED BY <1>8, <1>10 DEF FramingInv

LEMMA SendFileStep ==
    ASSUME FramingInv, NEW a \in Sides, SendFile(a)
    PROVE  FramingInv'
<1> DEFINE m == Message("file", Total(a), LowestFd(a), files')
<1>1. /\ Act(a, "file") /\ OpenFile(a) /\ QueueOutgoing(a, m) /\ UNCHANGED <<sockfd, watch, wire>>
  BY DEF SendFile
<1>2. Typed
  BY DEF FramingInv
<1>3. /\ script' \in [Sides -> Seq(Acts)] /\ sockfd[a] # "none"
      /\ UNCHANGED <<bwritten, bread, infd, error, split, stolen, full, delivered>>
  BY <1>1, <1>2, Acting
<1>4. /\ LowestFd(a) \in Fds /\ LowestFd(a) # NoFd
      /\ files' \in Nat /\ files' # NoFile /\ fds' \in [Sides -> [Fds -> Nat]]
  <2>1. files \in Nat
    BY <1>2 DEF Typed
  <2> QED BY <1>1, <1>2, <2>1, Opening DEF NoFile
<1>5. m \in Messages /\ m.start = Total(a) /\ m.fd = LowestFd(a) /\ m.file = files' /\ m.hasFd
  <2>1. Total(a) \in Nat /\ LowestFd(a) \in Fds \cup {NoFd} /\ files' \in Nat
    BY <1>4, Parts, Extent
  <2> QED BY <2>1, Made
<1> HIDE DEF m
<1>6. /\ outq' \in [Sides -> Seq(Messages)] /\ sent' \in [Sides -> Seq(Messages)]
      /\ pc' \in [Sides -> {"idle", "read", "write", "aborted"}]
      /\ \A s \in Sides \ {a} : outq'[s] = outq[s] /\ sent'[s] = sent[s] /\ pc'[s] = pc[s]
      /\ pc'[a] = IF sockfd[a] = "closed" THEN "idle" ELSE "read"
  BY <1>1, <1>2, <1>5, QueueingTyped
<1>7. Typed'
  <2>1. \A s \in Sides : /\ pc'[s] \in {"read", "write"} => sockfd'[s] = "open"
                         /\ sockfd'[s] = "none" => sent'[s] = <<>>
    BY <1>1, <1>2, <1>3, <1>6 DEF Typed
  <2> QED BY <1>1, <1>2, <1>3, <1>4, <1>6, <2>1 DEF Typed
<1>8. Fresh(a, m)
  BY <1>4, <1>5 DEF Fresh
<1>9. \A s \in Sides : Stream(s)'
  BY <1>1, <1>3, <1>4, <1>5, <1>8, QueueingStreams
<1> QED BY <1>7, <1>9 DEF FramingInv

LEMMA AppOpensStep ==
    ASSUME FramingInv, NEW a \in Sides, AppOpens(a)
    PROVE  FramingInv'
<1>1. /\ Act(a, "open") /\ OpenFile(a) /\ UNCHANGED <<sockfd, outq, watch, pc, wire, sent>>
  BY DEF AppOpens
<1>2. Typed
  BY DEF FramingInv
<1>3. /\ script' \in [Sides -> Seq(Acts)]
      /\ UNCHANGED <<bwritten, bread, infd, error, split, stolen, full, delivered>>
  BY <1>1, <1>2, Acting
<1>4. files' \in Nat /\ fds' \in [Sides -> [Fds -> Nat]]
  BY <1>1, <1>2, Opening
<1>5. Typed'
  BY <1>1, <1>2, <1>3, <1>4 DEF Typed
<1>6. ASSUME NEW s \in Sides PROVE Stream(s)'
  <2>1. Stream(s) /\ (sockfd'[Peer(s)] = "closed" \/ sockfd[Peer(s)] # "closed")
    BY <1>1 DEF FramingInv
  <2> QED BY <1>1, <1>3, <2>1, Unmoved
<1> QED BY <1>5, <1>6 DEF FramingInv

LEMMA NoPieces == <<>> \in Seq(Pieces)
OBVIOUS

\* Types after a side has closed.
LEMMA ClosingTyped ==
    ASSUME Typed, NEW a \in Sides, NEW st \in {"idle", "aborted"},
           sockfd' = [sockfd EXCEPT ![a] = "closed"], wire' = [wire EXCEPT ![Peer(a)] = <<>>],
           pc' = [pc EXCEPT ![a] = st], script' \in [Sides -> Seq(Acts)],
           error' = error \/ \E e \in Errors : error' = [error EXCEPT ![a] = e],
           fds' \in [Sides -> [Fds -> Nat]], full' \in [Sides -> BOOLEAN],
           UNCHANGED <<watch, sent, outq, bwritten, split, stolen, files, delivered, bread, infd>>
    PROVE  Typed'
<1>1. /\ sockfd' \in [Sides -> {"none", "open", "closed"}] /\ sockfd'[a] = "closed"
      /\ \A s \in Sides \ {a} : sockfd'[s] = sockfd[s] /\ pc'[s] = pc[s]
      /\ pc' \in [Sides -> {"idle", "read", "write", "aborted"}] /\ pc'[a] = st
  BY DEF Typed
<1>2. wire' \in [Sides -> Seq(Pieces)]
  <2>1. wire \in [Sides -> Seq(Pieces)]
    BY DEF Typed
  <2> QED BY <2>1, NoPieces
<1>3. error' \in [Sides -> Errors]
  BY DEF Typed
<1>4. \A s \in Sides : /\ pc'[s] \in {"read", "write"} => sockfd'[s] = "open"
                       /\ sockfd'[s] = "none" => sent'[s] = <<>>
  BY <1>1 DEF Typed
<1> QED BY <1>1, <1>2, <1>3, <1>4 DEF Typed

\* A recvmsg installs at most one file, under a number that was free.
LEMMA ReceivesOne ==
    ASSUME FramingInv, NEW a \in Sides, sockfd[a] # "closed", ReceiveFile(a)
    PROVE  \/ fds' = fds
           \/ FreeFds(a) # {} /\ \E f \in Nat : fds' = Installed(a, f)
<1> DEFINE f == FileOf(Received(a))
<1>1. Peer(a) \in Sides /\ Peer(Peer(a)) = a
  BY Peers
<1>2. f \in Nat
  <2>1. CASE wire[Peer(a)] = <<>>
    <3>1. Received(a) = <<>>
      BY <1>1, <2>1, EmptyReceived
    <3>2. {Received(a)[k].file : k \in DOMAIN Received(a)} \ {NoFile} = {}
      BY <3>1
    <3> QED BY <3>2 DEF FileOf, NoFile
  <2>2. CASE wire[Peer(a)] # <<>>
    BY <1>1, <2>2, Reception
  <2> QED BY <2>1, <2>2
<1>3. fds' = IF f = NoFile \/ FreeFds(a) = {} THEN fds ELSE Installed(a, f)
  BY DEF ReceiveFile
<1> HIDE DEF f
<1> QED BY <1>2, <1>3

\* The types after a file has been received.
LEMMA ReceivingTyped ==
    ASSUME FramingInv, NEW a \in Sides, sockfd[a] # "closed", ReceiveFile(a)
    PROVE  /\ fds' \in [Sides -> [Fds -> Nat]] /\ full' \in [Sides -> BOOLEAN]
           /\ \A x \in Sides : full[x] => full'[x]
<1> DEFINE f == FileOf(Received(a))
<1>1. fds \in [Sides -> [Fds -> Nat]] /\ full \in [Sides -> BOOLEAN]
  BY DEF FramingInv, Typed
<1>2. full' = [full EXCEPT ![a] = @ \/ (f # NoFile /\ FreeFds(a) = {})]
  BY DEF ReceiveFile
<1> HIDE DEF f
<1>3. full' \in [Sides -> BOOLEAN] /\ \A x \in Sides : full[x] => full'[x]
  BY <1>1, <1>2
<1>4. \A x \in Nat : Installed(a, x) \in [Sides -> [Fds -> Nat]]
  BY <1>1 DEF Installed
<1> QED BY <1>1, <1>3, <1>4, ReceivesOne

LEMMA ClosingStep ==
    ASSUME FramingInv, NEW a \in Sides,
           AppCloses(a) \/ NothingToSend(a) \/ SendFails(a) \/ ReadRefused(a)
           \/ Misreads(a) \/ PeerClosed(a)
    PROVE  FramingInv'
<1>1. Typed
  BY DEF FramingInv
<1>2. /\ sockfd' = [sockfd EXCEPT ![a] = "closed"] /\ wire' = [wire EXCEPT ![Peer(a)] = <<>>]
      /\ \E st \in {"idle", "aborted"} : pc' = [pc EXCEPT ![a] = st]
      /\ UNCHANGED <<watch, sent, outq, bwritten, split, stolen, files, delivered, bread, infd>>
  BY DEF AppCloses, Act, NothingToSend, SendFails, ReadRefused, ReadError, Reading, Misreads,
         PeerClosed, Close, history
<1>3. script' \in [Sides -> Seq(Acts)]
  <2>1. CASE AppCloses(a)
    BY <1>1, <2>1, Acting DEF AppCloses
  <2>2. CASE ~AppCloses(a)
    BY <1>1, <2>2 DEF Typed, NothingToSend, SendFails, ReadRefused, Reading, Misreads, PeerClosed
  <2> QED BY <2>1, <2>2
<1>4. error' = error \/ \E e \in Errors : error' = [error EXCEPT ![a] = e]
  <2>1. CASE AppCloses(a) \/ NothingToSend(a) \/ Misreads(a) \/ PeerClosed(a)
    BY <2>1 DEF AppCloses, Act, NothingToSend, Misreads, PeerClosed
  <2>2. CASE SendFails(a)
    <3>1. SendError(a) \in Errors
      BY <2>2 DEF SendFails, SendError, Errors
    <3> QED BY <2>2, <3>1 DEF SendFails
  <2>3. CASE ReadRefused(a)
    BY <2>3 DEF ReadRefused, ReadError, Errors
  <2> QED BY <2>1, <2>2, <2>3
<1>5. /\ fds' \in [Sides -> [Fds -> Nat]] /\ full' \in [Sides -> BOOLEAN]
      /\ \A x \in Sides : full[x] => full'[x]
  <2>1. \/ ReceiveFile(a) /\ (ReadRefused(a) \/ Misreads(a))
        \/ fds' = fds /\ full' = full
    BY DEF AppCloses, Act, NothingToSend, SendFails, ReadRefused, Misreads, PeerClosed, history
  <2>2. CASE ReceiveFile(a) /\ (ReadRefused(a) \/ Misreads(a))
    <3>1. sockfd[a] # "closed"
      BY <1>1, <2>2 DEF Typed, Reading, ReadRefused, Misreads
    <3> QED BY <2>2, <3>1, ReceivingTyped
  <2>3. CASE fds' = fds /\ full' = full
    BY <1>1, <2>3 DEF Typed
  <2> QED BY <2>1, <2>2, <2>3
<1>6. Typed'
  BY <1>1, <1>2, <1>3, <1>4, <1>5, ClosingTyped
<1>7. \A s \in Sides : Stream(s)'
  BY <1>2, <1>5, ClosingKeeps
<1> QED BY <1>6, <1>7 DEF FramingInv

\* Steps that move nothing in either stream.
LEMMA WaitingStep ==
    ASSUME FramingInv, NEW a \in Sides, TimerR_Timer(a) \/ Written(a) \/ NothingToRead(a)
    PROVE  FramingInv'
<1>1. UNCHANGED <<sockfd, script, outq, bwritten, bread, infd, error, fds, files,
                   wire, split, stolen, full, sent, delivered>>
  BY DEF TimerR_Timer, Written, NothingToRead, Reading, history
<1>2. Typed /\ sockfd[a] = "open"
  BY DEF FramingInv, Typed, TimerR_Timer, Written, NothingToRead, Reading
<1>3. /\ watch' \in [Sides -> {"none", "Read", "ReadWrite"}]
      /\ pc' \in [Sides -> {"idle", "read", "write", "aborted"}]
      /\ \A s \in Sides \ {a} : pc'[s] = pc[s]
  BY <1>2 DEF Typed, TimerR_Timer, Written, NothingToRead, Reading
<1>4. Typed'
  <2>1. \A s \in Sides : /\ pc'[s] \in {"read", "write"} => sockfd'[s] = "open"
                         /\ sockfd'[s] = "none" => sent'[s] = <<>>
    BY <1>1, <1>2, <1>3 DEF Typed
  <2> QED BY <1>1, <1>2, <1>3, <2>1 DEF Typed
<1>5. ASSUME NEW s \in Sides PROVE Stream(s)'
  <2>1. Stream(s)
    BY DEF FramingInv
  <2>2. sockfd'[Peer(s)] = "closed" \/ sockfd[Peer(s)] # "closed"
    BY <1>1
  <2> QED BY <1>1, <2>1, <2>2, Unmoved
<1> QED BY <1>4, <1>5 DEF FramingInv

LEMMA SendMsgStep ==
    ASSUME FramingInv, NEW a \in Sides, SendMsg(a)
    PROVE  FramingInv'
<1>1. PICK n \in 1..Len(IOVecs(a)), d \in 0..Len(outq[a]) :
        /\ wire' = [wire EXCEPT ![a] = @ \o SubSeq(IOVecs(a), 1, n)]
        /\ outq' = [outq EXCEPT ![a] = SubSeq(outq[a], d + 1, Len(outq[a]))]
        /\ split' = [split EXCEPT ![a] = @ \/ bwritten'[a] \in 1..FixedSz-1]
        /\ fds' = [fds EXCEPT ![a] = [f \in Fds |->
                    IF f = PassedFd(outq[a][1]) THEN NoFile ELSE fds[a][f]]]
        /\ bwritten'[a] \in Nat /\ bwritten' = [bwritten EXCEPT ![a] = bwritten'[a]]
  BY Sent1
<1>2. /\ outq[a] # <<>> /\ stolen' = [stolen EXCEPT ![a] = @ \/ ClosesAnother(a)]
      /\ UNCHANGED <<sockfd, script, bread, infd, watch, error, pc, files, sent, delivered, full>>
  BY Sent1
<1>3. Typed
  BY DEF FramingInv
<1>4. wire' \in [Sides -> Seq(Pieces)]
  <2>1. IOVecs(a) \in Seq(Pieces) /\ Len(IOVecs(a)) \in Nat
    BY <1>2, Offered
  <2>2. wire \in [Sides -> Seq(Pieces)] /\ n \in Nat /\ n <= Len(IOVecs(a))
    <3>1. wire \in [Sides -> Seq(Pieces)]
      BY <1>3 DEF Typed
    <3> QED BY <2>1, <3>1
  <2>3. wire[a] \o SubSeq(IOVecs(a), 1, n) \in Seq(Pieces)
    BY <2>1, <2>2, Joined
  <2> QED BY <1>1, <2>2, <2>3
<1>5. outq' \in [Sides -> Seq(Messages)]
  <2>1. outq \in [Sides -> Seq(Messages)]
    BY <1>3 DEF Typed
  <2>2. SubSeq(outq[a], d + 1, Len(outq[a])) \in Seq(Messages)
    BY <2>1, Rest
  <2> QED BY <1>1, <2>1, <2>2
<1>6. fds' \in [Sides -> [Fds -> Nat]]
  <2>1. fds \in [Sides -> [Fds -> Nat]] /\ NoFile \in Nat
    BY <1>3 DEF Typed, NoFile
  <2>2. [f \in Fds |-> IF f = PassedFd(outq[a][1]) THEN NoFile ELSE fds[a][f]] \in [Fds -> Nat]
    BY <2>1
  <2> QED BY <1>1, <2>1, <2>2
<1>7. /\ split' \in [Sides -> BOOLEAN] /\ bwritten' \in [Sides -> Nat]
      /\ stolen' \in [Sides -> BOOLEAN]
  BY <1>1, <1>2, <1>3 DEF Typed
<1>8. Typed'
  BY <1>2, <1>3, <1>4, <1>5, <1>6, <1>7 DEF Typed
<1>9. ASSUME NEW s \in Sides PROVE Stream(s)'
  <2>1. CASE s = a
    BY <2>1, Sending
  <2>2. CASE s # a
    <3>1. /\ outq'[s] = outq[s] /\ wire'[s] = wire[s] /\ split'[s] = split[s]
          /\ bwritten'[s] = bwritten[s]
      BY <1>1, <1>3, <2>2 DEF Typed
    <3>2. Stream(s) /\ (sockfd'[Peer(s)] = "closed" \/ sockfd[Peer(s)] # "closed")
      BY <1>2 DEF FramingInv
    <3> QED BY <1>2, <3>1, <3>2, Unmoved
  <2> QED BY <2>1, <2>2
<1> QED BY <1>8, <1>9 DEF FramingInv

LEMMA RecvMsgStep ==
    ASSUME FramingInv, NEW a \in Sides, RecvMsg(a)
    PROVE  FramingInv'
<1> DEFINE p == Peer(a)
<1>1. p \in Sides /\ Peer(p) = a /\ p # a
  BY Peers
<1>2. /\ UNCHANGED <<script, outq, bwritten, watch, files, split, stolen, sent>>
      /\ bread'[a] \in Nat /\ bread' = [bread EXCEPT ![a] = bread'[a]]
      /\ infd'[a] \in Fds \cup {NoFd} /\ infd' = [infd EXCEPT ![a] = infd'[a]]
  BY <1>1, Received1
<1>3. /\ sockfd[a] # "closed" /\ wire[p] # <<>>
      /\ full' \in [Sides -> BOOLEAN] /\ \A x \in Sides : full[x] => full'[x]
      /\ fds' = fds \/ (FreeFds(a) # {} /\ \E f \in Nat : fds' = Installed(a, f))
  BY <1>1, Received1
<1>4. PICK n \in 1..Len(wire[p]) :
        /\ \/ /\ wire' = [wire EXCEPT ![p] = SubSeq(wire[p], n + 1, Len(wire[p]))]
              /\ UNCHANGED <<sockfd, error, pc>>
           \/ Close(a) /\ error' = [error EXCEPT ![a] = "invalid message"]
        /\ \/ delivered' = delivered
           \/ /\ delivered' = [delivered EXCEPT ![a] = Append(delivered[a], Complete(p))]
              /\ sent[p][Next1(p)].hasFd => infd[a] # NoFd
  BY <1>1, Received1
<1>5. Typed
  BY DEF FramingInv
<1>6. fds' \in [Sides -> [Fds -> Nat]]
  <2>1. \A f \in Nat : Installed(a, f) \in [Sides -> [Fds -> Nat]]
    BY <1>5 DEF Typed, Installed
  <2> QED BY <1>3, <1>5, <2>1 DEF Typed
<1>7. delivered' \in [Sides -> Seq(Messages)]
  <2>1. delivered \in [Sides -> Seq(Messages)] /\ sent[p][Next1(p)] \in Messages
    BY <1>1, <1>3, <1>5, AtHand DEF Typed
  <2>2. CASE delivered' = delivered
    BY <2>1, <2>2
  <2>3. CASE /\ delivered' = [delivered EXCEPT ![a] = Append(delivered[a], Complete(p))]
             /\ sent[p][Next1(p)].hasFd => infd[a] # NoFd
    <3>1. Complete(p) \in Messages
      <4> DEFINE m == sent[p][Next1(p)]  f == IF m.hasFd THEN fds'[a][infd[a]] ELSE NoFile
      <4>1. infd[a] \in Fds \cup {NoFd}
        BY <1>5 DEF Typed
      <4>2. f \in Nat
        <5>1. m.hasFd => infd[a] \in Fds
          BY <2>3, <4>1
        <5> QED BY <1>6, <5>1 DEF NoFile
      <4>3. Complete(p) = [m EXCEPT !.file = f]
        BY <1>1 DEF Complete
      <4> HIDE DEF f, m
      <4>4. m \in Messages
        BY <2>1 DEF m
      <4> QED BY <4>2, <4>3, <4>4 DEF Messages
    <3>2. Append(delivered[a], Complete(p)) \in Seq(Messages)
      BY <2>1, <3>1
    <3> QED BY <2>1, <2>3, <3>2
  <2> QED BY <1>4, <2>2, <2>3
<1>8. /\ wire' \in [Sides -> Seq(Pieces)] /\ wire'[a] = wire[a]
      /\ sockfd' \in [Sides -> {"none", "open", "closed"}] /\ sockfd'[p] = sockfd[p]
      /\ pc' \in [Sides -> {"idle", "read", "write", "aborted"}] /\ error' \in [Sides -> Errors]
      /\ \A x \in Sides : /\ pc'[x] \in {"read", "write"} => sockfd'[x] = "open"
                          /\ sockfd'[x] = "none" => sent[x] = <<>>
  <2>1. wire \in [Sides -> Seq(Pieces)] /\ Len(wire[p]) \in Nat /\ wire[p] \in Seq(Pieces)
    <3>1. wire \in [Sides -> Seq(Pieces)]
      BY <1>5 DEF Typed
    <3>2. wire[p] \in Seq(Pieces)
      BY <1>1, <3>1
    <3> QED BY <3>1, <3>2
  <2>2. CASE /\ wire' = [wire EXCEPT ![p] = SubSeq(wire[p], n + 1, Len(wire[p]))]
             /\ UNCHANGED <<sockfd, error, pc>>
    <3>1. n \in 0..Len(wire[p])
      BY <2>1
    <3>2. SubSeq(wire[p], n + 1, Len(wire[p])) \in Seq(Pieces)
      BY <2>1, <3>1, Rest
    <3>3. wire' \in [Sides -> Seq(Pieces)] /\ wire'[a] = wire[a]
      BY <1>1, <2>1, <2>2, <3>2
    <3> QED BY <1>5, <2>2, <3>3 DEF Typed
  <2>3. CASE Close(a) /\ error' = [error EXCEPT ![a] = "invalid message"]
    <3>1. /\ sockfd' = [sockfd EXCEPT ![a] = "closed"] /\ wire' = [wire EXCEPT ![p] = <<>>]
          /\ pc' = [pc EXCEPT ![a] = "idle"]
      BY <2>3 DEF Close
    <3>2. wire' \in [Sides -> Seq(Pieces)] /\ wire'[a] = wire[a]
      BY <1>1, <2>1, <3>1, NoPieces
    <3>3. error' \in [Sides -> Errors]
      BY <1>5, <2>3 DEF Typed, Errors
    <3>4. /\ sockfd' \in [Sides -> {"none", "open", "closed"}] /\ sockfd'[p] = sockfd[p]
          /\ pc' \in [Sides -> {"idle", "read", "write", "aborted"}]
          /\ pc'[a] = "idle" /\ sockfd'[a] = "closed"
          /\ \A x \in Sides \ {a} : pc'[x] = pc[x] /\ sockfd'[x] = sockfd[x]
      <4> HIDE DEF p
      <4> QED BY <1>1, <1>5, <3>1 DEF Typed
    <3>5. \A x \in Sides : /\ pc'[x] \in {"read", "write"} => sockfd'[x] = "open"
                           /\ sockfd'[x] = "none" => sent[x] = <<>>
      BY <1>5, <3>4 DEF Typed
    <3> QED BY <3>2, <3>3, <3>4, <3>5
  <2> QED BY <1>4, <2>2, <2>3
<1>9. Typed'
  <2>1. bread' \in [Sides -> Nat] /\ infd' \in [Sides -> Fds \cup {NoFd}]
    BY <1>2, <1>5 DEF Typed
  <2>2. bread'[a] < HeaderSize + BodySz
    <3>1. bread'[a] < Size(sent[p][Next1(p)]) \/ bread'[a] <= FixedSz
      BY <1>1, Received1
    <3>2. Size(sent[p][Next1(p)]) \in {3, 5}
      BY <1>1, <1>3, AtHand, Sizes
    <3> QED BY <1>2, <3>1, <3>2 DEF HeaderSize, FixedSz, NamesSz, BodySz
  <2>3. \A s \in Sides : bread'[s] < HeaderSize + BodySz
    BY <1>2, <1>5, <2>2 DEF Typed
  <2> QED BY <1>2, <1>3, <1>5, <1>6, <1>7, <1>8, <2>1, <2>3 DEF Typed
<1>10. Stream(p)'
  BY <1>1, Receiving
<1>11. Stream(a)'
  <2>1. Stream(a) /\ (sockfd'[p] = "closed" \/ sockfd[p] # "closed")
    BY <1>8 DEF FramingInv
  <2>2. /\ wire'[a] = wire[a] /\ delivered'[p] = delivered[p] /\ bread'[p] = bread[p]
        /\ infd'[p] = infd[p]
    <3>1. delivered'[p] = delivered[p]
      BY <1>1, <1>4, <1>5, ZenonT(30) DEF Typed
    <3> QED BY <1>1, <1>2, <1>5, <1>8, <3>1 DEF Typed
  <2> QED BY <1>1, <1>2, <1>3, <2>1, <2>2, Unmoved
<1>12. \A s \in Sides : s = a \/ s = p
  BY DEF Peer, Sides
<1> QED BY <1>9, <1>10, <1>11, <1>12 DEF FramingInv

LEMMA FramingNext ==
    ASSUME FramingInv, [Next]_vars
    PROVE  FramingInv'
<1>1. CASE UNCHANGED vars
  <2>1. Typed'
    BY <1>1 DEF vars, history, FramingInv, Typed
  <2>2. ASSUME NEW s \in Sides PROVE Stream(s)'
    <3>1. Stream(s) /\ (sockfd'[Peer(s)] = "closed" \/ sockfd[Peer(s)] # "closed")
      BY <1>1 DEF vars, history, FramingInv
    <3> QED BY <1>1, <3>1, Unmoved DEF vars, history
  <2> QED BY <2>1, <2>2 DEF FramingInv
<1>2. CASE Next
  <2>1. PICK a \in Sides : Run(a) \/ Application(a)
    BY <1>2 DEF Next
  <2>2. CASE Open(a)
    BY <2>2, OpenStep
  <2>3. CASE TimerR_Timer(a) \/ Written(a) \/ NothingToRead(a)
    BY <2>3, WaitingStep
  <2>4. CASE AppCloses(a) \/ NothingToSend(a) \/ SendFails(a) \/ ReadRefused(a)
             \/ Misreads(a) \/ PeerClosed(a)
    BY <2>4, ClosingStep
  <2>5. CASE SendMsg(a)
    BY <2>5, SendMsgStep
  <2>6. CASE RecvMsg(a)
    BY <2>6, RecvMsgStep
  <2>7. CASE SendPlain(a)
    BY <2>7, SendPlainStep
  <2>8. CASE SendFile(a)
    BY <2>8, SendFileStep
  <2>9. CASE AppOpens(a)
    BY <2>9, AppOpensStep
  <2> QED BY <2>1, <2>2, <2>3, <2>4, <2>5, <2>6, <2>7, <2>8, <2>9
        DEF Run, Serve, Application
<1> QED BY <1>1, <1>2

-----------------------------------------------------------------------------
(* What follows from the places alone *)

\* The streams of both sides are as FramingInv says in every behaviour.
THEOREM FramingInvariant == Spec => []FramingInv
<1>1. Init => FramingInv
  BY FramingInit
<1>2. FramingInv /\ [Next]_vars => FramingInv'
  BY FramingNext
<1> QED BY <1>1, <1>2, PTL DEF Spec, Safety

LEMMA FramingTypes == FramingInv => TypeOK
<1> SUFFICES ASSUME FramingInv, NEW s \in Sides
             PROVE  /\ sockfd[s] \in {"none", "open", "closed"} /\ script[s] \in Seq(Acts)
                    /\ outq[s] \in Seq(Messages) /\ sent[s] \in Seq(Messages)
                    /\ delivered[s] \in Seq(Messages)
                    /\ bwritten[s] \in 0..HeaderSize + BodySz - 1
                    /\ bread[s] \in 0..HeaderSize + BodySz - 1
                    /\ infd[s] \in Fds \cup {NoFd}
                    /\ watch[s] \in {"none", "Read", "ReadWrite"}
                    /\ pc[s] \in {"idle", "read", "write", "aborted"}
                    /\ error[s] \in Errors
                    /\ fds[s] \in [Fds -> Nat] /\ files \in Nat
                    /\ wire[s] \in Seq(Pieces) /\ split[s] \in BOOLEAN
                    /\ stolen[s] \in BOOLEAN /\ full[s] \in BOOLEAN
  BY DEF TypeOK, Errors
<1>1. Typed
  BY DEF FramingInv
<1>2. HeaderSize = 3 /\ BodySz = 2
  BY DEF HeaderSize, FixedSz, NamesSz, BodySz
<1>3. bread[s] \in 0..HeaderSize + BodySz - 1
  <2>1. bread[s] \in Nat /\ bread[s] < HeaderSize + BodySz
    BY <1>1 DEF Typed
  <2> QED BY <1>2, <2>1
<1>4. bwritten[s] \in 0..HeaderSize + BodySz - 1
  <2>1. bwritten[s] \in Nat /\ sent[s] \in Seq(Messages) /\ outq[s] \in Seq(Messages) /\ Layout(s)
    BY Parts
  <2>2. CASE outq[s] = <<>>
    BY <1>2, <2>1, <2>2 DEF Layout
  <2>3. CASE outq[s] # <<>>
    <3>1. bwritten[s] < Size(outq[s][1]) /\ outq[s][1] \in Messages
      BY <2>1, <2>3, Head1
    <3>2. Size(outq[s][1]) \in {3, 5}
      BY <3>1, Sizes
    <3> QED BY <1>2, <2>1, <3>1, <3>2
  <2> QED BY <2>2, <2>3
<1> QED BY <1>1, <1>3, <1>4 DEF Typed

\* The counts, the queue and the descriptor table keep their types; above all
\* bwritten and bread stay within one message.
THEOREM TypeCorrect == Spec => []TypeOK
BY FramingInvariant, FramingTypes, PTL

-----------------------------------------------------------------------------
(* Which file is which *)

\* The files of queued messages that no write has passed yet are open under
\* their numbers, one number for each, as long as no write of this side has
\* closed a file it did not pass.
Unpassed(s) == {k \in DOMAIN outq[s] : outq[s][k].fd # NoFd /\ ~(k = 1 /\ bwritten[s] > 0)}
Descriptors(s) == ~stolen[s] =>
    /\ \A k \in Unpassed(s) : fds[s][outq[s][k].fd] = outq[s][k].file
    /\ \A k, l \in Unpassed(s) : outq[s][k].fd = outq[s][l].fd => k = l

\* So the file on the wire at the beginning of a message is that message's.
WireFiles(s) == sockfd[Peer(s)] # "closed" /\ ~stolen[s] =>
    \A k \in DOMAIN wire[s], i \in DOMAIN sent[s] :
        sent[s][i].start + 1 = wire[s][k].at => wire[s][k].file = sent[s][i].file

\* So is the one the reader holds; its number is not one the reader's own side
\* is about to close.
HeldFile(s) == sockfd[Peer(s)] # "closed" /\ NoTheft /\ infd[Peer(s)] # NoFd =>
    /\ fds[Peer(s)][infd[Peer(s)]] = sent[s][Next1(s)].file
    /\ \A k \in Unpassed(Peer(s)) : outq[Peer(s)][k].fd # infd[Peer(s)]

\* And so is the one a message was accepted with.
Arrived(s) == NoTheft => \A i \in DOMAIN Accepted(s) : Accepted(s)[i] = sent[s][i]

FilesKnown == \A s \in Sides : Descriptors(s) /\ WireFiles(s) /\ HeldFile(s) /\ Arrived(s)

\* A queued message with a number has a file, and one without has none.
LEMMA UnpassedFiles ==
    ASSUME FramingInv, NEW s \in Sides, NEW k \in Unpassed(s)
    PROVE  /\ k \in DOMAIN outq[s] /\ k \in Nat \ {0} /\ outq[s][k] \in Messages
           /\ outq[s][k].fd \in Fds /\ outq[s][k].file # NoFile
<1>1. k \in DOMAIN outq[s] /\ outq[s][k].fd # NoFd
  BY DEF Unpassed
<1>2. outq[s][k] \in Messages /\ k \in Nat \ {0}
  BY <1>1, Parts
<1> QED BY <1>1, <1>2, QueueFiles, Sizes

\* A descriptor held is one of the message being read, which has a file.
LEMMA Holding ==
    ASSUME FramingInv, NEW s \in Sides, sockfd[Peer(s)] # "closed", infd[Peer(s)] # NoFd
    PROVE  /\ infd[Peer(s)] \in Fds /\ Next1(s) \in DOMAIN sent[s]
           /\ bread[Peer(s)] > 0 /\ sent[s][Next1(s)].file # NoFile
<1>1. infd[Peer(s)] \in Fds /\ bread[Peer(s)] \in Nat
  BY Parts
<1>2. bread[Peer(s)] > 0 /\ sent[s][Next1(s)].file # NoFile
  BY Reading1 DEF InHand
<1> QED BY <1>1, <1>2, Reading1

\* Installing a file leaves those that are open as they are.
LEMMA Installing ==
    ASSUME FramingInv, NEW a \in Sides,
           \/ fds' = fds
           \/ FreeFds(a) # {} /\ \E f \in Nat : fds' = Installed(a, f)
    PROVE  \A x \in Sides, n \in Fds : fds[x][n] # NoFile => fds'[x][n] = fds[x][n]
<1>1. fds \in [Sides -> [Fds -> Nat]]
  BY DEF FramingInv, Typed
<1>2. CASE fds' = fds
  BY <1>2
<1>3. CASE FreeFds(a) # {} /\ \E f \in Nat : fds' = Installed(a, f)
  <2>1. LowestFd(a) \in Fds /\ fds[a][LowestFd(a)] = NoFile
    BY <1>3, Lowest DEF FreeFds
  <2> QED BY <1>1, <1>3, <2>1 DEF Installed
<1> QED BY <1>2, <1>3

\* What every step but a sendmsg or a recvmsg does: some number that was free
\* may be taken, a message may be queued, with none or that number, and one side
\* may close.
LEMMA Settled ==
    ASSUME FramingInv, FilesKnown, UNCHANGED <<bwritten, infd, delivered, stolen>>,
           \A x \in Sides : sockfd[x] = "closed" => sockfd'[x] = "closed",
           \A x \in Sides, n \in Fds : fds[x][n] # NoFile => fds'[x][n] = fds[x][n],
           \A x \in Sides : wire'[x] = wire[x] \/ sockfd'[Peer(x)] = "closed",
           \A x \in Sides :
             \/ outq'[x] = outq[x] /\ sent'[x] = sent[x]
             \/ \E m \in Messages :
                  /\ outq'[x] = Append(outq[x], m) /\ sent'[x] = Append(sent[x], m)
                  /\ m.start = Total(x)
                  /\ m.fd = NoFd \/ (fds[x][m.fd] = NoFile /\ fds'[x][m.fd] = m.file)
    PROVE  FilesKnown'
<1>1. NoTheft' = NoTheft
  BY DEF NoTheft
<1>2. ASSUME NEW x \in Sides
      PROVE  /\ \A i \in DOMAIN sent[x] : i \in DOMAIN sent'[x] /\ sent'[x][i] = sent[x][i]
             /\ \A k \in Unpassed(x)' :
                  \/ k \in Unpassed(x) /\ outq'[x][k] = outq[x][k]
                  \/ /\ k = Len(outq[x]) + 1
                     /\ fds[x][outq'[x][k].fd] = NoFile
                     /\ fds'[x][outq'[x][k].fd] = outq'[x][k].file
             /\ \A i \in DOMAIN sent'[x] : i \in DOMAIN sent[x] \/ sent'[x][i].start = Total(x)
  <2>1. CASE outq'[x] = outq[x] /\ sent'[x] = sent[x]
    BY <2>1 DEF Unpassed
  <2>2. CASE \E m \in Messages :
              /\ outq'[x] = Append(outq[x], m) /\ sent'[x] = Append(sent[x], m)
              /\ m.start = Total(x)
              /\ m.fd = NoFd \/ (fds[x][m.fd] = NoFile /\ fds'[x][m.fd] = m.file)
    <3>1. PICK m \in Messages :
              /\ outq'[x] = Append(outq[x], m) /\ sent'[x] = Append(sent[x], m)
              /\ m.start = Total(x)
              /\ m.fd = NoFd \/ (fds[x][m.fd] = NoFile /\ fds'[x][m.fd] = m.file)
      BY <2>2
    <3>2. sent[x] \in Seq(Messages) /\ outq[x] \in Seq(Messages)
      BY Parts
    <3>3. /\ DOMAIN sent[x] = 1..Len(sent[x]) /\ DOMAIN sent'[x] = 1..Len(sent[x]) + 1
          /\ \A i \in 1..Len(sent[x]) : sent'[x][i] = sent[x][i]
          /\ sent'[x][Len(sent[x]) + 1] = m
          /\ \A i \in 1..Len(sent[x]) + 1 : i \in 1..Len(sent[x]) \/ i = Len(sent[x]) + 1
      BY <3>1, <3>2, OneMore
    <3>4. /\ DOMAIN outq[x] = 1..Len(outq[x]) /\ DOMAIN outq'[x] = 1..Len(outq[x]) + 1
          /\ \A i \in 1..Len(outq[x]) : outq'[x][i] = outq[x][i]
          /\ outq'[x][Len(outq[x]) + 1] = m
          /\ \A i \in 1..Len(outq[x]) + 1 : i \in 1..Len(outq[x]) \/ i = Len(outq[x]) + 1
      BY <3>1, <3>2, OneMore
    <3>5. \A i \in 1..Len(sent[x]) : i \in 1..Len(sent[x]) + 1
      <4>1. Len(sent[x]) \in Nat
        BY <3>2
      <4> QED BY <4>1
    <3>6. ASSUME NEW k \in Unpassed(x)'
          PROVE  \/ k \in Unpassed(x) /\ outq'[x][k] = outq[x][k]
                 \/ /\ k = Len(outq[x]) + 1
                    /\ fds[x][outq'[x][k].fd] = NoFile
                    /\ fds'[x][outq'[x][k].fd] = outq'[x][k].file
      <4>1. k \in 1..Len(outq[x]) + 1 /\ outq'[x][k].fd # NoFd /\ ~(k = 1 /\ bwritten[x] > 0)
        BY <3>4 DEF Unpassed
      <4>2. CASE k \in 1..Len(outq[x])
        BY <3>4, <4>1, <4>2 DEF Unpassed
      <4>3. CASE k = Len(outq[x]) + 1
        BY <3>1, <3>4, <4>1, <4>3
      <4> QED BY <3>4, <4>1, <4>2, <4>3
    <3> QED BY <3>1, <3>3, <3>5, <3>6
  <2> QED BY <2>1, <2>2
<1>3. ASSUME NEW s \in Sides PROVE Descriptors(s)'
  <2> SUFFICES ASSUME ~stolen'[s]
               PROVE  /\ \A k \in Unpassed(s)' : fds'[s][outq'[s][k].fd] = outq'[s][k].file
                      /\ \A k, l \in Unpassed(s)' : outq'[s][k].fd = outq'[s][l].fd => k = l
    BY DEF Descriptors
  <2>1. /\ \A k \in Unpassed(s) : fds[s][outq[s][k].fd] = outq[s][k].file
        /\ \A k, l \in Unpassed(s) : outq[s][k].fd = outq[s][l].fd => k = l
    BY DEF FilesKnown, Descriptors
  <2>2. \A k \in Unpassed(s) : /\ fds[s][outq[s][k].fd] # NoFile
                               /\ fds'[s][outq[s][k].fd] = outq[s][k].file
    <3> SUFFICES ASSUME NEW k \in Unpassed(s)
                 PROVE  /\ fds[s][outq[s][k].fd] # NoFile
                        /\ fds'[s][outq[s][k].fd] = outq[s][k].file
      OBVIOUS
    <3>1. outq[s][k].fd \in Fds /\ outq[s][k].file # NoFile
      BY UnpassedFiles
    <3> QED BY <2>1, <3>1
  <2>3. /\ \A k \in Unpassed(s) : fds'[s][outq[s][k].fd] = outq[s][k].file
        /\ \A k \in Unpassed(s) : fds[s][outq[s][k].fd] # NoFile
    BY <2>2
  <2> QED BY <1>2, <2>1, <2>3, SMTT(30)
<1>4. ASSUME NEW s \in Sides PROVE WireFiles(s)'
  <2> SUFFICES ASSUME sockfd'[Peer(s)] # "closed", ~stolen'[s],
                      NEW k \in DOMAIN wire'[s], NEW i \in DOMAIN sent'[s],
                      sent'[s][i].start + 1 = wire'[s][k].at
               PROVE  wire'[s][k].file = sent'[s][i].file
    BY DEF WireFiles
  <2>1. sockfd[Peer(s)] # "closed" /\ wire'[s] = wire[s]
    BY Peers
  <2>2. i \in DOMAIN sent[s]
    <3> SUFFICES ASSUME i \notin DOMAIN sent[s] PROVE FALSE
      OBVIOUS
    <3>1. Total(s) + 1 = wire[s][k].at /\ k \in DOMAIN wire[s]
      BY <1>2, <2>1
    <3>2. /\ Whole(s) /\ ReadTo(s) \in Nat /\ Total(s) \in Nat /\ WrittenTo(s) \in Nat
          /\ WrittenTo(s) <= Total(s)
      BY <2>1, Reading1
    <3>3. k \in 1..Len(wire[s]) /\ Len(wire[s]) \in Nat
      BY <3>1, Parts
    <3>4. wire[s][k].at = ReadTo(s) + k /\ ReadTo(s) + Len(wire[s]) = WrittenTo(s)
      BY <3>1, <3>2 DEF Whole
    <3> QED BY <3>1, <3>2, <3>3, <3>4
  <2> QED BY <1>2, <2>1, <2>2 DEF FilesKnown, WireFiles
<1>5. ASSUME NEW s \in Sides PROVE HeldFile(s)'
  <2> DEFINE p == Peer(s)
  <2> SUFFICES ASSUME sockfd'[p] # "closed", NoTheft', infd'[p] # NoFd
               PROVE  /\ fds'[p][infd'[p]] = sent'[s][Next1(s)'].file
                      /\ \A k \in Unpassed(p)' : outq'[p][k].fd # infd'[p]
    BY DEF HeldFile
  <2>1. p \in Sides
    BY Peers
  <2>2. sockfd[p] # "closed" /\ NoTheft /\ infd[p] # NoFd /\ infd' = infd
    BY <1>1, <2>1
  <2>3. Next1(s)' = Next1(s)
    BY DEF Next1, Accepted
  <2>4. infd[p] \in Fds /\ Next1(s) \in DOMAIN sent[s] /\ sent[s][Next1(s)].file # NoFile
    BY <2>2, Holding
  <2>5. /\ fds[p][infd[p]] = sent[s][Next1(s)].file
        /\ \A k \in Unpassed(p) : outq[p][k].fd # infd[p]
    BY <2>2 DEF FilesKnown, HeldFile
  <2> HIDE DEF p
  <2>6. fds'[p][infd[p]] = fds[p][infd[p]] /\ fds[p][infd[p]] # NoFile
    BY <2>1, <2>4, <2>5
  <2>7. sent'[s][Next1(s)] = sent[s][Next1(s)]
    BY <1>2, <2>4
  <2> QED BY <1>2, <2>1, <2>2, <2>3, <2>5, <2>6, <2>7
<1>6. ASSUME NEW s \in Sides PROVE Arrived(s)'
  <2>1. Accepted(s)' = Accepted(s)
    BY DEF Accepted
  <2>2. \A i \in DOMAIN Accepted(s) : i \in DOMAIN sent[s]
    <3>1. /\ Len(Accepted(s)) \in Nat /\ Len(sent[s]) \in Nat /\ DOMAIN sent[s] = 1..Len(sent[s])
          /\ DOMAIN Accepted(s) = 1..Len(Accepted(s)) /\ Len(Accepted(s)) <= Len(sent[s])
      BY Parts DEF Prefix
    <3> QED BY <3>1
  <2> QED BY <1>1, <1>2, <2>1, <2>2 DEF FilesKnown, Arrived
<1> QED BY <1>3, <1>4, <1>5, <1>6 DEF FilesKnown

\* A sendmsg closes the number it passed, and no other file that this side is
\* still to pass or holds for its reader: a first write because that number is
\* one file's only, a later one because then it would not leave stolen FALSE.
LEMMA SendKeepsFiles ==
    ASSUME FramingInv, FilesKnown, NEW a \in Sides, SendMsg(a), ~stolen'[a]
    PROVE  /\ ~stolen[a]
           /\ \A k \in Unpassed(a)' : \E j \in Unpassed(a) :
                /\ outq'[a][k] = outq[a][j] /\ j # 1
                /\ j = k + Len(outq[a]) - Len(outq'[a])
           /\ \A n \in Fds : (\A k \in Unpassed(a) : k = 1 => outq[a][k].fd # n) =>
                fds'[a][n] = fds[a][n]
<1> DEFINE q == outq[a]  o == Len(outq[a])
<1>1. PICK n \in 1..Len(IOVecs(a)), d \in 0..o :
        /\ outq' = [outq EXCEPT ![a] = SubSeq(q, d + 1, o)]
        /\ fds' = [fds EXCEPT ![a] = [f \in Fds |->
                    IF f = PassedFd(q[1]) THEN NoFile ELSE fds[a][f]]]
        /\ bwritten' = [bwritten EXCEPT ![a] = bwritten'[a]]
        /\ d = 0 => bwritten'[a] = bwritten[a] + n
  BY Sent1
<1>2. q # <<>> /\ stolen' = [stolen EXCEPT ![a] = @ \/ ClosesAnother(a)]
  BY Sent1
<1>3. /\ outq \in [Sides -> Seq(Messages)] /\ fds \in [Sides -> [Fds -> Nat]]
      /\ stolen \in [Sides -> BOOLEAN] /\ q \in Seq(Messages) /\ o \in Nat
      /\ bwritten[a] \in Nat /\ DOMAIN q = 1..o /\ Len(IOVecs(a)) \in Nat
  BY <1>2, Parts, Offered DEF FramingInv, Typed
<1>4. ~stolen[a] /\ ~ClosesAnother(a)
  BY <1>2, <1>3
<1>5. 1 \in 1..o
  BY <1>2, <1>3
<1>6. /\ outq'[a] = SubSeq(q, d + 1, o) /\ n \in Nat \ {0} /\ d \in Nat /\ d <= o
      /\ \A x \in Fds : fds'[a][x] = IF x = PassedFd(q[1]) THEN NoFile ELSE fds[a][x]
  BY <1>1, <1>3
<1>7. Len(outq'[a]) = o - d /\ \A k \in 1..o-d : outq'[a][k] = q[d + k] /\ d + k \in 1..o
  <2>1. d \in 0..Len(q)
    BY <1>3, <1>6
  <2> HIDE DEF q
  <2>2. /\ Len(SubSeq(q, d + 1, Len(q))) = Len(q) - d
        /\ \A k \in 1..Len(q) - d : d + k \in 1..Len(q) /\ SubSeq(q, d + 1, Len(q))[k] = q[d + k]
    BY <1>3, <2>1, Rest
  <2> QED BY <1>6, <2>2
<1>8. DOMAIN outq'[a] = 1..o-d
  <2>1. SubSeq(q, d + 1, o) \in Seq(Messages)
    BY <1>3, <1>6, Rest
  <2> QED BY <1>6, <1>7, <2>1
<1>9. ASSUME NEW k \in Unpassed(a)'
      PROVE  \E j \in Unpassed(a) : /\ outq'[a][k] = outq[a][j] /\ j # 1
                                    /\ j = k + o - Len(outq'[a])
  <2>1. k \in 1..o-d /\ outq'[a][k].fd # NoFd /\ ~(k = 1 /\ bwritten'[a] > 0)
    BY <1>8 DEF Unpassed
  <2>2. d + k \in 1..o /\ outq'[a][k] = q[d + k] /\ d + k = k + o - Len(outq'[a])
    <3>1. d + k = k + o - (o - d)
      <4> HIDE DEF o
      <4> QED BY <1>3, <1>6, <2>1
    <3> QED BY <1>7, <2>1, <3>1
  <2>3. d + k # 1
    <3> SUFFICES ASSUME d + k = 1 PROVE FALSE
      OBVIOUS
    <3>1. k = 1 /\ d = 0
      BY <1>6, <2>1
    <3>2. bwritten'[a] = bwritten[a] + n
      BY <1>1, <3>1
    <3> QED BY <1>3, <1>6, <2>1, <3>1, <3>2
  <2>4. d + k \in Unpassed(a)
    BY <1>3, <2>1, <2>2, <2>3 DEF Unpassed
  <2> QED BY <2>2, <2>3, <2>4
<1>10. ASSUME NEW x \in Fds, \A k \in Unpassed(a) : k = 1 => outq[a][k].fd # x
       PROVE  fds'[a][x] = fds[a][x]
  <2>1. CASE x # PassedFd(q[1])
    BY <1>6, <2>1
  <2>2. CASE x = PassedFd(q[1])
    <3>1. x # NoFd
      BY FdsAssumption DEF Fds, NoFd
    <3>2. q[1].fd = x
      BY <2>2, <3>1 DEF PassedFd
    <3>3. bwritten[a] > 0
      <4> SUFFICES ASSUME ~(bwritten[a] > 0) PROVE FALSE
        OBVIOUS
      <4>1. 1 \in Unpassed(a)
        BY <1>3, <1>5, <3>1, <3>2 DEF Unpassed
      <4> QED BY <1>10, <3>2, <4>1
    <3>4. fds[a][x] = NoFile
      BY <1>4, <2>2, <3>1, <3>3 DEF ClosesAnother
    <3> QED BY <1>6, <2>2, <3>4
  <2> QED BY <2>1, <2>2
<1> QED BY <1>4, <1>9, <1>10

\* The file that goes with the first piece of a message is that message's.
LEMMA PassesOwn ==
    ASSUME FramingInv, NEW a \in Sides, Descriptors(a), outq[a] # <<>>, bwritten[a] = 0, ~stolen[a]
    PROVE  Passing(a) = outq[a][1].file
<1>1. 1 \in DOMAIN outq[a]
  BY Parts
<1>2. CASE outq[a][1].fd = NoFd
  BY <1>1, <1>2, QueueFiles DEF Passing
<1>3. CASE outq[a][1].fd # NoFd
  <2>1. 1 \in Unpassed(a)
    BY <1>1, <1>3 DEF Unpassed
  <2> QED BY <1>3, <2>1 DEF Descriptors, Passing
<1> QED BY <1>2, <1>3

LEMMA SendKnown ==
    ASSUME FramingInv, FilesKnown, NEW a \in Sides, SendMsg(a)
    PROVE  FilesKnown'
<1> DEFINE q == outq[a]  p == Peer(a)  wl == Len(wire[a])
<1>1. PICK n \in 1..Len(IOVecs(a)), d \in 0..Len(q) :
        /\ wire' = [wire EXCEPT ![a] = @ \o SubSeq(IOVecs(a), 1, n)]
        /\ outq' = [outq EXCEPT ![a] = SubSeq(q, d + 1, Len(q))]
        /\ fds' = [fds EXCEPT ![a] = [f \in Fds |->
                    IF f = PassedFd(q[1]) THEN NoFile ELSE fds[a][f]]]
        /\ bwritten' = [bwritten EXCEPT ![a] = bwritten'[a]]
  BY Sent1
<1>2. /\ q # <<>> /\ SendError(a) = "no"
      /\ stolen' = [stolen EXCEPT ![a] = @ \/ ClosesAnother(a)]
      /\ UNCHANGED <<sockfd, infd, sent, delivered>>
  BY Sent1
<1>3. /\ outq \in [Sides -> Seq(Messages)] /\ fds \in [Sides -> [Fds -> Nat]]
      /\ stolen \in [Sides -> BOOLEAN] /\ wire \in [Sides -> Seq(Pieces)]
      /\ bwritten \in [Sides -> Nat]
  BY DEF FramingInv, Typed
<1>4. p \in Sides /\ p # a /\ Peer(p) = a /\ \A s \in Sides : s = a \/ s = p
  BY Peers DEF Peer, Sides
<1>5. /\ outq'[p] = outq[p] /\ fds'[p] = fds[p] /\ wire'[p] = wire[p] /\ stolen'[p] = stolen[p]
      /\ bwritten'[p] = bwritten[p]
  <2> HIDE DEF p
  <2> QED BY <1>1, <1>2, <1>3, <1>4
<1>6. stolen[a] => stolen'[a]
  BY <1>2, <1>3
<1>7. NoTheft' => NoTheft /\ ~stolen'[a]
  BY <1>4, <1>5, <1>6 DEF NoTheft
<1>8. Unpassed(p)' = Unpassed(p)
  BY <1>5 DEF Unpassed
<1>9. Descriptors(p)'
  BY <1>4, <1>5, <1>8 DEF FilesKnown, Descriptors
<1>10. Descriptors(a)'
  <2> SUFFICES ASSUME ~stolen'[a]
               PROVE  /\ \A k \in Unpassed(a)' : fds'[a][outq'[a][k].fd] = outq'[a][k].file
                      /\ \A k, l \in Unpassed(a)' : outq'[a][k].fd = outq'[a][l].fd => k = l
    BY DEF Descriptors
  <2>1. /\ ~stolen[a]
        /\ \A k \in Unpassed(a)' : \E j \in Unpassed(a) :
             outq'[a][k] = q[j] /\ j # 1 /\ j = k + Len(q) - Len(outq'[a])
        /\ \A x \in Fds : (\A k \in Unpassed(a) : k = 1 => q[k].fd # x) => fds'[a][x] = fds[a][x]
    BY SendKeepsFiles
  <2>2. /\ \A k \in Unpassed(a) : fds[a][q[k].fd] = q[k].file
        /\ \A k, l \in Unpassed(a) : q[k].fd = q[l].fd => k = l
    BY <2>1 DEF FilesKnown, Descriptors
  <2>3. \A j \in Unpassed(a) : j # 1 => fds'[a][q[j].fd] = q[j].file
    BY <2>1, <2>2, UnpassedFiles
  <2>4. \A k \in Unpassed(a)' : k \in Nat
    <3>1. Len(outq'[a]) \in Nat /\ DOMAIN outq'[a] = 1..Len(outq'[a])
      <4>1. SubSeq(q, d + 1, Len(q)) \in Seq(Messages)
        BY <1>3, Rest
      <4> QED BY <1>1, <1>3, <4>1
    <3> QED BY <3>1 DEF Unpassed
  <2>5. Len(q) \in Nat /\ Len(outq'[a]) \in Nat
    <3>1. SubSeq(q, d + 1, Len(q)) \in Seq(Messages)
      BY <1>3, Rest
    <3> QED BY <1>1, <1>3, <3>1
  <2>6. ASSUME NEW k \in Unpassed(a)', NEW l \in Unpassed(a)', outq'[a][k].fd = outq'[a][l].fd
        PROVE  k = l
    <3>1. PICK j \in Unpassed(a) : outq'[a][k] = q[j] /\ j = k + Len(q) - Len(outq'[a])
      BY <2>1
    <3>2. PICK i \in Unpassed(a) : outq'[a][l] = q[i] /\ i = l + Len(q) - Len(outq'[a])
      BY <2>1
    <3>3. i = j
      BY <2>2, <2>6, <3>1, <3>2
    <3>4. k \in Nat /\ l \in Nat
      BY <2>4
    <3>5. k + Len(q) - Len(outq'[a]) = l + Len(q) - Len(outq'[a])
      BY <3>1, <3>2, <3>3, Zenon
    <3> DEFINE u == Len(q)  v == Len(outq'[a])
    <3>6. u \in Nat /\ v \in Nat /\ k + u - v = l + u - v
      BY <2>5, <3>5
    <3> HIDE DEF u, v
    <3> QED BY <3>4, <3>6
  <2>7. ASSUME NEW k \in Unpassed(a)'
        PROVE  fds'[a][outq'[a][k].fd] = outq'[a][k].file
    <3>1. PICK j \in Unpassed(a) : outq'[a][k] = q[j] /\ j # 1
      BY <2>1
    <3> QED BY <2>3, <3>1
  <2> QED BY <2>6, <2>7
<1>11. WireFiles(p)'
  BY <1>2, <1>4, <1>5 DEF FilesKnown, WireFiles
<1>12. WireFiles(a)'
  <2> SUFFICES ASSUME sockfd'[p] # "closed", ~stolen'[a],
                      NEW k \in DOMAIN wire'[a], NEW i \in DOMAIN sent'[a],
                      sent'[a][i].start + 1 = wire'[a][k].at
               PROVE  wire'[a][k].file = sent'[a][i].file
    BY DEF WireFiles
  <2>1. sockfd[p] # "closed" /\ ~stolen[a] /\ sent' = sent
    BY <1>2, <1>6
  <2>2. /\ IOVecs(a) \in Seq(Pieces) /\ Len(IOVecs(a)) \in Nat /\ wire[a] \in Seq(Pieces)
        /\ n \in Nat /\ n <= Len(IOVecs(a)) /\ wl \in Nat /\ DOMAIN wire[a] = 1..wl
    <3>1. IOVecs(a) \in Seq(Pieces) /\ Len(IOVecs(a)) \in Nat
      BY <1>2, Offered
    <3> QED BY <1>3, <3>1
  <2>3. wire'[a] = wire[a] \o SubSeq(IOVecs(a), 1, n)
    BY <1>1, <1>3
  <2>4. /\ Len(wire'[a]) = wl + n /\ wire'[a] \in Seq(Pieces)
        /\ \A x \in 1..wl : wire'[a][x] = wire[a][x]
        /\ \A x \in 1..n : wire'[a][wl + x] = IOVecs(a)[x]
    BY <2>2, <2>3, Joined
  <2>5. k \in 1..wl+n
    BY <2>4
  <2>6. CASE k \in 1..wl
    <3>1. wire'[a][k] = wire[a][k] /\ k \in DOMAIN wire[a]
      BY <2>2, <2>4, <2>6
    <3>2. sent'[a] = sent[a] /\ WireFiles(a)
      BY <2>1 DEF FilesKnown
    <3> QED BY <2>1, <3>1, <3>2 DEF WireFiles
  <2>7. CASE k \notin 1..wl
    <3> DEFINE j == k - wl
    <3>1. j \in 1..n /\ k = wl + j /\ j \in Nat \ {0} /\ j <= Len(IOVecs(a))
      BY <2>2, <2>5, <2>7
    <3> HIDE DEF j
    <3>2. wire'[a][k] = IOVecs(a)[j]
      BY <2>4, <3>1
    <3>3. IOVecs(a)[j].at = WrittenTo(a) + j
      BY <1>2, <3>1, Offered
    <3>4. i \in DOMAIN sent[a] /\ sent[a][i].start \in Nat /\ WrittenTo(a) \in Nat
      BY <2>1, Parts, Extent, Sizes
    <3>5. sent[a][i].start + 1 = WrittenTo(a) + j
      BY <2>1, <3>2, <3>3
    <3>6. \/ /\ sent[a][i] = q[1] /\ bwritten[a] = 0
             /\ IOVecs(a)[j].file = Passing(a)
          \/ sent[a][i].file = NoFile /\ IOVecs(a)[j].file = NoFile
      BY <1>2, <3>1, <3>4, <3>5, NewFiles
    <3>7. bwritten[a] = 0 => Passing(a) = q[1].file
      BY <1>2, <2>1, PassesOwn DEF FilesKnown
    <3> QED BY <2>1, <3>2, <3>6, <3>7
  <2> QED BY <2>6, <2>7
<1>13. HeldFile(a)'
  BY <1>2, <1>4, <1>5, <1>7, <1>8 DEF FilesKnown, HeldFile, Next1, Accepted
<1>14. HeldFile(p)'
  <2> SUFFICES ASSUME sockfd'[a] # "closed", NoTheft', infd'[a] # NoFd
               PROVE  /\ fds'[a][infd'[a]] = sent'[p][Next1(p)'].file
                      /\ \A k \in Unpassed(a)' : outq'[a][k].fd # infd'[a]
    BY <1>4 DEF HeldFile
  <2>1. sockfd[a] # "closed" /\ NoTheft /\ infd[a] # NoFd /\ ~stolen'[a]
    BY <1>2, <1>7
  <2>2. Next1(p)' = Next1(p)
    BY <1>2 DEF Next1, Accepted
  <2>3. /\ fds[a][infd[a]] = sent[p][Next1(p)].file
        /\ \A k \in Unpassed(a) : q[k].fd # infd[a]
    BY <1>4, <2>1 DEF FilesKnown, HeldFile
  <2>4. infd[a] \in Fds
    BY <1>4, <2>1, Holding
  <2>5. /\ \A k \in Unpassed(a)' : \E j \in Unpassed(a) : outq'[a][k] = q[j]
        /\ fds'[a][infd[a]] = fds[a][infd[a]]
    BY <2>1, <2>3, <2>4, SendKeepsFiles
  <2> QED BY <1>2, <2>2, <2>3, <2>5
<1>15. Arrived(a)' /\ Arrived(p)'
  BY <1>2, <1>4, <1>7 DEF FilesKnown, Arrived, Accepted
<1> QED BY <1>4, <1>9, <1>10, <1>11, <1>12, <1>13, <1>14, <1>15 DEF FilesKnown

\* A recvmsg that leaves its side with a descriptor leaves it with that of the
\* message it is in.
LEMMA RecvHeld ==
    ASSUME FramingInv, FilesKnown, NEW s \in Sides, RecvMsg(Peer(s)), NoTheft,
           sockfd'[Peer(s)] # "closed", infd'[Peer(s)] # NoFd,
           NEW i \in DOMAIN sent[s], KeepsFile(s, i),
           delivered' = delivered => i = Next1(s)
    PROVE  /\ fds'[Peer(s)][infd'[Peer(s)]] = sent[s][i].file
           /\ \A k \in Unpassed(Peer(s)) : outq[Peer(s)][k].fd # infd'[Peer(s)]
<1> DEFINE p == Peer(s)
<1>1. p \in Sides /\ sockfd[p] # "closed" /\ fds \in [Sides -> [Fds -> Nat]]
  BY Peers, Received1 DEF FramingInv, Typed
<1>2. CASE infd'[p] = infd[p] /\ delivered' = delivered /\ fds' = fds
  BY <1>1, <1>2 DEF FilesKnown, HeldFile
<1>3. CASE /\ infd[p] = NoFd /\ FreeFds(p) # {} /\ infd'[p] = LowestFd(p)
           /\ \E f \in Nat \ {NoFile} : FromWire(s, f, i) /\ fds' = Installed(p, f)
  <2>1. PICK f \in Nat \ {NoFile} : FromWire(s, f, i) /\ fds' = Installed(p, f)
    BY <1>3
  <2>2. LowestFd(p) \in Fds /\ fds[p][LowestFd(p)] = NoFile
    BY <1>3, Lowest DEF FreeFds
  <2>3. fds'[p][LowestFd(p)] = f
    BY <1>1, <2>1, <2>2 DEF Installed
  <2>4. f = sent[s][i].file
    <3>1. PICK k \in DOMAIN wire[s] : wire[s][k].file = f /\ wire[s][k].at = sent[s][i].start + 1
      BY <2>1 DEF FromWire
    <3>2. WireFiles(s) /\ ~stolen[s]
      BY DEF FilesKnown, NoTheft
    <3> QED BY <1>1, <3>1, <3>2 DEF WireFiles
  <2>5. \A k \in Unpassed(p) : fds[p][outq[p][k].fd] # NoFile
    <3>1. Descriptors(p) /\ ~stolen[p]
      BY <1>1 DEF FilesKnown, NoTheft
    <3> QED BY <1>1, <3>1, UnpassedFiles DEF Descriptors
  <2> QED BY <1>3, <2>2, <2>3, <2>4, <2>5
<1> QED BY <1>2, <1>3 DEF KeepsFile

LEMMA RecvKnown ==
    ASSUME FramingInv, FilesKnown, NEW a \in Sides, RecvMsg(a)
    PROVE  FilesKnown'
<1> DEFINE p == Peer(a)  c == Next1(p)  m == sent[p][c]
<1>1. p \in Sides /\ p # a /\ Peer(p) = a /\ \A s \in Sides : s = a \/ s = p
  BY Peers DEF Peer, Sides
<1>2. /\ UNCHANGED <<outq, bwritten, stolen, sent>> /\ sockfd[a] # "closed" /\ wire[p] # <<>>
      /\ infd' = [infd EXCEPT ![a] = infd'[a]]
      /\ fds' = fds \/ (FreeFds(a) # {} /\ \E f \in Nat : fds' = Installed(a, f))
      /\ infd[a] # NoFd => fds' = fds
  BY <1>1, Received1
<1>3. PICK n \in 1..Len(wire[p]) :
        /\ \/ /\ wire' = [wire EXCEPT ![p] = SubSeq(wire[p], n + 1, Len(wire[p]))]
              /\ UNCHANGED sockfd
           \/ Close(a)
        /\ \/ delivered' = delivered /\ KeepsFile(p, c)
           \/ /\ m.hasFd => infd[a] # NoFd
              /\ delivered' = [delivered EXCEPT ![a] = Append(delivered[a], Complete(p))]
              /\ IF bread'[a] = 0 THEN infd'[a] = NoFd
                 ELSE c + 1 \in DOMAIN sent[p] /\ KeepsFile(p, c + 1)
  BY <1>1, Received1
<1>4. /\ c \in DOMAIN sent[p] /\ m \in Messages /\ (m.hasFd <=> m.file # NoFile)
  BY <1>1, <1>2, AtHand
<1>5. /\ wire \in [Sides -> Seq(Pieces)] /\ infd \in [Sides -> Fds \cup {NoFd}]
      /\ delivered \in [Sides -> Seq(Messages)] /\ fds \in [Sides -> [Fds -> Nat]]
      /\ sockfd \in [Sides -> {"none", "open", "closed"}]
  BY DEF FramingInv, Typed
<1>6. Len(delivered[a]) \in Nat /\ Accepted(p) = delivered[a] /\ c = Len(delivered[a]) + 1
  BY <1>1, <1>5 DEF Accepted, Next1
<1>7. infd'[p] = infd[p] /\ delivered'[p] = delivered[p] /\ fds'[p] = fds[p]
  <2>1. delivered'[p] = delivered[p]
    <3> HIDE DEF p
    <3> QED BY <1>1, <1>3, <1>5
  <2>2. fds'[p] = fds[p]
    <3> HIDE DEF p
    <3> QED BY <1>1, <1>2, <1>5 DEF Installed
  <2> HIDE DEF p
  <2> QED BY <1>1, <1>2, <1>5, <2>1, <2>2
<1>8. NoTheft' = NoTheft /\ \A s \in Sides : Unpassed(s)' = Unpassed(s)
  BY <1>2 DEF NoTheft, Unpassed
<1>9. \A s \in Sides : Descriptors(s)'
  <2> SUFFICES ASSUME NEW s \in Sides PROVE Descriptors(s)'
    OBVIOUS
  <2>1. Descriptors(s)
    BY DEF FilesKnown
  <2>2. \A x \in Fds : fds[s][x] # NoFile => fds'[s][x] = fds[s][x]
    BY <1>2, Installing
  <2> QED BY <1>2, <1>8, <2>1, <2>2, UnpassedFiles DEF Descriptors
<1>10. WireFiles(a)'
  <2>1. wire'[a] = wire[a] \/ wire'[a] = <<>>
    <3> HIDE DEF p
    <3> QED BY <1>1, <1>3, <1>5 DEF Close
  <2>2. sockfd'[p] = sockfd[p]
    <3> HIDE DEF p
    <3> QED BY <1>1, <1>3, <1>5 DEF Close
  <2>3. WireFiles(a)
    BY DEF FilesKnown
  <2> QED BY <1>2, <2>1, <2>2, <2>3 DEF WireFiles
<1>11. WireFiles(p)'
  <2> SUFFICES ASSUME sockfd'[a] # "closed", ~stolen[p],
                      NEW k \in DOMAIN wire'[p], NEW i \in DOMAIN sent[p],
                      sent[p][i].start + 1 = wire'[p][k].at
               PROVE  wire'[p][k].file = sent[p][i].file
    BY <1>1, <1>2 DEF WireFiles
  <2>1. wire' = [wire EXCEPT ![p] = SubSeq(wire[p], n + 1, Len(wire[p]))]
    BY <1>3, <1>5 DEF Close
  <2>2. /\ Len(wire[p]) \in Nat /\ n \in 0..Len(wire[p]) /\ wire[p] \in Seq(Pieces)
        /\ DOMAIN wire[p] = 1..Len(wire[p])
    BY <1>1, Parts
  <2>3. /\ wire'[p] = SubSeq(wire[p], n + 1, Len(wire[p]))
        /\ DOMAIN wire'[p] = 1..Len(wire[p]) - n
    BY <1>1, <1>5, <2>1, <2>2, Rest
  <2>4. n + k \in 1..Len(wire[p]) /\ wire'[p][k] = wire[p][n + k]
    BY <2>2, <2>3, Rest
  <2>5. WireFiles(p)
    BY <1>1 DEF FilesKnown
  <2> QED BY <1>1, <1>2, <2>2, <2>4, <2>5 DEF WireFiles
<1>12. HeldFile(a)'
  <2>1. sockfd'[p] # "closed" => sockfd[p] # "closed"
    <3> HIDE DEF p
    <3> QED BY <1>1, <1>3, <1>5 DEF Close
  <2>2. HeldFile(a) /\ Next1(a)' = Next1(a)
    BY <1>7 DEF FilesKnown, Next1, Accepted
  <2> QED BY <1>1, <1>2, <1>7, <1>8, <2>1, <2>2 DEF HeldFile
<1>13. HeldFile(p)'
  <2> SUFFICES ASSUME sockfd'[a] # "closed", NoTheft, infd'[a] # NoFd
               PROVE  /\ fds'[a][infd'[a]] = sent[p][Next1(p)'].file
                      /\ \A k \in Unpassed(a) : outq[a][k].fd # infd'[a]
    BY <1>1, <1>2, <1>8 DEF HeldFile
  <2>1. CASE delivered' = delivered /\ KeepsFile(p, c)
    <3>1. Next1(p)' = c
      BY <2>1 DEF Next1, Accepted
    <3> QED BY <1>1, <1>4, <2>1, <3>1, RecvHeld
  <2>2. CASE /\ delivered' = [delivered EXCEPT ![a] = Append(delivered[a], Complete(p))]
             /\ c + 1 \in DOMAIN sent[p] /\ KeepsFile(p, c + 1)
    <3>1. Len(delivered'[a]) = Len(delivered[a]) + 1
      BY <1>5, <2>2
    <3>2. Next1(p)' = c + 1
      BY <1>1, <1>6, <3>1 DEF Next1, Accepted
    <3>3. delivered' # delivered
      BY <1>6, <3>1
    <3> QED BY <1>1, <2>2, <3>2, <3>3, RecvHeld
  <2> QED BY <1>3, <2>1, <2>2
<1>14. Arrived(a)'
  <2>1. Arrived(a) /\ Accepted(a)' = Accepted(a)
    BY <1>7 DEF FilesKnown, Accepted
  <2> QED BY <1>2, <1>8, <2>1 DEF Arrived
<1>15. Arrived(p)'
  <2> SUFFICES ASSUME NoTheft, NEW i \in DOMAIN delivered'[a]
               PROVE  delivered'[a][i] = sent[p][i]
    BY <1>1, <1>2, <1>8 DEF Arrived, Accepted
  <2>1. \A x \in DOMAIN delivered[a] : delivered[a][x] = sent[p][x]
    BY <1>1 DEF FilesKnown, Arrived, Accepted
  <2>2. CASE delivered' = delivered
    BY <2>1, <2>2
  <2>3. CASE /\ m.hasFd => infd[a] # NoFd
             /\ delivered' = [delivered EXCEPT ![a] = Append(delivered[a], Complete(p))]
    <3>1. delivered'[a] = Append(delivered[a], Complete(p))
      BY <1>5, <2>3
    <3>2. DOMAIN delivered[a] = 1..Len(delivered[a])
      BY <1>5
    <3>3. \/ i \in 1..Len(delivered[a]) /\ delivered'[a][i] = delivered[a][i]
          \/ i = c /\ delivered'[a][i] = Complete(p)
      <4> DEFINE q == delivered[a]  r == delivered'[a]
      <4>1. q \in Seq(Messages) /\ r = Append(q, Complete(p)) /\ i \in DOMAIN r
        BY <1>5, <3>1
      <4> HIDE DEF q, r
      <4>2. /\ DOMAIN r = 1..Len(q) + 1 /\ r[Len(q) + 1] = Complete(p) /\ Len(q) \in Nat
            /\ \A k \in 1..Len(q) : r[k] = q[k]
        BY <4>1
      <4>3. i \in 1..Len(q) \/ i = Len(q) + 1
        BY <4>1, <4>2
      <4> QED BY <1>6, <4>2, <4>3 DEF q, r
    <3>4. Complete(p) = m
      <4>1. CASE m.hasFd
        <5>1. infd[a] # NoFd /\ fds' = fds
          BY <1>2, <2>3, <4>1
        <5>2. fds[a][infd[a]] = m.file
          BY <1>1, <1>2, <5>1 DEF FilesKnown, HeldFile
        <5>3. Complete(p) = [m EXCEPT !.file = m.file]
          BY <1>1, <4>1, <5>1, <5>2 DEF Complete
        <5> HIDE DEF m
        <5> QED BY <1>4, <5>3 DEF Messages
      <4>2. CASE ~m.hasFd
        <5>1. Complete(p) = [m EXCEPT !.file = m.file]
          BY <1>4, <4>2 DEF Complete
        <5> HIDE DEF m
        <5> QED BY <1>4, <5>1 DEF Messages
      <4> QED BY <4>1, <4>2
    <3> QED BY <2>1, <3>2, <3>3, <3>4
  <2> QED BY <1>3, <2>2, <2>3
<1> QED BY <1>1, <1>9, <1>10, <1>11, <1>12, <1>13, <1>14, <1>15 DEF FilesKnown

\* The queues after one side has queued a message, with no number or with one
\* that was free and refers to the message's file now.
LEMMA QueueingSettles ==
    ASSUME FramingInv, FilesKnown, NEW a \in Sides, NEW m \in Messages,
           QueueOutgoing(a, m), m.start = Total(a),
           m.fd = NoFd \/ (fds[a][m.fd] = NoFile /\ fds'[a][m.fd] = m.file),
           UNCHANGED <<bwritten, infd, delivered, stolen, wire>>,
           \A x \in Sides : sockfd[x] = "closed" => sockfd'[x] = "closed",
           \A x \in Sides, n \in Fds : fds[x][n] # NoFile => fds'[x][n] = fds[x][n]
    PROVE  FilesKnown'
<1>1. outq \in [Sides -> Seq(Messages)] /\ sent \in [Sides -> Seq(Messages)]
  BY DEF FramingInv, Typed
<1>2. /\ outq' = [outq EXCEPT ![a] = Append(outq[a], m)]
      /\ sent' = [sent EXCEPT ![a] = Append(sent[a], m)]
  BY DEF QueueOutgoing
<1>3. ASSUME NEW x \in Sides
      PROVE  \/ outq'[x] = outq[x] /\ sent'[x] = sent[x]
             \/ \E m1 \in Messages :
                  /\ outq'[x] = Append(outq[x], m1) /\ sent'[x] = Append(sent[x], m1)
                  /\ m1.start = Total(x)
                  /\ m1.fd = NoFd \/ (fds[x][m1.fd] = NoFile /\ fds'[x][m1.fd] = m1.file)
  <2>1. CASE x = a
    BY <1>1, <1>2, <2>1
  <2>2. CASE x # a
    BY <1>1, <1>2, <2>2
  <2> QED BY <2>1, <2>2
<1> QED BY <1>3, Settled

LEMMA FilesInit == Init => FilesKnown
<1> SUFFICES ASSUME Init, NEW s \in Sides
             PROVE  Descriptors(s) /\ WireFiles(s) /\ HeldFile(s) /\ Arrived(s)
  BY DEF FilesKnown
<1>1. /\ outq[s] = <<>> /\ wire[s] = <<>> /\ delivered[Peer(s)] = <<>> /\ infd[Peer(s)] = NoFd
  BY Peers DEF Init
<1>2. DOMAIN <<>> = {}
  OBVIOUS
<1> QED BY <1>1, <1>2 DEF Descriptors, Unpassed, WireFiles, HeldFile, Arrived, Accepted

LEMMA FilesNext ==
    ASSUME FramingInv, FilesKnown, [Next]_vars
    PROVE  FilesKnown'
<1>1. CASE UNCHANGED vars
  BY <1>1, Settled DEF vars, history
<1>2. CASE Next
  <2>1. PICK a \in Sides : Run(a) \/ Application(a)
    BY <1>2 DEF Next
  <2>2. Typed /\ sockfd \in [Sides -> {"none", "open", "closed"}]
    BY DEF FramingInv, Typed
  <2>3. CASE Open(a)
    <3> DEFINE m == Message("body", 0, NoFd, NoFile)
    <3>1. /\ QueueOutgoing(a, m) /\ sockfd[a] = "none"
          /\ sockfd' = [sockfd EXCEPT ![a] = "open"]
          /\ UNCHANGED <<bwritten, infd, fds, wire, delivered, stolen>>
      BY <2>3 DEF Open, history
    <3>2. m \in Messages /\ m.start = 0 /\ m.fd = NoFd
      <4>1. 0 \in Nat /\ NoFd \in Fds \cup {NoFd} /\ NoFile \in Nat
        BY DEF NoFile
      <4> QED BY <4>1, Made
    <3>3. Total(a) = 0
      BY <2>2, <3>1 DEF Typed, Total
    <3>4. \A x \in Sides : sockfd[x] = "closed" => sockfd'[x] = "closed"
      BY <2>2, <3>1
    <3> HIDE DEF m
    <3> QED BY <3>1, <3>2, <3>3, <3>4, QueueingSettles
  <2>4. CASE TimerR_Timer(a) \/ Written(a) \/ NothingToRead(a)
    <3>1. UNCHANGED <<sockfd, outq, bwritten, infd, fds, wire, stolen, sent, delivered>>
      BY <2>4 DEF TimerR_Timer, Written, NothingToRead, Reading, history
    <3> QED BY <3>1, Settled
  <2>5. CASE AppCloses(a) \/ NothingToSend(a) \/ SendFails(a) \/ ReadRefused(a)
             \/ Misreads(a) \/ PeerClosed(a)
    <3>1. /\ sockfd' = [sockfd EXCEPT ![a] = "closed"] /\ wire' = [wire EXCEPT ![Peer(a)] = <<>>]
          /\ UNCHANGED <<outq, bwritten, infd, stolen, sent, delivered>>
      BY <2>5 DEF AppCloses, Act, NothingToSend, SendFails, ReadRefused, ReadError, Reading,
                  Misreads, PeerClosed, Close, history
    <3>2. \/ fds' = fds
          \/ FreeFds(a) # {} /\ \E f \in Nat : fds' = Installed(a, f)
      <4>1. CASE ReadRefused(a) \/ Misreads(a)
        <5>1. fds' = fds \/ ReceiveFile(a)
          BY <4>1 DEF ReadRefused, Misreads
        <5>2. sockfd[a] # "closed"
          BY <2>2, <4>1 DEF Typed, Reading, ReadRefused, Misreads
        <5>3. ReceiveFile(a) => fds' = fds
                    \/ (FreeFds(a) # {} /\ \E f \in Nat : fds' = Installed(a, f))
          BY <5>2, ReceivesOne
        <5> QED BY <5>1, <5>3
      <4>2. CASE AppCloses(a) \/ NothingToSend(a) \/ SendFails(a) \/ PeerClosed(a)
        BY <4>2 DEF AppCloses, NothingToSend, SendFails, PeerClosed
      <4> QED BY <2>5, <4>1, <4>2
    <3>3. \A x \in Sides, n \in Fds : fds[x][n] # NoFile => fds'[x][n] = fds[x][n]
      BY <3>2, Installing
    <3>4. \A x \in Sides : sockfd[x] = "closed" => sockfd'[x] = "closed"
      BY <2>2, <3>1
    <3>5. \A x \in Sides : wire'[x] = wire[x] \/ sockfd'[Peer(x)] = "closed"
      <4>1. wire \in [Sides -> Seq(Pieces)]
        BY <2>2 DEF Typed
      <4>2. \A x \in Sides : x = Peer(a) \/ Peer(x) # a
        BY Peers DEF Peer, Sides
      <4>3. \A x \in Sides : x = Peer(a) => Peer(x) = a
        BY Peers
      <4> QED BY <2>2, <3>1, <4>1, <4>2, <4>3
    <3> QED BY <3>1, <3>3, <3>4, <3>5, Settled
  <2>6. CASE SendMsg(a)
    BY <2>6, SendKnown
  <2>7. CASE RecvMsg(a)
    BY <2>7, RecvKnown
  <2>8. CASE SendPlain(a)
    <3>1. PICK act \in {"body", "empty", "badfd"} :
            Act(a, act) /\ QueueOutgoing(a, Message(act, Total(a), NoFd, NoFile))
      BY <2>8 DEF SendPlain
    <3> DEFINE m == Message(act, Total(a), NoFd, NoFile)
    <3>2. UNCHANGED <<sockfd, fds, wire, bwritten, infd, stolen, delivered>>
      BY <2>2, <2>8, <3>1, Acting DEF SendPlain
    <3>3. m \in Messages /\ m.start = Total(a) /\ m.fd = NoFd
      <4>1. Total(a) \in Nat /\ NoFd \in Fds \cup {NoFd} /\ NoFile \in Nat
        BY Parts, Extent DEF NoFile
      <4> QED BY <4>1, Made
    <3>4. QueueOutgoing(a, m)
      BY <3>1
    <3> HIDE DEF m
    <3> QED BY <3>2, <3>3, <3>4, QueueingSettles
  <2>9. CASE SendFile(a)
    <3> DEFINE m == Message("file", Total(a), LowestFd(a), files')
    <3>1. /\ OpenFile(a) /\ QueueOutgoing(a, m)
          /\ UNCHANGED <<sockfd, wire, bwritten, infd, stolen, delivered>>
      BY <2>2, <2>9, Acting DEF SendFile
    <3>2. /\ LowestFd(a) \in Fds /\ fds[a][LowestFd(a)] = NoFile /\ files' \in Nat
          /\ fds' = [fds EXCEPT ![a] = [@ EXCEPT ![LowestFd(a)] = files']]
      BY <2>2, <3>1, Opening
    <3>3. m \in Messages /\ m.start = Total(a) /\ m.fd = LowestFd(a) /\ m.file = files'
      <4>1. Total(a) \in Nat /\ LowestFd(a) \in Fds \cup {NoFd} /\ files' \in Nat
        BY <3>2, Parts, Extent
      <4> QED BY <4>1, Made
    <3> HIDE DEF m
    <3>4. fds'[a][m.fd] = m.file
      <4>1. fds \in [Sides -> [Fds -> Nat]]
        BY <2>2 DEF Typed
      <4> QED BY <3>2, <3>3, <4>1
    <3>5. \A x \in Sides, n \in Fds : fds[x][n] # NoFile => fds'[x][n] = fds[x][n]
      BY <3>1, <3>2, Installing DEF OpenFile
    <3> QED BY <3>1, <3>2, <3>3, <3>4, <3>5, QueueingSettles
  <2>10. CASE AppOpens(a)
    <3>1. /\ OpenFile(a)
          /\ UNCHANGED <<sockfd, outq, wire, sent, bwritten, infd, stolen, delivered>>
      BY <2>2, <2>10, Acting DEF AppOpens
    <3>2. files' \in Nat /\ fds' = Installed(a, files') /\ FreeFds(a) # {}
      BY <2>2, <3>1, Opening DEF OpenFile
    <3>3. \A x \in Sides, n \in Fds : fds[x][n] # NoFile => fds'[x][n] = fds[x][n]
      BY <3>2, Installing
    <3> QED BY <3>1, <3>3, Settled
  <2> QED BY <2>1, <2>3, <2>4, <2>5, <2>6, <2>7, <2>8, <2>9, <2>10
        DEF Run, Serve, Application
<1> QED BY <1>1, <1>2

\* Both invariants, and what follows from them.
LEMMA FilesAreKnown == Spec => [](FramingInv /\ FilesKnown)
<1>1. Init => FramingInv /\ FilesKnown
  BY FramingInit, FilesInit
<1>2. FramingInv /\ FilesKnown /\ [Next]_vars => (FramingInv /\ FilesKnown)'
  BY FramingNext, FilesNext
<1> QED BY <1>1, <1>2, PTL DEF Spec, Safety

\* What is under way between two processes is, whatever the parts sendmsg and
\* recvmsg make of it, the stretch of one stream from where its reader is to
\* where its writer is, with each file at the first piece of its message, unless
\* a write had closed that file before (WriteOutgoing's and ReadIncoming's
\* bwritten, bread and erasing of _outq).
THEOREM StreamIsWhole == Spec => []StreamWhole
<1>1. FramingInv /\ FilesKnown => StreamWhole
  <2> SUFFICES ASSUME FramingInv, FilesKnown, NEW s \in Sides, sockfd[Peer(s)] # "closed"
               PROVE  /\ ReadTo(s) + Len(wire[s]) = WrittenTo(s)
                      /\ \A k \in DOMAIN wire[s] :
                          /\ wire[s][k].at = ReadTo(s) + k
                          /\ wire[s][k].file # NoFile => \E i \in DOMAIN sent[s] :
                                /\ sent[s][i].start + 1 = wire[s][k].at /\ sent[s][i].hasFd
                                /\ stolen[s] \/ sent[s][i].file = wire[s][k].file
    BY DEF StreamWhole
  <2>1. Whole(s) /\ WithFiles(s)
    BY Reading1
  <2>2. ASSUME NEW k \in DOMAIN wire[s], wire[s][k].file # NoFile
        PROVE  \E i \in DOMAIN sent[s] :
                 /\ sent[s][i].start + 1 = wire[s][k].at /\ sent[s][i].hasFd
                 /\ stolen[s] \/ sent[s][i].file = wire[s][k].file
    <3>1. PICK i \in DOMAIN sent[s] : sent[s][i].start + 1 = wire[s][k].at
      BY <2>1, <2>2 DEF WithFiles
    <3>2. sent[s][i].file # NoFile
      BY <2>1, <2>2, <3>1 DEF WithFiles
    <3>3. sent[s][i].hasFd
      <4>1. sent[s][i] \in Messages
        BY Parts
      <4> QED BY <3>2, <4>1, Parts DEF FilesSent, Messages
    <3>4. ~stolen[s] => wire[s][k].file = sent[s][i].file
      BY <3>1 DEF FilesKnown, WireFiles
    <3> QED BY <3>1, <3>3, <3>4
  <2> QED BY <2>1, <2>2 DEF Whole
<1> QED BY <1>1, FilesAreKnown, PTL

\* A descriptor ReadIncoming holds in _infd is for the message whose header it is
\* reading (xcom.cc:607), and refers to the file passed with that message as long
\* as no write has closed a file it did not pass.
THEOREM FilesComeToHand == Spec => []FileInHand
<1>1. FramingInv /\ FilesKnown => FileInHand
  <2> SUFFICES ASSUME FramingInv, FilesKnown, NEW s \in Sides, infd[s] # NoFd, sockfd[s] = "open"
               PROVE  /\ bread[s] > 0 /\ Incoming(s).hasFd
                      /\ NoTheft => fds[s][infd[s]] = Incoming(s).file
    BY DEF FileInHand
  <2> DEFINE p == Peer(s)
  <2>1. p \in Sides /\ Peer(p) = s
    BY Peers
  <2>2. /\ bread[s] > 0 /\ Next1(p) \in DOMAIN sent[p]
        /\ sent[p][Next1(p)].file # NoFile
    BY <2>1, Holding
  <2>3. Incoming(s) = sent[p][Next1(p)]
    BY <2>1 DEF Incoming, Next1, Accepted
  <2>4. sent[p][Next1(p)].hasFd
    <3>1. sent[p][Next1(p)] \in Messages
      BY <2>1, <2>2, Parts
    <3> QED BY <2>1, <2>2, <3>1, Parts DEF FilesSent, Messages
  <2>5. NoTheft => fds[s][infd[s]] = sent[p][Next1(p)].file
    BY <2>1 DEF FilesKnown, HeldFile
  <2> QED BY <2>2, <2>3, <2>4, <2>5
<1> QED BY <1>1, FilesAreKnown, PTL

-----------------------------------------------------------------------------
(* Errors *)

\* What each error, and an abort, needs to have happened.
Explains(s, e) ==
    /\ e = "EPIPE" => sockfd[Peer(s)] = "closed"
    /\ e = "EMSGSIZE" => 2 * Len(outq[s]) > MaxIOVecs
    /\ e = "EBADF" => stolen[s]
    /\ e = "EFAULT" => split[Peer(s)]
    /\ e = "multiple file descriptors" =>
        \E k \in 2..Len(sent[Peer(s)]) : sent[Peer(s)][k].hasFd /\ sent[Peer(s)][k-1].hasFd
    /\ e = "invalid message" => full[s]
Explained(s) == Explains(s, error[s]) /\ (pc[s] = "aborted" => split[Peer(s)])

LEMMA ErrorParts == ErrorExplained <=> \A s \in Sides : Explained(s)
BY DEF ErrorExplained, Explained, Explains

\* The explanations stay true.
LEMMA StaysExplained ==
    ASSUME NEW s \in Sides, NEW e, Explains(s, e),
           sent[Peer(s)] \in Seq(Messages), sent'[Peer(s)] \in Seq(Messages),
           sockfd[Peer(s)] = "closed" => sockfd'[Peer(s)] = "closed",
           split[Peer(s)] => split'[Peer(s)], stolen[s] => stolen'[s], full[s] => full'[s],
           e = "EMSGSIZE" /\ 2 * Len(outq[s]) > MaxIOVecs => 2 * Len(outq'[s]) > MaxIOVecs,
           \/ sent'[Peer(s)] = sent[Peer(s)]
           \/ \E m : sent'[Peer(s)] = Append(sent[Peer(s)], m)
    PROVE  Explains(s, e)'
<1>1. \A k \in 2..Len(sent[Peer(s)]) :
        /\ k \in 2..Len(sent'[Peer(s)])
        /\ sent'[Peer(s)][k] = sent[Peer(s)][k] /\ sent'[Peer(s)][k-1] = sent[Peer(s)][k-1]
  OBVIOUS
<1>2. e = "multiple file descriptors" => \E k \in 2..Len(sent'[Peer(s)]) :
        sent'[Peer(s)][k].hasFd /\ sent'[Peer(s)][k-1].hasFd
  BY <1>1 DEF Explains
<1> QED BY <1>2 DEF Explains

\* A fixed header received in part was split by a write.
LEMMA SplitReceived ==
    ASSUME FramingInv, NEW a \in Sides, pc[a] = "read",
           Unallocated(a) \/ (Received(a) # <<>> /\ Misread(a))
    PROVE  split[Peer(a)]
<1> DEFINE p == Peer(a)
<1>1. p \in Sides /\ Peer(p) = a
  BY Peers
<1>2. sockfd[a] # "closed" /\ bread[a] \in Nat
  BY <1>1, Parts DEF FramingInv, Typed
<1>3. wire[p] # <<>>
  <2> SUFFICES ASSUME wire[p] = <<>> PROVE FALSE
    OBVIOUS
  <2>1. Received(a) = <<>>
    BY <1>1, <1>2, EmptyReceived
  <2>2. Len(Received(a)) = 0
    BY <2>1
  <2> QED BY <1>2, <2>1, <2>2 DEF Unallocated, HeaderRoom, FixedSz
<1>4. PICK n \in 1..Len(wire[p]) :
        /\ Len(Received(a)) = n /\ n <= Room(a)
        /\ \/ n = Len(wire[p]) \/ n = Room(a)
           \/ n + 1 \in DOMAIN wire[p] /\ wire[p][n+1].file # NoFile
  BY <1>1, <1>2, <1>3, Reception
<1>5. n \in Nat \ {0}
  BY <1>1, Parts
<1>6. CASE Unallocated(a)
  <2>1. bread[a] < 2 /\ n > 2 - bread[a]
    BY <1>4, <1>6 DEF Unallocated, HeaderRoom, FixedSz
  <2>2. bread[a] = 0 => Room(a) = 2
    BY <1>1, <1>2, Rooms DEF FixedSz
  <2>3. bread[a] = 1
    BY <1>2, <1>4, <1>5, <2>1, <2>2
  <2>4. InMessage(p)
    BY <1>1, <1>2, Reading1
  <2> QED BY <1>1, <2>3, <2>4 DEF InMessage, FixedSz
<1>7. CASE Misread(a)
  <2>1. bread[a] + n < 2
    BY <1>4, <1>7 DEF Misread, FixedSz
  <2>2. bread[a] = 0 /\ n = 1
    BY <1>2, <1>5, <2>1
  <2>3. Room(a) = 2
    BY <1>1, <1>2, <2>2, Rooms DEF FixedSz
  <2>4. n = Len(wire[p]) \/ (n + 1 \in DOMAIN wire[p] /\ wire[p][n+1].file # NoFile)
    BY <1>4, <2>2, <2>3
  <2>5. Next1(p) \in DOMAIN sent[p] /\ sent[p][Next1(p)].start + 1 = ReadTo(p) + n
    <3>1. /\ Next1(p) \in DOMAIN sent[p] /\ sent[p][Next1(p)] \in Messages
          /\ ReadTo(p) = sent[p][Next1(p)].start + bread[a]
      BY <1>1, <1>2, <1>3, AtHand
    <3>2. sent[p][Next1(p)].start \in Nat
      BY <3>1, Sizes
    <3> QED BY <2>2, <3>1, <3>2
  <2> QED BY <1>1, <1>2, <1>3, <2>4, <2>5, StopsWithin
<1> QED BY <1>6, <1>7

\* A second file is the next message's.
LEMMA SecondReceived ==
    ASSUME FramingInv, NEW a \in Sides, pc[a] = "read", ~Unallocated(a), SecondFile(a)
    PROVE  \E k \in 2..Len(sent[Peer(a)]) : sent[Peer(a)][k].hasFd /\ sent[Peer(a)][k-1].hasFd
<1> DEFINE p == Peer(a)  c == Next1(p)  m == sent[p][c]  f == FileOf(Received(a))
<1>1. p \in Sides /\ Peer(p) = a
  BY Peers
<1>2. sockfd[a] # "closed" /\ bread[a] \in Nat
  BY <1>1, Parts DEF FramingInv, Typed
<1>3. f # NoFile /\ infd[a] # NoFd
  BY DEF SecondFile, ReceivedFd
<1>4. wire[p] # <<>>
  <2> SUFFICES ASSUME wire[p] = <<>> PROVE FALSE
    OBVIOUS
  <2>1. Received(a) = <<>>
    BY <1>1, <1>2, EmptyReceived
  <2>2. f = NoFile
    BY <2>1 DEF FileOf
  <2> QED BY <1>3, <2>2
<1>5. PICK n \in 1..Len(wire[p]) :
        /\ Len(Received(a)) = n /\ n <= Room(a)
        /\ \A k \in 1..n : wire[p][k].file # NoFile => f = wire[p][k].file
        /\ f \in Nat
        /\ f # NoFile => \E k \in 1..n : wire[p][k].file = f
  BY <1>1, <1>2, <1>4, Reception
<1>6. /\ c \in DOMAIN sent[p] /\ m \in Messages /\ Incoming(a) = m
      /\ bread[a] < Size(m) /\ ReadTo(p) = m.start + bread[a]
      /\ WrittenTo(p) = ReadTo(p) + Len(wire[p]) /\ Len(wire[p]) \in Nat
      /\ (m.hasFd <=> m.file # NoFile)
  BY <1>1, <1>2, <1>4, AtHand
<1>7. /\ Size(m) \in {3, 5} /\ m.sz \in {0, 2} /\ Size(m) = m.sz + 3 /\ m.start \in Nat
      /\ End(m) = m.start + Size(m) /\ m.hasFd \in BOOLEAN
  BY <1>6, Sizes
<1>8. bread[a] # 0 /\ m.hasFd
  BY <1>1, <1>2, <1>3, <1>6, Holding
<1>9. n \in Nat /\ n <= Len(wire[p])
  BY <1>5, <1>6
<1> HIDE DEF p, c, m, f
<1>10. Size(m) < bread[a] + n
  <2> SUFFICES ASSUME ~(Size(m) < bread[a] + n) PROVE FALSE
    OBVIOUS
  <2>1. bread[a] + n <= Size(m)
    BY <1>2, <1>7, <1>9
  <2>2. f # NoFile => bread[a] = 0
    <3> USE DEF m, c
    <3> QED BY <1>1, <1>2, <1>4, <1>5, <2>1, HeldWithin
  <2> QED BY <1>3, <1>8, <2>2
<1>11. bread[a] + n <= Size(m) + 2
  <2>1. bread[a] < 2 => n <= 2 - bread[a]
    BY <1>2, <1>5, <1>9 DEF Unallocated, HeaderRoom, FixedSz
  <2>2. bread[a] >= 2 => Room(a) = Size(m) - bread[a] + 2
    <3>1. Room(a) = IF bread[a] < FixedSz THEN FixedSz - bread[a] + Incoming(a).sz
                    ELSE Size(Incoming(a)) - bread[a] + FixedSz
      BY <1>1, <1>2, <1>8, Rooms
    <3> QED BY <1>2, <1>6, <3>1 DEF FixedSz
  <2> QED BY <1>2, <1>5, <1>7, <1>9, <2>1, <2>2
<1>12. c + 1 \in DOMAIN sent[p] /\ (f # NoFile <=> sent[p][c+1].file # NoFile)
  <2>1. bread[a] + n <= Size(m) + FixedSz
    BY <1>11 DEF FixedSz
  <2> USE DEF m, c
  <2> QED BY <1>1, <1>2, <1>4, <1>5, <1>8, <1>10, <2>1, HeldBeyond
<1>13. sent[p][c+1].hasFd
  <2>1. End(m) < WrittenTo(p)
    BY <1>2, <1>6, <1>7, <1>9, <1>10
  <2>2. sent[p][c+1].hasFd <=> sent[p][c+1].file # NoFile
    BY <1>1, <1>6, <2>1, NextAtHand DEF m
  <2> QED BY <1>3, <1>12, <2>2
<1>14. c + 1 \in 2..Len(sent[p]) /\ (c + 1) - 1 = c
  <2>1. DOMAIN sent[p] = 1..Len(sent[p]) /\ Len(sent[p]) \in Nat
    BY <1>1, Parts
  <2> QED BY <1>6, <1>12, <2>1
<1> QED BY <1>8, <1>13, <1>14 DEF m, p


\* sendmsg fails because the other end has closed, because too much is queued,
\* or because a write of an earlier message has closed the file.
LEMMA SendExplained ==
    ASSUME FramingInv, FilesKnown, NEW a \in Sides, outq[a] # <<>>, SendError(a) # "no"
    PROVE  Explains(a, SendError(a))
<1>1. TooMany(a) => 2 * Len(outq[a]) > MaxIOVecs
  <2>1. Aggregated(a) \in 0..Len(outq[a]) /\ Len(outq[a]) \in Nat
    BY Parts, Aggregates
  <2> QED BY <2>1, IOVecsAssumption DEF TooMany
<1>2. BadDescriptor(a) => stolen[a]
  <2> SUFFICES ASSUME BadDescriptor(a), ~stolen[a] PROVE FALSE
    OBVIOUS
  <2>1. 1 \in DOMAIN outq[a]
    BY Parts
  <2>2. outq[a][1].fd # NoFd /\ bwritten[a] = 0 /\ fds[a][outq[a][1].fd] = NoFile
    BY DEF BadDescriptor, PassedFd
  <2>3. 1 \in Unpassed(a)
    BY <2>1, <2>2 DEF Unpassed
  <2>4. fds[a][outq[a][1].fd] = outq[a][1].file /\ outq[a][1].file # NoFile
    BY <2>3, UnpassedFiles DEF FilesKnown, Descriptors
  <2> QED BY <2>2, <2>4
<1> QED BY <1>1, <1>2 DEF SendError, Explains

\* What a step does to the facts that explain errors.
LEMMA FactsGrow ==
    ASSUME FramingInv, NEW a \in Sides, Run(a) \/ Application(a), NEW s \in Sides
    PROVE  /\ sockfd[s] = "closed" => sockfd'[s] = "closed"
           /\ split[s] => split'[s]
           /\ stolen[s] => stolen'[s]
           /\ full[s] => full'[s]
           /\ sent'[s] = sent[s] \/ \E m : sent'[s] = Append(sent[s], m)
           /\ \/ Len(outq'[s]) >= Len(outq[s])
              \/ sockfd[s] = "open" /\ error' = error
<1>1. /\ sockfd \in [Sides -> {"none", "open", "closed"}] /\ split \in [Sides -> BOOLEAN]
      /\ stolen \in [Sides -> BOOLEAN] /\ full \in [Sides -> BOOLEAN]
      /\ sent \in [Sides -> Seq(Messages)] /\ outq \in [Sides -> Seq(Messages)]
  BY DEF FramingInv, Typed
<1>2. Len(outq[s]) \in Nat /\ Len(outq[s]) >= Len(outq[s])
  BY <1>1
<1>3. CASE Open(a) \/ SendPlain(a) \/ SendFile(a)
  <2>1. /\ UNCHANGED <<split, stolen, full>> /\ \E m : QueueOutgoing(a, m)
        /\ \/ sockfd' = sockfd
           \/ sockfd' = [sockfd EXCEPT ![a] = "open"] /\ sockfd[a] = "none"
    BY <1>3 DEF Open, SendPlain, SendFile, Act, history
  <2>2. PICK m : /\ sent' = [sent EXCEPT ![a] = Append(@, m)]
                 /\ outq' = [outq EXCEPT ![a] = Append(@, m)]
    BY <2>1 DEF QueueOutgoing
  <2>3. sent'[s] = sent[s] \/ sent'[s] = Append(sent[s], m)
    BY <1>1, <2>2
  <2>4. Len(outq'[s]) >= Len(outq[s])
    <3>1. outq'[s] = outq[s] \/ outq'[s] = Append(outq[s], m)
      BY <1>1, <2>2
    <3>2. outq[s] \in Seq(Messages)
      BY <1>1
    <3>3. Len(Append(outq[s], m)) = Len(outq[s]) + 1
      BY <3>2
    <3> QED BY <1>2, <3>1, <3>3
  <2> QED BY <1>1, <2>1, <2>3, <2>4
<1>4. CASE AppOpens(a) \/ TimerR_Timer(a) \/ Written(a) \/ NothingToRead(a)
  <2>1. UNCHANGED <<sockfd, split, stolen, full, sent, outq>>
    BY <1>4 DEF AppOpens, Act, TimerR_Timer, Written, NothingToRead, Reading, history
  <2> QED BY <1>2, <2>1
<1>5. CASE AppCloses(a) \/ NothingToSend(a) \/ SendFails(a) \/ ReadRefused(a) \/ Misreads(a)
           \/ PeerClosed(a)
  <2>1. sockfd' = [sockfd EXCEPT ![a] = "closed"] /\ UNCHANGED <<split, stolen, sent, outq>>
    BY <1>5 DEF AppCloses, Act, NothingToSend, SendFails, ReadRefused, ReadError, Reading,
                Misreads, PeerClosed, Close, history
  <2>2. full' = full \/ \E b \in BOOLEAN : full' = [full EXCEPT ![a] = @ \/ b]
    BY <1>5 DEF AppCloses, Act, NothingToSend, SendFails, ReadRefused, Misreads, PeerClosed,
                ReceiveFile, history
  <2>3. full[s] => full'[s]
    BY <1>1, <2>2
  <2> QED BY <1>1, <1>2, <2>1, <2>3
<1>6. CASE SendMsg(a)
  <2>1. /\ UNCHANGED <<sockfd, sent, full, error>>
        /\ split' = [split EXCEPT ![a] = @ \/ bwritten'[a] \in 1..FixedSz-1]
        /\ stolen' = [stolen EXCEPT ![a] = @ \/ ClosesAnother(a)]
        /\ \E q : outq' = [outq EXCEPT ![a] = q]
    BY <1>6, Sent1
  <2>2. sockfd[a] = "open"
    BY <1>6 DEF FramingInv, Typed, SendMsg
  <2>3. s # a => outq'[s] = outq[s]
    BY <1>1, <2>1
  <2> QED BY <1>1, <1>2, <2>1, <2>2, <2>3
<1>7. CASE RecvMsg(a)
  <2>1. /\ UNCHANGED <<split, stolen, sent, outq>> /\ \A x \in Sides : full[x] => full'[x]
        /\ sockfd' = sockfd \/ Close(a)
    <3>1. Peer(a) \in Sides /\ Peer(Peer(a)) = a
      BY Peers
    <3>2. RecvMsg(Peer(Peer(a)))
      BY <1>7, <3>1
    <3>3. /\ UNCHANGED <<split, stolen, sent, outq>> /\ \A x \in Sides : full[x] => full'[x]
          /\ sockfd' = sockfd \/ Close(Peer(Peer(a)))
      BY <3>1, <3>2, Received1
    <3> QED BY <3>1, <3>3
  <2>2. sockfd[s] = "closed" => sockfd'[s] = "closed"
    BY <1>1, <2>1 DEF Close
  <2> QED BY <1>2, <2>1, <2>2
<1> QED BY <1>3, <1>4, <1>5, <1>6, <1>7 DEF Run, Serve, Application

\* An error is explained when it is reported, and so is an abort.
LEMMA NewlyExplained ==
    ASSUME FramingInv, FilesKnown, NEW a \in Sides, Run(a) \/ Application(a), NEW s \in Sides
    PROVE  /\ \/ error'[s] = error[s]
              \/ /\ sockfd'[s] = "closed"
                 /\ Explains(s, error'[s]) \/ (error'[s] = "invalid message" /\ full'[s])
           /\ pc'[s] = "aborted" => pc[s] = "aborted" \/ split[Peer(s)]
<1>1. /\ error \in [Sides -> Errors] /\ sockfd \in [Sides -> {"none", "open", "closed"}]
      /\ pc \in [Sides -> {"idle", "read", "write", "aborted"}]
  BY DEF FramingInv, Typed
<1>2. CASE Open(a) \/ SendPlain(a) \/ SendFile(a)
  BY <1>1, <1>2 DEF Open, SendPlain, SendFile, Act, QueueOutgoing
<1>3. CASE AppOpens(a) \/ TimerR_Timer(a) \/ Written(a) \/ NothingToRead(a)
  BY <1>1, <1>3 DEF AppOpens, Act, TimerR_Timer, Written, NothingToRead, Reading
<1>4. CASE AppCloses(a) \/ NothingToSend(a) \/ PeerClosed(a)
  BY <1>1, <1>4 DEF AppCloses, Act, NothingToSend, PeerClosed, Reading, Close
<1>5. CASE SendFails(a)
  <2>1. /\ error' = [error EXCEPT ![a] = SendError(a)] /\ pc' = [pc EXCEPT ![a] = "idle"]
        /\ sockfd' = [sockfd EXCEPT ![a] = "closed"]
        /\ outq[a] # <<>> /\ SendError(a) # "no"
    BY <1>5 DEF SendFails, Close
  <2>2. Explains(a, SendError(a))
    BY <2>1, SendExplained
  <2> QED BY <1>1, <2>1, <2>2
<1>6. CASE ReadRefused(a)
  <2>1. PICK e \in {"EFAULT", "multiple file descriptors"} :
          /\ error' = [error EXCEPT ![a] = e] /\ pc' = [pc EXCEPT ![a] = "idle"]
          /\ sockfd' = [sockfd EXCEPT ![a] = "closed"]
          /\ pc[a] = "read"
          /\ IF e = "EFAULT" THEN Unallocated(a) ELSE ~Unallocated(a) /\ SecondFile(a)
    BY <1>6 DEF ReadRefused, Reading, ReadError, Close
  <2>2. CASE e = "EFAULT"
    <3>1. split[Peer(a)]
      BY <2>1, <2>2, SplitReceived
    <3>2. Explains(a, "EFAULT")
      BY <3>1 DEF Explains
    <3> QED BY <1>1, <2>1, <2>2, <3>2
  <2>3. CASE e = "multiple file descriptors"
    <3>1. \E k \in 2..Len(sent[Peer(a)]) : sent[Peer(a)][k].hasFd /\ sent[Peer(a)][k-1].hasFd
      BY <2>1, <2>3, SecondReceived
    <3>2. Explains(a, "multiple file descriptors")
      BY <3>1 DEF Explains
    <3> QED BY <1>1, <2>1, <2>3, <3>2
  <2> QED BY <2>1, <2>2, <2>3
<1>7. CASE Misreads(a)
  <2>1. /\ error' = error /\ pc' = [pc EXCEPT ![a] = "aborted"]
        /\ pc[a] = "read" /\ Received(a) # <<>> /\ Misread(a)
    BY <1>7 DEF Misreads, Reading
  <2>2. split[Peer(a)]
    BY <2>1, SplitReceived
  <2> QED BY <1>1, <2>1, <2>2
<1>8. CASE SendMsg(a)
  BY <1>8, Sent1
<1>9. CASE RecvMsg(a)
  <2>1. \/ UNCHANGED <<sockfd, error, pc>>
        \/ /\ Close(a) /\ full'[a]
           /\ error' = [error EXCEPT ![a] = "invalid message"]
    <3>1. Peer(a) \in Sides /\ Peer(Peer(a)) = a
      BY Peers
    <3>2. RecvMsg(Peer(Peer(a)))
      BY <1>9, <3>1
    <3>3. LET p == Peer(Peer(a)) IN
          \/ UNCHANGED <<sockfd, error, pc>>
          \/ /\ Close(p) /\ full'[p] /\ error' = [error EXCEPT ![p] = "invalid message"]
      BY <3>1, <3>2, Received1
    <3> QED BY <3>1, <3>3
  <2> QED BY <1>1, <2>1 DEF Close
<1> QED BY <1>2, <1>3, <1>4, <1>5, <1>6, <1>7, <1>8, <1>9 DEF Run, Serve, Application

\* A side that has reported an error has closed.
ErrorsClose == \A s \in Sides : error[s] # "no" => sockfd[s] = "closed"

\* Each error that WriteOutgoing and ReadIncoming report between two processes of
\* this program has its reason, and so has the assert that ends one: the other
\* end closed; more was queued than sendmsg takes (xcom.cc:500-511); a write
\* closed the file to be passed (527-529); a write ended within a fixed header;
\* two messages with descriptors came on end; the descriptor table was full when
\* one came (607-640).
THEOREM ErrorsAreExplained == Spec => []ErrorExplained
<1> DEFINE Inv == FramingInv /\ FilesKnown /\ ErrorExplained /\ ErrorsClose
<1>1. Init => Inv
  <2>1. Init => ErrorExplained /\ ErrorsClose
    BY DEF Init, ErrorExplained, ErrorsClose
  <2> QED BY <2>1, FramingInit, FilesInit
<1>2. Inv /\ [Next]_vars => Inv'
  <2> SUFFICES ASSUME Inv, [Next]_vars
               PROVE  FramingInv' /\ FilesKnown' /\ ErrorExplained' /\ ErrorsClose'
    OBVIOUS
  <2>1. FramingInv' /\ FilesKnown'
    BY FramingNext, FilesNext
  <2>2. CASE UNCHANGED vars
    BY <2>1, <2>2 DEF vars, history, ErrorExplained, ErrorsClose
  <2>3. CASE Next
    <3>1. PICK a \in Sides : Run(a) \/ Application(a)
      BY <2>3 DEF Next
    <3>2. ASSUME NEW s \in Sides
          PROVE  Explained(s)' /\ (error'[s] # "no" => sockfd'[s] = "closed")
      <4>1. Explained(s) /\ (error[s] # "no" => sockfd[s] = "closed")
        BY ErrorParts DEF ErrorsClose
      <4>2. /\ \/ error'[s] = error[s]
               \/ /\ sockfd'[s] = "closed"
                  /\ Explains(s, error'[s]) \/ (error'[s] = "invalid message" /\ full'[s])
            /\ pc'[s] = "aborted" => pc[s] = "aborted" \/ split[Peer(s)]
        BY <3>1, NewlyExplained
      <4>3. /\ sockfd[Peer(s)] = "closed" => sockfd'[Peer(s)] = "closed"
            /\ split[Peer(s)] => split'[Peer(s)]
            /\ sent'[Peer(s)] = sent[Peer(s)] \/ \E m : sent'[Peer(s)] = Append(sent[Peer(s)], m)
        BY <3>1, Peers, FactsGrow
      <4>4. /\ sockfd[s] = "closed" => sockfd'[s] = "closed"
            /\ stolen[s] => stolen'[s]
            /\ full[s] => full'[s]
            /\ Len(outq'[s]) >= Len(outq[s]) \/ (sockfd[s] = "open" /\ error' = error)
        BY <3>1, FactsGrow
      <4>5. /\ sent[Peer(s)] \in Seq(Messages) /\ sent'[Peer(s)] \in Seq(Messages)
            /\ Len(outq[s]) \in Nat /\ Len(outq'[s]) \in Nat
        <5>1. Typed /\ Typed'
          BY <2>1 DEF FramingInv
        <5>2. /\ sent \in [Sides -> Seq(Messages)] /\ sent' \in [Sides -> Seq(Messages)]
              /\ outq \in [Sides -> Seq(Messages)] /\ outq' \in [Sides -> Seq(Messages)]
          BY <5>1 DEF Typed
        <5> QED BY <5>2, Peers
      <4>6. error'[s] = "EMSGSIZE" /\ 2 * Len(outq[s]) > MaxIOVecs =>
                2 * Len(outq'[s]) > MaxIOVecs
        <5>1. error'[s] = "EMSGSIZE" => Len(outq'[s]) >= Len(outq[s])
          BY <4>1, <4>4
        <5> QED BY <4>5, <5>1, IOVecsAssumption
      <4>7. \A e : e = error'[s] /\ Explains(s, e) => Explains(s, e)'
        BY <4>3, <4>4, <4>5, <4>6, StaysExplained
      <4>8. Explains(s, error'[s]) \/ (error'[s] = "invalid message" /\ full'[s])
        BY <4>1, <4>2 DEF Explained
      <4> QED BY <4>1, <4>2, <4>3, <4>4, <4>7, <4>8 DEF Explained, Explains
    <3> QED BY <2>1, <3>2 DEF ErrorExplained, Explained, Explains, ErrorsClose
  <2> QED BY <2>2, <2>3
<1> QED BY <1>1, <1>2, PTL DEF Spec, Safety

-----------------------------------------------------------------------------
(* Each direction is a Channel *)

LEMMA Appended ==
    ASSUME NEW q \in Seq(Messages), NEW m, NEW r \in Seq(Messages), r = Append(q, m)
    PROVE  Len(r) = Len(q) + 1 /\ SubSeq(r, 1, Len(q)) = q
<1>1. \A i \in 1..Len(q) : r[i] = q[i]
  OBVIOUS
<1>2. Len(r) = Len(q) + 1 /\ Len(q) \in Nat
  OBVIOUS
<1>3. SubSeq(r, 1, Len(q)) \in Seq(Messages) /\ Len(SubSeq(r, 1, Len(q))) = Len(q)
      /\ \A i \in 1..Len(q) : SubSeq(r, 1, Len(q))[i] = r[i]
  BY <1>2
<1>4. SubSeq(r, 1, Len(q)) = q
  BY <1>1, <1>3, SeqEqual
<1> QED BY <1>2, <1>4

\* What a step may do to one stream: a message more at its end, the next one
\* accepted, a side closed, perhaps by the step that accepts one, or a file lost.
Advanced(s) ==
    \/ /\ Len(sent'[s]) = Len(sent[s]) + 1 /\ SubSeq(sent'[s], 1, Len(sent[s])) = sent[s]
       /\ delivered'[Peer(s)] = delivered[Peer(s)] /\ Up' = Up /\ NoTheft' = NoTheft
    \/ LET q == delivered[Peer(s)]
           r == delivered'[Peer(s)]
       IN  /\ Len(q) + 1 <= Len(sent[s])
           /\ Len(r) = Len(q) + 1 /\ SubSeq(r, 1, Len(q)) = q
           /\ ButFile(r[Len(q) + 1]) = ButFile(sent[s][Len(q) + 1])
           /\ NoTheft => r[Len(q) + 1] = sent[s][Len(q) + 1]
           /\ sent'[s] = sent[s] /\ Up' \in {Up, FALSE} /\ NoTheft' = NoTheft
    \/ /\ Up /\ Up' = FALSE /\ NoTheft' = NoTheft
       /\ sent'[s] = sent[s] /\ delivered'[Peer(s)] = delivered[Peer(s)]
    \/ /\ NoTheft /\ NoTheft' = FALSE /\ Up' = Up
       /\ sent'[s] = sent[s] /\ delivered'[Peer(s)] = delivered[Peer(s)]
    \/ /\ sent'[s] = sent[s] /\ delivered'[Peer(s)] = delivered[Peer(s)]
       /\ Up' = Up /\ NoTheft' = NoTheft

LEMMA Advancing ==
    ASSUME FramingInv, FramingInv', FilesKnown', NEW a \in Sides, Run(a) \/ Application(a), NEW s \in Sides
    PROVE  Advanced(s)
<1>0. NoTheft \in BOOLEAN /\ NoTheft' \in BOOLEAN /\ (stolen' = stolen => NoTheft' = NoTheft)
  BY DEF NoTheft
<1>1. /\ sockfd \in [Sides -> {"none", "open", "closed"}]
      /\ sent \in [Sides -> Seq(Messages)] /\ sent' \in [Sides -> Seq(Messages)]
      /\ delivered \in [Sides -> Seq(Messages)] /\ delivered' \in [Sides -> Seq(Messages)]
  BY DEF FramingInv, Typed
<1>2. CASE Open(a) \/ SendPlain(a) \/ SendFile(a)
  <2>1. delivered' = delivered /\ stolen' = stolen /\ \E m : QueueOutgoing(a, m)
    BY <1>2 DEF Open, SendPlain, SendFile, Act, history
  <2>2. Up' = Up
    <3>1. \A x \in Sides : sockfd'[x] = "closed" <=> sockfd[x] = "closed"
      BY <1>1, <1>2 DEF Open, SendPlain, SendFile
    <3> QED BY <3>1 DEF Up
  <2>3. PICK m : sent' = [sent EXCEPT ![a] = Append(@, m)]
    BY <2>1 DEF QueueOutgoing
  <2>4. CASE s = a
    <3>1. sent'[a] = Append(sent[a], m) /\ sent[a] \in Seq(Messages) /\ sent'[a] \in Seq(Messages)
      BY <1>1, <2>3
    <3>2. Len(sent'[a]) = Len(sent[a]) + 1 /\ SubSeq(sent'[a], 1, Len(sent[a])) = sent[a]
      BY <3>1, Appended
    <3> QED BY <1>0, <2>1, <2>2, <2>4, <3>2 DEF Advanced
  <2>5. CASE s # a
    BY <1>0, <1>1, <2>1, <2>2, <2>3, <2>5 DEF Advanced
  <2> QED BY <2>4, <2>5
<1>3. CASE AppOpens(a) \/ TimerR_Timer(a) \/ Written(a) \/ NothingToRead(a) \/ SendMsg(a)
  <2>1. UNCHANGED <<sockfd, sent, delivered>>
    BY <1>3, Sent1 DEF AppOpens, Act, TimerR_Timer, Written, NothingToRead, Reading, history
  <2>2. Up' = Up
    BY <2>1 DEF Up
  <2>3. NoTheft' => NoTheft
    <3>1. stolen' = stolen \/ stolen' = [stolen EXCEPT ![a] = @ \/ ClosesAnother(a)]
      BY <1>3, Sent1 DEF AppOpens, Act, TimerR_Timer, Written, NothingToRead, Reading, history
    <3>2. stolen \in [Sides -> BOOLEAN]
      BY DEF FramingInv, Typed
    <3>3. \A x \in Sides : stolen[x] => stolen'[x]
      <4> TAKE x \in Sides
      <4>1. CASE x # a
        BY <3>1, <3>2, <4>1
      <4>2. CASE x = a
        <5>1. stolen'[a] = stolen[a] \/ stolen'[a] = (stolen[a] \/ ClosesAnother(a))
          BY <3>1, <3>2
        <5> QED BY <4>2, <5>1
      <4> QED BY <4>1, <4>2
    <3> QED BY <3>3 DEF NoTheft
  <2> QED BY <1>0, <2>1, <2>2, <2>3 DEF Advanced
<1>4. CASE AppCloses(a) \/ NothingToSend(a) \/ SendFails(a) \/ ReadRefused(a) \/ Misreads(a)
           \/ PeerClosed(a)
  <2>1. sockfd' = [sockfd EXCEPT ![a] = "closed"] /\ UNCHANGED <<delivered, sent, stolen>>
    BY <1>4 DEF AppCloses, Act, NothingToSend, SendFails, ReadRefused, ReadError, Reading,
                Misreads, PeerClosed, Close, history
  <2>2. ~Up'
    BY <1>1, <2>1 DEF Up
  <2>3. (Up /\ Up' = FALSE) \/ Up' = Up
    <3>1. Up \in BOOLEAN /\ Up' \in BOOLEAN
      BY DEF Up
    <3> QED BY <2>2, <3>1
  <2> QED BY <1>0, <2>1, <2>3 DEF Advanced
<1>5. CASE RecvMsg(a)
  <2> DEFINE p == Peer(a)
  <2>1. p \in Sides /\ Peer(p) = a /\ a # p
    BY Peers
  <2>2. /\ sent' = sent /\ stolen' = stolen /\ sockfd[a] # "closed" /\ wire[p] # <<>>
        /\ sockfd' = sockfd \/ sockfd' = [sockfd EXCEPT ![a] = "closed"]
        /\ \/ delivered' = delivered
           \/ delivered' = [delivered EXCEPT ![a] = Append(delivered[a], Complete(p))]
    BY <1>5, <2>1, Received1 DEF Close
  <2>3. Up' = Up \/ (Up /\ Up' = FALSE)
    <3>1. Up' => Up
      BY <1>1, <2>2 DEF Up
    <3>2. Up \in BOOLEAN /\ Up' \in BOOLEAN
      BY DEF Up
    <3> QED BY <3>1, <3>2
  <2>4. CASE delivered' = delivered
    BY <1>0, <2>2, <2>3, <2>4 DEF Advanced
  <2>5. CASE delivered' = [delivered EXCEPT ![a] = Append(delivered[a], Complete(p))]
    <3>1. Next1(p) = Len(delivered[a]) + 1
      BY <2>1 DEF Next1, Accepted
    <3>2. Len(delivered[a]) < Len(sent[p])
      <4>1. Next1(p) \in DOMAIN sent[p]
        BY <2>1, <2>2, AtHand
      <4>2. Len(delivered[a]) \in Nat /\ Len(sent[p]) \in Nat /\ DOMAIN sent[p] = 1..Len(sent[p])
        BY <1>1, <2>1
      <4> QED BY <3>1, <4>1, <4>2
    <3>3. /\ delivered'[a] = Append(delivered[a], Complete(p)) /\ delivered[a] \in Seq(Messages)
          /\ delivered'[a] \in Seq(Messages) /\ Len(delivered[a]) \in Nat
      BY <1>1, <2>5
    <3>4. Len(delivered'[a]) = Len(delivered[a]) + 1
          /\ SubSeq(delivered'[a], 1, Len(delivered[a])) = delivered[a]
      BY <3>3, Appended
    <3>6. Next1(p) \in DOMAIN delivered'[a] /\ delivered'[a][Next1(p)] = Complete(p)
      BY <3>1, <3>3
    <3>7. NoTheft => Complete(p) = sent[p][Next1(p)]
      <4> SUFFICES ASSUME NoTheft PROVE Complete(p) = sent[p][Next1(p)]
        OBVIOUS
      <4>1. \A i \in DOMAIN delivered'[a] : delivered'[a][i] = sent'[p][i]
        BY <1>0, <2>1, <2>2 DEF FilesKnown, Arrived, Accepted
      <4> QED BY <2>2, <3>6, <4>1
    <3>8. ButFile(Complete(p)) = ButFile(sent[p][Next1(p)])
      BY DEF ButFile, Complete
    <3>9. CASE s = p
      <4>1. Up' \in {Up, FALSE} /\ NoTheft' = NoTheft
        BY <1>0, <2>2, <2>3
      <4>2. Len(delivered[a]) + 1 <= Len(sent[p])
        BY <1>1, <3>2, <3>3
      <4>3. /\ ButFile(delivered'[a][Len(delivered[a]) + 1]) = ButFile(sent[p][Len(delivered[a]) + 1])
            /\ NoTheft => delivered'[a][Len(delivered[a]) + 1] = sent[p][Len(delivered[a]) + 1]
        BY <3>1, <3>6, <3>7, <3>8
      <4> QED BY <2>1, <2>2, <3>4, <3>9, <4>1, <4>2, <4>3 DEF Advanced
    <3>5. CASE s # p
      <4>1. Peer(s) # a /\ Peer(s) \in Sides
        BY <3>5 DEF Peer, Sides
      <4>2. delivered'[Peer(s)] = delivered[Peer(s)]
        BY <1>1, <2>5, <4>1
      <4> QED BY <1>0, <2>2, <2>3, <4>2 DEF Advanced
    <3> QED BY <3>5, <3>9
  <2> QED BY <2>2, <2>4, <2>5
<1> QED BY <1>2, <1>3, <1>4, <1>5 DEF Run, Serve, Application

\* Every step of the two processes is, in each direction, one of a Channel or
\* none: messages are accepted in the order they were queued, none of them twice,
\* none left out, and each with its own file as long as no write has closed a file
\* that it did not pass (xcom.cc:527-529).
THEOREM EachDirectionIsAChannel ==
    Spec => Requests!Safety /\ Replies!Safety
<1>1. Init => Requests!Init /\ Replies!Init
  <2>1. "client" \in Sides /\ "server" \in Sides
    BY DEF Sides
  <2>2. Init => Up = TRUE /\ NoTheft = TRUE
    BY DEF Init, Up, NoTheft
  <2> QED BY <2>1, <2>2 DEF Init, Requests!Init, Replies!Init
<1>2. FramingInv /\ FramingInv' /\ FilesKnown' /\ [Next]_vars
        => [Requests!Next]_Requests!vars /\ [Replies!Next]_Replies!vars
  <2> SUFFICES ASSUME FramingInv, FramingInv', FilesKnown', [Next]_vars
               PROVE  [Requests!Next]_Requests!vars /\ [Replies!Next]_Replies!vars
    OBVIOUS
  <2>1. \A s \in Sides : Advanced(s)
    <3>1. CASE UNCHANGED vars
      BY <3>1 DEF vars, history, Advanced, Up, NoTheft
    <3>2. CASE Next
      BY <3>2, Advancing DEF Next
    <3> QED BY <3>1, <3>2
  <2>2. "client" \in Sides /\ "server" \in Sides /\ Peer("client") = "server"
        /\ Peer("server") = "client"
    BY DEF Sides, Peer
  <2>3. [Requests!Next]_Requests!vars
    <3>1. Advanced("client")
      BY <2>1, <2>2
    <3> QED BY <2>2, <3>1 DEF Advanced, Requests!Next, Requests!Send, Requests!Deliver,
              Requests!Close, Requests!LoseFile, Requests!vars
  <2>4. [Replies!Next]_Replies!vars
    <3>1. Advanced("server")
      BY <2>1, <2>2
    <3> QED BY <2>2, <3>1 DEF Advanced, Replies!Next, Replies!Send, Replies!Deliver,
              Replies!Close, Replies!LoseFile, Replies!vars
  <2> QED BY <2>3, <2>4
<1> QED BY <1>1, <1>2, FilesAreKnown, PTL
        DEF Spec, Safety, Requests!Safety, Replies!Safety

-----------------------------------------------------------------------------
(* When no write closes a file it did not pass *)

\* One side passes no files, and the other opens none while it has written a
\* message with one in part: then nothing comes under the number that was passed
\* before the message has been written whole.
OneWay ==
    /\ ~OpenWhileWriting
    /\ \A x \in Scripts : \E s \in Sides : \A i \in DOMAIN x[s] : x[s][i] # "file"

Silent(q) == /\ \A i \in DOMAIN script[q] : script[q][i] # "file"
             /\ \A i \in DOMAIN sent[q] : sent[q][i].fd = NoFd

\* The number a message has passed stays free until it is written whole.
StaysFree(p) == outq[p] # <<>> /\ bwritten[p] > 0 /\ outq[p][1].fd # NoFd =>
    fds[p][outq[p][1].fd] = NoFile

QuietInv == NoTheft /\ \E q \in Sides : Silent(q) /\ StaysFree(Peer(q))

\* No file comes from a side that has passed none.
LEMMA NoneComes ==
    ASSUME FramingInv, NEW p \in Sides, sockfd[p] # "closed", Silent(Peer(p)), ReceiveFile(p)
    PROVE  fds' = fds
<1> DEFINE q == Peer(p)  f == FileOf(Received(p))
<1>1. q \in Sides /\ Peer(q) = p
  BY Peers
<1>2. f = NoFile
  <2>1. CASE wire[q] = <<>>
    <3>1. Received(p) = <<>>
      BY <1>1, <2>1, EmptyReceived
    <3>2. {Received(p)[k].file : k \in DOMAIN Received(p)} \ {NoFile} = {}
      BY <3>1
    <3> QED BY <3>2 DEF FileOf
  <2>2. CASE wire[q] # <<>>
    <3> SUFFICES ASSUME f # NoFile PROVE FALSE
      OBVIOUS
    <3>1. PICK k \in DOMAIN wire[q] : wire[q][k].file = f
      <4>1. PICK n \in 1..Len(wire[q]) : \E k \in 1..n : wire[q][k].file = f
        BY <1>1, <2>2, Reception
      <4>2. DOMAIN wire[q] = 1..Len(wire[q]) /\ Len(wire[q]) \in Nat
        BY <1>1, Parts
      <4>3. \A k \in 1..n : k \in 1..Len(wire[q])
        BY <4>2
      <4> QED BY <4>1, <4>2, <4>3
    <3>2. WithFiles(q)
      BY <1>1, Reading1
    <3>3. PICK i \in DOMAIN sent[q] : sent[q][i].file # NoFile
      BY <3>1, <3>2 DEF WithFiles
    <3>4. sent[q][i].fd = NoFd
      BY DEF Silent
    <3> QED BY <1>1, <3>3, <3>4, Parts DEF FilesSent
  <2> QED BY <2>1, <2>2
<1> QED BY <1>2 DEF ReceiveFile

\* Queueing leaves the message that is partly written first.
LEMMA QueueingStaysFree ==
    ASSUME FramingInv, NEW p \in Sides, StaysFree(p), bwritten' = bwritten,
           outq'[p] = outq[p] \/ \E m \in Messages : outq'[p] = Append(outq[p], m),
           \/ fds'[p] = fds[p]
           \/ ~(outq[p] # <<>> /\ bwritten[p] > 0 /\ outq[p][1].fd # NoFd)
    PROVE  StaysFree(p)'
<1>1. outq[p] \in Seq(Messages) /\ Layout(p)
  BY Parts
<1>2. CASE outq'[p] = outq[p]
  BY <1>2 DEF StaysFree
<1>3. CASE outq[p] = <<>>
  BY <1>1, <1>3 DEF StaysFree, Layout
<1>4. CASE outq[p] # <<>> /\ \E m \in Messages : outq'[p] = Append(outq[p], m)
  <2>1. outq'[p][1] = outq[p][1]
    <3>1. PICK m \in Messages : outq'[p] = Append(outq[p], m)
      BY <1>4
    <3>2. 1 \in 1..Len(outq[p])
      BY <1>1, <1>4
    <3> QED BY <1>1, <3>1, <3>2, OneMore
  <2> QED BY <1>4, <2>1 DEF StaysFree
<1> QED BY <1>2, <1>3, <1>4

\* A message that is partly written and not the first has no descriptor.
LEMMA SendingStaysFree ==
    ASSUME FramingInv, NEW p \in Sides, SendMsg(p), StaysFree(p)
    PROVE  StaysFree(p)'
<1> DEFINE q == outq[p]  o == Len(outq[p])  W == WrittenTo(p)
<1>1. PICK n \in 1..Len(IOVecs(p)), d \in 0..o :
        /\ outq' = [outq EXCEPT ![p] = SubSeq(q, d + 1, o)]
        /\ fds' = [fds EXCEPT ![p] = [f \in Fds |->
                    IF f = PassedFd(q[1]) THEN NoFile ELSE fds[p][f]]]
        /\ bwritten'[p] \in Nat
        /\ d < o => q[d+1].start + bwritten'[p] = W + n
  BY Sent1
<1>2. /\ outq \in [Sides -> Seq(Messages)] /\ fds \in [Sides -> [Fds -> Nat]]
      /\ q # <<>> /\ q \in Seq(Messages) /\ o \in Nat /\ DOMAIN q = 1..o /\ d \in 0..o
      /\ \A k \in 1..o : q[k] \in Messages
  <2>1. outq \in [Sides -> Seq(Messages)] /\ fds \in [Sides -> [Fds -> Nat]]
    BY DEF FramingInv, Typed
  <2>2. q # <<>>
    BY Sent1
  <2> QED BY <2>1, <2>2, Parts, QueueOrdered
<1>3. /\ Len(IOVecs(p)) \in Nat /\ n \in Nat \ {0} /\ n <= Len(IOVecs(p)) /\ IOVecs(p) # <<>>
  <2>1. Len(IOVecs(p)) \in Nat
    BY <1>2, Offered
  <2>2. Len(<<>>) = 0
    OBVIOUS
  <2> QED BY <2>1, <2>2
<1>4. PICK g \in 1..o : W + Len(IOVecs(p)) = End(q[g]) /\ \A k \in 2..g : ~q[k].hasFd
  BY <1>2, <1>3, Offered
<1> SUFFICES ASSUME outq'[p] # <<>>, bwritten'[p] > 0, outq'[p][1].fd # NoFd
             PROVE  fds'[p][outq'[p][1].fd] = NoFile
  BY DEF StaysFree
<1>5. d < o /\ outq'[p][1] = q[d + 1]
  <2>1. outq'[p] = SubSeq(q, d + 1, o)
    BY <1>1, <1>2
  <2> HIDE DEF q
  <2>2. /\ SubSeq(q, d + 1, o) \in Seq(Messages) /\ Len(SubSeq(q, d + 1, o)) = o - d
        /\ \A k \in 1..o - d : SubSeq(q, d + 1, o)[k] = q[d + k]
    BY <1>2, Rest DEF q
  <2>3. Len(SubSeq(q, d + 1, o)) # 0
    BY <2>1, <2>2
  <2>4. 1 \in 1..o - d /\ d < o
    <3> HIDE DEF o
    <3> QED BY <1>2, <2>2, <2>3
  <2> QED BY <2>1, <2>2, <2>4
<1>6. q[d + 1].hasFd /\ q[d + 1].fd \in Fds
  <2>1. d + 1 \in 1..o
    BY <1>2, <1>5
  <2>2. q[d + 1].fd # NoFd /\ q[d + 1] \in Messages
    BY <1>2, <1>5, <2>1
  <2>3. q[d + 1].fd \in Fds /\ q[d + 1].hasFd \in BOOLEAN
    BY <2>2, Sizes
  <2>4. q[d + 1].hasFd
    BY <1>2, <2>1, <2>2, QueueFiles
  <2> QED BY <2>3, <2>4
<1>7. d = 0
  <2> SUFFICES ASSUME d # 0 PROVE FALSE
    OBVIOUS
  <2>1. ~(d + 1 \in 2..g) /\ d + 1 \in 2..o
    BY <1>2, <1>4, <1>5, <1>6
  <2>2. g < d + 1 /\ g \in 1..o
    <3> HIDE DEF o
    <3> QED BY <1>2, <1>4, <2>1
  <2>3. End(q[g]) <= q[d+1].start /\ End(q[g]) \in Nat /\ q[d+1].start \in Nat
    <3>1. d + 1 \in 1..o
      BY <1>2, <1>5
    <3> QED BY <1>2, <2>2, <3>1, QueueOrdered, Sizes
  <2>4. W \in Nat
    BY Parts, Extent
  <2> HIDE DEF q, W, o
  <2> QED BY <1>1, <1>3, <1>4, <1>5, <2>3, <2>4
<1>8. PassedFd(q[1]) = outq'[p][1].fd
  BY <1>5, <1>6, <1>7 DEF PassedFd
<1> QED BY <1>1, <1>2, <1>5, <1>6, <1>8

\* What a step has to leave alone.
LEMMA QuietStep ==
    ASSUME FramingInv, NoTheft, NEW q \in Sides, Silent(q), StaysFree(Peer(q))', NoTheft',
           script'[q] = script[q] \/ (script[q] # <<>> /\ script'[q] = Tail(script[q])),
           \/ sent'[q] = sent[q]
           \/ \E m \in Messages : m.fd = NoFd /\ sent'[q] = Append(sent[q], m)
    PROVE  QuietInv'
<1>1. script[q] \in Seq(Acts) /\ sent[q] \in Seq(Messages)
  BY Parts DEF FramingInv, Typed
<1>2. \A i \in DOMAIN script'[q] : script'[q][i] # "file"
  <2>1. CASE script'[q] = script[q]
    BY <2>1 DEF Silent
  <2>2. CASE script[q] # <<>> /\ script'[q] = Tail(script[q])
    <3>1. \A i \in DOMAIN Tail(script[q]) :
            i + 1 \in DOMAIN script[q] /\ Tail(script[q])[i] = script[q][i + 1]
      BY <1>1, <2>2
    <3> QED BY <2>2, <3>1 DEF Silent
  <2> QED BY <2>1, <2>2
<1>3. \A i \in DOMAIN sent'[q] : sent'[q][i].fd = NoFd
  <2>1. CASE sent'[q] = sent[q]
    BY <2>1 DEF Silent
  <2>2. CASE \E m \in Messages : m.fd = NoFd /\ sent'[q] = Append(sent[q], m)
    <3>1. PICK m \in Messages : m.fd = NoFd /\ sent'[q] = Append(sent[q], m)
      BY <2>2
    <3> QED BY <1>1, <3>1, OneMore DEF Silent
  <2> QED BY <2>1, <2>2
<1> QED BY <1>2, <1>3 DEF QuietInv, Silent

\* A step of the side that passes no files.
LEMMA SilentActs ==
    ASSUME FramingInv, NoTheft, NEW q \in Sides, Silent(q), StaysFree(Peer(q)),
           Run(q) \/ Application(q)
    PROVE  QuietInv'
<1> DEFINE p == Peer(q)
<1>1. /\ p \in Sides /\ p # q /\ Typed
      /\ outq \in [Sides -> Seq(Messages)] /\ bwritten \in [Sides -> Nat]
      /\ fds \in [Sides -> [Fds -> Nat]] /\ stolen \in [Sides -> BOOLEAN]
      /\ script \in [Sides -> Seq(Acts)] /\ sent \in [Sides -> Seq(Messages)]
  BY Peers DEF FramingInv, Typed
<1>2. ASSUME UNCHANGED <<bwritten, stolen>>, fds' = fds \/ \E f : fds' = [fds EXCEPT ![q] = f],
             outq' = outq \/ \E m : outq' = [outq EXCEPT ![q] = m]
      PROVE  StaysFree(p)' /\ NoTheft'
  <2>1. outq'[p] = outq[p] /\ fds'[p] = fds[p] /\ bwritten'[p] = bwritten[p]
    BY <1>1, <1>2
  <2> QED BY <1>2, <2>1 DEF StaysFree, NoTheft
<1> HIDE DEF p
<1>3. CASE Open(q)
  <2> DEFINE m == Message("body", 0, NoFd, NoFile)
  <2>1. /\ UNCHANGED <<bwritten, stolen, fds, script>>
        /\ outq' = [outq EXCEPT ![q] = Append(@, m)] /\ sent' = [sent EXCEPT ![q] = Append(@, m)]
    BY <1>3 DEF Open, history, QueueOutgoing
  <2>2. m \in Messages /\ m.fd = NoFd
    <3>1. 0 \in Nat /\ NoFd \in Fds \cup {NoFd} /\ NoFile \in Nat
      BY DEF NoFile
    <3> QED BY <3>1, Made
  <2> HIDE DEF m
  <2>3. sent'[q] = Append(sent[q], m)
    BY <1>1, <2>1
  <2> QED BY <1>2, <2>1, <2>2, <2>3, QuietStep DEF p
<1>4. CASE SendPlain(q)
  <2>1. PICK act \in {"body", "empty", "badfd"} :
          Act(q, act) /\ QueueOutgoing(q, Message(act, Total(q), NoFd, NoFile))
    BY <1>4 DEF SendPlain
  <2> DEFINE m == Message(act, Total(q), NoFd, NoFile)
  <2>2. /\ UNCHANGED <<bwritten, stolen, fds>> /\ script[q] # <<>> /\ script'[q] = Tail(script[q])
        /\ outq' = [outq EXCEPT ![q] = Append(@, m)] /\ sent' = [sent EXCEPT ![q] = Append(@, m)]
    BY <1>1, <1>4, <2>1 DEF SendPlain, Act, history, QueueOutgoing
  <2>3. m \in Messages /\ m.fd = NoFd
    <3>1. Total(q) \in Nat /\ NoFd \in Fds \cup {NoFd} /\ NoFile \in Nat
      BY Parts, Extent DEF NoFile
    <3> QED BY <3>1, Made
  <2> HIDE DEF m
  <2>4. sent'[q] = Append(sent[q], m)
    BY <1>1, <2>2
  <2> QED BY <1>2, <2>2, <2>3, <2>4, QuietStep DEF p
<1>5. CASE SendFile(q)
  <2>1. script[q] # <<>> /\ Head(script[q]) = "file"
    BY <1>5 DEF SendFile, Act
  <2>2. 1 \in DOMAIN script[q] /\ script[q][1] = "file"
    BY <1>1, <2>1
  <2> QED BY <2>2 DEF Silent
<1>6. CASE AppOpens(q) \/ AppCloses(q)
  <2>1. /\ UNCHANGED <<bwritten, stolen, outq, sent>>
        /\ script[q] # <<>> /\ script'[q] = Tail(script[q])
        /\ fds' = fds \/ \E f : fds' = [fds EXCEPT ![q] = f]
    <3>1. OpenFile(q) => \E f : fds' = [fds EXCEPT ![q] = f]
      BY <1>1 DEF OpenFile, Installed
    <3> QED BY <1>1, <1>6, <3>1 DEF AppOpens, AppCloses, Act, history
  <2> QED BY <1>2, <2>1, QuietStep DEF p
<1>7. CASE SendMsg(q)
  <2>1. /\ UNCHANGED <<script, sent>> /\ outq[q] # <<>>
        /\ stolen' = [stolen EXCEPT ![q] = @ \/ ClosesAnother(q)]
        /\ \E o : outq' = [outq EXCEPT ![q] = o]
        /\ \E f : fds' = [fds EXCEPT ![q] = f]
        /\ \E b : bwritten' = [bwritten EXCEPT ![q] = b]
    <3>1. /\ UNCHANGED <<script, sent>> /\ outq[q] # <<>>
          /\ stolen' = [stolen EXCEPT ![q] = @ \/ ClosesAnother(q)]
      BY <1>7, Sent1
    <3>2. /\ \E o : outq' = [outq EXCEPT ![q] = o]
          /\ \E f : fds' = [fds EXCEPT ![q] = f]
          /\ \E b : bwritten' = [bwritten EXCEPT ![q] = b]
      BY <1>7, Sent1
    <3> QED BY <3>1, <3>2
  <2>2. outq'[p] = outq[p] /\ fds'[p] = fds[p] /\ bwritten'[p] = bwritten[p]
    BY <1>1, <2>1
  <2>3. StaysFree(p)'
    BY <2>2 DEF StaysFree, p
  <2>4. PassedFd(outq[q][1]) = NoFd
    <3> DEFINE k == Len(sent[q]) - Len(outq[q]) + 1
    <3>1. k \in DOMAIN sent[q] /\ outq[q][1] = sent[q][k]
      <4>1. 1 \in DOMAIN outq[q]
        BY <2>1, Parts
      <4>2. \A j \in DOMAIN outq[q] : /\ Len(sent[q]) - Len(outq[q]) + j \in DOMAIN sent[q]
                                       /\ outq[q][j] = sent[q][Len(sent[q]) - Len(outq[q]) + j]
        BY Parts, Queued
      <4> QED BY <4>1, <4>2
    <3> HIDE DEF k
    <3> QED BY <3>1 DEF Silent, PassedFd
  <2>5. stolen' = stolen
    <3>1. ~ClosesAnother(q)
      BY <2>4 DEF ClosesAnother
    <3> QED BY <1>1, <2>1, <3>1
  <2> QED BY <2>1, <2>3, <2>5, QuietStep DEF p, NoTheft
<1>8. CASE RecvMsg(q) \/ ReadRefused(q) \/ Misreads(q)
  <2>1. UNCHANGED <<bwritten, stolen, outq, sent, script>>
    BY <1>8 DEF RecvMsg, ReadRefused, Misreads, Reading
  <2>2. fds' = fds \/ \E f : fds' = [fds EXCEPT ![q] = f]
    <3>1. ReceiveFile(q) => fds' = fds \/ \E f : fds' = [fds EXCEPT ![q] = f]
      BY <1>1 DEF ReceiveFile, Installed
    <3> QED BY <1>8, <3>1 DEF RecvMsg, ReadRefused, Misreads
  <2> QED BY <1>2, <2>1, <2>2, QuietStep DEF p
<1>9. CASE \/ TimerR_Timer(q) \/ Written(q) \/ NothingToSend(q) \/ SendFails(q)
           \/ NothingToRead(q) \/ PeerClosed(q)
  <2>1. UNCHANGED <<bwritten, stolen, outq, sent, script, fds>>
    BY <1>9 DEF TimerR_Timer, Written, NothingToSend, SendFails, NothingToRead, PeerClosed,
                Reading, history
  <2> QED BY <1>2, <2>1, QuietStep DEF p
<1> QED BY <1>3, <1>4, <1>5, <1>6, <1>7, <1>8, <1>9 DEF Run, Serve, Application

\* A step of the other side.
LEMMA OtherActs ==
    ASSUME ~OpenWhileWriting, FramingInv, NoTheft, NEW q \in Sides, Silent(q),
           NEW p \in Sides, p = Peer(q), StaysFree(p), Run(p) \/ Application(p)
    PROVE  QuietInv'
<1>1. /\ q # p /\ Peer(p) = q /\ Typed
      /\ outq \in [Sides -> Seq(Messages)] /\ bwritten \in [Sides -> Nat]
      /\ fds \in [Sides -> [Fds -> Nat]] /\ stolen \in [Sides -> BOOLEAN]
      /\ script \in [Sides -> Seq(Acts)] /\ sent \in [Sides -> Seq(Messages)]
  BY Peers DEF FramingInv, Typed
<1>2. ASSUME UNCHANGED <<bwritten, stolen>>,
             outq'[p] = outq[p] \/ \E m \in Messages : outq'[p] = Append(outq[p], m),
             \/ fds'[p] = fds[p]
             \/ ~(outq[p] # <<>> /\ bwritten[p] > 0 /\ outq[p][1].fd # NoFd)
      PROVE  StaysFree(p)' /\ NoTheft'
  BY <1>2, QueueingStaysFree DEF NoTheft
<1>3. ASSUME OpenFile(p)
      PROVE  ~(outq[p] # <<>> /\ bwritten[p] > 0 /\ outq[p][1].fd # NoFd)
  <2> SUFFICES ASSUME outq[p] # <<>>, bwritten[p] > 0, outq[p][1].fd # NoFd PROVE FALSE
    OBVIOUS
  <2>1. ~Head(outq[p]).hasFd
    BY <1>3 DEF OpenFile
  <2>2. Head(outq[p]) = outq[p][1] /\ 1 \in DOMAIN outq[p]
    BY <1>1
  <2> QED BY <2>1, <2>2, QueueFiles
<1>4. CASE Open(p)
  <2> DEFINE m == Message("body", 0, NoFd, NoFile)
  <2>1. /\ UNCHANGED <<bwritten, stolen, fds, script>>
        /\ outq' = [outq EXCEPT ![p] = Append(@, m)] /\ sent' = [sent EXCEPT ![p] = Append(@, m)]
    BY <1>4 DEF Open, history, QueueOutgoing
  <2>2. m \in Messages
    <3>1. 0 \in Nat /\ NoFd \in Fds \cup {NoFd} /\ NoFile \in Nat
      BY DEF NoFile
    <3> QED BY <3>1, Made
  <2> HIDE DEF m
  <2>3. outq'[p] = Append(outq[p], m) /\ sent'[q] = sent[q]
    BY <1>1, <2>1
  <2> QED BY <1>1, <1>2, <2>1, <2>2, <2>3, QuietStep
<1>5. CASE SendPlain(p)
  <2>1. PICK act \in {"body", "empty", "badfd"} :
          Act(p, act) /\ QueueOutgoing(p, Message(act, Total(p), NoFd, NoFile))
    BY <1>5 DEF SendPlain
  <2> DEFINE m == Message(act, Total(p), NoFd, NoFile)
  <2>2. /\ UNCHANGED <<bwritten, stolen, fds>> /\ script' = [script EXCEPT ![p] = Tail(@)]
        /\ outq' = [outq EXCEPT ![p] = Append(@, m)] /\ sent' = [sent EXCEPT ![p] = Append(@, m)]
    BY <1>5, <2>1 DEF SendPlain, Act, history, QueueOutgoing
  <2>3. m \in Messages
    <3>1. Total(p) \in Nat /\ NoFd \in Fds \cup {NoFd} /\ NoFile \in Nat
      BY Parts, Extent DEF NoFile
    <3> QED BY <3>1, Made
  <2> HIDE DEF m
  <2>4. outq'[p] = Append(outq[p], m) /\ sent'[q] = sent[q] /\ script'[q] = script[q]
    BY <1>1, <2>2
  <2> QED BY <1>1, <1>2, <2>2, <2>3, <2>4, QuietStep
<1>6. CASE SendFile(p)
  <2> DEFINE m == Message("file", Total(p), LowestFd(p), files')
  <2>1. /\ UNCHANGED <<bwritten, stolen>> /\ OpenFile(p) /\ script' = [script EXCEPT ![p] = Tail(@)]
        /\ outq' = [outq EXCEPT ![p] = Append(@, m)] /\ sent' = [sent EXCEPT ![p] = Append(@, m)]
    BY <1>6 DEF SendFile, Act, history, QueueOutgoing
  <2>2. m \in Messages
    <3>1. LowestFd(p) \in Fds /\ files' \in Nat
      BY <1>1, <2>1, Opening
    <3>2. Total(p) \in Nat /\ LowestFd(p) \in Fds \cup {NoFd} /\ files' \in Nat
      BY <3>1, Parts, Extent
    <3> QED BY <3>2, Made
  <2> HIDE DEF m
  <2>3. outq'[p] = Append(outq[p], m) /\ sent'[q] = sent[q] /\ script'[q] = script[q]
    BY <1>1, <2>1
  <2> QED BY <1>1, <1>2, <1>3, <2>1, <2>2, <2>3, QuietStep
<1>7. CASE AppOpens(p)
  <2>1. /\ UNCHANGED <<bwritten, stolen, outq, sent>> /\ OpenFile(p)
        /\ script' = [script EXCEPT ![p] = Tail(@)]
    BY <1>7 DEF AppOpens, Act, history
  <2>2. script'[q] = script[q]
    BY <1>1, <2>1
  <2> QED BY <1>1, <1>2, <1>3, <2>1, <2>2, QuietStep
<1>8. CASE AppCloses(p)
  <2>1. /\ UNCHANGED <<bwritten, stolen, outq, sent, fds>>
        /\ script' = [script EXCEPT ![p] = Tail(@)]
    BY <1>8 DEF AppCloses, Act, history
  <2>2. script'[q] = script[q]
    BY <1>1, <2>1
  <2> QED BY <1>1, <1>2, <2>1, <2>2, QuietStep
<1>9. CASE SendMsg(p)
  <2>1. /\ UNCHANGED <<script, sent>> /\ outq[p] # <<>>
        /\ stolen' = [stolen EXCEPT ![p] = @ \/ ClosesAnother(p)]
    BY <1>9, Sent1
  <2>2. StaysFree(p)'
    BY <1>9, SendingStaysFree
  <2>3. ~ClosesAnother(p)
    BY <2>1 DEF ClosesAnother, StaysFree, PassedFd
  <2>4. stolen' = stolen
    BY <1>1, <2>1, <2>3
  <2> QED BY <2>1, <2>2, <2>4, QuietStep DEF NoTheft
<1>10. CASE RecvMsg(p) \/ ReadRefused(p) \/ Misreads(p)
  <2>1. UNCHANGED <<bwritten, stolen, outq, sent, script>>
    BY <1>10 DEF RecvMsg, ReadRefused, Misreads, Reading
  <2>2. sockfd[p] # "closed"
    BY <1>1, <1>10 DEF Typed, Reading, RecvMsg, ReadRefused, Misreads
  <2>3. fds' = fds
    <3>1. ReceiveFile(p) \/ fds' = fds
      BY <1>10 DEF RecvMsg, ReadRefused, Misreads
    <3> QED BY <1>1, <2>2, <3>1, NoneComes
  <2> QED BY <1>1, <1>2, <2>1, <2>3, QuietStep
<1>11. CASE \/ TimerR_Timer(p) \/ Written(p) \/ NothingToSend(p) \/ SendFails(p)
            \/ NothingToRead(p) \/ PeerClosed(p)
  <2>1. UNCHANGED <<bwritten, stolen, outq, sent, script, fds>>
    BY <1>11 DEF TimerR_Timer, Written, NothingToSend, SendFails, NothingToRead, PeerClosed,
                Reading, history
  <2> QED BY <1>1, <1>2, <2>1, QuietStep
<1> QED BY <1>4, <1>5, <1>6, <1>7, <1>8, <1>9, <1>10, <1>11 DEF Run, Serve, Application

\* With files passed one way, and none opened in the middle of a message that has
\* one, no write closes a file it did not pass (xcom.cc:527-529): what is closed
\* again is free.
THEOREM OneWayKeepsFiles ==
    ASSUME OneWay
    PROVE  Spec => []NoTheft
<1>1. Init => QuietInv
  <2> SUFFICES ASSUME Init PROVE QuietInv
    OBVIOUS
  <2>1. PICK q \in Sides : \A i \in DOMAIN script[q] : script[q][i] # "file"
    BY DEF OneWay, Init
  <2>2. Peer(q) \in Sides /\ DOMAIN <<>> = {}
    BY Peers
  <2>3. Silent(q) /\ StaysFree(Peer(q)) /\ NoTheft
    BY <2>1, <2>2 DEF Init, Silent, StaysFree, NoTheft
  <2> QED BY <2>3 DEF QuietInv
<1>2. FramingInv /\ QuietInv /\ [Next]_vars => QuietInv'
  <2> SUFFICES ASSUME FramingInv, QuietInv, [Next]_vars PROVE QuietInv'
    OBVIOUS
  <2>1. PICK q \in Sides : Silent(q) /\ StaysFree(Peer(q))
    BY DEF QuietInv
  <2>2. CASE UNCHANGED vars
    BY <2>2 DEF vars, history, QuietInv, NoTheft, Silent, StaysFree
  <2>3. CASE Next
    <3>1. PICK a \in Sides : Run(a) \/ Application(a)
      BY <2>3 DEF Next
    <3>2. NoTheft /\ ~OpenWhileWriting /\ Peer(q) \in Sides /\ (a = q \/ a = Peer(q))
      BY Peers DEF QuietInv, OneWay, Sides, Peer
    <3>3. CASE a = q
      BY <2>1, <3>1, <3>2, <3>3, SilentActs
    <3>4. CASE a = Peer(q)
      BY <2>1, <3>1, <3>2, <3>4, OtherActs
    <3> QED BY <3>2, <3>3, <3>4
  <2> QED BY <2>2, <2>3
<1>3. QuietInv => NoTheft
  BY DEF QuietInv
<1> QED BY <1>1, <1>2, <1>3, FramingInvariant, PTL DEF Spec, Safety

\* Every message is then accepted with the file it was sent with.
THEOREM OneWayFilesArrive ==
    ASSUME OneWay
    PROVE  Spec => [](\A s \in Sides : \A i \in DOMAIN delivered[Peer(s)] :
                        delivered[Peer(s)][i] = sent[s][i])
<1>1. FilesKnown /\ NoTheft => \A s \in Sides : \A i \in DOMAIN delivered[Peer(s)] :
                                   delivered[Peer(s)][i] = sent[s][i]
  BY DEF FilesKnown, Arrived, Accepted
<1> QED BY <1>1, FilesAreKnown, OneWayKeepsFiles, PTL

-----------------------------------------------------------------------------
(* No connection is left unattended *)

\* The variables Watched speaks of are functions of the sides.
Domains ==
    /\ DOMAIN sockfd = Sides /\ DOMAIN pc = Sides
    /\ DOMAIN watch = Sides /\ DOMAIN outq = Sides

\* Attended (s) is Watched for one side.
Attended(s) == pc[s] = "idle" /\ sockfd[s] = "open" =>
    watch[s] = IF outq[s] = <<>> THEN "Read" ELSE "ReadWrite"

WatchedInv == Domains /\ \A s \in Sides : Attended(s)

LEMMA WatchedInit == ASSUME Init PROVE WatchedInv
BY DEF Init, WatchedInv, Domains, Attended

\* A step of one side that leaves what the other side watches alone, and ends
\* with its own connection attended.
LEMMA OneSide ==
    ASSUME WatchedInv, NEW s \in Sides, Domains', Attended(s)',
           \A p \in Sides \ {s} : /\ pc'[p] = pc[p] /\ sockfd'[p] = sockfd[p]
                                  /\ watch'[p] = watch[p] /\ outq'[p] = outq[p]
    PROVE  WatchedInv'
<1>1. \A p \in Sides \ {s} : Attended(p)'
  BY DEF WatchedInv, Attended
<1> QED BY <1>1 DEF WatchedInv

\* A side that is in a loop or has closed is attended.
LEMMA Busy ==
    ASSUME WatchedInv, NEW s \in Sides, Domains',
           pc'[s] # "idle" \/ sockfd'[s] # "open",
           \A p \in Sides \ {s} : /\ pc'[p] = pc[p] /\ sockfd'[p] = sockfd[p]
                                  /\ watch'[p] = watch[p] /\ outq'[p] = outq[p]
    PROVE  WatchedInv'
BY OneSide DEF Attended

\* Every way of closing the connection.
LEMMA Closed ==
    ASSUME WatchedInv, NEW s \in Sides, Close(s), UNCHANGED <<watch, outq>>
    PROVE  WatchedInv'
<1>1. /\ sockfd' = [sockfd EXCEPT ![s] = "closed"] /\ pc' = [pc EXCEPT ![s] = "idle"]
  BY DEF Close
<1>2. Domains'
  BY <1>1 DEF WatchedInv, Domains
<1> QED BY <1>1, <1>2, Busy DEF WatchedInv, Domains

\* QueueOutgoing serves the socket at once, unless it is closed.
LEMMA QueuedAttended ==
    ASSUME WatchedInv, NEW s \in Sides, watch' = watch,
           DOMAIN outq' = Sides, \A p \in Sides \ {s} : outq'[p] = outq[p],
           pc' = [pc EXCEPT ![s] = IF sockfd[s] = "closed" THEN "idle" ELSE "read"],
           \/ sockfd' = sockfd
           \/ sockfd[s] = "none" /\ sockfd' = [sockfd EXCEPT ![s] = "open"]
    PROVE  WatchedInv'
<1>1. Domains'
  BY DEF WatchedInv, Domains
<1>2. pc'[s] # "idle" \/ sockfd'[s] # "open"
  BY DEF WatchedInv, Domains
<1> QED BY <1>1, <1>2, Busy DEF WatchedInv, Domains

LEMMA WatchedApplication ==
    ASSUME WatchedInv, NEW s \in Sides, Application(s) \/ Open(s)
    PROVE  WatchedInv'
<1>1. CASE Open(s)
  <2>1. watch' = watch /\ sockfd[s] = "none" /\ sockfd' = [sockfd EXCEPT ![s] = "open"]
    BY <1>1 DEF Open
  <2>2. pc' = [pc EXCEPT ![s] = IF sockfd[s] = "closed" THEN "idle" ELSE "read"]
    BY <1>1 DEF Open, QueueOutgoing
  <2>3. DOMAIN outq' = Sides /\ \A p \in Sides \ {s} : outq'[p] = outq[p]
    BY <1>1 DEF Open, QueueOutgoing, WatchedInv, Domains
  <2> QED BY <2>1, <2>2, <2>3, QueuedAttended
<1>2. CASE SendPlain(s) \/ SendFile(s)
  <2>1. UNCHANGED <<watch, sockfd>>
    BY <1>2 DEF SendPlain, SendFile
  <2>2. pc' = [pc EXCEPT ![s] = IF sockfd[s] = "closed" THEN "idle" ELSE "read"]
    BY <1>2 DEF SendPlain, SendFile, QueueOutgoing
  <2>3. DOMAIN outq' = Sides /\ \A p \in Sides \ {s} : outq'[p] = outq[p]
    BY <1>2 DEF SendPlain, SendFile, QueueOutgoing, WatchedInv, Domains
  <2> QED BY <2>1, <2>2, <2>3, QueuedAttended
<1>3. CASE AppOpens(s)
  BY <1>3 DEF AppOpens, WatchedInv, Domains, Attended
<1>4. CASE AppCloses(s)
  BY <1>4, Closed DEF AppCloses
<1> QED BY <1>1, <1>2, <1>3, <1>4 DEF Application

\* Each way out of the loops of WriteOutgoing and ReadIncoming sets the Timer or
\* closes the connection.
LEMMA WatchedServe ==
    ASSUME WatchedInv, NEW s \in Sides, Serve(s) \/ TimerR_Timer(s)
    PROVE  WatchedInv'
<1>1. CASE TimerR_Timer(s)
  <2>1. /\ watch' = [watch EXCEPT ![s] = "none"] /\ pc' = [pc EXCEPT ![s] = "read"]
        /\ UNCHANGED <<sockfd, outq>>
    BY <1>1 DEF TimerR_Timer
  <2>2. Domains'
    BY <2>1 DEF WatchedInv, Domains
  <2> QED BY <2>1, <2>2, Busy DEF WatchedInv, Domains
<1>2. CASE SendMsg(s)
  <2>1. pc[s] = "write" /\ UNCHANGED <<pc, sockfd, watch>>
    BY <1>2 DEF SendMsg
  <2>2. \E q : outq' = [outq EXCEPT ![s] = q]
    BY <1>2 DEF SendMsg
  <2>3. Domains'
    BY <2>1, <2>2 DEF WatchedInv, Domains
  <2> QED BY <2>1, <2>2, <2>3, Busy DEF WatchedInv, Domains
<1>3. CASE Written(s)
  <2>1. /\ pc' = [pc EXCEPT ![s] = "idle"] /\ UNCHANGED <<sockfd, outq>>
        /\ watch' = [watch EXCEPT ![s] = IF outq[s] = <<>> THEN "Read" ELSE "ReadWrite"]
    BY <1>3 DEF Written
  <2>2. Domains'
    BY <2>1 DEF WatchedInv, Domains
  <2>3. Attended(s)'
    BY <2>1 DEF WatchedInv, Domains, Attended
  <2> QED BY <2>1, <2>2, <2>3, OneSide DEF WatchedInv, Domains
<1>4. CASE NothingToSend(s) \/ SendFails(s)
  BY <1>4, Closed DEF NothingToSend, SendFails
<1>5. CASE ReadRefused(s) \/ PeerClosed(s)
  BY <1>5, Closed DEF ReadRefused, ReadError, PeerClosed, Reading
<1>6. CASE RecvMsg(s)
  <2>1. pc[s] = "read" /\ UNCHANGED <<outq, watch>>
    BY <1>6 DEF RecvMsg, Reading
  <2>2. Close(s) \/ UNCHANGED <<sockfd, pc>>
    BY <1>6 DEF RecvMsg
  <2>3. CASE UNCHANGED <<sockfd, pc>>
    BY <2>1, <2>3 DEF WatchedInv, Domains, Attended
  <2> QED BY <2>1, <2>2, <2>3, Closed
<1>7. CASE NothingToRead(s)
  <2>1. pc' = [pc EXCEPT ![s] = "write"] /\ UNCHANGED <<sockfd, outq, watch>>
    BY <1>7 DEF NothingToRead, Reading
  <2>2. Domains'
    BY <2>1 DEF WatchedInv, Domains
  <2> QED BY <2>1, <2>2, Busy DEF WatchedInv, Domains
<1>8. CASE Misreads(s)
  <2>1. /\ sockfd' = [sockfd EXCEPT ![s] = "closed"] /\ pc' = [pc EXCEPT ![s] = "aborted"]
        /\ UNCHANGED <<outq, watch>>
    BY <1>8 DEF Misreads, Reading
  <2>2. Domains'
    BY <2>1 DEF WatchedInv, Domains
  <2> QED BY <2>1, <2>2, Busy DEF WatchedInv, Domains
<1> QED BY <1>1, <1>2, <1>3, <1>4, <1>5, <1>6, <1>7, <1>8 DEF Serve

\* While a process is in none of the Extern's loops its open socket is watched,
\* for reading and, as long as something is queued, for writing: TimerR_Timer and
\* QueueOutgoing never leave a connection that nothing will serve again.
THEOREM NeverUnattended == Spec => []Watched
<1>1. WatchedInv /\ [Next]_vars => WatchedInv'
  <2> SUFFICES ASSUME WatchedInv, [Next]_vars PROVE WatchedInv'
    OBVIOUS
  <2>1. CASE UNCHANGED vars
    BY <2>1 DEF vars, WatchedInv, Domains, Attended
  <2> QED BY <2>1, WatchedApplication, WatchedServe DEF Next, Run
<1>2. WatchedInv => Watched
  BY DEF WatchedInv, Attended, Watched
<1> QED BY <1>1, <1>2, WatchedInit, PTL DEF Spec, Safety

=============================================================================
