------------------------------- MODULE Marshal -------------------------------
(***************************************************************************)
(* The body of a message: how a proxy's Send sizes and writes the          *)
(* arguments of a call (stream.h, vector.h, memblock.cc), how the receiver *)
(* reads them, and how Msg::ValidateSignature follows the signature of the *)
(* method through a body that came from another process (msg.cc).          *)
(*                                                                         *)
(* A type is one of C++: a number by its size, a string, or a struct of    *)
(* numbers, which is written as it lies in memory; or vectors of these, to *)
(* any depth.  The value of a number is its bytes, the first of them the   *)
(* lowest.  A body starts at an address aligned to every grain here, as    *)
(* malloc's blocks do.                                                     *)
(*                                                                         *)
(* A behaviour is one call of a method: dispatched in the process it was   *)
(* made in, or exported and validated; or a body that was written by a     *)
(* peer with other ideas of what the method's arguments are.               *)
(***************************************************************************)
EXTENDS Integers, FiniteSets, Sequences

CONSTANTS
    Methods,    \* the types of the arguments of each method
    Strings,    \* strings sent, as bytes
    Numbers,    \* low bytes of numbers sent
    MaxVector,  \* bound on the elements of a vector
    Foreign     \* bodies of a peer

VARIABLES
    stage,  \* "new", "sent", "exported", "refused", "delivered" or "read"
    route,  \* "local", "exported" or "foreign": where the body came from
    method, \* types of the arguments
    args,   \* the arguments sent, or <<>>
    size,   \* what sstream made of them; the size of the body once validated
    body,   \* bytes
    got     \* the arguments read, and where reading ended

vars == <<stage, route, method, args, size, body, got>>

-----------------------------------------------------------------------------
(* Types *)

\* A type is vectors, depth of them one in the other, of a flat type.
Widths == {1, 2, 4, 8}
Flats == [kind : {"number"}, sz : Widths] \cup [kind : {"string"}]
         \cup [kind : {"struct"}, members : Seq(Widths) \ {<<>>}]
Types == [depth : Nat, of : Flats]

Flat(F) == [depth |-> 0, of |-> F]
Number(sz) == Flat([kind |-> "number", sz |-> sz])
String == Flat([kind |-> "string"])
Struct(members) == Flat([kind |-> "struct", members |-> members])
Vector(T) == [T EXCEPT !.depth = @ + 1]

Byte == 0..255
Largest == 2147483646  \* more than fit in a process

ASSUME MethodAssumption == Methods \subseteq Seq(Types)
ASSUME ByteAssumption == /\ MaxVector \in 0..Largest /\ Numbers \subseteq Byte
                         /\ \A s \in Strings \cup Foreign : s \in Seq(Byte) /\ Len(s) <= Largest
                         /\ \A b \in Foreign : Len(b) % 8 = 0

\* Align of utility.h, and the zeros it puts.
Align(n, grain) == n + ((grain - (n % grain)) % grain)
Zeros(n) == [k \in 1..n |-> 0]
Aligned(bytes, grain) == bytes \o Zeros(Align(Len(bytes), grain) - Len(bytes))

Greatest(S) == CHOOSE n \in S : \A m \in S : m <= n

\* How the compiler lays out a flat type that is copied as it lies in memory.
is_trivially_copyable(F) == F.kind \in {"number", "struct"}
alignof(F) == IF F.kind = "number" THEN F.sz ELSE Greatest({F.members[k] : k \in DOMAIN F.members})
offsetof(F) ==
    LET at[k \in DOMAIN F.members] ==
            IF k = 1 THEN 0 ELSE Align(at[k - 1] + F.members[k - 1], F.members[k])
    IN  at
sizeof(F) ==
    IF F.kind = "number" THEN F.sz
    ELSE LET n == Len(F.members) IN Align(offsetof(F)[n] + F.members[n], alignof(F))

\* A string is aligned as cmemlink is in memory: STREAM_ALIGN of cmemlink does
\* not apply to it.
size_type == 4
Body == 8        \* Msg::Alignment::Body
stream_align(F, depth) ==
    CASE depth > 0 -> size_type
      [] depth = 0 /\ F.kind = "string" -> 16
      [] depth = 0 /\ F.kind # "string" -> alignof(F)
\* What the elements of a vector are aligned to.
elements_align(F, depth) == Greatest({stream_align(F, depth - 1), size_type})

Letter(sz) == CASE sz = 1 -> "y" [] sz = 2 -> "q" [] sz = 4 -> "u" [] sz = 8 -> "x"
SignatureOf(T) ==
    [k \in 1..T.depth |-> "a"] \o
    CASE T.of.kind = "number" -> <<Letter(T.of.sz)>>
      [] T.of.kind = "string" -> <<"s">>
      [] T.of.kind = "struct" -> <<"(">> \o [k \in DOMAIN T.of.members |-> Letter(T.of.members[k])] \o <<")">>
\* The signature of the first k arguments.
Signatures(types) ==
    LET sig[k \in 0..Len(types)] == IF k = 0 THEN <<>> ELSE sig[k - 1] \o SignatureOf(types[k])
    IN  sig
Signature(types) == Signatures(types)[Len(types)]

-----------------------------------------------------------------------------
(* What an application sends *)

NumberBytes(sz, v) == <<v>> \o Zeros(sz - 1)
FlatValues(F) ==
    CASE F.kind = "number" -> {NumberBytes(F.sz, v) : v \in Numbers}
      [] F.kind = "string" -> Strings
      [] F.kind = "struct" -> {[k \in DOMAIN F.members |-> NumberBytes(F.members[k], v[k])] :
                                  v \in [DOMAIN F.members -> Numbers]}
Values(F, depth) ==
    LET values[d \in 0..depth] == IF d = 0 THEN FlatValues(F)
                                  ELSE UNION {[1..n -> values[d - 1]] : n \in 0..MaxVector}
    IN  values[depth]
Arguments(types) ==
    {vs \in [DOMAIN types -> UNION {Values(types[k].of, types[k].depth) : k \in DOMAIN types}] :
        \A k \in DOMAIN types : vs[k] \in Values(types[k].of, types[k].depth)}

-----------------------------------------------------------------------------
(* Writing *)

\* A value as it lies in memory; the padding within a struct is written as is.
InMemory(F, v) ==
    IF F.kind = "number" THEN v
    ELSE LET Holds(k, i) == i \in offsetof(F)[k] + 1..offsetof(F)[k] + F.members[k]
         IN  [i \in 1..sizeof(F) |->
                IF \E k \in DOMAIN F.members : Holds(k, i)
                THEN LET k == CHOOSE k \in DOMAIN F.members : Holds(k, i) IN v[k][i - offsetof(F)[k]]
                ELSE 0]
Contents(F, v) ==
    [i \in 1..sizeof(F) * Len(v) |->
        InMemory(F, v[((i - 1) \div sizeof(F)) + 1])[((i - 1) % sizeof(F)) + 1]]

\* cmemlink::write.  A string that has any characters goes with its zero.
CountBytes(n) == <<n % 256, (n \div 256) % 256, (n \div 65536) % 256, n \div 16777216>>
WriteBlock(out, n, bytes) == Aligned(out \o CountBytes(n) \o bytes, size_type)
Terminated(s) == IF s = <<>> THEN s ELSE Append(s, 0)

WriteFlat(out, F, v) ==
    IF F.kind = "string" THEN WriteBlock(out, Len(Terminated(v)), Terminated(v)) ELSE out \o InMemory(F, v)

\* The elements of a vector that are aligned to more than its count is: they are
\* copied in and then skipped, and ostream::skip fills what it skips.
WriteElements(out, elements) == out \o Zeros(Len(elements))
WriteCount(out, F, d, n) == Aligned(out \o CountBytes(n), elements_align(F, d))
WriteCopied(out, F, v) ==
    IF alignof(F) <= size_type THEN WriteBlock(out, Len(v), Contents(F, v))
    ELSE WriteElements(WriteCount(out, F, 1, Len(v)), Contents(F, v))

\* Other elements are written one by one; write is how each is.
WriteEach(out, write, v) ==
    LET written[k \in 0..Len(v)] == IF k = 0 THEN out ELSE write[<<written[k - 1], v[k]>>]
    IN  written[Len(v)]
Write(out, T, v) ==
    LET F == T.of
        write[d \in 0..T.depth] ==
            [x \in Seq(Byte) \X Values(F, d) |->
                CASE d = 0 -> WriteFlat(x[1], F, x[2])
                  [] d = 1 /\ is_trivially_copyable(F) -> WriteCopied(x[1], F, x[2])
                  [] OTHER -> WriteEach(WriteCount(x[1], F, d, Len(x[2])), write[d - 1], x[2])]
    IN  write[T.depth][<<out, v>>]

\* mutant: the padding after a block is forgotten.
SizeBlockUnaligned(sz, n) == sz + size_type + n
\* What sstream adds up for the same values.
SizeBlock(sz, n) == Align(sz + size_type + n, size_type)
SizeFlat(sz, F, v) ==
    IF F.kind = "string" THEN SizeBlock(sz, Len(Terminated(v))) ELSE sz + sizeof(F)
SizeCount(sz, F, d) == Align(sz + size_type, elements_align(F, d))
SizeCopied(sz, F, v) ==
    IF alignof(F) <= size_type THEN SizeBlock(sz, sizeof(F) * Len(v))
    ELSE SizeCount(sz, F, 1) + sizeof(F) * Len(v)
SizeEach(sz, add, v) ==
    LET sum[k \in 0..Len(v)] == IF k = 0 THEN sz ELSE add[<<sum[k - 1], v[k]>>]
    IN  sum[Len(v)]
SizeWith(sz, T, v) ==
    LET F == T.of
        add[d \in 0..T.depth] ==
            [x \in Nat \X Values(F, d) |->
                CASE d = 0 -> SizeFlat(x[1], F, x[2])
                  [] d = 1 /\ is_trivially_copyable(F) -> SizeCopied(x[1], F, x[2])
                  [] OTHER -> SizeEach(SizeCount(x[1], F, d), add[d - 1], x[2])]
    IN  add[T.depth][<<sz, v>>]

\* Both, over the first k arguments of a call.
Sizes(types, values) ==
    LET sz[k \in 0..Len(types)] == IF k = 0 THEN 0 ELSE SizeWith(sz[k - 1], types[k], values[k])
    IN  sz
Written(types, values) ==
    LET out[k \in 0..Len(types)] == IF k = 0 THEN <<>> ELSE Write(out[k - 1], types[k], values[k])
    IN  out
variadic_stream_size(types, values) == Sizes(types, values)[Len(types)]
WriteArgs(types, values) == Written(types, values)[Len(types)]

-----------------------------------------------------------------------------
(* Reading *)

\* Where a reader is, and what it has read; Misread once it read past the end,
\* or found a block too short, which is then left out.
Cursor(at, v) == [at |-> at, v |-> v]
Misread == Cursor(-1, <<>>)
Fits(b, at, n) == at >= 0 /\ at + n <= Len(b)
Bytes(b, at, n) == [k \in 1..n |-> b[at + k]]
Count(bytes) == bytes[1] + 256 * bytes[2] + 65536 * bytes[3] + 16777216 * bytes[4]

ReadNumber(b, at, sz) == IF Fits(b, at, sz) THEN Cursor(at + sz, Bytes(b, at, sz)) ELSE Misread

\* What lies at a place, as a value of a flat type.
ValueAt(b, at, F) ==
    IF F.kind = "number" THEN Bytes(b, at, F.sz)
    ELSE [k \in DOMAIN F.members |-> Bytes(b, at + offsetof(F)[k], F.members[k])]
ValuesAt(b, at, F, n) == [k \in 1..n |-> ValueAt(b, at + (k - 1) * sizeof(F), F)]

\* mutant: what pads a block is not skipped.
ReadBlockUnpadded(b, at, elsize) ==
    LET count == ReadNumber(b, at, size_type)
        sz == Count(count.v) * elsize
    IN  IF Fits(b, count.at, sz) THEN Cursor(count.at + sz, Bytes(b, count.at, sz)) ELSE Misread
\* memblock::read, lstring_from_stream: n elements and what pads them.
ReadBlock(b, at, elsize) ==
    LET count == ReadNumber(b, at, size_type)
        sz == Count(count.v) * elsize
    IN  IF Fits(b, count.at, Align(sz, size_type))
          THEN Cursor(count.at + Align(sz, size_type), Bytes(b, count.at, sz))
          ELSE Misread
ReadString(b, at) ==
    LET block == ReadBlock(b, at, 1)
    IN  Cursor(block.at, SubSeq(block.v, 1, Len(block.v) - 1))
ReadFlat(b, at, F) ==
    CASE F.kind = "string" -> ReadString(b, at)
      [] F.kind # "string" /\ Fits(b, at, sizeof(F)) -> Cursor(at + sizeof(F), ValueAt(b, at, F))
      [] OTHER -> Misread

\* A vector of small elements is read as a block, and seen as elements then.
ReadCopied(b, at, F) ==
    LET block == ReadBlock(b, at, sizeof(F))
        count == ReadNumber(b, at, size_type)
        n == Count(count.v)
        first == Align(count.at, elements_align(F, 1))
    IN  CASE alignof(F) <= size_type ->
                Cursor(block.at, ValuesAt(block.v, 0, F, Len(block.v) \div sizeof(F)))
          [] alignof(F) > size_type /\ count.at >= 0 /\ (n = 0 \/ Fits(b, first, n * sizeof(F))) ->
                Cursor(first + n * sizeof(F), ValuesAt(b, first, F, n))
          [] OTHER -> Misread

\* Each of the elements takes a byte at least.
ReadNext(c, read) ==
    LET e == read[c.at] IN IF c.at < 0 \/ e.at < 0 THEN Misread ELSE Cursor(e.at, Append(c.v, e.v))
ReadEach(b, at, read, n) ==
    LET c[k \in 0..n] == IF k = 0 THEN Cursor(at, <<>>) ELSE ReadNext(c[k - 1], read)
    IN  IF n > Len(b) THEN Misread ELSE c[n]
ReadVector(b, at, F, d, read) ==
    LET count == ReadNumber(b, at, size_type)
    IN  IF count.at < 0 THEN Misread
        ELSE ReadEach(b, Align(count.at, elements_align(F, d)), read, Count(count.v))
Read(b, at, T) ==
    LET F == T.of
        read[d \in 0..T.depth] ==
            [p \in Nat |->
                CASE d = 0 -> ReadFlat(b, p, F)
                  [] d = 1 /\ is_trivially_copyable(F) -> ReadCopied(b, p, F)
                  [] OTHER -> ReadVector(b, p, F, d, read[d - 1])]
    IN  read[T.depth][at]

ReadArg(b, c, T) ==
    LET arg == Read(b, c.at, T)
    IN  IF c.at < 0 \/ arg.at < 0 THEN Misread ELSE Cursor(arg.at, Append(c.v, arg.v))
Readings(b, types) ==
    LET c[k \in 0..Len(types)] == IF k = 0 THEN Cursor(0, <<>>) ELSE ReadArg(b, c[k - 1], types[k])
    IN  c
ReadArgs(b, types) == Readings(b, types)[Len(types)]

-----------------------------------------------------------------------------
(* Validation *)

SigelementSize(c) == CASE c = "y" -> 1 [] c = "q" -> 2 [] c = "u" -> 4 [] c = "x" -> 8 [] OTHER -> 0

\* Where the element of a signature at i ends and the next one begins: after the
\* matching parenthesis if it opens one, else after the character.
Depth(sig, i, n) == Cardinality({k \in i..n : sig[k] = "("}) - Cardinality({k \in i..n : sig[k] = ")"})
SkipOneSigelement(sig, i) ==
    LET Ends(n) == n = Len(sig) \/ Depth(sig, i, n) = 0
    IN  1 + CHOOSE n \in i..Len(sig) : Ends(n) /\ \A m \in i..n - 1 : ~Ends(m)

\* A struct is aligned as the most of what is between its parentheses.
SigelementAlignment(sig, i) ==
    LET Own(c) == IF c \in {"a", "s"} THEN size_type ELSE SigelementSize(c)
    IN  Greatest({0} \cup {Own(sig[k]) : k \in i..SkipOneSigelement(sig, i) - 1})

\* Where a validator is: in the body and in the signature, with the size it has
\* seen, which is 0 once it found an error.
At(at, i, sz) == [at |-> at, i |-> i, sz |-> sz]
Invalid == At(0, 0, 0)
\* mutant: the end of the body is not a place to align to.
CanAlignWithin(b, at, grain) == Align(at, grain) < Len(b)
CanAlign(b, at, grain) == Align(at, grain) <= Len(b)
ValidateReadAlign(v, grain) ==
    LET at == Align(v.at, grain) IN At(at, v.i, v.sz + at - v.at)

\* The element at i of the signature, after what v has seen; validate is how an
\* element is validated.
ValidateNext(v, i, validate) ==
    LET e == validate[<<v.at, i>>]
    IN  IF v.i = 0 \/ e.sz = 0 THEN Invalid ELSE At(e.at, e.i, v.sz + e.sz)

\* A struct's members, up to its closing parenthesis, which is left.
ValidateMembers(sig, first, validate) ==
    LET Member(v) == IF v.i \in 1..Len(sig) /\ sig[v.i] # ")" THEN ValidateNext(v, v.i, validate) ELSE v
        v[k \in 0..Len(sig)] == IF k = 0 THEN first ELSE Member(v[k - 1])
    IN  v[Len(sig)]

\* n elements of an array with the same signature; each takes a byte at least.
ValidateElements(b, first, n, validate) ==
    LET v[k \in 0..n] == IF k = 0 THEN first ELSE ValidateNext(v[k - 1], first.i, validate)
    IN  IF n > Len(b) THEN Invalid ELSE v[n]

ValidateNumber(b, sig, at, i) ==
    LET sz == SigelementSize(sig[i])
    IN  IF Fits(b, at, sz) /\ at % sz = 0 THEN At(at + sz, i + 1, sz) ELSE Invalid

ValidateStruct(b, sig, at, i, validate) ==
    LET sal == SigelementAlignment(sig, i)
        members == ValidateMembers(sig, ValidateReadAlign(At(at, i + 1, 0), sal), validate)
    IN  IF CanAlign(b, at, sal) /\ members.i # 0 /\ CanAlign(b, members.at, sal)
          THEN ValidateReadAlign(members, sal) ELSE Invalid

\* Arrays and strings.  Elements of a fixed size are skipped together, and the
\* last byte of a string must be zero.
ValidateArray(b, sig, at, i, validate) ==
    LET isArray == sig[i] = "a"
        nel == Count(Bytes(b, at, size_type))
        elsz == IF isArray THEN SigelementSize(sig[i + 1]) ELSE 1
        elal == IF isArray THEN Greatest({SigelementAlignment(sig, i + 1), 4}) ELSE 4
        first == ValidateReadAlign(At(at + 4, i + 1, 4), elal)
        last == CASE elsz = 0 -> ValidateElements(b, first, nel, validate)
                  [] elsz # 0 /\ ~Fits(b, first.at, elsz * nel) -> Invalid
                  [] OTHER -> At(first.at + elsz * nel, i + 1, first.sz + elsz * nel)
        rest == IF isArray THEN SkipOneSigelement(sig, i + 1) ELSE i + 1
    IN  IF /\ Fits(b, at, 4) /\ at % 4 = 0 /\ CanAlign(b, at + 4, elal)
           /\ last.i # 0
           /\ ~isArray => b[last.at] = 0
           /\ CanAlign(b, last.at, elal)
          THEN [ValidateReadAlign(last, elal) EXCEPT !.i = rest] ELSE Invalid

\* The ')' that a struct leaves is no element, and fails.  Elements are within
\* each other no deeper than the signature is long.
ValidateSigelement(b, sig) ==
    LET validate[d \in 0..Len(sig)] ==
            [x \in Nat \X (1..Len(sig)) |->
                CASE d = 0 \/ sig[x[2]] = ")" -> Invalid
                  [] d # 0 /\ SigelementSize(sig[x[2]]) # 0 -> ValidateNumber(b, sig, x[1], x[2])
                  [] d # 0 /\ sig[x[2]] = "(" -> ValidateStruct(b, sig, x[1], x[2], validate[d - 1])
                  [] OTHER -> ValidateArray(b, sig, x[1], x[2], validate[d - 1])]
    IN  validate[Len(sig)]

ValidateSignature(b, sig) ==
    LET Element(v) == IF v.i \in 1..Len(sig) THEN ValidateNext(v, v.i, ValidateSigelement(b, sig)) ELSE v
        v[k \in 0..Len(sig)] == IF k = 0 THEN At(0, 1, 0) ELSE Element(v[k - 1])
    IN  v[Len(sig)].sz

-----------------------------------------------------------------------------
(* A call *)

Init ==
    /\ stage = "new" /\ route = "local" /\ method = <<>> /\ args = <<>>
    /\ size = 0 /\ body = <<>> /\ got = Cursor(0, <<>>)

\* ProxyB::Send
Send ==
    /\ stage = "new" /\ stage' = "sent"
    /\ method' \in Methods /\ args' \in Arguments(method')
    /\ size' = variadic_stream_size(method', args')
    /\ body' = WriteArgs(method', args')
    /\ UNCHANGED <<route, got>>

\* A message of a peer, framed right, with a body that nobody here wrote.
PeerSends ==
    /\ stage = "new" /\ stage' = "exported" /\ route' = "foreign"
    /\ method' \in Methods /\ body' \in Foreign
    /\ UNCHANGED <<args, size, got>>

Deliver ==
    /\ stage = "sent" /\ stage' = "delivered"
    /\ UNCHANGED <<route, method, args, size, body, got>>

\* mutant: the size goes out as it is.
ExportUnpadded ==
    /\ stage = "sent" /\ stage' = "exported" /\ route' = "exported"
    /\ UNCHANGED <<method, args, size, body, got>>
\* Msg's constructor pads the body, and ExtMsg sends the padding.
Export ==
    /\ stage = "sent" /\ stage' = "exported" /\ route' = "exported"
    /\ body' = Aligned(body, Body)
    /\ UNCHANGED <<method, args, size, got>>

\* mutant: TrimBody left out.
AcceptUntrimmed ==
    LET vsz == ValidateSignature(body, Signature(method))
    IN  /\ stage = "exported" /\ stage' = IF Align(vsz, Body) = Len(body) THEN "delivered" ELSE "refused"
        /\ size' = vsz
        /\ UNCHANGED <<route, method, args, body, got>>
\* AcceptIncomingMessage: the padding is cut off again.
Accept ==
    LET vsz == ValidateSignature(body, Signature(method))
        valid == Align(vsz, Body) = Len(body)
    IN  /\ stage = "exported" /\ stage' = IF valid THEN "delivered" ELSE "refused"
        /\ size' = vsz
        /\ body' = IF valid THEN SubSeq(body, 1, vsz) ELSE body
        /\ UNCHANGED <<route, method, args, got>>

\* The dispatch templates of the interfaces.
Unmarshal ==
    /\ stage = "delivered" /\ stage' = "read"
    /\ got' = ReadArgs(body, method)
    /\ UNCHANGED <<route, method, args, size, body>>

Next == Send \/ PeerSends \/ Deliver \/ Export \/ Accept \/ Unmarshal

Spec == Init /\ [][Next]_vars
-----------------------------------------------------------------------------
\* Every variable has its type, and a body on its way between processes is
\* padded to the grain that Msg's constructor gives it.
TypeOK ==
    /\ stage \in {"new", "sent", "exported", "refused", "delivered", "read"}
    /\ route \in {"local", "exported", "foreign"} /\ method \in Methods \cup {<<>>} /\ size \in Nat
    /\ body \in Seq(0..255)
    /\ stage \in {"exported", "refused"} => Len(body) % Body = 0

\* The proxy's author ordered the arguments so that each lies aligned: Send does
\* not align them.
Offset(k) == Sizes(method, args)[k - 1]
Placed == \A k \in DOMAIN args :
    LET T == method[k]
    IN  Offset(k) % (IF T.depth = 0 /\ T.of.kind = "number" THEN T.of.sz ELSE size_type) = 0

\* The types whose signatures the validator follows: a struct as an argument of
\* its own, an array of strings or of arrays, and a struct with padding between
\* its members are not among them.
Packed(F) ==
    \A k \in DOMAIN F.members :
        k + 1 \in DOMAIN F.members => offsetof(F)[k + 1] = offsetof(F)[k] + F.members[k]
Followed(T) ==
    \/ T.depth = 0 /\ T.of.kind \in {"number", "string"}
    \/ T.depth = 1 /\ T.of.kind = "number"
    \/ T.depth = 1 /\ T.of.kind = "struct" /\ Packed(T.of)

\* The elements that WriteElements loses.
Wide(T) == T.depth > 0 /\ is_trivially_copyable(T.of) /\ alignof(T.of) > size_type

\* What sstream adds up for the arguments is what ostream writes of them, for
\* every type: CommitMsg's first assertion.
SizedRight == stage = "sent" => Len(body) = size

\* A message that a proxy wrote, of types the validator follows, is not refused by
\* the process it is exported to.
Accepted == stage = "refused" /\ route = "exported" /\ Placed => \E k \in DOMAIN method : ~Followed(method[k])

\* The receiver reads the arguments that were sent, in the same process or in
\* another.
ReadBack ==
    /\ stage = "read" /\ route # "foreign" /\ Placed
    /\ route = "exported" => \A k \in DOMAIN method : Followed(method[k])
    => \A k \in DOMAIN method : Wide(method[k]) \/ (k \in DOMAIN got.v /\ got.v[k] = args[k])

\* Whoever wrote an accepted body, reading the method's arguments from it stays
\* within it and leaves nothing, unless it was accepted as empty: the reader
\* checks nothing itself ("errors should have been reported by the message
\* validator").  Nothing is validated on the way within a process, so there the
\* arguments have to lie aligned.
ReadToEnd ==
    /\ stage = "read" /\ size # 0
    /\ route = "local" => Placed
    => got.at = Len(body) \/ \E k \in DOMAIN method : ~Followed(method[k])
=============================================================================
