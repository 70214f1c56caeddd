------------------------------- MODULE Memory -------------------------------
(***************************************************************************)
(* The containers of cwiclo: memblock (memblock.h, memblock.cc), string    *)
(* (string.h), which is a memblock that keeps a terminating zero, and      *)
(* vector (vector.h), which keeps objects with constructors and destructors *)
(* in a memblock and moves them with the memblock's byte copies.           *)
(*                                                                         *)
(* A memblock either owns a block of the heap (its capacity is not zero)   *)
(* or is linked to memory it must not write or free (its capacity is zero). *)
(* Every operation works on the same memory: it is an operator from the    *)
(* memory to the memory, and the operations that call each other in the    *)
(* code are composed here in the same order.                               *)
(*                                                                         *)
(* Sizes count cells: a cell is a byte of a block or string, an element of *)
(* a vector.  A reallocation always moves the block, the worst case for    *)
(* whoever still points into the old one.                                  *)
(***************************************************************************)
EXTENDS Integers, Sequences, FiniteSets, Functions

CONSTANTS
    Objects,    \* the containers of the program
    Pairings,   \* the kinds the containers may have: a set of functions
    Literals,   \* the texts of the program, a sequence of sequences of Values
    Values,     \* the values of bytes and elements that texts are made of
    MaxSize     \* bound: no more cells are held, by all containers together

Kinds == {"block", "string", "vector"}

ASSUME MemoryAssumption ==
    /\ IsFiniteSet(Objects)
    /\ Pairings \subseteq [Objects -> Kinds]
    /\ Values \subseteq Nat \ {0}
    /\ Literals \in Seq(Seq(Values))
    /\ MaxSize \in Nat \ {0}

VARIABLES
    kind,       \* kind[o]: the class of container o
    mem,        \* the memory: see TypeOK
    expected    \* expected[o]: what the program put into o

vars == <<kind, mem, expected>>

Null == 0           \* a heap address is 1, 2, ...; text k of the program is at -k
Nul == 0            \* the terminating zero; also the value a T() has
Junk == -1          \* a cell nothing was written to; a token nothing lives at
Addrs == 1..(Cardinality(Objects) + 1)
Tokens == 1..((Cardinality(Objects) + 1) * MaxSize)

Gone == [made |-> FALSE, data |-> Null, size |-> 0, cap |-> 0, zt |-> FALSE]

Init ==
    /\ kind \in Pairings
    /\ mem = [obj   |-> [o \in Objects |-> Gone],
              heap  |-> [a \in Addrs |-> <<>>],
              elem  |-> [t \in Tokens |-> Junk],
              fault |-> FALSE]
    /\ expected = [o \in Objects |-> <<>>]

-----------------------------------------------------------------------------
(* Cells, the copies and the heap *)

Zt(b) == IF b.zt THEN 1 ELSE 0
Fault(m) == [m EXCEPT !.fault = TRUE]
Cells(m, p) == IF p < 0 THEN Append(Literals[-p], Nul) ELSE m.heap[p]
InBounds(m, p, i, n) == n = 0 \/ (p # Null /\ i >= 0 /\ i + n <= Len(Cells(m, p)))
Overlay(c, i, s) == [k \in DOMAIN c |-> IF k \in i+1..i+Len(s) THEN s[k - i] ELSE c[k]]
Filled(n, v) == [k \in 1..n |-> v]

\* Writes s from cell i of p.  The texts of the program are read only.
Put(m, p, i, s) ==
    IF s = <<>> THEN m
    ELSE IF p > 0 /\ InBounds(m, p, i, Len(s)) THEN [m EXCEPT !.heap[p] = Overlay(@, i, s)]
    ELSE Fault(m)

\* copy_n between different blocks.
CopyFrom(m, src, n, dst, i) ==
    IF InBounds(m, src, 0, n)
    THEN Put(m, dst, i, IF n = 0 THEN <<>> ELSE SubSeq(Cells(m, src), 1, n))
    ELSE Fault(m)

\* copy_n and copy_backward_n inside one block: n cells from f on go to r on,
\* the first cell first and the last cell first, and read what was written.
CopyN(c, f, n, r) ==
    Overlay(c, r, [k \in 1..n |-> c[f + 1 + (IF r > f THEN (k - 1) % (r - f) ELSE k - 1)]])
CopyBackwardForwards(c, f, n, r) == CopyN(c, f, n, r)
CopyBackwardN(c, f, n, r) ==
    Overlay(c, r, [k \in 1..n |->
        c[f + k + (IF r < f THEN (f - r) * ((n - k) \div (f - r)) ELSE 0)]])

FreeAddr(m) == CHOOSE a \in Addrs : m.heap[a] = <<>> /\ \A b \in 1..(a - 1) : m.heap[b] # <<>>

Release(m, p) ==
    IF p = Null THEN m
    ELSE IF p \in Addrs /\ m.heap[p] # <<>> THEN [m EXCEPT !.heap[p] = <<>>]
    ELSE Fault(m)

\* _realloc: the new block is at FreeAddr(m) and keeps what fits of the old one.
Realloc(m, old, cap) ==
    LET was == IF old = Null THEN <<>> ELSE m.heap[old]
    IN  Release([m EXCEPT !.heap[FreeAddr(m)] =
                    [k \in 1..cap |-> IF k <= Len(was) THEN was[k] ELSE Junk]], old)

\* The least of 2, 4, 8, ... that is not less than n.
NextPow2(n) ==
    LET doubled[k \in 0..n] == IF k = 0 THEN 2
                               ELSE IF doubled[k - 1] < n THEN 2 * doubled[k - 1] ELSE doubled[k - 1]
    IN  doubled[n]

-----------------------------------------------------------------------------
(* memblock *)

\* The cells a memblock needs to hold n, with the terminating zero.
NeededBare(b, n) == n
Needed(b, n) == n + Zt(b)

Reserve(m, o, n) ==
    LET b == m.obj[o]
        cap == Needed(b, n)
        old == IF b.cap > 0 THEN b.data ELSE Null
        new == FreeAddr(m)
        r == Realloc(m, old, NextPow2(cap))
        copied == IF old = Null /\ b.data # Null
                  THEN CopyFrom(r, b.data, IF b.size + Zt(b) < NextPow2(cap)
                                           THEN b.size + Zt(b) ELSE NextPow2(cap), new, 0)
                  ELSE r
    IN  IF cap <= b.cap THEN m
        ELSE [copied EXCEPT !.obj[o].data = new, !.obj[o].cap = NextPow2(cap)]

SetSize(m, o, n) == [m EXCEPT !.obj[o].size = n]

Resize(m, o, n) ==
    LET s == SetSize(Reserve(m, o, n), o, n)
    IN  IF s.obj[o].zt THEN Put(s, s.obj[o].data, n, <<Nul>>) ELSE s

Assign(m, o, p, n) ==
    LET r == Resize(m, o, n)
    IN  CopyFrom(r, p, n, r.obj[o].data, 0)

\* memblock::insert (start, n): n cells of room at i.
InsertHole(m, o, i, n) ==
    LET r == Resize(m, o, m.obj[o].size + n)
        b == r.obj[o]
    IN  IF b.size = i + n THEN r
        ELSE Put(r, b.data, 0, CopyBackwardN(r.heap[b.data], i, b.size - (i + n), i + n))

InsertCells(m, o, i, p, n) ==
    LET h == InsertHole(m, o, i, n)
    IN  CopyFrom(h, p, n, h.obj[o].data, i)

Erase(m, o, i, n) ==
    LET b == m.obj[o]
        moved == IF b.size = i + n \/ n = 0 THEN m
                 ELSE Put(m, b.data, 0, CopyN(Cells(m, b.data), i + n, b.size - (i + n), i))
    IN  Resize(moved, o, b.size - n)

Replace(m, o, i, d, p, n) ==
    LET w == IF n > d THEN InsertHole(m, o, i, n - d) ELSE Erase(m, o, i, d - n)
    IN  CopyFrom(w, p, n, w.obj[o].data, i)

UnlinkKeepSize(m, o) == [m EXCEPT !.obj[o].data = Null, !.obj[o].cap = 0]
Unlink(m, o) == [m EXCEPT !.obj[o].data = Null, !.obj[o].size = 0, !.obj[o].cap = 0]

Deallocate(m, o) ==
    Release(Unlink(m, o), IF m.obj[o].cap > 0 THEN m.obj[o].data ELSE Null)

ShrinkToFit(m, o) ==
    LET b == m.obj[o]
        new == FreeAddr(m)
        r == Realloc(m, b.data, b.size + Zt(b))
    IN  [r EXCEPT !.obj[o].data = new, !.obj[o].cap = b.size + Zt(b)]

\* A memblock just constructed: linked to n cells at p, or empty.
Link(m, o, p, n, z) ==
    [m EXCEPT !.obj[o] = [made |-> TRUE, data |-> p, size |-> n, cap |-> 0, zt |-> z]]

\* The move constructor leaves the source empty, without its zero termination.
MoveFromShared(m, o, q) == [m EXCEPT !.obj[o] = m.obj[q]]
MoveFrom(m, o, q) ==
    [m EXCEPT !.obj[o] = m.obj[q], !.obj[q] = [Gone EXCEPT !.made = TRUE]]

Swap(m, o, q) == [m EXCEPT !.obj[o] = m.obj[q], !.obj[q] = m.obj[o]]

\* Takes over a block the program allocated and filled with text k.
Manage(m, o, k) ==
    LET n == Len(Literals[k])
        a == FreeAddr(m)
    IN  [m EXCEPT !.heap[a] = Literals[k],
                  !.obj[o].data = a, !.obj[o].size = n, !.obj[o].cap = n]

Destroyed(m, o) == [Deallocate(m, o) EXCEPT !.obj[o] = Gone]

-----------------------------------------------------------------------------
(* string: what it adds to a memblock *)

PushBack(m, o, v) ==
    LET r == Resize(m, o, m.obj[o].size + 1)
    IN  Put(r, r.obj[o].data, r.obj[o].size - 1, <<v>>)

PopBackUnterminated(m, o) == SetSize(m, o, m.obj[o].size - 1)
PopBack(m, o) ==
    LET r == SetSize(m, o, m.obj[o].size - 1)
    IN  Put(r, r.obj[o].data, r.obj[o].size, <<Nul>>)

ClearString(m, o) ==
    LET r == SetSize(m, o, 0)
    IN  IF r.obj[o].data = Null THEN r ELSE Put(r, r.obj[o].data, 0, <<Nul>>)

InsertFill(m, o, i, n, v) ==
    LET h == InsertHole(m, o, i, n)
    IN  Put(h, h.obj[o].data, i, Filled(n, v))

-----------------------------------------------------------------------------
(* vector: a cell of its memblock holds an element, which is a token with a *)
(* value while it lives.  A byte copy of the cell moves the token.          *)

Cell(m, o, k) == Cells(m, m.obj[o].data)[k]
Alive(m, t) == t \in Tokens /\ m.elem[t] # Junk
Elements(m, o) == [k \in 1..m.obj[o].size |->
    IF Alive(m, Cell(m, o, k)) THEN m.elem[Cell(m, o, k)] ELSE Junk]

FreeToken(m) == CHOOSE t \in Tokens : m.elem[t] = Junk /\ \A u \in 1..(t - 1) : m.elem[u] # Junk

\* construct_at: a new element of value v in cell k of block p (cells from 0).
ConstructAt(m, p, k, v) ==
    LET t == FreeToken(m)
    IN  Put([m EXCEPT !.elem[t] = v], p, k, <<t>>)

\* uninitialized_copy_n and its like: one element for every value of s.
Construct(m, p, i, s) ==
    LET made[k \in 0..Len(s)] == IF k = 0 THEN m ELSE ConstructAt(made[k - 1], p, i + k - 1, s[k])
    IN  made[Len(s)]

\* destroy (f, l): nothing when l is not after f.
DestroyRange(m, p, f, l) ==
    LET dead == {m.heap[p][k] : k \in f+1..l}
    IN  IF f >= l THEN m
        ELSE IF InBounds(m, p, f, l - f) /\ Cardinality(dead) = l - f
                /\ \A t \in dead : Alive(m, t)
        THEN [m EXCEPT !.elem = [t \in Tokens |-> IF t \in dead THEN Junk ELSE @[t]]]
        ELSE Fault(m)

\* copy and fill: the assignment operator of elements that already live.
AssignElements(m, o, s) ==
    IF \A k \in DOMAIN s : Alive(m, Cell(m, o, k))
    THEN [m EXCEPT !.elem = [t \in Tokens |->
            IF \E k \in DOMAIN s : Cell(m, o, k) = t
            THEN s[CHOOSE k \in DOMAIN s : Cell(m, o, k) = t] ELSE @[t]]]
    ELSE Fault(m)

\* resize (n) makes elements T(), resize (n, v) copies of v.
ResizeVectorForgets(m, o, n, v) ==
    LET r == Reserve(m, o, n)
        b == r.obj[o]
    IN  SetSize(Construct(r, b.data, b.size, Filled(IF n > b.size THEN n - b.size ELSE 0, v)), o, n)
ResizeVector(m, o, n, v) ==
    LET r == Reserve(m, o, n)
        b == r.obj[o]
        d == DestroyRange(r, b.data, n, b.size)
        c == Construct(d, b.data, b.size, Filled(IF n > b.size THEN n - b.size ELSE 0, v))
    IN  SetSize(c, o, n)

InsertElements(m, o, i, s) ==
    LET h == InsertHole(m, o, i, Len(s))
    IN  Construct(h, h.obj[o].data, i, s)

EraseElements(m, o, i, n) ==
    Erase(DestroyRange(m, m.obj[o].data, i, i + n), o, i, n)

AssignVector(m, o, s) == AssignElements(ResizeVector(m, o, Len(s), Nul), o, s)
FillVector(m, o, n, v) == AssignElements(ResizeVector(m, o, n, Nul), o, Filled(n, v))

PopBackElement(m, o) ==
    LET b == m.obj[o]
    IN  DestroyRange(SetSize(m, o, b.size - 1), b.data, b.size - 1, b.size)

\* is_linked () is a capacity of zero: an empty vector, for all that is here.
DestroyAll(m, o) ==
    IF m.obj[o].cap = 0 THEN m ELSE DestroyRange(m, m.obj[o].data, 0, m.obj[o].size)

ClearVector(m, o) == Resize(DestroyAll(m, o), o, 0)
DeallocateVector(m, o) == Deallocate(DestroyAll(m, o), o)
DestroyedVector(m, o) == Destroyed(DestroyAll(m, o), o)

-----------------------------------------------------------------------------
(* The program's calls.  A call is made when the preconditions it has in    *)
(* the code (its asserts, and what README.md names) hold.                   *)

Obj(o) == mem.obj[o]
Size(o) == Obj(o).size
IsBytes(o) == Obj(o).made /\ kind[o] # "vector" /\ (kind[o] = "string" => Obj(o).zt)
IsString(o) == IsBytes(o) /\ kind[o] = "string"
IsVector(o) == Obj(o).made /\ kind[o] = "vector"
Owns(o) == Obj(o).cap > 0
Unmade(o) == ~Obj(o).made

\* A call on o left the memory m; o is to hold v now.  The bound is on the sum
\* of the sizes; that it bounds each of them is said for the proofs, which
\* cannot unfold a fold.
Does(o, m, v) ==
    /\ \A q \in Objects : m.obj[q].size <= MaxSize
    /\ FoldFunction(+, 0, [q \in Objects |-> m.obj[q].size]) <= MaxSize
    /\ mem' = m
    /\ expected' = [expected EXCEPT ![o] = v]
    /\ UNCHANGED kind

\* What a call may copy from: a text, or what another container holds.
Texts == {[p |-> -k, n |-> Len(Literals[k]), v |-> Literals[k]] : k \in DOMAIN Literals}
Held(q) == [p |-> Obj(q).data, n |-> Size(q), v |-> expected[q]]
Sources(o) == Texts \cup {Held(q) : q \in {q \in Objects \ {o} : IsBytes(q)}}

Before(s, i) == SubSeq(s, 1, i)
After(s, i) == SubSeq(s, i + 1, Len(s))
With(s, i, d, t) == Before(s, i) \o t \o After(s, i + d)
Resized(s, n, v) == [k \in 1..n |-> IF k <= Len(s) THEN s[k] ELSE v]

ConstructBytes(o) ==
    /\ Unmade(o)
    /\ kind[o] # "vector"
    /\ LET z == kind[o] = "string"
       IN  \/ Does(o, Link(mem, o, Null, 0, z), <<>>)
           \/ \E s \in Texts : Does(o, Link(mem, o, s.p, s.n, z), s.v)
           \/ /\ z
              /\ \E s \in Texts \cup {Held(q) : q \in {q \in Objects : IsString(q)}} :
                    LET l == Link(mem, o, s.p, s.n, TRUE)
                    IN  Does(o, Resize(l, o, s.n), s.v)
           \/ /\ ~z
              /\ \E q \in Objects : IsBytes(q) /\
                    LET l == Link(mem, o, Null, 0, FALSE)
                    IN  Does(o, Assign(l, o, Obj(q).data, Size(q)), expected[q])

ConstructVector(o) ==
    /\ Unmade(o)
    /\ kind[o] = "vector"
    /\ LET e == Link(mem, o, Null, 0, FALSE)
       IN  \/ Does(o, e, <<>>)
           \/ \E n \in 1..MaxSize, v \in Values \cup {Nul} :
                Does(o, InsertElements(e, o, 0, Filled(n, v)), Filled(n, v))
           \/ \E s \in Texts : Does(o, InsertElements(e, o, 0, s.v), s.v)
           \/ \E q \in Objects : IsVector(q) /\
                Does(o, InsertElements(e, o, 0, Elements(mem, q)), expected[q])

MoveConstruct(o) ==
    /\ Unmade(o)
    /\ \E q \in Objects :
        /\ kind[q] = kind[o]
        /\ IsBytes(q) \/ IsVector(q)
        /\ mem' = MoveFrom(mem, o, q)
        /\ expected' = [expected EXCEPT ![o] = expected[q], ![q] = <<>>]
        /\ UNCHANGED kind

Destruct(o) ==
    /\ Obj(o).made
    /\ Does(o, IF kind[o] = "vector" THEN DestroyedVector(mem, o) ELSE Destroyed(mem, o), <<>>)

SwapWith(o) ==
    \E q \in Objects \ {o} :
        /\ Obj(o).made /\ Obj(q).made
        /\ kind[q] = kind[o]
        /\ mem' = Swap(mem, o, q)
        /\ expected' = [expected EXCEPT ![o] = expected[q], ![q] = expected[o]]
        /\ UNCHANGED kind

AssignBytes(o) ==
    /\ IsBytes(o)
    /\ \/ \E s \in Sources(o) : Does(o, Assign(mem, o, s.p, s.n), s.v)
       \/ Does(o, Assign(mem, o, Obj(o).data, Size(o)), expected[o])

SizeBytes(o) ==
    /\ IsBytes(o)
    /\ \/ \E n \in 0..MaxSize :
            \/ Does(o, Resize(mem, o, n), Resized(expected[o], n, Junk))
            \/ /\ Owns(o) \/ n >= Size(o)
               /\ Does(o, Reserve(mem, o, n), expected[o])
       \/ /\ Owns(o) /\ Size(o) > 0
          /\ Does(o, ShrinkToFit(mem, o), expected[o])
       \/ Does(o, Resize(mem, o, Size(o)), expected[o])
       \/ Does(o, Deallocate(mem, o), <<>>)

InsertBytes(o) ==
    /\ IsBytes(o)
    /\ \E i \in 0..Size(o), s \in Sources(o) :
        /\ Size(o) + s.n <= MaxSize
        /\ Does(o, InsertCells(mem, o, i, s.p, s.n), With(expected[o], i, 0, s.v))

EraseBytes(o) ==
    /\ IsBytes(o)
    /\ Owns(o)
    /\ \E i \in 0..Size(o) : \E n \in 0..(Size(o) - i) :
        \/ Does(o, Erase(mem, o, i, n), With(expected[o], i, n, <<>>))
        \/ \E s \in Sources(o) :
            /\ Size(o) - n + s.n <= MaxSize
            /\ Does(o, Replace(mem, o, i, n, s.p, s.n), With(expected[o], i, n, s.v))

ManageBytes(o) ==
    /\ IsBytes(o)
    /\ kind[o] = "block"
    /\ ~Owns(o)
    /\ \E k \in DOMAIN Literals :
        Literals[k] # <<>> /\ Does(o, Manage(mem, o, k), Literals[k])

EditString(o) ==
    /\ IsString(o)
    /\ \/ \E v \in Values : /\ Size(o) < MaxSize
                            /\ Does(o, PushBack(mem, o, v), Append(expected[o], v))
       \/ \E i \in 0..Size(o), n \in 1..MaxSize, v \in Values :
            /\ Size(o) + n <= MaxSize
            /\ Does(o, InsertFill(mem, o, i, n, v), With(expected[o], i, 0, Filled(n, v)))
       \/ /\ Owns(o) /\ Size(o) > 0
          /\ Does(o, PopBack(mem, o), Before(expected[o], Size(o) - 1))
       \/ /\ Owns(o) \/ Obj(o).data = Null
          /\ Does(o, ClearString(mem, o), <<>>)

SizeVector(o) ==
    /\ IsVector(o)
    /\ \/ \E n \in 0..MaxSize :
            \/ \E v \in Values \cup {Nul} :
                Does(o, ResizeVector(mem, o, n, v), Resized(expected[o], n, v))
            \/ Does(o, Reserve(mem, o, n), expected[o])
       \/ /\ Owns(o) /\ Size(o) > 0
          /\ Does(o, ShrinkToFit(mem, o), expected[o])
       \/ Does(o, ClearVector(mem, o), <<>>)
       \/ Owns(o) /\ Does(o, DeallocateVector(mem, o), <<>>)

AssignToVector(o) ==
    /\ IsVector(o)
    /\ \/ \E s \in Texts : Does(o, AssignVector(mem, o, s.v), s.v)
       \/ \E q \in Objects : IsVector(q) /\
            Does(o, AssignVector(mem, o, Elements(mem, q)), expected[q])
       \/ \E n \in 0..MaxSize, v \in Values : Does(o, FillVector(mem, o, n, v), Filled(n, v))

EditVector(o) ==
    /\ IsVector(o)
    /\ \E i \in 0..Size(o) :
        \/ \E s \in Texts \cup {[v |-> Filled(n, v)] : n \in 1..MaxSize, v \in Values} :
            /\ Size(o) + Len(s.v) <= MaxSize
            /\ Does(o, InsertElements(mem, o, i, s.v), With(expected[o], i, 0, s.v))
        \/ \E n \in 0..(Size(o) - i) :
            \/ Does(o, EraseElements(mem, o, i, n), With(expected[o], i, n, <<>>))
            \/ \E s \in Texts :
                /\ Size(o) - n + s.n <= MaxSize
                /\ Does(o, InsertElements(EraseElements(mem, o, i, n), o, i, s.v),
                        With(expected[o], i, n, s.v))
        \/ /\ Size(o) > 0 /\ i = Size(o)
           /\ Does(o, PopBackElement(mem, o), Before(expected[o], Size(o) - 1))

Next ==
    \E o \in Objects :
        \/ ConstructBytes(o) \/ ConstructVector(o) \/ MoveConstruct(o) \/ Destruct(o)
        \/ SwapWith(o) \/ AssignBytes(o) \/ SizeBytes(o) \/ InsertBytes(o) \/ EraseBytes(o)
        \/ ManageBytes(o) \/ EditString(o)
        \/ SizeVector(o) \/ AssignToVector(o) \/ EditVector(o)

Spec == Init /\ [][Next]_vars

-----------------------------------------------------------------------------
(* Properties *)

\* The memory is well formed: a container without data has no size, and one
\* that owns its data has room for what it holds and its terminating zero.
TypeOK ==
    /\ kind \in Pairings
    /\ \A o \in Objects :
        /\ Obj(o).data \in -Len(Literals)..Cardinality(Addrs)
        /\ Obj(o).data = Null => Size(o) = 0 /\ Obj(o).cap = 0
        /\ Owns(o) => Size(o) + Zt(Obj(o)) <= Obj(o).cap
    /\ \A a \in Addrs : Range(mem.heap[a]) \subseteq Tokens \cup Values \cup {Nul, Junk}

\* After any sequence of insertions, erasures, copies, moves and growth every
\* container holds what the program put into it.
Contents(o) == IF kind[o] = "vector" THEN Elements(mem, o)
               ELSE SubSeq(Cells(mem, Obj(o).data), 1, Size(o))
ValueKept ==
    \A o \in Objects : Obj(o).made =>
        /\ Size(o) = Len(expected[o])
        /\ Size(o) > 0 => \A k \in 1..Size(o) : expected[o][k] \in {Junk, Contents(o)[k]}

\* A string, linked or not, ends in a zero that is its own to read, so that
\* c_str () may be called.  The exception is an empty string that was given its
\* first block by reserve (), which writes nothing to it.
Terminated ==
    \A o \in Objects : IsString(o) /\ Obj(o).data # Null =>
        /\ Size(o) < Len(Cells(mem, Obj(o).data))
        /\ LET z == Cells(mem, Obj(o).data)[Size(o) + 1]
           IN  z = Nul \/ (Size(o) = 0 /\ z = Junk)

\* Every block of the heap is owned by exactly one container, which knows how
\* large it is: nothing is leaked, freed twice or used after it was freed.
OneOwner ==
    /\ \A a \in Addrs : mem.heap[a] # <<>> =>
        Cardinality({o \in Objects : Owns(o) /\ Obj(o).data = a}) = 1
    /\ \A o \in Objects : Owns(o) =>
        Obj(o).data \in Addrs /\ Len(mem.heap[Obj(o).data]) = Obj(o).cap

\* The elements that live are those of the vectors, each in one place: none is
\* destroyed twice or forgotten when its cells are moved.
ElementsAlive ==
    LET held == {h \in Objects \X (1..MaxSize) : IsVector(h[1]) /\ h[2] <= Size(h[1])}
    IN  /\ \A h \in held : Alive(mem, Cell(mem, h[1], h[2]))
        /\ \A t \in Tokens : mem.elem[t] # Junk =>
            Cardinality({h \in held : Cell(mem, h[1], h[2]) = t}) = 1

\* No operation reads or writes past a block, writes a text of the program,
\* frees what is not allocated or destroys what does not live.
NoFault == ~mem.fault
=============================================================================
