-------------------------- MODULE MemoryCellProofs --------------------------
(***************************************************************************)
(* What the cells of the containers hold after each operation of Memory,   *)
(* and that no operation faults, for any number of containers of any size. *)
(***************************************************************************)
EXTENDS MemoryProofs

-----------------------------------------------------------------------------
(* Sequences of cells *)

\* What a cell can hold.
CellValues == Tokens \cup Values \cup {Nul, Junk}
Typed(m) == \A a \in Addrs : \A k \in 1..Len(m.heap[a]) : m.heap[a][k] \in CellValues

\* Somewhere to read from: a block of the heap or a text of the program.
Place(m, p) ==
    \/ p \in Addrs /\ Len(m.heap[p]) # 0
    \/ p < 0 /\ -p \in DOMAIN Literals
Readable(m, p, n) == n = 0 \/ (Place(m, p) /\ n <= Len(Cells(m, p)))

LEMMA SeqIsSequence ==
    ASSUME NEW X, NEW s \in Seq(X)
    PROVE  Sequence(s) /\ Len(s) \in Nat
<1>1. Len(s) \in Nat /\ s = [i \in 1..Len(s) |-> s[i]]
  OBVIOUS
<1> QED BY <1>1 DEF Sequence

LEMMA LiteralCells ==
    ASSUME NEW m, NEW p \in Int, p < 0, -p \in DOMAIN Literals
    PROVE  /\ Sequence(Cells(m, p)) /\ Len(Literals[-p]) \in Nat
           /\ Len(Cells(m, p)) = Len(Literals[-p]) + 1
           /\ \A k \in 1..Len(Literals[-p]) : Cells(m, p)[k] = Literals[-p][k]
           /\ Cells(m, p)[Len(Literals[-p]) + 1] = Nul
<1> DEFINE s == Literals[-p]
           n == Len(s)
           t == Append(s, Nul)
<1>1. Cells(m, p) = t
  BY DEF Cells
<1>2. s \in Seq(Values)
  BY MemoryAssumption
<1> HIDE DEF s
<1>3. n \in Nat /\ s \in Seq(Values \cup {Nul}) /\ Nul \in Values \cup {Nul}
  BY <1>2, SeqMonotonic
<1>4. /\ t \in Seq(Values \cup {Nul}) /\ Len(t) = n + 1
      /\ \A k \in 1..n : t[k] = s[k]
      /\ t[n + 1] = Nul
  BY <1>3, AppendProperties
<1> HIDE DEF t, n
<1>5. Sequence(t)
  BY <1>4, SeqIsSequence
<1> QED BY <1>1, <1>3, <1>4, <1>5 DEF s, n

LEMMA PlaceCells ==
    ASSUME NEW m, Memory(m), NEW p \in Int, Place(m, p)
    PROVE  /\ Sequence(Cells(m, p)) /\ Len(Cells(m, p)) \in Nat /\ p # Null
           /\ p \in Addrs => Cells(m, p) = m.heap[p]
<1>1. p \in Addrs => p > 0 /\ Cells(m, p) = m.heap[p]
  BY AddrIsNumber DEF Cells
<1>2. Sequence(Cells(m, p)) /\ p # Null
  BY <1>1, LiteralCells DEF Place, Memory, Null
<1> QED BY <1>1, <1>2, SequenceProperty

LEMMA OverlayProperty ==
    ASSUME NEW c, Sequence(c), NEW i \in Nat, NEW s, Sequence(s), i + Len(s) <= Len(c)
    PROVE  /\ Sequence(Overlay(c, i, s)) /\ Len(Overlay(c, i, s)) = Len(c)
           /\ \A k \in 1..Len(c) :
                Overlay(c, i, s)[k] = IF k \in i+1..i+Len(s) THEN s[k - i] ELSE c[k]
<1> DEFINE w == Overlay(c, i, s)
           n == Len(c)
<1>1. n \in Nat /\ DOMAIN c = 1..n
  BY SequenceProperty
<1>2. w = [k \in 1..n |-> IF k \in i+1..i+Len(s) THEN s[k - i] ELSE c[k]]
  BY <1>1 DEF Overlay
<1>3. w = [k \in 1..n |-> w[k]]
  BY <1>2
<1>4. \A k \in 1..n : w[k] = IF k \in i+1..i+Len(s) THEN s[k - i] ELSE c[k]
  BY <1>2
<1> HIDE DEF w, n
<1>5. Sequence(w) /\ Len(w) = n
  BY <1>1, <1>3, SequenceLen
<1> QED BY <1>4, <1>5 DEF w, n

-----------------------------------------------------------------------------
(***************************************************************************)
(* An operation on container o: it leaves the other containers and what    *)
(* they own or are linked to as they were.                                 *)
(***************************************************************************)
Changes(m, r, o) ==
    /\ Good(m) /\ Good(r)
    /\ r.fault = m.fault
    /\ Typed(m) => Typed(r)
    /\ \A q \in Objects : q # o => r.obj[q] = m.obj[q]
    /\ \A a \in Addrs : Len(m.heap[a]) # 0 /\ ~OwnsAt(m, o, a) => r.heap[a] = m.heap[a]

\* It also leaves the elements where they are.
Moves(m, r, o) == Changes(m, r, o) /\ r.elem = m.elem

LEMMA ChangesSelf ==
    ASSUME NEW m, Good(m), NEW o
    PROVE  Moves(m, m, o)
BY DEF Moves, Changes

LEMMA ChangesTrans ==
    ASSUME NEW m, NEW r, NEW t, NEW o \in Objects, Changes(m, r, o), Changes(r, t, o)
    PROVE  Changes(m, t, o)
<1>1. ASSUME NEW a \in Addrs, Len(m.heap[a]) # 0, ~OwnsAt(m, o, a)
      PROVE  t.heap[a] = m.heap[a]
  <2>1. PICK q \in Objects : OwnsAt(m, q, a)
    BY <1>1 DEF Changes, Good, Owned
  <2>2. q # o
    BY <1>1, <2>1
  <2>3. OwnsAt(r, q, a)
    BY <2>1, <2>2 DEF Changes, OwnsAt
  <2>4. ~OwnsAt(r, o, a)
    BY <2>2, <2>3 DEF Changes, Good, Owned
  <2>5. r.heap[a] = m.heap[a]
    BY <1>1 DEF Changes
  <2> QED BY <1>1, <2>4, <2>5 DEF Changes
<1>2. \A q \in Objects : q # o => t.obj[q] = m.obj[q]
  BY DEF Changes
<1> QED BY <1>1, <1>2 DEF Changes

LEMMA MovesTrans ==
    ASSUME NEW m, NEW r, NEW t, NEW o \in Objects, Moves(m, r, o), Moves(r, t, o)
    PROVE  Moves(m, t, o)
BY ChangesTrans DEF Moves

\* What can be read elsewhere is still there.
LEMMA StillReadable ==
    ASSUME NEW m, NEW r, NEW o \in Objects, Changes(m, r, o), NEW p \in Int,
           Place(m, p), ~OwnsAt(m, o, p)
    PROVE  Place(r, p) /\ Cells(r, p) = Cells(m, p) /\ ~OwnsAt(r, o, p)
<1>1. CASE p \in Addrs /\ Len(m.heap[p]) # 0
  <2>1. r.heap[p] = m.heap[p]
    BY <1>1 DEF Changes
  <2>2. PICK q \in Objects : OwnsAt(m, q, p)
    BY <1>1 DEF Changes, Good, Owned
  <2>3. q # o /\ OwnsAt(r, q, p)
    BY <2>2 DEF Changes, OwnsAt
  <2>4. ~OwnsAt(r, o, p)
    BY <1>1, <2>3 DEF Changes, Good, Owned
  <2> QED BY <1>1, <2>1, <2>4, AddrIsNumber DEF Place, Cells
<1>2. CASE p < 0 /\ -p \in DOMAIN Literals
  <2>1. ~OwnsAt(r, o, p)
    BY <1>2, AddrIsNumber DEF Changes, Good, Owned, OwnsAt
  <2> QED BY <1>2, <2>1 DEF Place, Cells
<1> QED BY <1>1, <1>2 DEF Place

-----------------------------------------------------------------------------
(* Writing to the block of a container *)

LEMMA OwnCells ==
    ASSUME NEW m, Good(m), NEW o \in Objects, m.obj[o].cap > 0
    PROVE  LET p == m.obj[o].data
           IN  /\ p \in Addrs /\ p \in Int /\ p > 0 /\ Len(m.heap[p]) = m.obj[o].cap
               /\ Sequence(m.heap[p]) /\ Cells(m, p) = m.heap[p] /\ Place(m, p)
               /\ m.obj[o].cap \in Nat
               /\ \A k : Cell(m, o, k) = m.heap[p][k]
<1> DEFINE p == m.obj[o].data
<1>1. p \in Addrs /\ Len(m.heap[p]) = m.obj[o].cap
  BY DEF Good, Owned
<1>2. p \in Int /\ p > 0
  BY <1>1, AddrIsNumber
<1>3. Sequence(m.heap[p]) /\ m.obj[o].cap \in Nat
  BY <1>1 DEF Good, Memory, Block
<1>4. Cells(m, p) = m.heap[p]
  BY <1>2 DEF Cells
<1> QED BY <1>1, <1>2, <1>3, <1>4 DEF Place, Cell

\* Memory with one block replaced.
WithBlock(m, a, s) == [m EXCEPT !.heap[a] = s]

LEMMA BlockReplaced ==
    ASSUME NEW m, Memory(m), NEW a \in Addrs, NEW s, Sequence(s)
    PROVE  LET r == WithBlock(m, a, s)
           IN  /\ Memory(r) /\ r.obj = m.obj /\ r.heap[a] = s
               /\ \A b \in Addrs : b # a => r.heap[b] = m.heap[b]
               /\ r.elem = m.elem /\ r.fault = m.fault
               /\ Typed(m) /\ (\A k \in 1..Len(s) : s[k] \in CellValues) => Typed(r)
<1> DEFINE r == WithBlock(m, a, s)
<1>1. LET x == [m EXCEPT !.heap[a] = s]
      IN  /\ Memory(x) /\ x.obj = m.obj /\ x.heap[a] = s
          /\ \A b \in Addrs : b # a => x.heap[b] = m.heap[b]
  BY HeapSet
<1>2. r.elem = m.elem /\ r.fault = m.fault
  BY DEF Memory, WithBlock
<1>3. /\ Memory(r) /\ r.obj = m.obj /\ r.heap[a] = s
      /\ \A b \in Addrs : b # a => r.heap[b] = m.heap[b]
  BY <1>1 DEF WithBlock
<1> HIDE DEF r
<1>4. Typed(m) /\ (\A k \in 1..Len(s) : s[k] \in CellValues) => Typed(r)
  BY <1>3 DEF Typed
<1> QED BY <1>2, <1>3, <1>4 DEF r

LEMMA PutAt ==
    ASSUME NEW m, Memory(m), NEW p \in Addrs, NEW i \in Nat, NEW s, Sequence(s),
           s # <<>> => i + Len(s) <= Len(m.heap[p])
    PROVE  LET r == Put(m, p, i, s)
           IN  /\ Memory(r) /\ r.obj = m.obj /\ r.elem = m.elem /\ r.fault = m.fault
               /\ \A b \in Addrs : b # p => r.heap[b] = m.heap[b]
               /\ Len(r.heap[p]) = Len(m.heap[p])
               /\ \A k \in 1..Len(m.heap[p]) :
                    r.heap[p][k] = IF k \in i+1..i+Len(s) THEN s[k - i] ELSE m.heap[p][k]
               /\ Typed(m) /\ (\A k \in 1..Len(s) : s[k] \in CellValues) => Typed(r)
<1> DEFINE c == m.heap[p]
           w == Overlay(c, i, s)
           r == WithBlock(m, p, w)
<1>0. Len(s) \in Nat /\ (s = <<>> <=> Len(s) = 0)
  BY SequenceProperty
<1>1. CASE s = <<>>
  <2>1. Put(m, p, i, s) = m
    BY <1>1 DEF Put
  <2>2. \A k : k \notin i+1..i+Len(s)
    BY <1>0, <1>1
  <2> QED BY <2>1, <2>2
<1>2. CASE s # <<>>
  <2>1. /\ p \in Int /\ p > 0 /\ Sequence(c) /\ Cells(m, p) = c /\ i + Len(s) <= Len(c)
    BY <1>2, AddrIsNumber DEF Memory, Cells
  <2>2. Put(m, p, i, s) = r
    <3>1. InBounds(m, p, i, Len(s))
      BY <2>1 DEF InBounds, Null
    <3> QED BY <1>2, <2>1, <3>1 DEF Put, WithBlock
  <2> HIDE DEF c
  <2>3. /\ Sequence(w) /\ Len(w) = Len(c)
        /\ \A k \in 1..Len(c) : w[k] = IF k \in i+1..i+Len(s) THEN s[k - i] ELSE c[k]
    BY <2>1, OverlayProperty
  <2> HIDE DEF w
  <2>4. /\ Memory(r) /\ r.obj = m.obj /\ r.heap[p] = w
        /\ \A b \in Addrs : b # p => r.heap[b] = m.heap[b]
        /\ r.elem = m.elem /\ r.fault = m.fault
        /\ Typed(m) /\ (\A k \in 1..Len(w) : w[k] \in CellValues) => Typed(r)
    BY <2>3, BlockReplaced
  <2> HIDE DEF r
  <2>5. ASSUME Typed(m), \A k \in 1..Len(s) : s[k] \in CellValues, NEW k \in 1..Len(w)
        PROVE  w[k] \in CellValues
    <3>1. k \in 1..Len(c) /\ c[k] \in CellValues
      BY <2>3, <2>5 DEF Typed, c
    <3>2. k \in i+1..i+Len(s) => k - i \in 1..Len(s)
      BY <1>0
    <3> QED BY <2>3, <2>5, <3>1, <3>2
  <2> QED BY <2>2, <2>3, <2>4, <2>5 DEF c
<1> QED BY <1>1, <1>2

LEMMA PutOwn ==
    ASSUME NEW m, Good(m), NEW o \in Objects, NEW i \in Nat, NEW s, Sequence(s),
           s # <<>> => m.obj[o].cap > 0 /\ i + Len(s) <= m.obj[o].cap,
           Typed(m) => \A k \in 1..Len(s) : s[k] \in CellValues
    PROVE  LET r == Put(m, m.obj[o].data, i, s)
           IN  /\ Moves(m, r, o) /\ r.obj = m.obj
               /\ \A k \in 1..m.obj[o].cap :
                    Cell(r, o, k) = IF k \in i+1..i+Len(s) THEN s[k - i] ELSE Cell(m, o, k)
<1> DEFINE p == m.obj[o].data
           r == Put(m, p, i, s)
<1>0. Memory(m) /\ Len(s) \in Nat /\ (s = <<>> <=> Len(s) = 0) /\ m.obj[o].cap \in Nat
  BY SequenceProperty DEF Good, Memory, Block
<1>1. CASE m.obj[o].cap = 0
  <2>1. r = m
    BY <1>0, <1>1 DEF Put
  <2>2. m.obj[o].cap = 0 => 1..m.obj[o].cap = {}
    OBVIOUS
  <2> QED BY <1>1, <2>1, <2>2, ChangesSelf
<1>2. CASE m.obj[o].cap # 0
  <2>1. /\ p \in Addrs /\ p \in Int /\ p > 0 /\ Len(m.heap[p]) = m.obj[o].cap
        /\ \A k : Cell(m, o, k) = m.heap[p][k]
        /\ s # <<>> => i + Len(s) <= Len(m.heap[p])
    BY <1>0, <1>2, OwnCells
  <2> HIDE DEF p
  <2>2. /\ Memory(r) /\ r.obj = m.obj /\ r.elem = m.elem /\ r.fault = m.fault
        /\ \A b \in Addrs : b # p => r.heap[b] = m.heap[b]
        /\ Len(r.heap[p]) = Len(m.heap[p])
        /\ \A k \in 1..Len(m.heap[p]) :
             r.heap[p][k] = IF k \in i+1..i+Len(s) THEN s[k - i] ELSE m.heap[p][k]
        /\ Typed(m) /\ (\A k \in 1..Len(s) : s[k] \in CellValues) => Typed(r)
    BY <1>0, <2>1, PutAt
  <2> HIDE DEF r
  <2>3. Good(r)
    <3>1. SameShape(m, r)
      BY <2>2 DEF SameShape
    <3> QED BY <3>1, ShapeKept
  <2>4. Moves(m, r, o)
    <3>1. \A a \in Addrs : ~OwnsAt(m, o, a) => a # p
      BY <1>0, <1>2 DEF OwnsAt, p
    <3> QED BY <2>2, <2>3, <3>1 DEF Moves, Changes
  <2>5. \A k \in 1..m.obj[o].cap : Cell(r, o, k) = r.heap[p][k]
    BY <2>1, <2>2 DEF Cell, Cells, p
  <2> QED BY <2>1, <2>2, <2>4, <2>5, ZenonT(30) DEF p, r
<1> QED BY <1>1, <1>2

\* What CopyFrom writes.
LEMMA CopySource ==
    ASSUME NEW m, Memory(m), NEW src \in Int, NEW n \in Nat, Readable(m, src, n),
           NEW p, NEW i
    PROVE  \E s : /\ CopyFrom(m, src, n, p, i) = Put(m, p, i, s)
                  /\ Sequence(s) /\ Len(s) = n /\ (s # <<>> => n # 0)
                  /\ \A k \in 1..n : s[k] = Cells(m, src)[k]
                  /\ Typed(m) => \A k \in 1..n : s[k] \in CellValues
<1> DEFINE c == Cells(m, src)
           s == IF n = 0 THEN <<>> ELSE SubSeq(c, 1, n)
<1>1. InBounds(m, src, 0, n)
  <2>1. CASE n = 0
    BY <2>1 DEF InBounds
  <2>2. CASE n # 0
    <3>1. Place(m, src) /\ n <= Len(c)
      BY <2>2 DEF Readable
    <3>2. src # Null
      BY <3>1, PlaceCells
    <3> QED BY <3>1, <3>2 DEF InBounds
  <2> QED BY <2>1, <2>2
<1>2. CopyFrom(m, src, n, p, i) = Put(m, p, i, s)
  BY <1>1 DEF CopyFrom
<1>3. /\ Sequence(s) /\ Len(s) = n
      /\ \A k \in 1..n : s[k] = c[k]
      /\ Typed(m) => \A k \in 1..n : s[k] \in CellValues
  <2>1. CASE n = 0
    BY <2>1, EmptySequence
  <2>2. CASE n # 0
    <3>1. Place(m, src) /\ n <= Len(c)
      BY <2>2 DEF Readable
    <3>2. Sequence(c) /\ Len(c) \in Nat
      BY <3>1, PlaceCells
    <3>3. c \in Seq({c[k] : k \in 1..Len(c)})
      <4> HIDE DEF c
      <4> QED BY <3>2, SequenceProperty
    <3>4. s = [k \in 1..n |-> c[k]]
      <4> HIDE DEF c
      <4> QED BY <2>2, <3>1, <3>2, <3>3
    <3>5. Typed(m) => \A k \in 1..n : c[k] \in CellValues
      <4> SUFFICES ASSUME Typed(m), NEW k \in 1..n PROVE c[k] \in CellValues
        OBVIOUS
      <4>1. CASE src \in Addrs
        <5>1. c = m.heap[src]
          BY <3>1, <4>1, PlaceCells
        <5> HIDE DEF c
        <5> QED BY <3>1, <3>2, <4>1, <5>1 DEF Typed
      <4>2. CASE src \notin Addrs
        <5>1. src < 0 /\ -src \in DOMAIN Literals
          BY <3>1, <4>2 DEF Place
        <5> DEFINE l == Len(Literals[-src])
        <5>2. /\ l \in Nat /\ Len(c) = l + 1 /\ c[l + 1] = Nul
              /\ \A j \in 1..l : c[j] = Literals[-src][j]
          BY <5>1, LiteralCells
        <5>3. \A j \in 1..l : Literals[-src][j] \in Values
          BY <5>1, MemoryAssumption
        <5> HIDE DEF c, l
        <5>4. k \in 1..l \/ k = l + 1
          BY <3>1, <5>2
        <5> QED BY <5>2, <5>3, <5>4 DEF CellValues
      <4> QED BY <4>1, <4>2
    <3> HIDE DEF c, s
    <3>6. s = [k \in 1..n |-> s[k]] /\ \A k \in 1..n : s[k] = c[k]
      BY <3>4
    <3>7. Sequence(s) /\ Len(s) = n
      BY <3>6, SequenceLen
    <3> QED BY <3>5, <3>6, <3>7
  <2> QED BY <2>1, <2>2
<1>4. s # <<>> => n # 0
  OBVIOUS
<1> HIDE DEF s, c
<1> QED BY <1>2, <1>3, <1>4 DEF c

\* What is copied in may come from anywhere, its own block included.
LEMMA CopyOwn ==
    ASSUME NEW m, Good(m), NEW o \in Objects, NEW src \in Int, NEW n \in Nat, NEW i \in Nat,
           Readable(m, src, n),
           n # 0 => m.obj[o].cap > 0 /\ i + n <= m.obj[o].cap
    PROVE  LET r == CopyFrom(m, src, n, m.obj[o].data, i)
           IN  /\ Moves(m, r, o) /\ r.obj = m.obj
               /\ \A k \in 1..m.obj[o].cap :
                    Cell(r, o, k) = IF k \in i+1..i+n THEN Cells(m, src)[k - i] ELSE Cell(m, o, k)
<1> DEFINE p == m.obj[o].data
<1>1. PICK s : /\ CopyFrom(m, src, n, p, i) = Put(m, p, i, s)
               /\ Sequence(s) /\ Len(s) = n /\ (s # <<>> => n # 0)
               /\ \A k \in 1..n : s[k] = Cells(m, src)[k]
               /\ Typed(m) => \A k \in 1..n : s[k] \in CellValues
  BY CopySource, SMTT(30) DEF Good
<1>2. LET r == Put(m, p, i, s)
      IN  /\ Moves(m, r, o) /\ r.obj = m.obj
          /\ \A k \in 1..m.obj[o].cap :
               Cell(r, o, k) = IF k \in i+1..i+Len(s) THEN s[k - i] ELSE Cell(m, o, k)
  <2>1. /\ s # <<>> => m.obj[o].cap > 0 /\ i + Len(s) <= m.obj[o].cap
        /\ Typed(m) => \A k \in 1..Len(s) : s[k] \in CellValues
        /\ Sequence(s)
    BY <1>1
  <2> QED BY <2>1, PutOwn
<1>3. \A k \in i+1..i+n : s[k - i] = Cells(m, src)[k - i]
  BY <1>1
<1> QED BY <1>1, <1>2, <1>3

-----------------------------------------------------------------------------
(* Growing and shrinking *)

LEMMA ReallocCells ==
    ASSUME NEW m, Good(m), NEW old \in Addrs \cup {Null}, old # Null => Len(m.heap[old]) # 0,
           NEW c \in Nat
    PROVE  LET r == Realloc(m, old, c)
               new == FreeAddr(m)
           IN  /\ r.elem = m.elem /\ r.fault = m.fault /\ new # old
               /\ \A a \in Addrs : a # new /\ a # old => r.heap[a] = m.heap[a]
               /\ \A k \in 1..c : r.heap[new][k] =
                    IF old # Null /\ k <= Len(m.heap[old]) THEN m.heap[old][k] ELSE Junk
               /\ Typed(m) => Typed(r)
<1> DEFINE new == FreeAddr(m)
           was == IF old = Null THEN <<>> ELSE m.heap[old]
           s == [k \in 1..c |-> IF k <= Len(was) THEN was[k] ELSE Junk]
           x == WithBlock(m, new, s)
           r == Realloc(m, old, c)
<1>1. r = Release(x, old)
  BY DEF Realloc, WithBlock
<1>2. new \in Addrs /\ m.heap[new] = <<>> /\ new # old /\ Null \notin Addrs
  <2>1. new \in Addrs /\ m.heap[new] = <<>>
    BY FreeAddrProperty
  <2> HIDE DEF new
  <2> QED BY <2>1, EmptySequence, AddrIsNumber
<1> HIDE DEF r, new
<1>3. /\ Sequence(s) /\ Len(s) = c
      /\ \A k \in 1..c : s[k] = IF k <= Len(was) THEN was[k] ELSE Junk
  <2>1. /\ s = [k \in 1..c |-> s[k]]
        /\ \A k \in 1..c : s[k] = IF k <= Len(was) THEN was[k] ELSE Junk
    OBVIOUS
  <2> HIDE DEF s
  <2> QED BY <2>1, SequenceLen
<1>4. \A k \in 1..c : s[k] = IF old # Null /\ k <= Len(m.heap[old]) THEN m.heap[old][k] ELSE Junk
  <2> TAKE k \in 1..c
  <2>1. CASE old = Null
    <3>1. ~(k <= Len(was))
      BY <2>1, EmptySequence
    <3> HIDE DEF was, s
    <3> QED BY <1>3, <2>1, <3>1
  <2>2. CASE old # Null
    <3>1. was = m.heap[old]
      BY <2>2
    <3> HIDE DEF was, s
    <3> QED BY <1>3, <2>2, <3>1
  <2> QED BY <2>1, <2>2
<1>5. Typed(m) => \A k \in 1..c : s[k] \in CellValues
  <2> HIDE DEF s
  <2> SUFFICES ASSUME Typed(m), NEW k \in 1..c PROVE s[k] \in CellValues
    OBVIOUS
  <2>1. CASE old # Null /\ k <= Len(m.heap[old])
    <3>1. old \in Addrs /\ Len(m.heap[old]) \in Nat
      BY <2>1, SequenceProperty DEF Good, Memory
    <3>2. k \in 1..Len(m.heap[old])
      BY <2>1, <3>1
    <3> QED BY <1>4, <2>1, <3>1, <3>2 DEF Typed
  <2>2. CASE ~(old # Null /\ k <= Len(m.heap[old]))
    <3>1. s[k] = Junk
      BY <1>4, <2>2
    <3> QED BY <3>1 DEF CellValues
  <2> QED BY <2>1, <2>2
<1> HIDE DEF was, s
<1>6. /\ Memory(x) /\ x.obj = m.obj /\ x.heap[new] = s
      /\ \A b \in Addrs : b # new => x.heap[b] = m.heap[b]
      /\ x.elem = m.elem /\ x.fault = m.fault
      /\ Typed(m) => Typed(x)
  BY <1>2, <1>3, <1>5, BlockReplaced DEF Good
<1> HIDE DEF x
<1>9. CASE old = Null
  <2>1. r = x
    BY <1>1, <1>9 DEF Release
  <2> QED BY <1>2, <1>4, <1>6, <2>1 DEF r, new
<1>10. CASE old # Null
  <2>1. r = WithBlock(x, old, <<>>)
    <3>1. old \in Addrs /\ x.heap[old] # <<>>
      BY <1>2, <1>6, <1>10, EmptySequence
    <3> QED BY <1>1, <1>10, <3>1 DEF Release, WithBlock
  <2>2. /\ r.heap[old] = <<>>
        /\ \A b \in Addrs : b # old => r.heap[b] = x.heap[b]
        /\ r.elem = x.elem /\ r.fault = x.fault
        /\ Typed(x) => Typed(r)
    <3>1. \A k \in 1..Len(<<>>) : <<>>[k] \in CellValues
      BY EmptySequence
    <3> QED BY <1>6, <1>10, <2>1, <3>1, EmptySequence, BlockReplaced
  <2>5. r.heap[new] = s /\ \A a \in Addrs : a # new /\ a # old => r.heap[a] = m.heap[a]
    BY <1>2, <1>6, <2>2
  <2> QED BY <1>2, <1>4, <1>6, <2>2, <2>5 DEF r, new
<1> QED BY <1>9, <1>10

\* Memory with one container replaced.
WithObj(m, o, b) == [m EXCEPT !.obj[o] = b]

LEMMA ObjReplaced ==
    ASSUME NEW m, Memory(m), NEW o \in Objects, NEW b \in Block
    PROVE  LET r == WithObj(m, o, b)
           IN  /\ Memory(r) /\ r.heap = m.heap /\ r.elem = m.elem /\ r.fault = m.fault
               /\ r.obj[o] = b
               /\ \A q \in Objects : q # o => r.obj[q] = m.obj[q]
               /\ Typed(m) => Typed(r)
<1> DEFINE r == WithObj(m, o, b)
<1>1. LET x == [m EXCEPT !.obj[o] = b]
      IN  /\ Memory(x) /\ x.heap = m.heap /\ x.obj[o] = b
          /\ \A q \in Objects : q # o => x.obj[q] = m.obj[q]
  BY ObjSet
<1>2. r.elem = m.elem /\ r.fault = m.fault
  BY DEF Memory, WithObj
<1>3. /\ Memory(r) /\ r.heap = m.heap /\ r.obj[o] = b
      /\ \A q \in Objects : q # o => r.obj[q] = m.obj[q]
  BY <1>1 DEF WithObj
<1> HIDE DEF r
<1>4. Typed(m) => Typed(r)
  BY <1>3 DEF Typed
<1> QED BY <1>2, <1>3, <1>4 DEF r

\* Container b with another block.
MovedTo(b, p, c) == [b EXCEPT !.data = p, !.cap = c]

LEMMA BlockMoved ==
    ASSUME NEW b \in Block, NEW p \in Int, NEW c \in Nat, NEW d, d = MovedTo(b, p, c)
    PROVE  /\ d \in Block /\ d.data = p /\ d.cap = c
           /\ d.made = b.made /\ d.size = b.size /\ d.zt = b.zt
<1>1. d \in Block
  BY DEF Block, MovedTo
<1>2. d.data = p /\ d.cap = c
  BY DEF Block, MovedTo
<1>3. d.made = b.made
  BY DEF Block, MovedTo
<1>4. d.size = b.size
  BY DEF Block, MovedTo
<1>5. d.zt = b.zt
  BY DEF Block, MovedTo
<1> QED BY <1>1, <1>2, <1>3, <1>4, <1>5

\* What a container holds can be read: it owns it, or is linked to it.
Sound(m, o) ==
    LET b == m.obj[o]
    IN  /\ b.size \in Nat
        /\ b.data = Null => b.size = 0
        /\ b.cap > 0 => b.size + Zt(b) <= b.cap
        /\ b.cap = 0 /\ b.data # Null => Readable(m, b.data, b.size + Zt(b)) /\ Place(m, b.data)

LEMMA BlockType ==
    ASSUME NEW m, Good(m), NEW o \in Objects
    PROVE  /\ m.obj[o] \in Block /\ m.obj[o].size \in Int /\ m.obj[o].data \in Int
           /\ m.obj[o].cap \in Nat /\ Zt(m.obj[o]) \in {0, 1}
           /\ Memory(m)
BY DEF Good, Memory, Block, Zt

\* The new block of reserve: it has the old one's cells, or those that the
\* container was linked to, as far as there is room.
LEMMA ReserveCells ==
    ASSUME NEW m, NEW o \in Objects, Usable(m, o), Sound(m, o), NEW n \in Nat,
           ~(Needed(m.obj[o], n) <= m.obj[o].cap)
    PROVE  LET r == Reserve(m, o, n)
               b == m.obj[o]
               c == r.obj[o].cap
           IN  /\ Moves(m, r, o)
               /\ c \in Nat /\ c >= 2 /\ c >= n + Zt(b)
               /\ \A k \in 1..(b.size + Zt(b)) : k <= c /\ b.data # Null =>
                    Cell(r, o, k) = Cell(m, o, k)
               /\ b.data = Null => \A k \in 1..c : Cell(r, o, k) = Junk
<1> DEFINE b == m.obj[o]
           cap == Needed(b, n)
           old == IF b.cap > 0 THEN b.data ELSE Null
           new == FreeAddr(m)
           c == NextPow2(cap)
           z == Zt(b)
           x == Realloc(m, old, c)
           fit == IF b.size + z < c THEN b.size + z ELSE c
           copied == IF old = Null /\ b.data # Null THEN CopyFrom(x, b.data, fit, new, 0) ELSE x
           d == MovedTo(b, new, c)
           t == WithObj(copied, o, d)
           r == Reserve(m, o, n)
<1>1. /\ b \in Block /\ Good(m) /\ Memory(m) /\ z \in {0, 1} /\ b.size \in Nat /\ b.cap \in Nat
      /\ b.data \in Int
      /\ b.cap > 0 => b.size + z <= b.cap
      /\ b.cap = 0 /\ b.data # Null => Readable(m, b.data, b.size + z) /\ Place(m, b.data)
  BY BlockType DEF Usable, Sound
<1>2. r = [copied EXCEPT !.obj[o].data = new, !.obj[o].cap = c]
  BY DEF Reserve
<1>3. cap = n + z /\ cap \in Nat
  BY <1>1 DEF Needed
<1>4. c \in Nat /\ c >= cap /\ c >= 2
  <2> HIDE DEF cap
  <2> QED BY <1>3, NextPow2Property
<1>5. /\ old \in Addrs \cup {Null} /\ (old # Null => Len(m.heap[old]) # 0)
      /\ \A a \in Addrs : OwnsAt(m, o, a) <=> a = old
  BY <1>1, OwnBlock
<1>6. old = Null <=> b.cap = 0
  BY <1>1, AddrIsNumber DEF Good, Owned
<1> HIDE DEF c, cap, z, old
<1>7. /\ Memory(x) /\ x.obj = m.obj /\ new \in Addrs /\ Len(m.heap[new]) = 0 /\ Len(x.heap[new]) = c
      /\ x.elem = m.elem /\ x.fault = m.fault /\ new # old
      /\ \A a \in Addrs : a # new /\ a # old => x.heap[a] = m.heap[a]
      /\ \A k \in 1..c : x.heap[new][k] =
           IF old # Null /\ k <= Len(m.heap[old]) THEN m.heap[old][k] ELSE Junk
      /\ Typed(m) => Typed(x)
  <2> HIDE DEF b
  <2>1. /\ Memory(x) /\ x.obj = m.obj /\ new \in Addrs /\ Len(m.heap[new]) = 0
        /\ Len(x.heap[new]) = c
    BY <1>1, <1>4, <1>5, ReallocShape, SMTT(30)
  <2>2. /\ x.elem = m.elem /\ x.fault = m.fault /\ new # old
        /\ \A a \in Addrs : a # new /\ a # old => x.heap[a] = m.heap[a]
        /\ \A k \in 1..c : x.heap[new][k] =
             IF old # Null /\ k <= Len(m.heap[old]) THEN m.heap[old][k] ELSE Junk
        /\ Typed(m) => Typed(x)
    BY <1>1, <1>4, <1>5, ReallocCells
  <2> HIDE DEF x, new
  <2> QED BY <2>1, <2>2
<1> HIDE DEF x, new
<1>8. /\ Memory(copied) /\ copied.obj = m.obj /\ copied.elem = m.elem /\ copied.fault = m.fault
      /\ Len(copied.heap[new]) = c
      /\ \A a \in Addrs : a # new /\ a # old => copied.heap[a] = m.heap[a]
      /\ Typed(m) => Typed(copied)
      /\ \A k \in 1..c : k <= b.size + z /\ b.data # Null =>
            copied.heap[new][k] = Cells(m, b.data)[k]
      /\ b.data = Null => \A k \in 1..c : copied.heap[new][k] = Junk
  <2>1. CASE old # Null
    <3>1. copied = x /\ old = b.data
      BY <1>1, <1>6, <2>1 DEF old
    <3>2. Cells(m, b.data) = m.heap[old] /\ Len(m.heap[old]) = b.cap
      BY <1>1, <1>6, <2>1, <3>1, OwnCells
    <3>3. \A k \in 1..c : k <= b.size + z => k <= Len(m.heap[old])
      BY <1>1, <1>6, <2>1, <3>2
    <3> HIDE DEF copied, b
    <3> QED BY <1>7, <2>1, <3>1, <3>2, <3>3
  <2>2. CASE old = Null /\ b.data = Null
    <3>1. copied = x
      BY <2>2
    <3> HIDE DEF copied, b
    <3> QED BY <1>7, <2>2, <3>1
  <2>3. CASE old = Null /\ b.data # Null
    <3>1. /\ Place(m, b.data) /\ b.size + z \in Nat
          /\ b.size + z = 0 \/ b.size + z <= Len(Cells(m, b.data))
      BY <1>1, <1>6, <2>3 DEF Readable
    <3>2. b.data # new /\ b.data # old
      BY <1>7, <2>3, <3>1, AddrIsNumber DEF Place
    <3>3. Place(x, b.data) /\ Cells(x, b.data) = Cells(m, b.data)
      BY <1>7, <3>1, <3>2, AddrIsNumber DEF Place, Cells
    <3>4. fit \in Nat /\ Readable(x, b.data, fit) /\ fit <= c
      BY <1>4, <3>1, <3>3 DEF Readable
    <3>5. \A k \in 1..c : k <= b.size + z => k \in 1..fit
      BY <3>1
    <3>6. copied = CopyFrom(x, b.data, fit, new, 0)
      BY <2>3
    <3> HIDE DEF copied, fit, b
    <3>7. PICK s : /\ copied = Put(x, new, 0, s)
                   /\ Sequence(s) /\ Len(s) = fit
                   /\ \A k \in 1..fit : s[k] = Cells(x, b.data)[k]
                   /\ Typed(x) => \A k \in 1..fit : s[k] \in CellValues
      BY <1>1, <1>7, <3>4, <3>6, CopySource
    <3>8. /\ Memory(copied) /\ copied.obj = x.obj /\ copied.elem = x.elem /\ copied.fault = x.fault
          /\ \A a \in Addrs : a # new => copied.heap[a] = x.heap[a]
          /\ Len(copied.heap[new]) = c
          /\ \A k \in 1..c : copied.heap[new][k] =
               IF k \in 0+1..0+fit THEN s[k - 0] ELSE x.heap[new][k]
          /\ Typed(x) /\ (\A k \in 1..Len(s) : s[k] \in CellValues) => Typed(copied)
      <4> DEFINE zero == 0
      <4>1. /\ Memory(x) /\ new \in Addrs /\ zero \in Nat /\ Sequence(s)
            /\ s # <<>> => zero + Len(s) <= Len(x.heap[new])
        BY <1>4, <1>7, <3>4, <3>7
      <4>2. copied = Put(x, new, zero, s)
        BY <3>7
      <4> HIDE DEF zero
      <4>3. LET u == Put(x, new, zero, s)
            IN  /\ Memory(u) /\ u.obj = x.obj /\ u.elem = x.elem /\ u.fault = x.fault
                /\ \A a \in Addrs : a # new => u.heap[a] = x.heap[a]
                /\ Len(u.heap[new]) = Len(x.heap[new])
                /\ \A k \in 1..Len(x.heap[new]) : u.heap[new][k] =
                     IF k \in zero+1..zero+Len(s) THEN s[k - zero] ELSE x.heap[new][k]
                /\ Typed(x) /\ (\A k \in 1..Len(s) : s[k] \in CellValues) => Typed(u)
        BY <4>1, PutAt
      <4> QED BY <1>7, <3>7, <4>2, <4>3 DEF zero
    <3>9. \A k \in 1..c : k <= b.size + z => copied.heap[new][k] = Cells(m, b.data)[k]
      BY <3>3, <3>4, <3>5, <3>7, <3>8
    <3> QED BY <1>7, <2>3, <3>7, <3>8, <3>9
  <2> QED BY <2>1, <2>2, <2>3
<1> HIDE DEF copied
<1>9. r = t
  BY <1>1, <1>2, <1>8 DEF Memory, Block, WithObj, MovedTo
<1>10. d \in Block /\ d.data = new /\ d.cap = c
  <2>1. new \in Int
    BY <1>7, AddrIsNumber
  <2>2. b \in Block /\ c \in Nat
    BY <1>1, <1>4
  <2>3. d = MovedTo(b, new, c)
    OBVIOUS
  <2> HIDE DEF b, d, new, c
  <2> QED BY <2>1, <2>2, <2>3, BlockMoved
<1> HIDE DEF d
<1>11. /\ Memory(t) /\ t.heap = copied.heap /\ t.elem = copied.elem /\ t.fault = copied.fault
       /\ t.obj[o] = d
       /\ \A q \in Objects : q # o => t.obj[q] = copied.obj[q]
       /\ Typed(copied) => Typed(t)
  BY <1>8, <1>10, ObjReplaced
<1> HIDE DEF t
<1>12. Good(r)
  <2>1. n \in Int
    OBVIOUS
  <2> HIDE DEF r
  <2> QED BY <2>1, ReserveGood DEF Usable, r
<1>13. Moves(m, r, o)
  <2>1. \A a \in Addrs : Len(m.heap[a]) # 0 /\ ~OwnsAt(m, o, a) => a # new /\ a # old
    BY <1>5, <1>7
  <2> QED BY <1>1, <1>8, <1>9, <1>11, <1>12, <2>1 DEF Moves, Changes
<1>14. \A k : Cell(r, o, k) = copied.heap[new][k]
  BY <1>7, <1>9, <1>10, <1>11, AddrIsNumber DEF Cell, Cells
<1>15. \A k : Cell(m, o, k) = Cells(m, b.data)[k]
  BY DEF Cell
<1> HIDE DEF r
<1>16. r.obj[o].cap = c
  BY <1>9, <1>10, <1>11
<1> QED BY <1>1, <1>3, <1>4, <1>8, <1>13, <1>14, <1>15, <1>16 DEF r, z

\* Between calls a container is linked to nothing but texts of the program.
Fits(m, o) == Sound(m, o) /\ (m.obj[o].cap = 0 => m.obj[o].data <= 0)

Resized1(b, n) == [b EXCEPT !.size = n]

LEMMA SetSizeCells ==
    ASSUME NEW m, NEW o \in Objects, Usable(m, o), NEW n \in Int
    PROVE  LET r == SetSize(m, o, n)
               b == m.obj[o]
               d == r.obj[o]
           IN  /\ Moves(m, r, o) /\ Usable(r, o)
               /\ d.size = n /\ d.data = b.data /\ d.cap = b.cap /\ d.zt = b.zt /\ Zt(d) = Zt(b)
               /\ \A k : Cell(r, o, k) = Cell(m, o, k)
               /\ \A p \in Int : Place(m, p) => Place(r, p) /\ Cells(r, p) = Cells(m, p)
<1> DEFINE b == m.obj[o]
           d == Resized1(b, n)
           r == SetSize(m, o, n)
<1>1. b \in Block /\ Good(m) /\ Memory(m)
  BY BlockType DEF Usable
<1>2. d \in Block /\ d.data = b.data /\ d.size = n /\ d.cap = b.cap /\ d.zt = b.zt
  <2> HIDE DEF b
  <2>1. d \in Block
    BY <1>1 DEF Block, Resized1
  <2>2. d.data = b.data
    BY <1>1 DEF Block, Resized1
  <2>3. d.size = n
    BY <1>1 DEF Block, Resized1
  <2>4. d.cap = b.cap
    BY <1>1 DEF Block, Resized1
  <2>5. d.zt = b.zt
    BY <1>1 DEF Block, Resized1
  <2> QED BY <2>1, <2>2, <2>3, <2>4, <2>5
<1>3. r = WithObj(m, o, d)
  BY <1>1 DEF SetSize, WithObj, Resized1, Memory
<1>4. Usable(r, o) /\ Good(r)
  BY SetSizeUsable DEF Usable
<1> HIDE DEF d, r
<1>5. /\ r.heap = m.heap /\ r.elem = m.elem /\ r.fault = m.fault /\ r.obj[o] = d
      /\ \A q \in Objects : q # o => r.obj[q] = m.obj[q]
      /\ Typed(m) => Typed(r)
  BY <1>1, <1>2, <1>3, ObjReplaced
<1>6. Moves(m, r, o)
  BY <1>1, <1>4, <1>5 DEF Moves, Changes
<1>7. \A k : Cell(r, o, k) = Cell(m, o, k)
  BY <1>2, <1>5 DEF Cell, Cells
<1>8. \A p \in Int : Place(m, p) => Place(r, p) /\ Cells(r, p) = Cells(m, p)
  BY <1>5 DEF Place, Cells
<1>9. Zt(d) = Zt(b)
  BY <1>2 DEF Zt
<1> QED BY <1>2, <1>4, <1>5, <1>6, <1>7, <1>8, <1>9 DEF r

LEMMA LinkedFits ==
    ASSUME NEW m, NEW o, m.obj[o].size = 0, m.obj[o].cap = 0, Zt(m.obj[o]) = 0,
           m.obj[o].data <= 0, m.obj[o].data # Null => Place(m, m.obj[o].data)
    PROVE  Fits(m, o)
BY DEF Fits, Sound, Readable

LEMMA ResizeCells ==
    ASSUME NEW m, NEW o \in Objects, Usable(m, o), Sound(m, o), NEW n \in Nat,
           Fits(m, o) \/ m.obj[o].zt
    PROVE  LET r == Resize(m, o, n)
               b == m.obj[o]
               d == r.obj[o]
           IN  /\ Moves(m, r, o) /\ Usable(r, o) /\ Fits(r, o)
               /\ d.size = n /\ d.zt = b.zt /\ Zt(d) = Zt(b) /\ d.cap \in Nat /\ n + Zt(b) <= d.cap
               /\ \A k \in 1..n : k <= b.size => Cell(r, o, k) = Cell(m, o, k)
               /\ b.zt => Cell(r, o, n + 1) = Nul
               /\ n + Zt(b) <= b.cap => d.data = b.data
<1> DEFINE b == m.obj[o]
           v == Reserve(m, o, n)
           e == v.obj[o]
           s == SetSize(v, o, n)
           f == s.obj[o]
           r == Resize(m, o, n)
           z == Zt(b)
<1>1. /\ b \in Block /\ Good(m) /\ z \in {0, 1} /\ b.size \in Nat /\ b.cap \in Nat /\ b.data \in Int
      /\ (z = 1 <=> b.zt)
  BY BlockType DEF Usable, Sound, Zt
<1>2. /\ Moves(m, v, o) /\ Usable(v, o) /\ e.zt = b.zt /\ Zt(e) = z
      /\ e.cap \in Nat /\ n + z <= e.cap
      /\ \A k \in 1..n : k <= b.size => Cell(v, o, k) = Cell(m, o, k)
      /\ n + z <= b.cap => v = m
      /\ e.cap = 0 => v = m
  <2>1. n \in Int
    OBVIOUS
  <2>2. Usable(v, o) /\ e.zt = b.zt /\ Needed(b, n) = n + z
    BY <2>1, ReserveGood DEF Usable, Needed
  <2>3. Zt(e) = z
    BY <2>2 DEF Zt
  <2>4. CASE n + z <= b.cap
    <3>1. v = m
      BY <2>2, <2>4 DEF Reserve
    <3> QED BY <1>1, <2>2, <2>3, <2>4, <3>1, ChangesSelf
  <2>5. CASE ~(n + z <= b.cap)
    <3>1. /\ Moves(m, v, o) /\ e.cap \in Nat /\ e.cap >= 2 /\ e.cap >= n + z
          /\ \A k \in 1..(b.size + z) : k <= e.cap /\ b.data # Null => Cell(v, o, k) = Cell(m, o, k)
      BY <2>2, <2>5, ReserveCells
    <3>2. ASSUME NEW k \in 1..n, k <= b.size PROVE Cell(v, o, k) = Cell(m, o, k)
      <4>1. k \in 1..(b.size + z) /\ k <= e.cap
        BY <1>1, <3>1, <3>2
      <4>2. b.data # Null
        BY <3>2 DEF Sound
      <4> QED BY <3>1, <4>1, <4>2
    <3>3. n + z <= e.cap /\ e.cap # 0
      BY <1>1, <3>1
    <3> QED BY <2>2, <2>3, <2>5, <3>1, <3>2, <3>3
  <2> QED BY <2>4, <2>5
<1>3. r = IF f.zt THEN Put(s, f.data, n, <<Nul>>) ELSE s
  BY DEF Resize
<1> HIDE DEF v
<1>4. /\ Moves(v, s, o) /\ Usable(s, o)
      /\ f.size = n /\ f.data = e.data /\ f.cap = e.cap /\ f.zt = e.zt /\ Zt(f) = Zt(e)
      /\ \A k : Cell(s, o, k) = Cell(v, o, k)
      /\ \A p \in Int : Place(v, p) => Place(s, p) /\ Cells(s, p) = Cells(v, p)
  <2>1. n \in Int
    OBVIOUS
  <2> QED BY <1>2, <2>1, SetSizeCells
<1> HIDE DEF s, r
<1>5. /\ Moves(s, r, o) /\ r.obj = s.obj
      /\ \A k \in 1..n : k <= b.size => Cell(r, o, k) = Cell(s, o, k)
      /\ b.zt => Cell(r, o, n + 1) = Nul
  <2>1. CASE ~b.zt
    <3>1. r = s
      BY <1>2, <1>3, <1>4, <2>1
    <3> QED BY <1>4, <2>1, <3>1, ChangesSelf DEF Usable
  <2>2. CASE b.zt
    <3> DEFINE w == <<Nul>>
    <3>1. r = Put(s, f.data, n, w)
      BY <1>2, <1>3, <1>4, <2>2
    <3>2. Sequence(w) /\ Len(w) = 1 /\ w[1] = Nul
      <4>1. w \in Seq({Nul}) /\ Len(w) = 1 /\ w[1] = Nul
        OBVIOUS
      <4> QED BY <4>1, SeqIsSequence
    <3>3. n + 1 <= f.cap /\ f.cap > 0
      BY <1>1, <1>2, <1>4, <2>2
    <3>4. \A k \in 1..Len(w) : w[k] \in CellValues
      BY <3>2 DEF CellValues
    <3> HIDE DEF w
    <3>5. /\ Moves(s, r, o) /\ r.obj = s.obj
          /\ \A k \in 1..f.cap : Cell(r, o, k) = IF k \in n+1..n+Len(w) THEN w[k - n] ELSE Cell(s, o, k)
      <4>1. Good(s) /\ (w # <<>> => f.cap > 0 /\ n + Len(w) <= f.cap) /\ Sequence(w)
        BY <1>4, <3>2, <3>3 DEF Usable
      <4>2. LET u == Put(s, f.data, n, w)
            IN  /\ Moves(s, u, o) /\ u.obj = s.obj
                /\ \A k \in 1..f.cap :
                     Cell(u, o, k) = IF k \in n+1..n+Len(w) THEN w[k - n] ELSE Cell(s, o, k)
        BY <3>4, <4>1, PutOwn
      <4> QED BY <3>1, <4>2
    <3>6. n + 1 \in 1..f.cap /\ \A k \in 1..n : k \in 1..f.cap
      BY <1>2, <1>4, <3>3
    <3>7. Cell(r, o, n + 1) = Nul
      BY <3>2, <3>5, <3>6
    <3>8. \A k \in 1..n : Cell(r, o, k) = Cell(s, o, k)
      BY <3>2, <3>5, <3>6
    <3> QED BY <3>5, <3>7, <3>8
  <2> QED BY <2>1, <2>2
<1>6. Moves(m, r, o)
  BY <1>2, <1>4, <1>5, MovesTrans
<1>7. Usable(r, o)
  BY <1>4, <1>5 DEF Usable, Moves, Changes
<1>8. Fits(r, o)
  <2>1. f.cap > 0 => Fits(r, o)
    <3>1. f.cap > 0 => f.data # Null
      BY <1>4, OwnCells, AddrIsNumber DEF Usable
    <3> QED BY <1>1, <1>2, <1>4, <1>5, <3>1 DEF Fits, Sound
  <2>2. ASSUME f.cap = 0 PROVE Fits(r, o)
    <3>1. v = m /\ n = 0 /\ z = 0
      BY <1>1, <1>2, <1>4, <2>2
    <3>2. f.data = b.data /\ f.data <= 0 /\ r = s
      <4>0. e = b
        BY <3>1
      <4>1. ~b.zt /\ b.cap = 0 /\ f.data = b.data
        <5>1. ~b.zt
          BY <1>1, <3>1
        <5>2. b.cap = 0 /\ f.data = b.data
          BY <1>4, <2>2, <4>0
        <5> QED BY <5>1, <5>2
      <4>2. b.data <= 0
        BY <4>1 DEF Fits
      <4>3. r = s
        BY <1>2, <1>3, <1>4, <4>1
      <4> QED BY <4>1, <4>2, <4>3
    <3>3. b.data # Null => Place(s, b.data)
      <4>1. b.data # Null => Place(m, b.data)
        BY <1>4, <2>2, <3>1 DEF Sound
      <4> QED BY <1>1, <1>4, <3>1, <4>1
    <3>4. Zt(f) = 0 /\ f.size = 0
      BY <1>2, <1>4, <3>1
    <3>5. Fits(s, o)
      BY <2>2, <3>2, <3>3, <3>4, LinkedFits
    <3> QED BY <3>2, <3>5
  <2> QED BY <1>2, <1>4, <2>1, <2>2
<1>9. \A k \in 1..n : k <= b.size => Cell(r, o, k) = Cell(m, o, k)
  BY <1>2, <1>4, <1>5
<1>10. n + z <= b.cap => f.data = b.data
  BY <1>2, <1>4
<1> QED BY <1>2, <1>4, <1>5, <1>6, <1>7, <1>8, <1>9, <1>10 DEF r

-----------------------------------------------------------------------------
(* memblock: what its operations leave in the cells *)

\* A container that may be written to, with the cells of its size and its
\* terminating zero.
Writable(m, o) ==
    Usable(m, o) /\ Fits(m, o) /\ m.obj[o].size + Zt(m.obj[o]) <= m.obj[o].cap

LEMMA WritableType ==
    ASSUME NEW m, NEW o \in Objects, Writable(m, o)
    PROVE  /\ m.obj[o].size \in Nat /\ Zt(m.obj[o]) \in {0, 1} /\ m.obj[o].cap \in Nat
           /\ Good(m) /\ m.obj[o].data \in Int
           /\ m.obj[o].size + Zt(m.obj[o]) \in Nat
           /\ m.obj[o].size + Zt(m.obj[o]) <= m.obj[o].cap
           /\ (m.obj[o].zt <=> Zt(m.obj[o]) = 1)
<1>1. /\ m.obj[o].size \in Nat /\ Zt(m.obj[o]) \in {0, 1} /\ m.obj[o].cap \in Nat
      /\ Good(m) /\ m.obj[o].data \in Int
  BY BlockType DEF Writable, Usable, Fits, Sound
<1>2. m.obj[o].zt <=> Zt(m.obj[o]) = 1
  BY DEF Zt
<1> QED BY <1>1, <1>2 DEF Writable

LEMMA FitsKept ==
    ASSUME NEW m, NEW r, NEW o \in Objects, Writable(m, o), Good(r), r.obj = m.obj
    PROVE  Writable(r, o)
<1> DEFINE b == m.obj[o]
<1>1. /\ b.size \in Nat /\ Zt(b) \in {0, 1} /\ b.cap \in Nat /\ b.size + Zt(b) <= b.cap
      /\ b.data \in Int
  BY WritableType
<1>2. Usable(r, o)
  BY DEF Writable, Usable
<1>3. b.cap = 0 => b.size = 0 /\ Zt(b) = 0
  BY <1>1
<1>4. CASE b.cap > 0
  BY <1>1, <1>2, <1>4, OwnCells DEF Writable, Fits, Sound
<1>5. CASE b.cap = 0
  <2>1. b.data # Null => Place(r, b.data)
    <3>1. b.data <= 0 /\ (b.data # Null => Place(m, b.data))
      BY <1>5 DEF Writable, Fits, Sound
    <3> QED BY <3>1, AddrIsNumber DEF Place, Null
  <2>2. Fits(r, o)
    BY <1>3, <1>5, <2>1, LinkedFits DEF Writable, Fits
  <2> QED BY <1>1, <1>2, <2>2 DEF Writable
<1> QED BY <1>1, <1>4, <1>5

\* Of the first x cells of o those from i + 1 to i + n have become those of s.
Wrote(w, r, o, x, i, n, s) ==
    \A k \in 1..x : Cell(r, o, k) = IF k \in i+1..i+n THEN s[k - i] ELSE Cell(w, o, k)

LEMMA WriteCells ==
    ASSUME NEW m, NEW o \in Objects, Writable(m, o), NEW i \in Nat, NEW s, Sequence(s),
           i + Len(s) <= m.obj[o].size + Zt(m.obj[o]),
           Typed(m) => \A k \in 1..Len(s) : s[k] \in CellValues
    PROVE  LET r == Put(m, m.obj[o].data, i, s)
           IN  /\ Moves(m, r, o) /\ r.obj = m.obj /\ Writable(r, o)
               /\ Wrote(m, r, o, m.obj[o].size + Zt(m.obj[o]), i, Len(s), s)
<1> DEFINE b == m.obj[o]
           r == Put(m, b.data, i, s)
<1>1. /\ b.size \in Nat /\ Zt(b) \in {0, 1} /\ b.cap \in Nat /\ b.size + Zt(b) <= b.cap /\ Good(m)
  BY WritableType
<1>2. Len(s) \in Nat /\ (s = <<>> <=> Len(s) = 0)
  BY SequenceProperty
<1>3. s # <<>> => b.cap > 0 /\ i + Len(s) <= b.cap
  BY <1>1, <1>2
<1>4. /\ Moves(m, r, o) /\ r.obj = m.obj
      /\ \A k \in 1..b.cap :
           Cell(r, o, k) = IF k \in i+1..i+Len(s) THEN s[k - i] ELSE Cell(m, o, k)
  BY <1>1, <1>3, PutOwn
<1>5. \A k \in 1..(b.size + Zt(b)) : k \in 1..b.cap
  BY <1>1
<1> HIDE DEF r
<1>6. Writable(r, o)
  BY <1>4, FitsKept DEF Moves, Changes
<1> QED BY <1>4, <1>5, <1>6 DEF r, Wrote

LEMMA CopyCells ==
    ASSUME NEW m, NEW o \in Objects, Writable(m, o), NEW p \in Int, NEW n \in Nat, NEW i \in Nat,
           Readable(m, p, n), i + n <= m.obj[o].size + Zt(m.obj[o])
    PROVE  LET r == CopyFrom(m, p, n, m.obj[o].data, i)
           IN  /\ Moves(m, r, o) /\ r.obj = m.obj /\ Writable(r, o)
               /\ \A k \in 1..(m.obj[o].size + Zt(m.obj[o])) :
                    Cell(r, o, k) = IF k \in i+1..i+n THEN Cells(m, p)[k - i] ELSE Cell(m, o, k)
<1> DEFINE b == m.obj[o]
           r == CopyFrom(m, p, n, b.data, i)
<1>1. /\ b.size \in Nat /\ Zt(b) \in {0, 1} /\ b.cap \in Nat /\ b.size + Zt(b) <= b.cap /\ Good(m)
  BY WritableType
<1>2. n # 0 => b.cap > 0 /\ i + n <= b.cap
  BY <1>1
<1>3. /\ Moves(m, r, o) /\ r.obj = m.obj
      /\ \A k \in 1..b.cap :
           Cell(r, o, k) = IF k \in i+1..i+n THEN Cells(m, p)[k - i] ELSE Cell(m, o, k)
  BY <1>1, <1>2, CopyOwn
<1>4. \A k \in 1..(b.size + Zt(b)) : k \in 1..b.cap
  BY <1>1
<1> HIDE DEF r
<1>5. Writable(r, o)
  BY <1>3, FitsKept DEF Moves, Changes
<1> QED BY <1>3, <1>4, <1>5 DEF r

\* A source that an operation on o leaves as it is.
Elsewhere(m, o, p, n) == Readable(m, p, n) /\ (n = 0 \/ ~OwnsAt(m, o, p))

LEMMA ElsewhereKept ==
    ASSUME NEW m, NEW r, NEW o \in Objects, Changes(m, r, o), NEW p \in Int, NEW n \in Nat,
           Elsewhere(m, o, p, n)
    PROVE  /\ Elsewhere(r, o, p, n)
           /\ \A k \in 1..n : Cells(r, p)[k] = Cells(m, p)[k]
<1>1. CASE n = 0
  BY <1>1 DEF Elsewhere, Readable
<1>2. CASE n # 0
  BY <1>2, StillReadable DEF Elsewhere, Readable
<1> QED BY <1>1, <1>2

\* The terminating zero is there.
Ends(m, o) == m.obj[o].zt => Cell(m, o, m.obj[o].size + 1) = Nul

LEMMA ResizeWritable ==
    ASSUME NEW m, NEW o \in Objects, Usable(m, o), Sound(m, o), NEW n \in Nat,
           Fits(m, o) \/ m.obj[o].zt
    PROVE  LET r == Resize(m, o, n)
               b == m.obj[o]
               d == r.obj[o]
           IN  /\ Moves(m, r, o) /\ Changes(m, r, o) /\ Writable(r, o) /\ Ends(r, o)
               /\ d.size = n /\ d.zt = b.zt /\ Zt(d) = Zt(b)
               /\ \A k \in 1..n : k <= b.size => Cell(r, o, k) = Cell(m, o, k)
               /\ n + Zt(b) <= b.cap => d.data = b.data
<1> DEFINE r == Resize(m, o, n)
           b == m.obj[o]
           d == r.obj[o]
<1>1. /\ Moves(m, r, o) /\ Usable(r, o) /\ Fits(r, o)
      /\ d.size = n /\ d.zt = b.zt /\ Zt(d) = Zt(b) /\ n + Zt(b) <= d.cap
      /\ \A k \in 1..n : k <= b.size => Cell(r, o, k) = Cell(m, o, k)
      /\ b.zt => Cell(r, o, n + 1) = Nul
      /\ n + Zt(b) <= b.cap => d.data = b.data
  BY ResizeCells
<1> HIDE DEF r
<1>2. Writable(r, o)
  BY <1>1 DEF Writable
<1>3. Ends(r, o)
  BY <1>1, Zenon DEF Ends
<1>4. Changes(m, r, o)
  BY <1>1 DEF Moves
<1> QED BY <1>1, <1>2, <1>3, <1>4, Zenon DEF r

LEMMA AssignCells ==
    ASSUME NEW m, NEW o \in Objects, Usable(m, o), Fits(m, o), NEW p \in Int, NEW n \in Nat,
           \/ Elsewhere(m, o, p, n)
           \/ p = m.obj[o].data /\ n = m.obj[o].size
    PROVE  LET r == Assign(m, o, p, n)
           IN  /\ Moves(m, r, o) /\ Writable(r, o) /\ Ends(r, o)
               /\ r.obj[o].size = n /\ r.obj[o].zt = m.obj[o].zt
               /\ \A k \in 1..n : Cell(r, o, k) = Cells(m, p)[k]
<1> DEFINE b == m.obj[o]
           v == Resize(m, o, n)
           d == v.obj[o]
           r == Assign(m, o, p, n)
<1>1. Sound(m, o)
  BY DEF Fits
<1>2. /\ Moves(m, v, o) /\ Changes(m, v, o) /\ Writable(v, o) /\ Ends(v, o)
      /\ d.size = n /\ d.zt = b.zt /\ Zt(d) = Zt(b)
      /\ \A k \in 1..n : k <= b.size => Cell(v, o, k) = Cell(m, o, k)
      /\ n + Zt(b) <= b.cap => d.data = b.data
  BY <1>1, ResizeWritable
<1>3. r = CopyFrom(v, p, n, d.data, 0)
  BY DEF Assign
<1> HIDE DEF v, r
<1>4. /\ Readable(v, p, n)
      /\ \A k \in 1..n : Cells(v, p)[k] = Cells(m, p)[k]
  <2>1. CASE Elsewhere(m, o, p, n)
    BY <1>2, <2>1, ElsewhereKept DEF Elsewhere
  <2>2. CASE n = 0
    BY <2>2 DEF Readable
  <2>3. CASE p = b.data /\ n = b.size /\ n # 0 /\ ~Elsewhere(m, o, p, n)
    <3>1. /\ b.cap \in Nat /\ Zt(b) \in {0, 1} /\ Good(m)
          /\ b.cap > 0 => b.size + Zt(b) <= b.cap
          /\ b.data # Null
          /\ b.cap = 0 => Readable(m, b.data, b.size + Zt(b)) /\ b.size \in Nat
      BY <1>1, <2>3, BlockType DEF Usable, Sound
    <3>2. b.cap > 0
      <4> SUFFICES ASSUME b.cap = 0 PROVE FALSE
        BY <3>1
      <4>1. Place(m, p) /\ n <= Len(Cells(m, p))
        BY <2>3, <3>1, PlaceCells DEF Readable, Good
      <4> QED BY <2>3, <4>1 DEF Elsewhere, Readable, OwnsAt
    <3>3. d.data = b.data
      BY <1>2, <2>3, <3>1, <3>2
    <3>4. \A k \in 1..n : Cells(v, p)[k] = Cells(m, p)[k]
      BY <1>2, <2>3, <3>3 DEF Cell
    <3>5. Place(v, p) /\ Len(Cells(v, p)) = d.cap /\ n <= d.cap
      <4>1. d.cap \in Nat /\ Zt(d) \in {0, 1} /\ n + Zt(d) <= d.cap /\ d.cap > 0 /\ Good(v)
        BY <1>2, <2>3, WritableType
      <4> QED BY <2>3, <3>3, <4>1, OwnCells
    <3> QED BY <3>4, <3>5 DEF Readable
  <2> QED BY <2>1, <2>2, <2>3
<1>5. /\ Moves(v, r, o) /\ r.obj = v.obj /\ Writable(r, o)
      /\ \A k \in 1..(d.size + Zt(d)) :
           Cell(r, o, k) = IF k \in 1..n THEN Cells(v, p)[k] ELSE Cell(v, o, k)
  <2> DEFINE zero == 0
  <2>1. zero \in Nat /\ zero + n <= d.size + Zt(d)
    BY <1>2, WritableType
  <2>2. r = CopyFrom(v, p, n, d.data, zero)
    BY <1>3
  <2> HIDE DEF zero
  <2>3. LET u == CopyFrom(v, p, n, d.data, zero)
        IN  /\ Moves(v, u, o) /\ u.obj = v.obj /\ Writable(u, o)
            /\ \A k \in 1..(d.size + Zt(d)) :
                 Cell(u, o, k) = IF k \in zero+1..zero+n THEN Cells(v, p)[k - zero] ELSE Cell(v, o, k)
    BY <1>2, <1>4, <2>1, CopyCells
  <2> QED BY <2>2, <2>3 DEF zero
<1>6. Moves(m, r, o)
  BY <1>2, <1>5, MovesTrans
<1>7. \A k \in 1..n : Cell(r, o, k) = Cells(m, p)[k]
  <2>1. \A k \in 1..n : k \in 1..(d.size + Zt(d))
    BY <1>2, WritableType
  <2> QED BY <1>4, <1>5, <2>1
<1>8. Ends(r, o)
  <2>1. d.size \in Nat /\ (d.zt => Zt(d) = 1)
    BY <1>2, WritableType, Zenon
  <2>2. Zt(d) = 1 => Cell(r, o, n + 1) = Cell(v, o, n + 1)
    BY <1>2, <1>5, <2>1
  <2>3. r.obj[o] = d
    BY <1>5
  <2>4. Ends(v, o) /\ d.size = n
    BY <1>2
  <2> QED BY <2>1, <2>2, <2>3, <2>4, Zenon DEF Ends
<1> QED BY <1>2, <1>5, <1>6, <1>7, <1>8 DEF r

-----------------------------------------------------------------------------
(* Insertion and erasure *)

\* A copy inside one block: n cells after f go to after r.
Shifted(c, f, n, r) == Overlay(c, r, [k \in 1..n |-> c[f + k]])

LEMMA ShiftedCells ==
    ASSUME NEW c, Sequence(c), NEW f \in Nat, NEW n \in Nat, NEW r \in Nat,
           f + n <= Len(c), r + n <= Len(c)
    PROVE  LET w == Shifted(c, f, n, r)
           IN  /\ Sequence(w) /\ Len(w) = Len(c)
               /\ \A k \in 1..Len(c) : w[k] = IF k \in r+1..r+n THEN c[f + (k - r)] ELSE c[k]
               /\ (\A k \in 1..Len(c) : c[k] \in CellValues) =>
                    \A k \in 1..Len(c) : w[k] \in CellValues
<1> DEFINE s == [k \in 1..n |-> c[f + k]]
           w == Shifted(c, f, n, r)
<1>1. w = Overlay(c, r, s)
  BY DEF Shifted
<1>2. s = [k \in 1..n |-> s[k]] /\ \A k \in 1..n : s[k] = c[f + k]
  OBVIOUS
<1>3. Len(c) \in Nat
  BY SequenceProperty
<1>4. \A k \in 1..n : f + k \in 1..Len(c)
  BY <1>3
<1> HIDE DEF s, w
<1>5. Sequence(s) /\ Len(s) = n
  BY <1>2, SequenceLen
<1>6. /\ Sequence(w) /\ Len(w) = Len(c)
      /\ \A k \in 1..Len(c) : w[k] = IF k \in r+1..r+n THEN s[k - r] ELSE c[k]
  <2>1. r + Len(s) <= Len(c)
    BY <1>5
  <2> QED BY <1>1, <1>5, <2>1, OverlayProperty
<1>7. \A k \in r+1..r+n : k - r \in 1..n
  OBVIOUS
<1>8. \A k \in 1..Len(c) : w[k] = IF k \in r+1..r+n THEN c[f + (k - r)] ELSE c[k]
  BY <1>2, <1>6, <1>7
<1>9. ASSUME \A k \in 1..Len(c) : c[k] \in CellValues
      PROVE  \A k \in 1..Len(c) : w[k] \in CellValues
  BY <1>4, <1>7, <1>8, <1>9
<1> QED BY <1>6, <1>8, <1>9 DEF w

LEMMA BackwardShifts ==
    ASSUME NEW c, NEW f \in Nat, NEW n \in Nat, NEW r \in Nat, f <= r
    PROVE  CopyBackwardN(c, f, n, r) = Shifted(c, f, n, r)
<1>1. ~(r < f) /\ \A k \in 1..n : f + k + 0 = f + k
  OBVIOUS
<1> QED BY <1>1 DEF CopyBackwardN, Shifted

LEMMA ForwardShifts ==
    ASSUME NEW c, NEW f \in Nat, NEW n \in Nat, NEW r \in Nat, r <= f
    PROVE  CopyN(c, f, n, r) = Shifted(c, f, n, r)
<1>1. ~(r > f) /\ \A k \in 1..n : f + 1 + (k - 1) = f + k
  OBVIOUS
<1> QED BY <1>1 DEF CopyN, Shifted

\* Moving cells inside the block of a container.
LEMMA ShiftOwn ==
    ASSUME NEW m, NEW o \in Objects, Writable(m, o), NEW f \in Nat, NEW n \in Nat, NEW r \in Nat,
           f + n <= m.obj[o].size, r + n <= m.obj[o].size, m.obj[o].cap > 0
    PROVE  LET t == Put(m, m.obj[o].data, 0, Shifted(Cells(m, m.obj[o].data), f, n, r))
           IN  /\ Moves(m, t, o) /\ t.obj = m.obj /\ Writable(t, o)
               /\ \A k \in 1..(m.obj[o].size + Zt(m.obj[o])) :
                    Cell(t, o, k) = IF k \in r+1..r+n THEN Cell(m, o, f + (k - r)) ELSE Cell(m, o, k)
<1> DEFINE b == m.obj[o]
           c == Cells(m, b.data)
           w == Shifted(c, f, n, r)
           zero == 0
           t == Put(m, b.data, zero, w)
<1>1. /\ b.size \in Nat /\ Zt(b) \in {0, 1} /\ b.cap \in Nat /\ b.size + Zt(b) <= b.cap /\ Good(m)
  BY WritableType
<1>2. /\ Sequence(c) /\ Len(c) = b.cap /\ c = m.heap[b.data] /\ b.data \in Addrs
      /\ \A k : Cell(m, o, k) = c[k]
  BY <1>1, OwnCells
<1>3. Typed(m) => \A k \in 1..Len(c) : c[k] \in CellValues
  BY <1>2 DEF Typed
<1> HIDE DEF c
<1>4. /\ Sequence(w) /\ Len(w) = Len(c)
      /\ \A k \in 1..Len(c) : w[k] = IF k \in r+1..r+n THEN c[f + (k - r)] ELSE c[k]
      /\ (\A k \in 1..Len(c) : c[k] \in CellValues) => \A k \in 1..Len(c) : w[k] \in CellValues
  <2>1. f + n <= Len(c) /\ r + n <= Len(c)
    <3>1. f + n <= b.size /\ r + n <= b.size
      OBVIOUS
    <3> HIDE DEF b
    <3> QED BY <1>1, <1>2, <3>1
  <2>2. Sequence(c)
    BY <1>2
  <2> QED BY <2>1, <2>2, ShiftedCells, Zenon
<1>5. zero \in Nat /\ zero + Len(w) <= b.cap
  <2>1. Len(w) = b.cap
    <3> HIDE DEF b, w
    <3> QED BY <1>2, <1>4, Zenon
  <2>2. b.cap \in Nat
    BY <1>1
  <2> HIDE DEF b, w, c
  <2> QED BY <2>1, <2>2
<1> HIDE DEF w
<1>6. /\ Moves(m, t, o) /\ t.obj = m.obj
      /\ \A k \in 1..b.cap :
           Cell(t, o, k) = IF k \in zero+1..zero+Len(w) THEN w[k - zero] ELSE Cell(m, o, k)
  <2> HIDE DEF zero
  <2>1. /\ Good(m) /\ Sequence(w) /\ zero \in Nat
        /\ w # <<>> => m.obj[o].cap > 0 /\ zero + Len(w) <= m.obj[o].cap
        /\ Typed(m) => \A k \in 1..Len(w) : w[k] \in CellValues
    BY <1>1, <1>3, <1>4, <1>5, Zenon
  <2>2. LET x == Put(m, m.obj[o].data, zero, w)
        IN  /\ Moves(m, x, o) /\ x.obj = m.obj
            /\ \A k \in 1..m.obj[o].cap :
                 Cell(x, o, k) = IF k \in zero+1..zero+Len(w) THEN w[k - zero] ELSE Cell(m, o, k)
    BY <2>1, PutOwn, SMTT(30)
  <2> QED BY <2>2
<1> HIDE DEF t
<1>7. Writable(t, o)
  BY <1>6, FitsKept DEF Moves, Changes
<1>8. \A k \in 1..(b.size + Zt(b)) : k \in 1..b.cap /\ k \in zero+1..zero+Len(w) /\ k - zero = k
  <2> DEFINE l == b.size + Zt(b)
  <2>1. l \in Nat /\ b.cap \in Nat /\ l <= b.cap
    BY <1>1
  <2>2. Len(w) = b.cap
    <3> HIDE DEF b, w
    <3> QED BY <1>2, <1>4, Zenon
  <2> HIDE DEF b, w, l
  <2>3. \A k \in 1..l : k \in 1..b.cap /\ k \in zero+1..zero+Len(w) /\ k - zero = k
    BY <2>1, <2>2
  <2> QED BY <2>3 DEF l
<1>9. \A k \in 1..(b.size + Zt(b)) :
        Cell(t, o, k) = IF k \in r+1..r+n THEN Cell(m, o, f + (k - r)) ELSE Cell(m, o, k)
  <2> SUFFICES ASSUME NEW k \in 1..(b.size + Zt(b))
               PROVE  Cell(t, o, k) = IF k \in r+1..r+n THEN Cell(m, o, f + (k - r)) ELSE Cell(m, o, k)
    OBVIOUS
  <2>1. k \in 1..b.cap /\ k \in zero+1..zero+Len(w) /\ k - zero = k
    BY <1>8, Zenon
  <2>2. Cell(t, o, k) = w[k] /\ k \in 1..Len(c)
    BY <2>1, <1>2, <1>6, Zenon
  <2>3. w[k] = IF k \in r+1..r+n THEN c[f + (k - r)] ELSE c[k]
    BY <2>2, <1>4, Zenon
  <2> QED BY <2>2, <2>3, <1>2, Zenon
<1> QED BY <1>6, <1>7, <1>9 DEF t, w, c, zero

\* Room for n cells at i: the cells behind have gone up by n.
LEMMA InsertHoleCells ==
    ASSUME NEW m, NEW o \in Objects, Usable(m, o), Fits(m, o), NEW i \in Nat, NEW n \in Nat,
           i <= m.obj[o].size
    PROVE  LET r == InsertHole(m, o, i, n)
               b == m.obj[o]
               d == r.obj[o]
           IN  /\ Moves(m, r, o) /\ Writable(r, o) /\ Ends(r, o)
               /\ d.size = b.size + n /\ d.zt = b.zt /\ Zt(d) = Zt(b)
               /\ \A k \in 1..i : Cell(r, o, k) = Cell(m, o, k)
               /\ \A k \in i+n+1..b.size+n : Cell(r, o, k) = Cell(m, o, k - n)
<1> DEFINE b == m.obj[o]
           to == b.size + n
           v == Resize(m, o, to)
           d == v.obj[o]
           c == Cells(v, d.data)
           r == InsertHole(m, o, i, n)
<1>1. Sound(m, o) /\ b.size \in Nat /\ to \in Nat
  BY DEF Fits, Sound
<1>2. /\ Moves(m, v, o) /\ Writable(v, o) /\ Ends(v, o)
      /\ d.size = to /\ d.zt = b.zt /\ Zt(d) = Zt(b)
      /\ \A k \in 1..to : k <= b.size => Cell(v, o, k) = Cell(m, o, k)
  <2> HIDE DEF to
  <2> QED BY <1>1, ResizeWritable
<1>3. /\ d.size \in Nat /\ Zt(d) \in {0, 1} /\ d.cap \in Nat /\ d.size + Zt(d) <= d.cap /\ Good(v)
      /\ (d.zt => Zt(d) = 1)
  BY <1>2, WritableType, Zenon
<1>4. r = IF d.size = i + n THEN v
          ELSE Put(v, d.data, 0, CopyBackwardN(v.heap[d.data], i, d.size - (i + n), i + n))
  BY DEF InsertHole
<1> HIDE DEF v, r
<1>5. CASE d.size = i + n
  <2>1. r = v
    BY <1>4, <1>5
  <2>2. \A k : k \notin i+n+1..to
    BY <1>1, <1>2, <1>5
  <2>3. \A k \in 1..i : k \in 1..to /\ k <= b.size
    BY <1>1
  <2> QED BY <1>2, <2>1, <2>2, <2>3 DEF r
<1>6. CASE d.size # i + n
  <2> DEFINE x == b.size - i
             p == i + n
             t == Put(v, d.data, 0, Shifted(c, i, x, p))
  <2>1. /\ x \in Nat /\ p \in Nat /\ i + x <= d.size /\ p + x <= d.size /\ d.cap > 0
        /\ x = d.size - p /\ i <= p /\ p + x = to
    BY <1>1, <1>2, <1>3, <1>6
  <2>2. c = v.heap[d.data]
    BY <1>2, <1>3, <2>1, OwnCells
  <2>3. r = t
    <3>1. CopyBackwardN(c, i, x, p) = Shifted(c, i, x, p)
      BY <2>1, BackwardShifts
    <3> HIDE DEF c, x
    <3> QED BY <1>4, <1>6, <2>1, <2>2, <3>1
  <2>4. /\ Moves(v, t, o) /\ t.obj = v.obj /\ Writable(t, o)
        /\ \A k \in 1..(d.size + Zt(d)) :
             Cell(t, o, k) = IF k \in p+1..p+x THEN Cell(v, o, i + (k - p)) ELSE Cell(v, o, k)
    <3> HIDE DEF p, x, d, c
    <3>1. /\ Writable(v, o) /\ p \in Nat /\ x \in Nat /\ d = v.obj[o] /\ c = Cells(v, d.data)
          /\ i + x <= d.size /\ p + x <= d.size /\ d.cap > 0
      BY <1>2, <2>1 DEF c, d
    <3> QED BY <3>1, ShiftOwn
  <2> HIDE DEF t
  <2>5. Moves(m, r, o)
    BY <1>2, <2>3, <2>4, MovesTrans
  <2>6. Ends(r, o)
    <3>1. Zt(d) = 1 => Cell(r, o, to + 1) = Cell(v, o, to + 1)
      <4>1. Zt(d) = 1 => to + 1 \in 1..(d.size + Zt(d)) /\ to + 1 \notin p+1..p+x
        <5>0. d.size = to
          BY <1>2
        <5> HIDE DEF to, d, p, x
        <5> QED BY <1>1, <2>1, <5>0
      <4> HIDE DEF to, p, x, d
      <4> QED BY <2>3, <2>4, <4>1
    <3>2. Ends(v, o) /\ d.size = to /\ r.obj[o] = d
      BY <1>2, <2>3, <2>4
    <3> HIDE DEF to
    <3> QED BY <1>3, <3>1, <3>2, Zenon DEF Ends
  <2>7. \A k \in 1..i : Cell(r, o, k) = Cell(m, o, k)
    <3> TAKE k \in 1..i
    <3>1. k \in 1..to /\ k <= b.size /\ k \in 1..(d.size + Zt(d)) /\ k \notin p+1..p+x
      BY <1>1, <1>2, <1>3
    <3> QED BY <1>2, <2>3, <2>4, <3>1
  <2>8. \A k \in i+n+1..b.size+n : Cell(r, o, k) = Cell(m, o, k - n)
    <3> TAKE k \in i+n+1..b.size+n
    <3>1. /\ k \in p+1..p+x /\ k \in 1..(d.size + Zt(d)) /\ i + (k - p) = k - n
          /\ k - n \in 1..to /\ k - n <= b.size
      BY <1>1, <1>2, <1>3
    <3>2. Cell(r, o, k) = Cell(v, o, i + (k - p))
      BY <2>3, <2>4, <3>1
    <3> HIDE DEF p, to
    <3> QED BY <1>2, <3>1, <3>2
  <2>9. r.obj[o] = d /\ Writable(r, o)
    BY <2>3, <2>4
  <2> QED BY <1>2, <2>5, <2>6, <2>7, <2>8, <2>9 DEF r
<1> QED BY <1>5, <1>6

\* Copies and writes that leave the terminating zero alone.
LEMMA CopyInside ==
    ASSUME NEW m, NEW o \in Objects, Writable(m, o), Ends(m, o), NEW p \in Int, NEW n \in Nat,
           NEW i \in Nat, Readable(m, p, n), i + n <= m.obj[o].size
    PROVE  LET r == CopyFrom(m, p, n, m.obj[o].data, i)
           IN  /\ Moves(m, r, o) /\ r.obj = m.obj /\ Writable(r, o) /\ Ends(r, o)
               /\ Wrote(m, r, o, m.obj[o].size, i, n, Cells(m, p))
<1> DEFINE b == m.obj[o]
           r == CopyFrom(m, p, n, b.data, i)
<1>1. /\ b.size \in Nat /\ Zt(b) \in {0, 1} /\ (b.zt => Zt(b) = 1)
  BY WritableType, Zenon
<1>2. i + n <= b.size + Zt(b)
  <2>1. i + n <= b.size
    OBVIOUS
  <2> HIDE DEF b
  <2> QED BY <1>1, <2>1
<1>3. /\ Moves(m, r, o) /\ r.obj = m.obj /\ Writable(r, o)
      /\ \A k \in 1..(b.size + Zt(b)) :
           Cell(r, o, k) = IF k \in i+1..i+n THEN Cells(m, p)[k - i] ELSE Cell(m, o, k)
  BY <1>2, CopyCells
<1> HIDE DEF r
<1>4. Zt(b) = 1 => Cell(r, o, b.size + 1) = Cell(m, o, b.size + 1)
  <2>1. i + n <= b.size
    OBVIOUS
  <2> HIDE DEF b
  <2> QED BY <1>1, <1>3, <2>1
<1>5. Ends(r, o)
  <2>1. r.obj[o] = b
    BY <1>3
  <2> QED BY <1>1, <1>4, <2>1, Zenon DEF Ends
<1>6. \A k \in 1..b.size : k \in 1..(b.size + Zt(b))
  <2> HIDE DEF b
  <2> QED BY <1>1
<1> QED BY <1>3, <1>5, <1>6 DEF r, Wrote

LEMMA WriteInside ==
    ASSUME NEW m, NEW o \in Objects, Writable(m, o), Ends(m, o), NEW i \in Nat,
           NEW s, Sequence(s), i + Len(s) <= m.obj[o].size,
           Typed(m) => \A k \in 1..Len(s) : s[k] \in CellValues
    PROVE  LET r == Put(m, m.obj[o].data, i, s)
           IN  /\ Moves(m, r, o) /\ r.obj = m.obj /\ Writable(r, o) /\ Ends(r, o)
               /\ Wrote(m, r, o, m.obj[o].size, i, Len(s), s)
<1> DEFINE b == m.obj[o]
           n == Len(s)
           r == Put(m, b.data, i, s)
<1>1. /\ b.size \in Nat /\ Zt(b) \in {0, 1} /\ (b.zt => Zt(b) = 1) /\ n \in Nat
  BY WritableType, SequenceProperty, Zenon
<1>2. i + n <= b.size + Zt(b)
  <2>1. i + n <= b.size
    OBVIOUS
  <2> HIDE DEF b, n
  <2> QED BY <1>1, <2>1
<1>3. /\ Moves(m, r, o) /\ r.obj = m.obj /\ Writable(r, o)
      /\ \A k \in 1..(b.size + Zt(b)) :
           Cell(r, o, k) = IF k \in i+1..i+n THEN s[k - i] ELSE Cell(m, o, k)
  <2>1. /\ Moves(m, r, o) /\ r.obj = m.obj /\ Writable(r, o)
        /\ Wrote(m, r, o, b.size + Zt(b), i, n, s)
    BY <1>2, WriteCells
  <2> QED BY <2>1 DEF Wrote
<1> HIDE DEF r
<1>4. Zt(b) = 1 => Cell(r, o, b.size + 1) = Cell(m, o, b.size + 1)
  <2>1. i + n <= b.size
    OBVIOUS
  <2> DEFINE k == b.size + 1
  <2>2. Zt(b) = 1 => k \in 1..(b.size + Zt(b)) /\ k \notin i+1..i+n
    <3> HIDE DEF b, n
    <3> QED BY <1>1, <2>1
  <2> HIDE DEF k, b, n
  <2>3. Zt(b) = 1 => Cell(r, o, k) = Cell(m, o, k)
    BY <1>3, <2>2
  <2> QED BY <2>3 DEF k
<1>5. Ends(r, o)
  <2>1. r.obj[o] = b
    BY <1>3
  <2> QED BY <1>1, <1>4, <2>1, Zenon DEF Ends
<1>6. \A k \in 1..b.size : k \in 1..(b.size + Zt(b))
  <2> HIDE DEF b
  <2> QED BY <1>1
<1> QED BY <1>3, <1>5, <1>6 DEF r, Wrote

\* Container o afterwards: d of its cells after i have given way to n others.
Spliced(m, r, o, i, d, n) ==
    /\ r.obj[o].size = m.obj[o].size - d + n
    /\ \A k \in 1..i : Cell(r, o, k) = Cell(m, o, k)
    /\ \A k \in i+n+1..m.obj[o].size-d+n : Cell(r, o, k) = Cell(m, o, k - n + d)

\* An operation on o that leaves it ready for the next.
Done(m, r, o) ==
    /\ Moves(m, r, o) /\ Changes(m, r, o) /\ Writable(r, o) /\ Ends(r, o)
    /\ r.obj[o].zt = m.obj[o].zt /\ Zt(r.obj[o]) = Zt(m.obj[o])

LEMMA HoleSplices ==
    ASSUME NEW m, NEW o \in Objects, Usable(m, o), Fits(m, o), NEW i \in Nat, NEW n \in Nat,
           i <= m.obj[o].size
    PROVE  LET r == InsertHole(m, o, i, n)
           IN  Done(m, r, o) /\ Spliced(m, r, o, i, 0, n)
<1> DEFINE r == InsertHole(m, o, i, n)
           b == m.obj[o]
           d == r.obj[o]
<1>1. /\ Moves(m, r, o) /\ Writable(r, o) /\ Ends(r, o)
      /\ d.size = b.size + n /\ d.zt = b.zt /\ Zt(d) = Zt(b)
      /\ \A k \in 1..i : Cell(r, o, k) = Cell(m, o, k)
      /\ \A k \in i+n+1..b.size+n : Cell(r, o, k) = Cell(m, o, k - n)
  BY InsertHoleCells
<1> HIDE DEF r
<1>2. Done(m, r, o)
  BY <1>1, Zenon DEF Done, Moves
<1>3. Spliced(m, r, o, i, 0, n)
  <2>1. b.size \in Nat /\ b.size - 0 + n = b.size + n
    BY DEF Fits, Sound
  <2>2. \A k \in i+n+1..b.size+n : k - n + 0 = k - n
    BY <2>1
  <2> QED BY <1>1, <2>1, <2>2 DEF Spliced
<1> QED BY <1>2, <1>3 DEF r

\* Only the cells r+1 to r+n of o have changed: they are what f+1 to f+n were.
ShiftsOwn(m, t, o, f, n, r) ==
    /\ Moves(m, t, o) /\ t.obj = m.obj /\ Writable(t, o)
    /\ \A k \in 1..(m.obj[o].size + Zt(m.obj[o])) :
         Cell(t, o, k) = IF k \in r+1..r+n THEN Cell(m, o, f + (k - r)) ELSE Cell(m, o, k)

LEMMA ShiftOwnShifts ==
    ASSUME NEW m, NEW o \in Objects, Writable(m, o), NEW f \in Nat, NEW n \in Nat, NEW r \in Nat,
           f + n <= m.obj[o].size, r + n <= m.obj[o].size, m.obj[o].cap > 0
    PROVE  ShiftsOwn(m, Put(m, m.obj[o].data, 0, Shifted(Cells(m, m.obj[o].data), f, n, r)), o, f, n, r)
BY ShiftOwn DEF ShiftsOwn

LEMMA EraseCells ==
    ASSUME NEW m, NEW o \in Objects, Writable(m, o), NEW i \in Nat, NEW n \in Nat,
           i + n <= m.obj[o].size
    PROVE  LET r == Erase(m, o, i, n)
           IN  Done(m, r, o) /\ Spliced(m, r, o, i, n, 0)
<1> DEFINE b == m.obj[o]
           c == Cells(m, b.data)
           x == b.size - (i + n)
           f == i + n
           to == b.size - n
           u == IF b.size = i + n \/ n = 0 THEN m ELSE Put(m, b.data, 0, CopyN(c, f, x, i))
           r == Erase(m, o, i, n)
           d == r.obj[o]
<1>1. /\ b.size \in Nat /\ Zt(b) \in {0, 1} /\ b.cap \in Nat /\ b.size + Zt(b) <= b.cap /\ Good(m)
  BY WritableType
<1>2. r = Resize(u, o, to)
  BY DEF Erase
<1>3. /\ x \in Nat /\ f \in Nat /\ to \in Nat /\ f + x <= b.size /\ i + x <= b.size /\ i <= f
      /\ i + x = to /\ to <= b.size
  <2>1. i + n <= b.size
    OBVIOUS
  <2> HIDE DEF b
  <2> QED BY <1>1, <2>1
<1>4. /\ Moves(m, u, o) /\ u.obj = m.obj /\ Writable(u, o)
      /\ \A k \in 1..i : Cell(u, o, k) = Cell(m, o, k)
      /\ \A k \in i+1..to : Cell(u, o, k) = Cell(m, o, k + n)
  <2>1. CASE b.size = i + n \/ n = 0
    <3>1. u = m
      BY <2>1
    <3>2. CASE b.size = i + n
      <4>1. \A k : k \notin i+1..to
        BY <1>1, <3>2
      <4> QED BY <1>1, <3>1, <4>1, ChangesSelf
    <3>3. CASE n = 0
      <4>1. \A k \in i+1..to : k + n = k
        BY <1>3, <3>3
      <4> QED BY <1>1, <3>1, <4>1, ChangesSelf
    <3> QED BY <2>1, <3>2, <3>3
  <2>2. CASE ~(b.size = i + n \/ n = 0)
    <3> DEFINE t == Put(m, b.data, 0, Shifted(c, f, x, i))
    <3>1. u = t
      <4>1. CopyN(c, f, x, i) = Shifted(c, f, x, i)
        BY <1>3, ForwardShifts
      <4> HIDE DEF c, f, x
      <4> QED BY <2>2, <4>1
    <3>2. b.cap > 0
      <4>1. i + n <= b.size
        OBVIOUS
      <4> HIDE DEF b
      <4> QED BY <1>1, <2>2, <4>1
    <3>3. /\ Moves(m, t, o) /\ t.obj = m.obj /\ Writable(t, o)
          /\ \A k \in 1..(b.size + Zt(b)) :
               Cell(t, o, k) = IF k \in i+1..i+x THEN Cell(m, o, f + (k - i)) ELSE Cell(m, o, k)
      <4>1. /\ x \in Nat /\ f \in Nat /\ f + x <= b.size /\ i + x <= b.size /\ b.cap > 0
        BY <1>3, <3>2
      <4> HIDE DEF x, f
      <4>2. ShiftsOwn(m, t, o, f, x, i)
        BY <4>1, ShiftOwnShifts
      <4> HIDE DEF t
      <4> QED BY <4>2 DEF ShiftsOwn
    <3> HIDE DEF t, u
    <3>4. \A k \in 1..i : Cell(u, o, k) = Cell(m, o, k)
      <4> HIDE DEF b
      <4> TAKE k \in 1..i
      <4>1. k \in 1..(b.size + Zt(b)) /\ k \notin i+1..i+x
        BY <1>1, <1>3
      <4> QED BY <3>1, <3>3, <4>1
    <3>5. \A k \in i+1..to : Cell(u, o, k) = Cell(m, o, k + n)
      <4> HIDE DEF b
      <4> TAKE k \in i+1..to
      <4>1. k \in 1..(b.size + Zt(b)) /\ k \in i+1..i+x /\ f + (k - i) = k + n
        BY <1>1, <1>3
      <4> QED BY <3>1, <3>3, <4>1
    <3> QED BY <3>1, <3>3, <3>4, <3>5
  <2> QED BY <2>1, <2>2
<1> HIDE DEF u, r
<1>5. /\ Moves(u, r, o) /\ Changes(u, r, o) /\ Writable(r, o) /\ Ends(r, o)
      /\ d.size = to /\ d.zt = b.zt /\ Zt(d) = Zt(b)
      /\ \A k \in 1..to : k <= b.size => Cell(r, o, k) = Cell(u, o, k)
  <2>1. Usable(u, o) /\ Sound(u, o) /\ Fits(u, o) /\ u.obj[o] = b
    BY <1>4 DEF Writable, Fits
  <2> HIDE DEF to, b
  <2> QED BY <1>2, <1>3, <2>1, ResizeWritable
<1>6. Moves(m, r, o)
  BY <1>4, <1>5, MovesTrans
<1>7. Done(m, r, o)
  <2>1. Changes(m, r, o)
    BY <1>6 DEF Moves
  <2> QED BY <1>5, <1>6, <2>1, Zenon DEF Done
<1>8. Spliced(m, r, o, i, n, 0)
  <2>1. \A k \in 1..i : Cell(r, o, k) = Cell(m, o, k)
    <3> HIDE DEF b
    <3> TAKE k \in 1..i
    <3>1. k \in 1..to /\ k <= b.size
      BY <1>1, <1>3
    <3> QED BY <1>4, <1>5, <3>1
  <2>2. \A k \in i+0+1..b.size-n+0 : Cell(r, o, k) = Cell(m, o, k - 0 + n)
    <3> HIDE DEF b
    <3> TAKE k \in i+0+1..b.size-n+0
    <3>1. k \in 1..to /\ k <= b.size /\ k \in i+1..to /\ k - 0 + n = k + n
      BY <1>1, <1>3
    <3> QED BY <1>4, <1>5, <3>1
  <2>3. d.size = b.size - n + 0
    <3>1. d.size = to
      BY <1>5
    <3> HIDE DEF b, d
    <3> QED BY <1>1, <3>1
  <2> QED BY <2>1, <2>2, <2>3 DEF Spliced
<1> QED BY <1>7, <1>8 DEF r

LEMMA DoneThen ==
    ASSUME NEW m, NEW w, NEW r, NEW o \in Objects, Done(m, w, o),
           Moves(w, r, o), r.obj = w.obj, Writable(r, o), Ends(r, o)
    PROVE  Done(m, r, o)
<1>1. Moves(m, r, o)
  BY MovesTrans DEF Done
<1>2. Changes(m, r, o)
  BY <1>1 DEF Moves
<1>3. r.obj[o] = w.obj[o]
  OBVIOUS
<1> QED BY <1>1, <1>2, <1>3, Zenon DEF Done

\* The cells i + 1, ..., i + n of o are those of s.
Holds(r, o, i, n, s) == \A k \in 1..n : Cell(r, o, i + k) = s[k]

\* The new cells are written: the others are where the splice has put them.
LEMMA SpliceFilled ==
    ASSUME NEW m, NEW w, NEW r, NEW o \in Objects, NEW i \in Nat, NEW d \in Nat, NEW n \in Nat,
           NEW s, m.obj[o].size \in Nat, i + d <= m.obj[o].size,
           Spliced(m, w, o, i, d, n), r.obj = w.obj, Wrote(w, r, o, w.obj[o].size, i, n, s)
    PROVE  Spliced(m, r, o, i, d, n) /\ Holds(r, o, i, n, s)
<1> DEFINE x == m.obj[o].size
           y == w.obj[o].size
<1>1. /\ y = x - d + n /\ x \in Nat /\ i + d <= x
      /\ \A k \in 1..i : Cell(w, o, k) = Cell(m, o, k)
      /\ \A k \in i+n+1..x-d+n : Cell(w, o, k) = Cell(m, o, k - n + d)
  BY DEF Spliced
<1>2. r.obj[o].size = y
  OBVIOUS
<1>3. \A k \in 1..y : Cell(r, o, k) = IF k \in i+1..i+n THEN s[k - i] ELSE Cell(w, o, k)
  BY DEF Wrote
<1> HIDE DEF x, y
<1>4. \A k \in 1..i : Cell(r, o, k) = Cell(m, o, k)
  <2> TAKE k \in 1..i
  <2>1. k \in 1..y /\ k \notin i+1..i+n
    BY <1>1
  <2> QED BY <1>1, <1>3, <2>1
<1>5. \A k \in i+n+1..x-d+n : Cell(r, o, k) = Cell(m, o, k - n + d)
  <2> TAKE k \in i+n+1..x-d+n
  <2>1. k \in 1..y /\ k \notin i+1..i+n
    BY <1>1
  <2> QED BY <1>1, <1>3, <2>1
<1>6. \A k \in 1..n : Cell(r, o, i + k) = s[k]
  <2> TAKE k \in 1..n
  <2>1. i + k \in 1..y /\ i + k \in i+1..i+n /\ (i + k) - i = k
    BY <1>1
  <2> QED BY <1>3, <2>1
<1> QED BY <1>1, <1>2, <1>4, <1>5, <1>6 DEF Spliced, Holds, x, y

LEMMA FillSplice ==
    ASSUME NEW m, NEW w, NEW o \in Objects, NEW i \in Nat, NEW d \in Nat, NEW n \in Nat,
           NEW p \in Int, Elsewhere(m, o, p, n), m.obj[o].size \in Nat, i + d <= m.obj[o].size,
           Done(m, w, o), Spliced(m, w, o, i, d, n)
    PROVE  LET r == CopyFrom(w, p, n, w.obj[o].data, i)
           IN  /\ Done(m, r, o) /\ Spliced(m, r, o, i, d, n)
               /\ Holds(r, o, i, n, Cells(m, p))
<1> DEFINE r == CopyFrom(w, p, n, w.obj[o].data, i)
           s == Cells(w, p)
<1>1. /\ Readable(w, p, n) /\ Writable(w, o) /\ Ends(w, o)
      /\ \A k \in 1..n : s[k] = Cells(m, p)[k]
  BY ElsewhereKept DEF Done, Elsewhere
<1>2. i + n <= w.obj[o].size
  BY DEF Spliced
<1>3. /\ Moves(w, r, o) /\ r.obj = w.obj /\ Writable(r, o) /\ Ends(r, o)
      /\ Wrote(w, r, o, w.obj[o].size, i, n, s)
  BY <1>1, <1>2, CopyInside
<1> HIDE DEF r, s
<1>4. Done(m, r, o)
  BY <1>3, DoneThen
<1>5. Spliced(m, r, o, i, d, n) /\ Holds(r, o, i, n, s)
  <2>1. Wrote(w, r, o, w.obj[o].size, i, n, s) /\ r.obj = w.obj
    BY <1>3
  <2> QED BY <2>1, SpliceFilled
<1> QED BY <1>1, <1>4, <1>5 DEF r, Holds

LEMMA InsertCellsCells ==
    ASSUME NEW m, NEW o \in Objects, Usable(m, o), Fits(m, o), NEW i \in Nat, i <= m.obj[o].size,
           NEW p \in Int, NEW n \in Nat, Elsewhere(m, o, p, n)
    PROVE  LET r == InsertCells(m, o, i, p, n)
           IN  /\ Done(m, r, o) /\ Spliced(m, r, o, i, 0, n)
               /\ Holds(r, o, i, n, Cells(m, p))
<1> DEFINE h == InsertHole(m, o, i, n)
           r == CopyFrom(h, p, n, h.obj[o].data, i)
<1>1. InsertCells(m, o, i, p, n) = r
  BY DEF InsertCells
<1>2. Done(m, h, o) /\ Spliced(m, h, o, i, 0, n)
  BY HoleSplices
<1>3. m.obj[o].size \in Nat /\ i + 0 <= m.obj[o].size
  BY DEF Fits, Sound
<1> HIDE DEF h
<1>4. /\ Done(m, r, o) /\ Spliced(m, r, o, i, 0, n)
      /\ Holds(r, o, i, n, Cells(m, p))
  <2> DEFINE zero == 0
  <2>1. zero \in Nat /\ Spliced(m, h, o, i, zero, n) /\ i + zero <= m.obj[o].size
    BY <1>2, <1>3
  <2> HIDE DEF zero
  <2>2. /\ Done(m, r, o) /\ Spliced(m, r, o, i, zero, n)
        /\ Holds(r, o, i, n, Cells(m, p))
    BY <1>2, <1>3, <2>1, FillSplice
  <2> QED BY <2>2 DEF zero
<1> QED BY <1>1, <1>4

LEMMA ReplaceCells ==
    ASSUME NEW m, NEW o \in Objects, Writable(m, o), NEW i \in Nat, NEW d \in Nat,
           i + d <= m.obj[o].size,
           NEW p \in Int, NEW n \in Nat, Elsewhere(m, o, p, n)
    PROVE  LET r == Replace(m, o, i, d, p, n)
           IN  /\ Done(m, r, o) /\ Spliced(m, r, o, i, d, n)
               /\ Holds(r, o, i, n, Cells(m, p))
<1> DEFINE w == IF n > d THEN InsertHole(m, o, i, n - d) ELSE Erase(m, o, i, d - n)
           x == m.obj[o].size
<1>1. Replace(m, o, i, d, p, n) = CopyFrom(w, p, n, w.obj[o].data, i)
  BY DEF Replace
<1>2. x \in Nat /\ Usable(m, o) /\ Fits(m, o) /\ i + d <= x
  BY WritableType DEF Writable
<1>3. Done(m, w, o) /\ Spliced(m, w, o, i, d, n)
  <2>1. CASE n > d
    <3> DEFINE e == n - d
    <3>1. w = InsertHole(m, o, i, e)
      BY <2>1
    <3>2. e \in Nat /\ i <= x
      BY <1>2, <2>1
    <3> HIDE DEF e
    <3>3. Done(m, w, o) /\ Spliced(m, w, o, i, 0, e)
      BY <1>2, <3>1, <3>2, HoleSplices
    <3> HIDE DEF w, x
    <3>4. Spliced(m, w, o, i, d, n)
      <4>1. /\ w.obj[o].size = x - d + n
            /\ \A k \in 1..i : Cell(w, o, k) = Cell(m, o, k)
            /\ \A k \in i+n+1..x-d+n : k \in i+e+1..x-0+e /\ k - e + 0 = k - n + d
        BY <1>2, <2>1, <3>3 DEF Spliced, e, x
      <4>2. \A k \in i+n+1..x-d+n : Cell(w, o, k) = Cell(m, o, k - n + d)
        BY <3>3, <4>1 DEF Spliced, x
      <4> QED BY <4>1, <4>2 DEF Spliced, x
    <3> QED BY <3>3, <3>4
  <2>2. CASE ~(n > d)
    <3> DEFINE e == d - n
    <3>1. w = Erase(m, o, i, e)
      BY <2>2
    <3>2. e \in Nat /\ i + e <= x
      BY <1>2, <2>2
    <3> HIDE DEF e
    <3>3. Done(m, w, o) /\ Spliced(m, w, o, i, e, 0)
      BY <1>2, <3>1, <3>2, EraseCells
    <3> HIDE DEF w, x
    <3>4. Spliced(m, w, o, i, d, n)
      <4>1. /\ w.obj[o].size = x - d + n
            /\ \A k \in 1..i : Cell(w, o, k) = Cell(m, o, k)
            /\ \A k \in i+n+1..x-d+n : k \in i+0+1..x-e+0 /\ k - 0 + e = k - n + d
        BY <1>2, <2>2, <3>3 DEF Spliced, e, x
      <4>2. \A k \in i+n+1..x-d+n : Cell(w, o, k) = Cell(m, o, k - n + d)
        BY <3>3, <4>1 DEF Spliced, x
      <4> QED BY <4>1, <4>2 DEF Spliced, x
    <3> QED BY <3>3, <3>4
  <2> QED BY <2>1, <2>2
<1> HIDE DEF w
<1> QED BY <1>1, <1>2, <1>3, FillSplice

LEMMA FilledSequence ==
    ASSUME NEW n \in Nat, NEW v
    PROVE  Sequence(Filled(n, v)) /\ Len(Filled(n, v)) = n /\ \A k \in 1..n : Filled(n, v)[k] = v
<1> DEFINE s == Filled(n, v)
<1>1. s = [k \in 1..n |-> s[k]] /\ \A k \in 1..n : s[k] = v
  BY DEF Filled
<1> HIDE DEF s
<1>2. Sequence(s) /\ Len(s) = n
  BY <1>1, SequenceLen
<1> QED BY <1>1, <1>2 DEF s

LEMMA InsertFillCells ==
    ASSUME NEW m, NEW o \in Objects, Usable(m, o), Fits(m, o), NEW i \in Nat, i <= m.obj[o].size,
           NEW n \in Nat, NEW v \in Values
    PROVE  LET r == InsertFill(m, o, i, n, v)
           IN  /\ Done(m, r, o) /\ Spliced(m, r, o, i, 0, n)
               /\ \A k \in 1..n : Cell(r, o, i + k) = v
<1> DEFINE h == InsertHole(m, o, i, n)
           s == Filled(n, v)
           r == Put(h, h.obj[o].data, i, s)
<1>1. InsertFill(m, o, i, n, v) = r
  BY DEF InsertFill
<1>2. Done(m, h, o) /\ Spliced(m, h, o, i, 0, n)
  BY HoleSplices
<1>3. m.obj[o].size \in Nat /\ i + 0 <= m.obj[o].size
  BY DEF Fits, Sound
<1>4. Sequence(s) /\ Len(s) = n /\ \A k \in 1..n : s[k] = v
  BY FilledSequence
<1> HIDE DEF h, s
<1>5. i + Len(s) <= h.obj[o].size /\ \A k \in 1..Len(s) : s[k] \in CellValues
  BY <1>2, <1>3, <1>4 DEF Spliced, CellValues
<1>6. /\ Moves(h, r, o) /\ r.obj = h.obj /\ Writable(r, o) /\ Ends(r, o)
      /\ Wrote(h, r, o, h.obj[o].size, i, Len(s), s)
  BY <1>2, <1>4, <1>5, WriteInside DEF Done
<1> HIDE DEF r
<1>7. Done(m, r, o)
  BY <1>2, <1>6, DoneThen
<1>8. Spliced(m, r, o, i, 0, n) /\ Holds(r, o, i, n, s)
  <2> DEFINE zero == 0
             x == m.obj[o].size
  <2>1. /\ Spliced(m, h, o, i, zero, n) /\ zero \in Nat /\ x \in Nat /\ i + zero <= x
        /\ x = m.obj[o].size
    BY <1>2, <1>3
  <2>2. Wrote(h, r, o, h.obj[o].size, i, n, s) /\ r.obj = h.obj
    BY <1>4, <1>6
  <2> HIDE DEF zero, x
  <2>3. Spliced(m, r, o, i, zero, n) /\ Holds(r, o, i, n, s)
    BY <2>1, <2>2, SpliceFilled
  <2> QED BY <2>3 DEF zero
<1> QED BY <1>1, <1>4, <1>7, <1>8 DEF r, Holds

-----------------------------------------------------------------------------
(* string *)

\* What is behind the last cell of a string: its zero, which an empty string
\* does not have in a block that reserve () gave it.
Stop(m, o) ==
    m.obj[o].zt /\ m.obj[o].data # Null =>
        \/ Cell(m, o, m.obj[o].size + 1) = Nul
        \/ m.obj[o].size = 0 /\ Cell(m, o, m.obj[o].size + 1) = Junk

\* An operation on o that leaves it between two calls.
Whole(m, r, o) ==
    /\ Moves(m, r, o) /\ Usable(r, o) /\ Fits(r, o) /\ Stop(r, o)
    /\ r.obj[o].zt = m.obj[o].zt

LEMMA DoneIsWhole ==
    ASSUME NEW m, NEW r, NEW o, Done(m, r, o)
    PROVE  Whole(m, r, o)
<1>1. Stop(r, o)
  BY Zenon DEF Done, Ends, Stop
<1> QED BY <1>1, Zenon DEF Done, Whole, Writable

LEMMA OneCell ==
    ASSUME NEW v
    PROVE  Sequence(<<v>>) /\ Len(<<v>>) = 1 /\ <<v>>[1] = v /\ <<v>> # <<>>
<1>1. <<v>> \in Seq({v}) /\ Len(<<v>>) = 1 /\ <<v>>[1] = v /\ <<v>> # <<>>
  OBVIOUS
<1> QED BY <1>1, SeqIsSequence

LEMMA PushBackCells ==
    ASSUME NEW m, NEW o \in Objects, Usable(m, o), Fits(m, o), NEW v \in Values
    PROVE  LET r == PushBack(m, o, v)
               x == m.obj[o].size
           IN  Done(m, r, o) /\ Spliced(m, r, o, x, 0, 1) /\ Holds(r, o, x, 1, <<v>>)
<1> DEFINE x == m.obj[o].size
           y == x + 1
           w == Resize(m, o, y)
           d == w.obj[o]
           s == <<v>>
           r == Put(w, d.data, x, s)
<1>1. x \in Nat /\ y \in Nat /\ Sound(m, o)
  BY DEF Fits, Sound
<1>2. /\ Moves(m, w, o) /\ Changes(m, w, o) /\ Writable(w, o) /\ Ends(w, o)
      /\ d.size = y /\ d.zt = m.obj[o].zt /\ Zt(d) = Zt(m.obj[o])
      /\ \A k \in 1..y : k <= x => Cell(w, o, k) = Cell(m, o, k)
  <2> HIDE DEF y
  <2> QED BY <1>1, ResizeWritable
<1>3. PushBack(m, o, v) = r
  <2>1. d.size - 1 = x
    BY <1>1, <1>2
  <2> QED BY <2>1 DEF PushBack
<1>4. Sequence(s) /\ Len(s) = 1 /\ s[1] = v
  BY OneCell
<1>5. \A k \in 1..Len(s) : s[k] \in CellValues
  BY <1>4 DEF CellValues
<1>6. Done(m, w, o)
  BY <1>2, Zenon DEF Done
<1>7. Spliced(m, w, o, x, 0, 1)
  <2> HIDE DEF w, d
  <2>1. \A k \in 1..x : Cell(w, o, k) = Cell(m, o, k)
    BY <1>1, <1>2
  <2>2. x - 0 + 1 = y /\ \A k : k \notin x+1+1..x-0+1
    BY <1>1
  <2>3. w.obj[o].size = x - 0 + 1
    BY <1>2, <2>2 DEF d
  <2> QED BY <2>1, <2>2, <2>3 DEF Spliced
<1> HIDE DEF w
<1>8. /\ Moves(w, r, o) /\ r.obj = w.obj /\ Writable(r, o) /\ Ends(r, o)
      /\ Wrote(w, r, o, d.size, x, Len(s), s)
  <2>1. x + Len(s) <= w.obj[o].size
    BY <1>1, <1>2, <1>4
  <2>2. Writable(w, o) /\ Ends(w, o) /\ x \in Nat /\ Sequence(s)
    BY <1>1, <1>2, <1>4
  <2> HIDE DEF s, x
  <2> QED BY <1>5, <2>1, <2>2, WriteInside
<1> HIDE DEF r, s
<1>9. Done(m, r, o)
  BY <1>6, <1>8, DoneThen
<1>10. Spliced(m, r, o, x, 0, 1) /\ Holds(r, o, x, 1, s)
  <2> DEFINE zero == 0
             one == 1
  <2>1. /\ Spliced(m, w, o, x, zero, one) /\ zero \in Nat /\ x \in Nat /\ x + zero <= x
        /\ one \in Nat /\ x = m.obj[o].size
    BY <1>1, <1>7
  <2>2. Wrote(w, r, o, w.obj[o].size, x, one, s) /\ r.obj = w.obj
    BY <1>4, <1>8
  <2> HIDE DEF zero, one, x
  <2>3. Spliced(m, r, o, x, zero, one) /\ Holds(r, o, x, one, s)
    BY <2>1, <2>2, SpliceFilled
  <2> QED BY <2>3 DEF zero, one
<1> QED BY <1>3, <1>9, <1>10 DEF s

\* A container that owns its block may have its size set to less.
LEMMA ShorterWritable ==
    ASSUME NEW m, NEW o \in Objects, Writable(m, o), m.obj[o].cap > 0,
           NEW n \in Nat, n <= m.obj[o].size
    PROVE  LET r == SetSize(m, o, n)
               d == r.obj[o]
           IN  /\ Moves(m, r, o) /\ Writable(r, o)
               /\ d.size = n /\ d.data = m.obj[o].data /\ d.zt = m.obj[o].zt /\ Zt(d) = Zt(m.obj[o])
               /\ \A k : Cell(r, o, k) = Cell(m, o, k)
<1> DEFINE r == SetSize(m, o, n)
           d == r.obj[o]
           b == m.obj[o]
<1>1. /\ b.size \in Nat /\ Zt(b) \in {0, 1} /\ b.cap \in Nat /\ b.size + Zt(b) <= b.cap /\ Good(m)
      /\ Usable(m, o) /\ n \in Int /\ b.data \in Int
  BY WritableType DEF Writable
<1>2. /\ Moves(m, r, o) /\ Usable(r, o)
      /\ d.size = n /\ d.data = b.data /\ d.cap = b.cap /\ d.zt = b.zt /\ Zt(d) = Zt(b)
      /\ \A k : Cell(r, o, k) = Cell(m, o, k)
  BY <1>1, SetSizeCells
<1> HIDE DEF r
<1>3. d.data # Null /\ n + Zt(b) <= b.cap
  <2>1. b.data # Null /\ n <= b.size /\ b.cap > 0
    BY <1>1, OwnCells, AddrIsNumber
  <2> HIDE DEF b
  <2> QED BY <1>1, <1>2, <2>1
<1>4. d.size \in Nat /\ d.size + Zt(d) <= d.cap /\ d.cap # 0
  <2>1. b.cap > 0
    OBVIOUS
  <2> HIDE DEF b
  <2> QED BY <1>1, <1>2, <1>3, <2>1
<1>5. Fits(r, o)
  BY <1>3, <1>4 DEF Fits, Sound
<1>6. Writable(r, o)
  BY <1>2, <1>4, <1>5 DEF Writable
<1> QED BY <1>2, <1>6, Zenon DEF r

\* The zero is put where the size now ends.
LEMMA EndPut ==
    ASSUME NEW m, NEW o \in Objects, Writable(m, o), Zt(m.obj[o]) = 1
    PROVE  LET r == Put(m, m.obj[o].data, m.obj[o].size, <<Nul>>)
           IN  /\ Moves(m, r, o) /\ r.obj = m.obj /\ Writable(r, o) /\ Ends(r, o)
               /\ \A k \in 1..m.obj[o].size : Cell(r, o, k) = Cell(m, o, k)
<1> DEFINE b == m.obj[o]
           n == b.size
           s == <<Nul>>
           r == Put(m, b.data, n, s)
<1>1. n \in Nat /\ Zt(b) = 1
  BY WritableType
<1>2. Sequence(s) /\ Len(s) = 1 /\ s[1] = Nul
  BY OneCell
<1>3. n + Len(s) <= b.size + Zt(b) /\ \A k \in 1..Len(s) : s[k] \in CellValues
  BY <1>1, <1>2 DEF CellValues
<1>4. /\ Moves(m, r, o) /\ r.obj = m.obj /\ Writable(r, o)
      /\ \A k \in 1..(n + Zt(b)) :
           Cell(r, o, k) = IF k \in n+1..n+Len(s) THEN s[k - n] ELSE Cell(m, o, k)
  <2> HIDE DEF s
  <2>1. /\ Moves(m, r, o) /\ r.obj = m.obj /\ Writable(r, o)
        /\ Wrote(m, r, o, b.size + Zt(b), n, Len(s), s)
    BY <1>1, <1>2, <1>3, WriteCells
  <2> QED BY <2>1 DEF Wrote
<1> HIDE DEF r, s
<1>5. \A k \in 1..n : Cell(r, o, k) = Cell(m, o, k)
  <2> HIDE DEF n, b
  <2> QED BY <1>1, <1>2, <1>4
<1>6. Cell(r, o, n + 1) = Nul
  <2> HIDE DEF n, b
  <2> QED BY <1>1, <1>2, <1>4
<1>7. Ends(r, o)
  <2>1. r.obj[o] = b
    BY <1>4
  <2> QED BY <1>6, <2>1, Zenon DEF Ends
<1> QED BY <1>4, <1>5, <1>7 DEF r, s

LEMMA PopBackCells ==
    ASSUME NEW m, NEW o \in Objects, Writable(m, o), m.obj[o].cap > 0, Zt(m.obj[o]) = 1,
           m.obj[o].size > 0
    PROVE  LET r == PopBack(m, o)
           IN  /\ Done(m, r, o) /\ r.obj[o].size = m.obj[o].size - 1
               /\ \A k \in 1..m.obj[o].size-1 : Cell(r, o, k) = Cell(m, o, k)
<1> DEFINE n == m.obj[o].size - 1
           w == SetSize(m, o, n)
           d == w.obj[o]
           r == Put(w, d.data, d.size, <<Nul>>)
<1>1. n \in Nat /\ n <= m.obj[o].size /\ PopBack(m, o) = r
  BY WritableType DEF PopBack
<1>2. /\ Moves(m, w, o) /\ Writable(w, o)
      /\ d.size = n /\ d.data = m.obj[o].data /\ d.zt = m.obj[o].zt /\ Zt(d) = Zt(m.obj[o])
      /\ \A k : Cell(w, o, k) = Cell(m, o, k)
  <2> HIDE DEF n
  <2> QED BY <1>1, ShorterWritable
<1>3. Zt(d) = 1
  BY <1>2
<1> HIDE DEF w, n
<1>4. /\ Moves(w, r, o) /\ r.obj = w.obj /\ Writable(r, o) /\ Ends(r, o)
      /\ \A k \in 1..d.size : Cell(r, o, k) = Cell(w, o, k)
  BY <1>2, <1>3, EndPut
<1> HIDE DEF r
<1>5. Moves(m, r, o)
  BY <1>2, <1>4, MovesTrans
<1>6. Changes(m, r, o)
  BY <1>5 DEF Moves
<1>7. Done(m, r, o)
  <2>1. r.obj[o] = d
    BY <1>4
  <2> QED BY <1>2, <1>4, <1>5, <1>6, <2>1, Zenon DEF Done
<1>8. r.obj[o].size = n /\ \A k \in 1..n : Cell(r, o, k) = Cell(m, o, k)
  BY <1>2, <1>4
<1> QED BY <1>1, <1>7, <1>8 DEF n

LEMMA ClearStringCells ==
    ASSUME NEW m, NEW o \in Objects, Usable(m, o), Fits(m, o), Zt(m.obj[o]) = 1,
           m.obj[o].cap > 0 \/ m.obj[o].data = Null
    PROVE  LET r == ClearString(m, o)
           IN  Whole(m, r, o) /\ r.obj[o].size = 0
<1> DEFINE n == 0
           w == SetSize(m, o, n)
           d == w.obj[o]
           b == m.obj[o]
           r == ClearString(m, o)
<1>1. r = IF d.data = Null THEN w ELSE Put(w, d.data, n, <<Nul>>)
  BY DEF ClearString
<1>2. n \in Nat /\ n \in Int /\ b.size \in Nat /\ n <= b.size
  BY DEF Fits, Sound
<1> HIDE DEF n, w
<1>3. CASE b.cap > 0
  <2>1. Writable(m, o)
    BY <1>3 DEF Writable, Fits, Sound
  <2>2. /\ Moves(m, w, o) /\ Writable(w, o)
        /\ d.size = n /\ d.data = b.data /\ d.zt = b.zt /\ Zt(d) = Zt(b)
    BY <1>2, <1>3, <2>1, ShorterWritable DEF w
  <2>3. Zt(d) = 1
    BY <2>2
  <2>4. d.data # Null
    BY <1>3, <2>2, OwnCells, AddrIsNumber DEF Usable
  <2>5. r = Put(w, d.data, d.size, <<Nul>>)
    BY <1>1, <2>2, <2>4
  <2> HIDE DEF r
  <2>6. Moves(w, r, o) /\ r.obj = w.obj /\ Writable(r, o) /\ Ends(r, o)
    <3>1. LET u == Put(w, d.data, d.size, <<Nul>>)
          IN  Moves(w, u, o) /\ u.obj = w.obj /\ Writable(u, o) /\ Ends(u, o)
      BY <2>2, <2>3, EndPut
    <3> QED BY <2>5, <3>1
  <2>7. Moves(m, r, o)
    BY <2>2, <2>6, MovesTrans
  <2>8. Changes(m, r, o)
    BY <2>7 DEF Moves
  <2>9. Done(m, r, o)
    <3>1. r.obj[o] = d
      BY <2>6
    <3> QED BY <2>2, <2>6, <2>7, <2>8, <3>1, Zenon DEF Done
  <2>10. r.obj[o].size = 0
    BY <2>2, <2>6 DEF n
  <2> QED BY <2>9, <2>10, DoneIsWhole DEF r
<1>4. CASE ~(b.cap > 0)
  <2>1. b.data = Null /\ b.cap = 0
    BY <1>4, BlockType DEF Usable
  <2>2. /\ Moves(m, w, o) /\ Usable(w, o)
        /\ d.size = n /\ d.data = b.data /\ d.cap = b.cap /\ d.zt = b.zt
    BY <1>2, SetSizeCells DEF w
  <2>3. r = w
    BY <1>1, <2>1, <2>2
  <2>4. Fits(w, o)
    BY <1>2, <2>1, <2>2 DEF Fits, Sound, n, Null
  <2>5. Stop(w, o)
    BY <2>1, <2>2, Zenon DEF Stop
  <2>6. Whole(m, w, o)
    BY <2>2, <2>4, <2>5, Zenon DEF Whole
  <2>7. d.size = 0
    BY <2>2 DEF n
  <2> QED BY <2>3, <2>6, <2>7
<1> QED BY <1>3, <1>4

-----------------------------------------------------------------------------
(* Blocks taken and given back *)

\* Container b with another block, of n cells.
Remade(b, p, n, c) == [b EXCEPT !.data = p, !.size = n, !.cap = c]

LEMMA BlockRemade ==
    ASSUME NEW b \in Block, NEW p \in Int, NEW n \in Int, NEW c \in Nat, NEW d, d = Remade(b, p, n, c)
    PROVE  /\ d \in Block /\ d.data = p /\ d.size = n /\ d.cap = c
           /\ d.made = b.made /\ d.zt = b.zt /\ Zt(d) = Zt(b)
<1>1. d \in Block
  BY DEF Block, Remade
<1>2. d.data = p
  BY DEF Block, Remade
<1>3. d.size = n
  BY DEF Block, Remade
<1>4. d.cap = c
  BY DEF Block, Remade
<1>5. d.made = b.made
  BY DEF Block, Remade
<1>6. d.zt = b.zt
  BY DEF Block, Remade
<1>7. Zt(d) = Zt(b)
  BY <1>6 DEF Zt
<1> QED BY <1>1, <1>2, <1>3, <1>4, <1>5, <1>6, <1>7

LEMMA ReleaseCells ==
    ASSUME NEW m, Memory(m), NEW p \in Addrs \cup {Null}, p # Null => Len(m.heap[p]) # 0
    PROVE  LET r == Release(m, p)
           IN  /\ Memory(r) /\ r.obj = m.obj /\ r.elem = m.elem /\ r.fault = m.fault
               /\ \A a \in Addrs : a # p => r.heap[a] = m.heap[a]
               /\ Typed(m) => Typed(r)
<1>1. CASE p = Null
  BY <1>1 DEF Release
<1>2. CASE p # Null
  <2> DEFINE r == WithBlock(m, p, <<>>)
  <2>1. p \in Addrs /\ m.heap[p] # <<>> /\ Release(m, p) = r
    <3>1. p \in Addrs /\ m.heap[p] # <<>>
      BY <1>2, EmptySequence
    <3> QED BY <1>2, <3>1 DEF Release, WithBlock
  <2>2. /\ Memory(r) /\ r.obj = m.obj /\ r.elem = m.elem /\ r.fault = m.fault
        /\ \A b \in Addrs : b # p => r.heap[b] = m.heap[b]
        /\ Typed(m) => Typed(r)
    <3>1. \A k \in 1..Len(<<>>) : <<>>[k] \in CellValues
      BY EmptySequence
    <3> QED BY <2>1, <3>1, EmptySequence, BlockReplaced
  <2> QED BY <2>1, <2>2
<1> QED BY <1>1, <1>2

LEMMA DeallocateCells ==
    ASSUME NEW m, NEW o \in Objects, Usable(m, o)
    PROVE  LET r == Deallocate(m, o)
               d == r.obj[o]
           IN  /\ Moves(m, r, o) /\ Usable(r, o)
               /\ d.size = 0 /\ d.data = Null /\ d.cap = 0 /\ d.zt = m.obj[o].zt
<1> DEFINE b == m.obj[o]
           zero == 0
           d == Remade(b, Null, zero, zero)
           u == WithObj(m, o, d)
           old == IF b.cap > 0 THEN b.data ELSE Null
           r == Release(u, old)
<1>1. b \in Block /\ Memory(m) /\ Good(m)
  BY UsableType DEF Usable
<1>2. Deallocate(m, o) = r
  BY <1>1 DEF Deallocate, Unlink, Memory, WithObj, Remade
<1>3. d \in Block /\ d.data = Null /\ d.size = zero /\ d.cap = zero /\ d.zt = b.zt
  <2>1. Null \in Int /\ zero \in Int /\ zero \in Nat
    BY DEF Null
  <2> HIDE DEF b, zero
  <2> QED BY <1>1, <2>1, BlockRemade
<1> HIDE DEF d
<1>4. /\ Memory(u) /\ u.heap = m.heap /\ u.elem = m.elem /\ u.fault = m.fault /\ u.obj[o] = d
      /\ \A q \in Objects : q # o => u.obj[q] = m.obj[q]
      /\ Typed(m) => Typed(u)
  BY <1>1, <1>3, ObjReplaced
<1>5. /\ old \in Addrs \cup {Null} /\ (old # Null => Len(m.heap[old]) # 0)
      /\ \A a \in Addrs : OwnsAt(m, o, a) <=> a = old
  BY <1>1, OwnBlock
<1> HIDE DEF u, old
<1>6. /\ Memory(r) /\ r.obj = u.obj /\ r.elem = u.elem /\ r.fault = u.fault
      /\ \A a \in Addrs : a # old => r.heap[a] = u.heap[a]
      /\ Typed(u) => Typed(r)
  BY <1>4, <1>5, ReleaseCells
<1> HIDE DEF r
<1>7. Usable(r, o) /\ Good(r)
  BY <1>2, DeallocateUsable DEF Usable
<1>8. Moves(m, r, o)
  BY <1>1, <1>4, <1>5, <1>6, <1>7 DEF Moves, Changes
<1>9. r.obj[o].size = 0 /\ r.obj[o].data = Null /\ r.obj[o].cap = 0
  BY <1>3, <1>4, <1>6
<1>10. r.obj[o].zt = b.zt
  <2>1. r.obj[o] = d
    BY <1>4, <1>6
  <2> QED BY <1>3, <2>1, Zenon
<1> QED BY <1>2, <1>7, <1>8, <1>9, <1>10, Zenon

LEMMA DestroyedCells ==
    ASSUME NEW m, NEW o \in Objects, Usable(m, o)
    PROVE  LET r == Destroyed(m, o)
           IN  Moves(m, r, o) /\ r.obj[o] = Gone
<1> DEFINE u == Deallocate(m, o)
           r == WithObj(u, o, Gone)
<1>1. Moves(m, u, o) /\ Memory(u) /\ u.obj[o].cap = 0
  BY DeallocateCells DEF Usable, Good
<1>2. Destroyed(m, o) = r
  BY DEF Destroyed, WithObj
<1> HIDE DEF u
<1>3. Gone \in Block
  BY DEF Gone, Null, Block
<1>4. /\ Memory(r) /\ r.heap = u.heap /\ r.elem = u.elem /\ r.fault = u.fault /\ r.obj[o] = Gone
      /\ \A q \in Objects : q # o => r.obj[q] = u.obj[q]
      /\ Typed(u) => Typed(r)
  BY <1>1, <1>3, ObjReplaced
<1>5. Good(r)
  BY <1>2, DestroyedGood
<1> HIDE DEF r
<1>6. Moves(u, r, o)
  BY <1>1, <1>4, <1>5 DEF Moves, Changes
<1>7. Moves(m, r, o)
  BY <1>1, <1>6, MovesTrans
<1> QED BY <1>2, <1>4, <1>7

LEMMA ShrinkToFitCells ==
    ASSUME NEW m, NEW o \in Objects, Usable(m, o), Fits(m, o), m.obj[o].cap > 0, m.obj[o].size > 0
    PROVE  LET r == ShrinkToFit(m, o)
               b == m.obj[o]
           IN  /\ Moves(m, r, o) /\ Writable(r, o)
               /\ r.obj[o].size = b.size /\ r.obj[o].zt = b.zt /\ Zt(r.obj[o]) = Zt(b)
               /\ \A k \in 1..(b.size + Zt(b)) : Cell(r, o, k) = Cell(m, o, k)
<1> DEFINE b == m.obj[o]
           c == b.size + Zt(b)
           old == b.data
           new == FreeAddr(m)
           x == Realloc(m, old, c)
           d == MovedTo(b, new, c)
           r == WithObj(x, o, d)
<1>1. /\ b \in Block /\ c \in Nat /\ c > 0 /\ Good(m) /\ Memory(m) /\ b.size \in Nat /\ Zt(b) \in {0, 1}
      /\ c <= b.cap
  <2>1. b.size > 0 /\ b.cap > 0 /\ b.size \in Nat /\ (b.cap > 0 => b.size + Zt(b) <= b.cap)
    BY DEF Fits, Sound
  <2>2. Zt(b) \in {0, 1} /\ b \in Block /\ Good(m) /\ Memory(m)
    BY UsableType DEF Usable
  <2> HIDE DEF b
  <2> QED BY <2>1, <2>2
<1>2. /\ old \in Addrs /\ Len(m.heap[old]) = b.cap
      /\ \A k : Cell(m, o, k) = m.heap[old][k]
      /\ \A a \in Addrs : OwnsAt(m, o, a) <=> a = old
  BY <1>1, OwnCells DEF OwnsAt
<1>3. ShrinkToFit(m, o) = [x EXCEPT !.obj[o].data = new, !.obj[o].cap = c]
  BY DEF ShrinkToFit
<1> HIDE DEF c, old
<1>4. /\ Memory(x) /\ x.obj = m.obj
      /\ new \in Addrs /\ Len(m.heap[new]) = 0 /\ Len(x.heap[new]) = c
      /\ x.elem = m.elem /\ x.fault = m.fault /\ new # old
      /\ \A a \in Addrs : a # new /\ a # old => x.heap[a] = m.heap[a]
      /\ \A k \in 1..c : x.heap[new][k] =
           IF old # Null /\ k <= Len(m.heap[old]) THEN m.heap[old][k] ELSE Junk
      /\ Typed(m) => Typed(x)
  <2>1. old \in Addrs \cup {Null} /\ (old # Null => Len(m.heap[old]) # 0)
    BY <1>1, <1>2
  <2> HIDE DEF b
  <2>2. /\ Memory(x) /\ x.obj = m.obj
        /\ new \in Addrs /\ Len(m.heap[new]) = 0 /\ Len(x.heap[new]) = c
    BY <1>1, <2>1, ReallocShape, SMTT(30)
  <2>3. /\ x.elem = m.elem /\ x.fault = m.fault /\ new # old
        /\ \A a \in Addrs : a # new /\ a # old => x.heap[a] = m.heap[a]
        /\ \A k \in 1..c : x.heap[new][k] =
             IF old # Null /\ k <= Len(m.heap[old]) THEN m.heap[old][k] ELSE Junk
        /\ Typed(m) => Typed(x)
    BY <1>1, <2>1, ReallocCells
  <2> HIDE DEF x, new
  <2> QED BY <2>2, <2>3
<1> HIDE DEF x, new
<1>5. ShrinkToFit(m, o) = r
  BY <1>1, <1>3, <1>4 DEF Memory, Block, WithObj, MovedTo
<1>6. /\ d \in Block /\ d.data = new /\ d.cap = c /\ d.size = b.size /\ d.zt = b.zt /\ Zt(d) = Zt(b)
  <2>1. new \in Int
    BY <1>4, AddrIsNumber
  <2> HIDE DEF b
  <2>2. d \in Block /\ d.data = new /\ d.cap = c /\ d.size = b.size /\ d.zt = b.zt
    BY <1>1, <2>1, BlockMoved
  <2>3. Zt(d) = Zt(b)
    BY <2>2 DEF Zt
  <2> QED BY <2>2, <2>3
<1> HIDE DEF d
<1>7. /\ Memory(r) /\ r.heap = x.heap /\ r.elem = x.elem /\ r.fault = x.fault /\ r.obj[o] = d
      /\ \A q \in Objects : q # o => r.obj[q] = x.obj[q]
      /\ Typed(x) => Typed(r)
  BY <1>4, <1>6, ObjReplaced
<1>8. Usable(r, o) /\ Good(r)
  BY <1>5, ShrinkToFitUsable DEF Usable
<1> HIDE DEF r
<1>9. Moves(m, r, o)
  <2>1. \A a \in Addrs : Len(m.heap[a]) # 0 /\ ~OwnsAt(m, o, a) => a # new /\ a # old
    BY <1>2, <1>4
  <2> QED BY <1>1, <1>4, <1>7, <1>8, <2>1 DEF Moves, Changes
<1>10. \A k \in 1..c : Cell(r, o, k) = Cell(m, o, k)
  <2>1. \A k : Cell(r, o, k) = r.heap[new][k]
    BY <1>4, <1>6, <1>7, AddrIsNumber DEF Cell, Cells
  <2>2. \A k \in 1..c : k <= Len(m.heap[old]) /\ old # Null
    BY <1>1, <1>2, AddrIsNumber
  <2> QED BY <1>2, <1>4, <1>7, <2>1, <2>2
<1>11. Writable(r, o)
  <2>1. d.data # Null /\ d.size \in Nat /\ d.size + Zt(d) <= d.cap /\ d.cap # 0
    BY <1>1, <1>4, <1>6, AddrIsNumber DEF c
  <2>2. r.obj[o] = d
    BY <1>7
  <2>3. Fits(r, o)
    BY <2>1, <2>2 DEF Fits, Sound
  <2> QED BY <1>8, <2>1, <2>2, <2>3 DEF Writable
<1>12. r.obj[o].size = b.size /\ r.obj[o].zt = b.zt /\ Zt(r.obj[o]) = Zt(b)
  <2>1. r.obj[o] = d
    BY <1>7
  <2> QED BY <1>6, <2>1, Zenon
<1> QED BY <1>5, <1>9, <1>10, <1>11, <1>12, Zenon DEF c

LEMMA ManageCells ==
    ASSUME NEW m, NEW o \in Objects, Usable(m, o), m.obj[o].cap = 0, Zt(m.obj[o]) = 0,
           NEW k \in DOMAIN Literals, Literals[k] # <<>>
    PROVE  LET r == Manage(m, o, k)
           IN  /\ Moves(m, r, o) /\ Writable(r, o)
               /\ r.obj[o].size = Len(Literals[k]) /\ r.obj[o].zt = m.obj[o].zt
               /\ \A j : Cell(r, o, j) = Literals[k][j]
<1> DEFINE b == m.obj[o]
           s == Literals[k]
           c == Len(s)
           new == FreeAddr(m)
           x == WithBlock(m, new, s)
           d == Remade(b, new, c, c)
           r == WithObj(x, o, d)
<1>1. Good(m) /\ Memory(m) /\ b \in Block
  BY UsableType DEF Usable
<1>2. Sequence(s) /\ c \in Nat /\ c > 0
  <2>1. Sequence(s) /\ c \in Nat /\ s # <<>>
    BY LiteralProperty
  <2> HIDE DEF s
  <2>2. c # 0
    BY <2>1, SequenceProperty
  <2> HIDE DEF c
  <2> QED BY <2>1, <2>2
<1>3. new \in Addrs /\ Len(m.heap[new]) = 0
  BY <1>1, FreeAddrProperty, EmptySequence
<1>4. Manage(m, o, k) =
        [m EXCEPT !.heap[new] = s, !.obj[o].data = new, !.obj[o].size = c, !.obj[o].cap = c]
  BY DEF Manage
<1> HIDE DEF new
<1>5. Manage(m, o, k) = [x EXCEPT !.obj[o].data = new, !.obj[o].size = c, !.obj[o].cap = c]
  BY <1>4 DEF WithBlock
<1>6. \A j \in 1..c : s[j] \in CellValues
  <2>1. s \in Seq(Values)
    BY MemoryAssumption
  <2> HIDE DEF s
  <2> QED BY <2>1 DEF CellValues
<1> HIDE DEF s, c
<1>7. /\ Memory(x) /\ x.obj = m.obj /\ x.heap[new] = s
      /\ \A a \in Addrs : a # new => x.heap[a] = m.heap[a]
      /\ x.elem = m.elem /\ x.fault = m.fault
      /\ Typed(m) => Typed(x)
  BY <1>1, <1>2, <1>3, <1>6, BlockReplaced DEF c
<1> HIDE DEF x
<1>8. Manage(m, o, k) = r
  BY <1>1, <1>5, <1>7, ZenonT(90) DEF Memory, Block, WithObj, Remade
<1>9. /\ d \in Block /\ d.data = new /\ d.size = c /\ d.cap = c /\ d.zt = b.zt /\ Zt(d) = Zt(b)
  <2>1. new \in Int /\ c \in Int /\ c \in Nat
    BY <1>2, <1>3, AddrIsNumber
  <2> HIDE DEF b
  <2> QED BY <1>1, <2>1, BlockRemade
<1> HIDE DEF d
<1>10. /\ Memory(r) /\ r.heap = x.heap /\ r.elem = x.elem /\ r.fault = x.fault /\ r.obj[o] = d
       /\ \A q \in Objects : q # o => r.obj[q] = x.obj[q]
       /\ Typed(x) => Typed(r)
  BY <1>7, <1>9, ObjReplaced
<1>11. Usable(r, o) /\ Good(r)
  BY <1>8, ManageUsable DEF Usable, s
<1> HIDE DEF r
<1>12. Moves(m, r, o)
  <2>1. \A a \in Addrs : Len(m.heap[a]) # 0 => a # new
    BY <1>3
  <2> QED BY <1>1, <1>7, <1>10, <1>11, <2>1 DEF Moves, Changes
<1>13. \A j : Cell(r, o, j) = s[j]
  BY <1>3, <1>7, <1>9, <1>10, AddrIsNumber DEF Cell, Cells
<1>14. Writable(r, o)
  <2>1. d.data # Null /\ d.size \in Nat /\ d.size + Zt(d) <= d.cap /\ d.cap # 0
    BY <1>2, <1>3, <1>9, AddrIsNumber
  <2>2. r.obj[o] = d
    BY <1>10
  <2>3. Fits(r, o)
    BY <2>1, <2>2 DEF Fits, Sound
  <2> QED BY <1>11, <2>1, <2>2, <2>3 DEF Writable
<1>15. r.obj[o].size = c /\ r.obj[o].zt = b.zt
  <2>1. r.obj[o] = d
    BY <1>10
  <2> QED BY <1>9, <2>1, Zenon
<1> QED BY <1>8, <1>12, <1>13, <1>14, <1>15, Zenon DEF s, c

-----------------------------------------------------------------------------
(* Construction *)

LinkedTo(p, n, z) == [made |-> TRUE, data |-> p, size |-> n, cap |-> 0, zt |-> z]

\* n cells at p, and a terminating zero behind them if z.
Linkable(m, p, n, z) ==
    /\ p = Null => n = 0
    /\ p # Null => Place(m, p) /\ Readable(m, p, n + (IF z THEN 1 ELSE 0))

\* Container o was constructed as linked to them.
Linked(m, r, o, p, n, z) ==
    /\ Moves(m, r, o) /\ Usable(r, o) /\ Sound(r, o)
    /\ r.obj[o].size = n /\ r.obj[o].data = p /\ r.obj[o].cap = 0 /\ (r.obj[o].zt <=> z)
    /\ \A k : Cell(r, o, k) = Cells(m, p)[k]

LEMMA LinkCells ==
    ASSUME NEW m, NEW o \in Objects, Good(m), ~m.obj[o].made,
           NEW p \in Int, NEW n \in Nat, NEW z \in BOOLEAN,
           Linkable(m, p, n, z)
    PROVE  Linked(m, Link(m, o, p, n, z), o, p, n, z)
<1> DEFINE d == LinkedTo(p, n, z)
           x == IF z THEN 1 ELSE 0
           r == WithObj(m, o, d)
<1>1. Memory(m) /\ Link(m, o, p, n, z) = r /\ x \in {0, 1} /\ n \in Int
  BY DEF Good, Link, WithObj, LinkedTo
<1>2. /\ d \in Block /\ d.data = p /\ d.size = n /\ d.cap = 0
  BY DEF Block, LinkedTo
<1>3. d.zt <=> z
  BY DEF LinkedTo
<1>4. Zt(d) = x
  BY <1>3 DEF Zt
<1>5. (p # Null => Place(m, p) /\ Readable(m, p, n + x)) /\ (p = Null => n = 0)
  BY DEF Linkable
<1> HIDE DEF d, x
<1>6. /\ Memory(r) /\ r.heap = m.heap /\ r.elem = m.elem /\ r.fault = m.fault /\ r.obj[o] = d
      /\ \A q \in Objects : q # o => r.obj[q] = m.obj[q]
      /\ Typed(m) => Typed(r)
  BY <1>1, <1>2, ObjReplaced
<1>7. Usable(r, o) /\ Good(r)
  BY <1>1, LinkUsable DEF Usable
<1> HIDE DEF r
<1>8. Moves(m, r, o)
  BY <1>6, <1>7 DEF Moves, Changes
<1>9. \A k : Cell(r, o, k) = Cells(m, p)[k]
  BY <1>2, <1>6 DEF Cell, Cells
<1>10. Sound(r, o)
  <2>1. p # Null => Place(r, p) /\ Readable(r, p, n + x)
    BY <1>5, <1>6 DEF Place, Readable, Cells
  <2> QED BY <1>1, <1>2, <1>4, <1>5, <1>6, <2>1 DEF Sound
<1>11. r.obj[o].size = n /\ r.obj[o].data = p /\ r.obj[o].cap = 0
  BY <1>2, <1>6
<1>12. r.obj[o].zt <=> z
  BY <1>3, <1>6, Zenon
<1> QED BY <1>1, <1>7, <1>8, <1>9, <1>10, <1>11, <1>12, Zenon DEF Linked

\* A container constructed as linked to a text, or to nothing.
LEMMA LinkedFitsToo ==
    ASSUME NEW m, NEW o, Sound(m, o), m.obj[o].data <= 0
    PROVE  Fits(m, o)
BY DEF Fits

\* String o was constructed as a copy of them.
Copied(m, r, o, p, n) ==
    /\ Moves(m, r, o) /\ Writable(r, o) /\ Ends(r, o)
    /\ r.obj[o].size = n /\ r.obj[o].zt
    /\ \A k \in 1..n : Cell(r, o, k) = Cells(m, p)[k]

LEMMA CopyConstructString ==
    ASSUME NEW m, NEW o \in Objects, Good(m), ~m.obj[o].made,
           NEW p \in Int, NEW n \in Nat, Linkable(m, p, n, TRUE)
    PROVE  Copied(m, Resize(Link(m, o, p, n, TRUE), o, n), o, p, n)
<1> DEFINE l == Link(m, o, p, n, TRUE)
           r == Resize(l, o, n)
<1>1. /\ Moves(m, l, o) /\ Usable(l, o) /\ Sound(l, o) /\ l.obj[o].size = n /\ l.obj[o].zt
      /\ \A k : Cell(l, o, k) = Cells(m, p)[k]
  <2> DEFINE z == TRUE
             u == Link(m, o, p, n, z)
  <2>1. z \in BOOLEAN /\ Linkable(m, p, n, z) /\ z
    OBVIOUS
  <2> HIDE DEF z
  <2>2. Linked(m, u, o, p, n, z)
    BY <2>1, LinkCells
  <2>3. l = u
    BY DEF z
  <2> HIDE DEF l, u
  <2> QED BY <2>1, <2>2, <2>3, Zenon DEF Linked
<1> HIDE DEF l
<1>2. l.obj[o].zt
  BY <1>1
<1>3. /\ Moves(l, r, o) /\ Changes(l, r, o) /\ Writable(r, o) /\ Ends(r, o)
      /\ r.obj[o].size = n /\ r.obj[o].zt = l.obj[o].zt /\ Zt(r.obj[o]) = Zt(l.obj[o])
      /\ \A k \in 1..n : k <= l.obj[o].size => Cell(r, o, k) = Cell(l, o, k)
      /\ n + Zt(l.obj[o]) <= l.obj[o].cap => r.obj[o].data = l.obj[o].data
  <2>1. Usable(l, o) /\ Sound(l, o)
    BY <1>1
  <2>2. Fits(l, o) \/ l.obj[o].zt
    BY <1>2, Zenon
  <2> QED BY <2>1, <2>2, ResizeWritable, Zenon
<1>4. r.obj[o].zt = l.obj[o].zt
  BY <1>3
<1> HIDE DEF r
<1>5. r.obj[o].zt
  BY <1>2, <1>4, Zenon
<1>6. Moves(m, r, o)
  BY <1>1, <1>3, MovesTrans
<1>7. \A k \in 1..n : Cell(r, o, k) = Cells(m, p)[k]
  BY <1>1, <1>3
<1> QED BY <1>3, <1>5, <1>6, <1>7, Zenon DEF r, l, Copied

-----------------------------------------------------------------------------
(* What the program expects of a container *)

LEMMA SubSequence ==
    ASSUME NEW s, Sequence(s), NEW i \in Nat, NEW j \in Nat, i <= j, j <= Len(s)
    PROVE  LET t == SubSeq(s, i + 1, j)
           IN  /\ Sequence(t) /\ Len(t) = j - i
               /\ \A k \in 1..j-i : t[k] = s[i + k]
<1>1. s \in Seq({s[k] : k \in 1..Len(s)}) /\ Len(s) \in Nat
  BY SequenceProperty
<1> DEFINE X == {s[k] : k \in 1..Len(s)}
<1> HIDE DEF X
<1>2. s \in Seq(X)
  BY <1>1 DEF X
<1>3. /\ SubSeq(s, i + 1, j) \in Seq(X) /\ Len(SubSeq(s, i + 1, j)) = j - i
      /\ \A k \in 1..j-i : SubSeq(s, i + 1, j)[k] = s[i + k]
  BY <1>1, <1>2
<1>4. Sequence(SubSeq(s, i + 1, j))
  BY <1>3, SeqIsSequence
<1> QED BY <1>3, <1>4

LEMMA Concatenation ==
    ASSUME NEW s, NEW t, Sequence(s), Sequence(t)
    PROVE  LET u == s \o t
           IN  /\ Sequence(u) /\ Len(u) = Len(s) + Len(t)
               /\ \A k \in 1..Len(s) + Len(t) :
                    u[k] = IF k <= Len(s) THEN s[k] ELSE t[k - Len(s)]
<1> DEFINE X == {s[k] : k \in 1..Len(s)} \cup {t[k] : k \in 1..Len(t)}
<1>1. /\ s \in Seq({s[k] : k \in 1..Len(s)}) /\ Len(s) \in Nat
      /\ t \in Seq({t[k] : k \in 1..Len(t)}) /\ Len(t) \in Nat
  BY SequenceProperty
<1>2. s \in Seq(X) /\ t \in Seq(X)
  BY <1>1, SeqMonotonic
<1> HIDE DEF X
<1>3. /\ s \o t \in Seq(X) /\ Len(s \o t) = Len(s) + Len(t)
      /\ \A k \in 1..Len(s) + Len(t) : (s \o t)[k] = IF k <= Len(s) THEN s[k] ELSE t[k - Len(s)]
  BY <1>1, <1>2
<1>4. Sequence(s \o t)
  BY <1>3, SeqIsSequence
<1> QED BY <1>3, <1>4

\* s with d of its elements after i replaced by those of t.
Replaced(u, s, i, d, t) ==
    /\ Sequence(u) /\ Len(u) = Len(s) - d + Len(t)
    /\ \A k \in 1..Len(s)-d+Len(t) :
        u[k] = IF k <= i THEN s[k]
               ELSE IF k <= i + Len(t) THEN t[k - i] ELSE s[k - Len(t) + d]

LEMMA WithCells ==
    ASSUME NEW s, Sequence(s), NEW t, Sequence(t), NEW i \in Nat, NEW d \in Nat, i + d <= Len(s)
    PROVE  Replaced(With(s, i, d, t), s, i, d, t)
<1> DEFINE x == Len(s)
           y == Len(t)
           a == Before(s, i)
           b == After(s, i + d)
           c == a \o t
           u == c \o b
<1>1. x \in Nat /\ y \in Nat /\ i + d <= x
  BY SequenceProperty
<1>2. With(s, i, d, t) = u
  BY DEF With
<1>3. Sequence(a) /\ Len(a) = i /\ \A k \in 1..i : a[k] = s[k]
  <2> DEFINE zero == 0
             v == SubSeq(s, zero + 1, i)
  <2>1. zero \in Nat /\ zero <= i /\ i <= x
    BY <1>1
  <2>2. a = v
    BY DEF Before
  <2> HIDE DEF zero, a
  <2>3. Sequence(v) /\ Len(v) = i - zero /\ \A k \in 1..i-zero : v[k] = s[zero + k]
    BY <2>1, SubSequence
  <2> HIDE DEF v
  <2> QED BY <2>2, <2>3 DEF zero
<1>4. Sequence(b) /\ Len(b) = x - (i + d) /\ \A k \in 1..x-(i+d) : b[k] = s[(i + d) + k]
  <2> DEFINE j == i + d
             v == SubSeq(s, j + 1, x)
  <2>1. j \in Nat /\ j <= x /\ x <= Len(s) /\ x \in Nat
    BY <1>1
  <2>2. b = v
    BY DEF After
  <2> HIDE DEF j, b, x
  <2>3. Sequence(v) /\ Len(v) = x - j /\ \A k \in 1..x-j : v[k] = s[j + k]
    BY <2>1, SubSequence
  <2> HIDE DEF v
  <2> QED BY <2>2, <2>3 DEF j
<1> HIDE DEF a, b
<1>5. /\ Sequence(c) /\ Len(c) = i + y
      /\ \A k \in 1..i+y : c[k] = IF k <= i THEN a[k] ELSE t[k - i]
  BY <1>3, Concatenation
<1> HIDE DEF c
<1>6. /\ Sequence(u) /\ Len(u) = (i + y) + (x - (i + d))
      /\ \A k \in 1..(i+y)+(x-(i+d)) : u[k] = IF k <= i + y THEN c[k] ELSE b[k - (i + y)]
  <2>1. Sequence(c) /\ Sequence(b)
    BY <1>4, <1>5
  <2>2. /\ Sequence(u) /\ Len(u) = Len(c) + Len(b)
        /\ \A k \in 1..Len(c)+Len(b) : u[k] = IF k <= Len(c) THEN c[k] ELSE b[k - Len(c)]
    BY <2>1, Concatenation
  <2>3. Len(c) = i + y /\ Len(b) = x - (i + d)
    BY <1>4, <1>5
  <2> HIDE DEF u, x, y
  <2> QED BY <2>2, <2>3
<1> HIDE DEF u, x, y
<1>7. (i + y) + (x - (i + d)) = x - d + y
  BY <1>1
<1>8. ASSUME NEW k \in 1..x-d+y
      PROVE  u[k] = IF k <= i THEN s[k] ELSE IF k <= i + y THEN t[k - i] ELSE s[k - y + d]
  <2>1. u[k] = IF k <= i + y THEN c[k] ELSE b[k - (i + y)]
    BY <1>6, <1>7
  <2>2. CASE k <= i
    <3>1. k \in 1..i+y /\ k \in 1..i /\ k <= i + y
      BY <1>1, <2>2
    <3> QED BY <1>3, <1>5, <2>1, <2>2, <3>1
  <2>3. CASE ~(k <= i) /\ k <= i + y
    <3>1. k \in 1..i+y
      BY <1>1, <2>3
    <3> QED BY <1>5, <2>1, <2>3, <3>1
  <2>4. CASE ~(k <= i + y)
    <3>1. k - (i + y) \in 1..x-(i+d) /\ (i + d) + (k - (i + y)) = k - y + d /\ ~(k <= i)
      BY <1>1, <2>4
    <3> QED BY <1>4, <2>1, <2>4, <3>1
  <2> QED BY <1>1, <2>2, <2>3, <2>4
<1> QED BY <1>2, <1>6, <1>7, <1>8 DEF x, y, Replaced

\* Container o holds what the program expects: a cell that it never set has
\* any value.
Matches(m, o, e) ==
    /\ Sequence(e) /\ Len(e) = m.obj[o].size
    /\ \A k \in 1..Len(e) : e[k] \in {Junk, Cell(m, o, k)}

\* The first n cells of c are what is expected of them.
Agrees(v, c, n) ==
    /\ Sequence(v) /\ Len(v) = n
    /\ \A k \in 1..n : v[k] \in {Junk, c[k]}

LEMMA SpliceMatches ==
    ASSUME NEW m, NEW r, NEW o, NEW e, Matches(m, o, e), NEW i \in Nat, NEW d \in Nat,
           i + d <= m.obj[o].size, NEW n \in Nat, Spliced(m, r, o, i, d, n),
           NEW c, Holds(r, o, i, n, c),
           NEW t, Agrees(t, c, n)
    PROVE  Matches(r, o, With(e, i, d, t))
<1> DEFINE u == With(e, i, d, t)
           x == Len(e)
<1>1. /\ Sequence(e) /\ x \in Nat /\ x = m.obj[o].size /\ i + d <= x
      /\ \A k \in 1..x : e[k] \in {Junk, Cell(m, o, k)}
  BY SequenceProperty DEF Matches
<1>2. /\ Sequence(u) /\ Len(u) = x - d + n
      /\ \A k \in 1..x-d+n :
           u[k] = IF k <= i THEN e[k] ELSE IF k <= i + n THEN t[k - i] ELSE e[k - n + d]
  <2>1. Sequence(e) /\ i + d <= Len(e)
    BY <1>1
  <2>2. Sequence(t) /\ Len(t) = n
    BY DEF Agrees
  <2>3. Replaced(u, e, i, d, t)
    BY <2>1, <2>2, WithCells
  <2> HIDE DEF u
  <2> QED BY <2>2, <2>3 DEF Replaced
<1> HIDE DEF u, x
<1>3. /\ r.obj[o].size = x - d + n
      /\ \A k \in 1..i : Cell(r, o, k) = Cell(m, o, k)
      /\ \A k \in i+n+1..x-d+n : Cell(r, o, k) = Cell(m, o, k - n + d)
  BY <1>1 DEF Spliced
<1>4. /\ \A k \in 1..n : Cell(r, o, i + k) = c[k]
      /\ \A k \in 1..n : t[k] \in {Junk, c[k]}
  BY DEF Holds, Agrees
<1>5. ASSUME NEW k \in 1..x-d+n PROVE u[k] \in {Junk, Cell(r, o, k)}
  <2>1. u[k] = IF k <= i THEN e[k] ELSE IF k <= i + n THEN t[k - i] ELSE e[k - n + d]
    BY <1>2
  <2>2. CASE k <= i
    <3>1. k \in 1..x /\ k \in 1..i
      BY <1>1, <2>2
    <3>2. u[k] = e[k] /\ e[k] \in {Junk, Cell(m, o, k)} /\ Cell(r, o, k) = Cell(m, o, k)
      BY <1>1, <1>3, <2>1, <2>2, <3>1
    <3> QED BY <3>2
  <2>3. CASE ~(k <= i) /\ k <= i + n
    <3> DEFINE j == k - i
    <3>1. j \in 1..n /\ i + j = k
      BY <2>3
    <3>2. u[k] = t[j] /\ t[j] \in {Junk, c[j]} /\ Cell(r, o, k) = c[j]
      <4>1. u[k] = t[j]
        BY <2>1, <2>3
      <4> HIDE DEF j
      <4> QED BY <1>4, <3>1, <4>1
    <3> QED BY <3>2
  <2>4. CASE ~(k <= i + n)
    <3> DEFINE j == k - n + d
    <3>1. j \in 1..x /\ k \in i+n+1..x-d+n /\ ~(k <= i)
      BY <1>1, <2>4
    <3>2. u[k] = e[j] /\ Cell(r, o, k) = Cell(m, o, j)
      BY <1>3, <2>1, <2>4, <3>1
    <3> HIDE DEF j
    <3>3. e[j] \in {Junk, Cell(m, o, j)}
      BY <1>1, <3>1
    <3> QED BY <3>2, <3>3
  <2> QED BY <2>2, <2>3, <2>4
<1> QED BY <1>2, <1>3, <1>5 DEF Matches, u

LEMMA AgreesMatches ==
    ASSUME NEW r, NEW o, NEW v, NEW c, NEW n \in Nat, Agrees(v, c, n), r.obj[o].size = n,
           \A k \in 1..n : Cell(r, o, k) = c[k]
    PROVE  Matches(r, o, v)
BY DEF Agrees, Matches

LEMMA StillMatches ==
    ASSUME NEW m, NEW r, NEW o, NEW e, Matches(m, o, e), r.obj[o].size = m.obj[o].size,
           \A k \in 1..m.obj[o].size : Cell(r, o, k) = Cell(m, o, k)
    PROVE  Matches(r, o, e)
BY DEF Matches

LEMMA EmptyMatches ==
    ASSUME NEW r, NEW o, r.obj[o].size = 0
    PROVE  Matches(r, o, <<>>)
BY EmptySequence DEF Matches

LEMMA ResizedMatches ==
    ASSUME NEW m, NEW r, NEW o, NEW e, Matches(m, o, e), NEW n \in Nat, r.obj[o].size = n,
           \A k \in 1..n : k <= m.obj[o].size => Cell(r, o, k) = Cell(m, o, k)
    PROVE  Matches(r, o, Resized(e, n, Junk))
<1> DEFINE u == Resized(e, n, Junk)
<1>1. u = [k \in 1..n |-> u[k]] /\ \A k \in 1..n : u[k] = IF k <= Len(e) THEN e[k] ELSE Junk
  BY DEF Resized
<1> HIDE DEF u
<1>2. Sequence(u) /\ Len(u) = n
  BY <1>1, SequenceLen
<1>3. Len(e) \in Nat /\ Len(e) = m.obj[o].size /\ \A k \in 1..Len(e) : e[k] \in {Junk, Cell(m, o, k)}
  BY SequenceProperty DEF Matches
<1>4. \A k \in 1..n : u[k] \in {Junk, Cell(r, o, k)}
  BY <1>1, <1>3
<1> QED BY <1>2, <1>4 DEF Matches, u

LEMMA BeforeMatches ==
    ASSUME NEW m, NEW r, NEW o, NEW e, Matches(m, o, e), NEW n \in Nat, n <= m.obj[o].size,
           r.obj[o].size = n, \A k \in 1..n : Cell(r, o, k) = Cell(m, o, k)
    PROVE  Matches(r, o, Before(e, n))
<1> DEFINE zero == 0
           u == SubSeq(e, zero + 1, n)
<1>1. /\ Sequence(e) /\ Len(e) \in Nat /\ Len(e) = m.obj[o].size
      /\ \A k \in 1..Len(e) : e[k] \in {Junk, Cell(m, o, k)}
  BY SequenceProperty DEF Matches
<1>2. Before(e, n) = u
  BY DEF Before
<1>3. Sequence(u) /\ Len(u) = n - zero /\ \A k \in 1..n-zero : u[k] = e[zero + k]
  <2>1. zero \in Nat /\ zero <= n /\ n <= Len(e)
    BY <1>1
  <2> HIDE DEF zero
  <2> QED BY <1>1, <2>1, SubSequence
<1> HIDE DEF u
<1>4. Len(u) = n /\ \A k \in 1..n : u[k] = e[k] /\ k \in 1..Len(e)
  BY <1>1, <1>3
<1> QED BY <1>1, <1>2, <1>3, <1>4 DEF Matches

\* push_back is an insertion at the end.
LEMMA AppendIsWith ==
    ASSUME NEW e, Sequence(e), NEW v
    PROVE  Append(e, v) = With(e, Len(e), 0, <<v>>)
<1> DEFINE x == Len(e)
           u == With(e, x, 0, <<v>>)
           w == Append(e, v)
           X == {e[k] : k \in 1..x} \cup {v}
<1>1. x \in Nat /\ e \in Seq({e[k] : k \in 1..x})
  BY SequenceProperty
<1>2. e \in Seq(X) /\ v \in X
  BY <1>1, SeqMonotonic
<1> HIDE DEF X
<1>3. w \in Seq(X) /\ Len(w) = x + 1 /\ (\A k \in 1..x : w[k] = e[k]) /\ w[x + 1] = v
  BY <1>1, <1>2, AppendProperties
<1>4. Sequence(w)
  BY <1>3, SeqIsSequence
<1> HIDE DEF w
<1>5. Replaced(u, e, x, 0, <<v>>)
  <2> DEFINE zero == 0
             t == <<v>>
  <2>1. zero \in Nat /\ x + zero <= Len(e) /\ Sequence(t)
    BY <1>1, OneCell
  <2> HIDE DEF t, x, zero
  <2>2. x \in Nat
    BY <1>1
  <2>3. Replaced(With(e, x, zero, t), e, x, zero, t)
    BY <2>1, <2>2, WithCells
  <2> QED BY <2>3 DEF zero, t
<1> HIDE DEF u
<1>6. /\ Sequence(u) /\ Len(u) = x + 1
      /\ \A k \in 1..x+1 : u[k] = w[k]
  <2>1. Len(<<v>>) = 1 /\ <<v>>[1] = v
    BY OneCell
  <2>2. /\ Sequence(u) /\ Len(u) = x - 0 + Len(<<v>>)
        /\ \A k \in 1..x-0+Len(<<v>>) :
             u[k] = IF k <= x THEN e[k]
                    ELSE IF k <= x + Len(<<v>>) THEN <<v>>[k - x] ELSE e[k - Len(<<v>>) + 0]
    BY <1>5 DEF Replaced
  <2>3. x - 0 + Len(<<v>>) = x + 1
    BY <1>1, <2>1
  <2> HIDE DEF x
  <2>4. ASSUME NEW k \in 1..x+1 PROVE u[k] = w[k]
    <3>1. CASE k <= x
      <4>1. k \in 1..x
        BY <3>1
      <4> QED BY <1>3, <2>2, <2>3, <3>1, <4>1
    <3>2. CASE ~(k <= x)
      <4>1. k = x + 1 /\ k - x = 1 /\ k <= x + Len(<<v>>)
        BY <1>1, <2>1, <3>2
      <4>2. u[k] = <<v>>[k - x]
        BY <2>2, <2>3, <3>2, <4>1
      <4> QED BY <1>3, <2>1, <4>1, <4>2
    <3> QED BY <3>1, <3>2
  <2> QED BY <2>2, <2>3, <2>4
<1>7. u = [k \in 1..x+1 |-> u[k]] /\ w = [k \in 1..x+1 |-> w[k]]
  BY <1>3, <1>4, <1>6, SequenceProperty
<1>8. u = w
  BY <1>6, <1>7
<1> QED BY <1>8 DEF u, w

-----------------------------------------------------------------------------
(* The other containers *)

\* A container of bytes between two calls.
Fine(m, o, e) == Fits(m, o) /\ Stop(m, o) /\ Matches(m, o, e)

\* A container is not disturbed by what happens to another one.
LEMMA CellsElsewhere ==
    ASSUME NEW m, NEW r, NEW o \in Objects, Changes(m, r, o), NEW q \in Objects, q # o, Fits(m, q)
    PROVE  /\ r.obj[q] = m.obj[q]
           /\ Fits(r, q)
           /\ m.obj[q].data # Null => Cells(r, m.obj[q].data) = Cells(m, m.obj[q].data)
<1> DEFINE b == m.obj[q]
           p == b.data
<1>1. r.obj[q] = b /\ Good(m) /\ Good(r) /\ p \in Int /\ b.cap \in Nat
  BY BlockType DEF Changes
<1>2. p # Null => Place(m, p) /\ ~OwnsAt(m, o, p)
  <2>1. CASE b.cap > 0
    BY <1>1, <2>1, OwnCells DEF Good, Owned, OwnsAt
  <2>2. CASE b.cap = 0
    <3>1. p <= 0 /\ (p # Null => Place(m, p))
      BY <2>2 DEF Fits, Sound
    <3>2. p \notin Addrs
      BY <1>1, <3>1, AddrIsNumber
    <3>3. ~OwnsAt(m, o, p)
      BY <1>1, <3>2 DEF OwnsAt, Good, Owned
    <3> QED BY <3>1, <3>3
  <2> QED BY <1>1, <2>1, <2>2
<1>3. p # Null => Place(r, p) /\ Cells(r, p) = Cells(m, p)
  BY <1>1, <1>2, StillReadable
<1>4. Sound(m, q) /\ (b.cap = 0 => p <= 0)
  BY DEF Fits
<1>5. Sound(r, q)
  BY <1>1, <1>3, <1>4 DEF Sound, Readable
<1> QED BY <1>1, <1>3, <1>4, <1>5 DEF Fits

LEMMA FineElsewhere ==
    ASSUME NEW m, NEW r, NEW o \in Objects, Changes(m, r, o), NEW q \in Objects, q # o,
           NEW e, Fine(m, q, e)
    PROVE  Fine(r, q, e)
<1> DEFINE p == m.obj[q].data
<1>1. /\ r.obj[q] = m.obj[q] /\ Fits(r, q)
      /\ p # Null => Cells(r, p) = Cells(m, p)
  BY CellsElsewhere DEF Fine
<1>2. p # Null => \A k : Cell(r, q, k) = Cell(m, q, k)
  BY <1>1 DEF Cell
<1>3. Matches(r, q, e)
  <2>1. p = Null => m.obj[q].size = 0
    BY DEF Fine, Fits, Sound
  <2>2. CASE p = Null
    BY <1>1, <2>1, <2>2 DEF Fine, Matches
  <2>3. CASE p # Null
    BY <1>1, <1>2, <2>3, StillMatches DEF Fine
  <2> QED BY <2>2, <2>3
<1>4. Stop(r, q)
  <2>1. Stop(m, q)
    BY DEF Fine
  <2> HIDE DEF p
  <2>2. CASE p = Null
    BY <1>1, <2>2, Zenon DEF Stop, p
  <2>3. CASE p # Null
    <3>1. Cell(r, q, m.obj[q].size + 1) = Cell(m, q, m.obj[q].size + 1)
      BY <1>2, <2>3
    <3> QED BY <1>1, <2>1, <3>1, Zenon DEF Stop
  <2> QED BY <2>2, <2>3
<1> QED BY <1>1, <1>3, <1>4 DEF Fine

-----------------------------------------------------------------------------
(* The calls on containers of bytes *)

\* An operation on o that leaves it holding e.
Kept(m, r, o, e) == Whole(m, r, o) /\ Matches(r, o, e)

\* What an operation on o may copy from: n cells at p, which hold v.
Offers(m, o, p, n, v) == Elsewhere(m, o, p, n) /\ Agrees(v, Cells(m, p), n)

LEMMA WritableWhole ==
    ASSUME NEW m, NEW r, NEW o, Moves(m, r, o), Writable(r, o), Ends(r, o),
           r.obj[o].zt = m.obj[o].zt
    PROVE  Whole(m, r, o)
<1>1. Stop(r, o)
  BY Zenon DEF Ends, Stop
<1> QED BY <1>1, Zenon DEF Whole, Writable

LEMMA AssignKeeps ==
    ASSUME NEW m, NEW o \in Objects, Usable(m, o), Fits(m, o), NEW p \in Int, NEW n \in Nat,
           NEW v, Offers(m, o, p, n, v)
    PROVE  Kept(m, Assign(m, o, p, n), o, v)
<1> DEFINE r == Assign(m, o, p, n)
<1>1. /\ Moves(m, r, o) /\ Writable(r, o) /\ Ends(r, o)
      /\ r.obj[o].size = n /\ r.obj[o].zt = m.obj[o].zt
      /\ \A k \in 1..n : Cell(r, o, k) = Cells(m, p)[k]
  BY AssignCells DEF Offers
<1> HIDE DEF r
<1>2. Whole(m, r, o)
  BY <1>1, WritableWhole
<1>3. Matches(r, o, v)
  <2> DEFINE c == Cells(m, p)
  <2>1. Agrees(v, c, n)
    BY DEF Offers
  <2> HIDE DEF c
  <2> QED BY <1>1, <2>1, AgreesMatches DEF c
<1> QED BY <1>2, <1>3 DEF Kept, r

LEMMA AssignSelfKeeps ==
    ASSUME NEW m, NEW o \in Objects, Usable(m, o), NEW e, Fine(m, o, e)
    PROVE  Kept(m, Assign(m, o, m.obj[o].data, m.obj[o].size), o, e)
<1> DEFINE p == m.obj[o].data
           n == m.obj[o].size
           r == Assign(m, o, p, n)
<1>1. p \in Int /\ n \in Nat /\ Fits(m, o) /\ Matches(m, o, e)
  BY BlockType DEF Fine, Fits, Sound, Usable
<1>2. /\ Moves(m, r, o) /\ Writable(r, o) /\ Ends(r, o)
      /\ r.obj[o].size = n /\ r.obj[o].zt = m.obj[o].zt
      /\ \A k \in 1..n : Cell(r, o, k) = Cells(m, p)[k]
  BY <1>1, AssignCells
<1> HIDE DEF r
<1>3. Whole(m, r, o)
  BY <1>2, WritableWhole
<1>4. \A k \in 1..n : Cell(r, o, k) = Cell(m, o, k)
  BY <1>2 DEF Cell
<1>5. Matches(r, o, e)
  BY <1>1, <1>2, <1>4, StillMatches
<1> QED BY <1>3, <1>5 DEF Kept, r

LEMMA ResizeKeeps ==
    ASSUME NEW m, NEW o \in Objects, Usable(m, o), NEW e, Fine(m, o, e), NEW n \in Nat
    PROVE  Kept(m, Resize(m, o, n), o, Resized(e, n, Junk))
<1> DEFINE r == Resize(m, o, n)
<1>1. Fits(m, o) /\ Sound(m, o) /\ Matches(m, o, e)
  BY DEF Fine, Fits
<1>2. /\ Moves(m, r, o) /\ Writable(r, o) /\ Ends(r, o)
      /\ r.obj[o].size = n /\ r.obj[o].zt = m.obj[o].zt
      /\ \A k \in 1..n : k <= m.obj[o].size => Cell(r, o, k) = Cell(m, o, k)
  BY <1>1, ResizeWritable
<1> HIDE DEF r
<1>3. Whole(m, r, o)
  BY <1>2, WritableWhole
<1>4. Matches(r, o, Resized(e, n, Junk))
  BY <1>1, <1>2, ResizedMatches
<1> QED BY <1>3, <1>4 DEF Kept, r

LEMMA ResizeSameKeeps ==
    ASSUME NEW m, NEW o \in Objects, Usable(m, o), NEW e, Fine(m, o, e)
    PROVE  Kept(m, Resize(m, o, m.obj[o].size), o, e)
<1> DEFINE n == m.obj[o].size
           r == Resize(m, o, n)
<1>1. Fits(m, o) /\ Sound(m, o) /\ Matches(m, o, e) /\ n \in Nat
  BY DEF Fine, Fits, Sound
<1>2. /\ Moves(m, r, o) /\ Writable(r, o) /\ Ends(r, o)
      /\ r.obj[o].size = n /\ r.obj[o].zt = m.obj[o].zt
      /\ \A k \in 1..n : k <= n => Cell(r, o, k) = Cell(m, o, k)
  BY <1>1, ResizeWritable
<1> HIDE DEF r
<1>3. Whole(m, r, o)
  BY <1>2, WritableWhole
<1>4. \A k \in 1..n : Cell(r, o, k) = Cell(m, o, k)
  <2> HIDE DEF n
  <2> QED BY <1>1, <1>2
<1>5. Matches(r, o, e)
  BY <1>1, <1>2, <1>4, StillMatches
<1> QED BY <1>3, <1>5 DEF Kept, r

LEMMA ShrinkKeeps ==
    ASSUME NEW m, NEW o \in Objects, Usable(m, o), NEW e, Fine(m, o, e),
           m.obj[o].cap > 0, m.obj[o].size > 0
    PROVE  Kept(m, ShrinkToFit(m, o), o, e)
<1> DEFINE b == m.obj[o]
           r == ShrinkToFit(m, o)
<1>1. Fits(m, o) /\ Stop(m, o) /\ Matches(m, o, e) /\ b.size \in Nat /\ Zt(b) \in {0, 1}
  BY BlockType DEF Fine, Fits, Sound, Usable
<1>2. /\ Moves(m, r, o) /\ Writable(r, o)
      /\ r.obj[o].size = b.size /\ r.obj[o].zt = b.zt
      /\ \A k \in 1..(b.size + Zt(b)) : Cell(r, o, k) = Cell(m, o, k)
  BY <1>1, ShrinkToFitCells
<1> HIDE DEF r
<1>3. Matches(r, o, e)
  <2>1. \A k \in 1..b.size : k \in 1..(b.size + Zt(b))
    <3> HIDE DEF b
    <3> QED BY <1>1
  <2>2. \A k \in 1..b.size : Cell(r, o, k) = Cell(m, o, k)
    BY <1>2, <2>1
  <2> QED BY <1>1, <1>2, <2>2, StillMatches
<1>4. Stop(r, o)
  <2>1. b.zt => Zt(b) = 1
    BY DEF Zt
  <2>2. Zt(b) = 1 => b.size + 1 \in 1..(b.size + Zt(b))
    <3> HIDE DEF b
    <3> QED BY <1>1
  <2>3. b.zt => Cell(r, o, b.size + 1) = Cell(m, o, b.size + 1)
    BY <1>2, <2>1, <2>2
  <2>4. b.data # Null
    BY OwnCells, AddrIsNumber DEF Usable
  <2>5. b.zt => \/ Cell(m, o, b.size + 1) = Nul
                \/ b.size = 0 /\ Cell(m, o, b.size + 1) = Junk
    BY <1>1, <2>4, Zenon DEF Stop
  <2> HIDE DEF b
  <2> QED BY <1>2, <2>3, <2>5, Zenon DEF Stop
<1>5. Whole(m, r, o)
  BY <1>2, <1>4, Zenon DEF Whole, Writable
<1> QED BY <1>3, <1>5 DEF Kept, r

LEMMA DeallocateKeeps ==
    ASSUME NEW m, NEW o \in Objects, Usable(m, o)
    PROVE  Kept(m, Deallocate(m, o), o, <<>>)
<1> DEFINE r == Deallocate(m, o)
<1>1. /\ Moves(m, r, o) /\ Usable(r, o)
      /\ r.obj[o].size = 0 /\ r.obj[o].data = Null /\ r.obj[o].cap = 0
      /\ r.obj[o].zt = m.obj[o].zt
  BY DeallocateCells
<1> HIDE DEF r
<1>2. Fits(r, o)
  BY <1>1 DEF Fits, Sound, Null
<1>3. Stop(r, o)
  BY <1>1, Zenon DEF Stop
<1>4. Matches(r, o, <<>>)
  BY <1>1, EmptyMatches
<1> QED BY <1>1, <1>2, <1>3, <1>4, Zenon DEF Kept, Whole, r

LEMMA ReserveKeeps ==
    ASSUME NEW m, NEW o \in Objects, Usable(m, o), NEW e, Fine(m, o, e), NEW n \in Nat,
           m.obj[o].cap > 0 \/ n >= m.obj[o].size
    PROVE  Kept(m, Reserve(m, o, n), o, e)
<1> DEFINE b == m.obj[o]
           r == Reserve(m, o, n)
           c == r.obj[o].cap
           x == b.size + Zt(b)
<1>1. /\ Fits(m, o) /\ Sound(m, o) /\ Stop(m, o) /\ Matches(m, o, e)
      /\ b.size \in Nat /\ Zt(b) \in {0, 1} /\ b.cap \in Nat /\ Good(m)
  BY BlockType DEF Fine, Fits, Sound, Usable
<1>2. CASE Needed(b, n) <= b.cap
  <2>1. r = m
    BY <1>2, Zenon DEF Reserve
  <2>2. Whole(m, m, o)
    BY <1>1, ChangesSelf, Zenon DEF Whole
  <2> HIDE DEF r
  <2>3. Kept(m, r, o, e)
    BY <1>1, <2>1, <2>2, Zenon DEF Kept
  <2> QED BY <2>3 DEF r
<1>3. CASE ~(Needed(b, n) <= b.cap)
  <2>1. /\ Moves(m, r, o)
        /\ c \in Nat /\ c >= 2 /\ c >= n + Zt(b)
        /\ \A k \in 1..x : k <= c /\ b.data # Null => Cell(r, o, k) = Cell(m, o, k)
        /\ b.data = Null => \A k \in 1..c : Cell(r, o, k) = Junk
    BY <1>1, <1>3, ReserveCells
  <2>2. Good(r) /\ r.obj[o].made /\ r.obj[o].size = b.size /\ r.obj[o].zt = b.zt
    <3>1. n \in Int /\ m.obj[o].made
      BY DEF Usable
    <3> QED BY <1>1, <3>1, ReserveGood
  <2>3. x <= c /\ x \in Nat
    <3>1. b.cap > 0 => x <= b.cap
      BY <1>1 DEF Sound
    <3>2. b.cap < n + Zt(b)
      <4>1. Needed(b, n) = n + Zt(b)
        BY DEF Needed
      <4> HIDE DEF b
      <4> QED BY <1>1, <1>3, <4>1
    <3>3. b.cap > 0 \/ n >= b.size
      OBVIOUS
    <3> HIDE DEF c, b
    <3> QED BY <1>1, <2>1, <3>1, <3>2, <3>3
  <2>4. Zt(r.obj[o]) = Zt(b)
    BY <2>2, Zenon DEF Zt
  <2> HIDE DEF r
  <2>5. Sound(r, o) /\ Fits(r, o)
    <3>1. r.obj[o].data # Null
      BY <2>1, <2>2, OwnCells, AddrIsNumber
    <3> HIDE DEF b
    <3>2. c > 0
      BY <2>1
    <3> QED BY <1>1, <2>2, <2>3, <2>4, <3>1, <3>2 DEF Fits, Sound
  <2>6. \A k \in 1..x : b.data # Null => Cell(r, o, k) = Cell(m, o, k)
    <3> HIDE DEF x, b
    <3> QED BY <2>1, <2>3
  <2>7. b.data = Null => b.size = 0
    BY <1>1 DEF Sound
  <2>8. Matches(r, o, e)
    <3>1. \A k \in 1..b.size : Cell(r, o, k) = Cell(m, o, k)
      <4>1. \A k \in 1..b.size : k \in 1..x /\ b.size # 0
        <5> HIDE DEF b
        <5> QED BY <1>1
      <4> HIDE DEF b, x
      <4> QED BY <2>6, <2>7, <4>1
    <3> QED BY <1>1, <2>2, <3>1, StillMatches
  <2>9. Stop(r, o)
    <3>1. CASE b.data = Null
      <4>1. Cell(r, o, b.size + 1) = Junk
        <5>1. b.size + 1 \in 1..c
          <6> HIDE DEF b, c
          <6> QED BY <2>1, <2>7, <3>1
        <5> QED BY <2>1, <3>1, <5>1
      <4> QED BY <2>2, <2>7, <3>1, <4>1, Zenon DEF Stop
    <3>2. CASE b.data # Null
      <4>1. b.zt => b.size + 1 \in 1..x
        <5>1. b.zt => Zt(b) = 1
          BY DEF Zt
        <5> HIDE DEF b
        <5>2. Zt(b) = 1 => b.size + 1 \in 1..x
          BY <1>1
        <5> QED BY <5>1, <5>2
      <4>2. b.zt => Cell(r, o, b.size + 1) = Cell(m, o, b.size + 1)
        BY <2>6, <3>2, <4>1
      <4>3. b.zt => \/ Cell(m, o, b.size + 1) = Nul
                    \/ b.size = 0 /\ Cell(m, o, b.size + 1) = Junk
        BY <1>1, <3>2, Zenon DEF Stop
      <4> HIDE DEF b
      <4> QED BY <2>2, <4>2, <4>3, Zenon DEF Stop
    <3> QED BY <3>1, <3>2
  <2>10. Whole(m, r, o)
    BY <2>1, <2>2, <2>5, <2>9, Zenon DEF Whole, Usable
  <2>11. Kept(m, r, o, e)
    BY <2>8, <2>10 DEF Kept
  <2> QED BY <2>11 DEF r
<1> QED BY <1>2, <1>3

\* A splice of cells that hold v is a splice of v into what is expected.
LEMMA SpliceKeeps ==
    ASSUME NEW m, NEW r, NEW o, NEW e, Matches(m, o, e), NEW i \in Nat, NEW d \in Nat,
           i + d <= m.obj[o].size, NEW n \in Nat,
           Done(m, r, o), Spliced(m, r, o, i, d, n), NEW c, Holds(r, o, i, n, c),
           NEW v, Agrees(v, c, n)
    PROVE  Kept(m, r, o, With(e, i, d, v))
<1>1. Matches(r, o, With(e, i, d, v))
  BY SpliceMatches
<1> QED BY <1>1, DoneIsWhole DEF Kept

LEMMA InsertKeeps ==
    ASSUME NEW m, NEW o \in Objects, Usable(m, o), NEW e, Fine(m, o, e),
           NEW i \in Nat, i <= m.obj[o].size,
           NEW p \in Int, NEW n \in Nat, NEW v, Offers(m, o, p, n, v)
    PROVE  Kept(m, InsertCells(m, o, i, p, n), o, With(e, i, 0, v))
<1> DEFINE r == InsertCells(m, o, i, p, n)
           zero == 0
           c == Cells(m, p)
<1>1. Fits(m, o) /\ Matches(m, o, e) /\ m.obj[o].size \in Nat /\ Elsewhere(m, o, p, n)
      /\ Agrees(v, c, n)
  BY DEF Fine, Fits, Sound, Offers
<1>2. Done(m, r, o) /\ Spliced(m, r, o, i, zero, n) /\ Holds(r, o, i, n, c)
  BY <1>1, InsertCellsCells
<1>3. zero \in Nat /\ i + zero <= m.obj[o].size
  BY <1>1
<1> HIDE DEF r, zero, c
<1>4. Kept(m, r, o, With(e, i, zero, v))
  BY <1>1, <1>2, <1>3, SpliceKeeps
<1> QED BY <1>4 DEF r, zero

LEMMA ReplaceKeeps ==
    ASSUME NEW m, NEW o \in Objects, Writable(m, o), NEW e, Fine(m, o, e),
           NEW i \in Nat, NEW d \in Nat, i + d <= m.obj[o].size,
           NEW p \in Int, NEW n \in Nat, NEW v, Offers(m, o, p, n, v)
    PROVE  Kept(m, Replace(m, o, i, d, p, n), o, With(e, i, d, v))
<1> DEFINE r == Replace(m, o, i, d, p, n)
           c == Cells(m, p)
<1>1. Matches(m, o, e) /\ Elsewhere(m, o, p, n) /\ Agrees(v, c, n)
  BY DEF Fine, Offers
<1>2. Done(m, r, o) /\ Spliced(m, r, o, i, d, n) /\ Holds(r, o, i, n, c)
  BY <1>1, ReplaceCells
<1> HIDE DEF r, c
<1>3. Kept(m, r, o, With(e, i, d, v))
  BY <1>1, <1>2, SpliceKeeps
<1> QED BY <1>3 DEF r

\* Nothing is expected of no cells.
LEMMA NothingAgrees ==
    ASSUME NEW r, NEW o, NEW i, NEW c
    PROVE  Agrees(<<>>, c, 0) /\ Holds(r, o, i, 0, c)
BY EmptySequence DEF Agrees, Holds

LEMMA EraseKeeps ==
    ASSUME NEW m, NEW o \in Objects, Writable(m, o), NEW e, Fine(m, o, e),
           NEW i \in Nat, NEW n \in Nat, i + n <= m.obj[o].size
    PROVE  Kept(m, Erase(m, o, i, n), o, With(e, i, n, <<>>))
<1> DEFINE r == Erase(m, o, i, n)
           zero == 0
           c == <<>>
           v == <<>>
<1>1. Matches(m, o, e) /\ zero \in Nat
  BY DEF Fine
<1>2. Done(m, r, o) /\ Spliced(m, r, o, i, n, zero)
  BY EraseCells
<1>3. Holds(r, o, i, zero, c) /\ Agrees(v, c, zero)
  BY NothingAgrees
<1> HIDE DEF r, zero, c, v
<1>4. Kept(m, r, o, With(e, i, n, v))
  BY <1>1, <1>2, <1>3, SpliceKeeps
<1> QED BY <1>4 DEF r, v

LEMMA PushBackKeeps ==
    ASSUME NEW m, NEW o \in Objects, Usable(m, o), NEW e, Fine(m, o, e), NEW v \in Values
    PROVE  Kept(m, PushBack(m, o, v), o, Append(e, v))
<1> DEFINE r == PushBack(m, o, v)
           x == m.obj[o].size
           zero == 0
           one == 1
           c == <<v>>
<1>1. Fits(m, o) /\ Matches(m, o, e) /\ x \in Nat /\ Sequence(e) /\ Len(e) = x
  BY DEF Fine, Fits, Sound, Matches
<1>2. Done(m, r, o) /\ Spliced(m, r, o, x, zero, one) /\ Holds(r, o, x, one, c)
  BY <1>1, PushBackCells
<1>3. Agrees(c, c, one)
  BY OneCell DEF Agrees
<1>4. zero \in Nat /\ one \in Nat /\ x + zero <= x
  BY <1>1
<1>5. Append(e, v) = With(e, x, zero, c)
  BY <1>1, AppendIsWith
<1> HIDE DEF r, zero, one, c
<1>6. Kept(m, r, o, With(e, x, zero, c))
  BY <1>1, <1>2, <1>3, <1>4, SpliceKeeps
<1> QED BY <1>5, <1>6 DEF r

LEMMA InsertFillKeeps ==
    ASSUME NEW m, NEW o \in Objects, Usable(m, o), NEW e, Fine(m, o, e),
           NEW i \in Nat, i <= m.obj[o].size, NEW n \in Nat, NEW v \in Values
    PROVE  Kept(m, InsertFill(m, o, i, n, v), o, With(e, i, 0, Filled(n, v)))
<1> DEFINE r == InsertFill(m, o, i, n, v)
           zero == 0
           c == Filled(n, v)
<1>1. Fits(m, o) /\ Matches(m, o, e) /\ m.obj[o].size \in Nat
  BY DEF Fine, Fits, Sound
<1>2. /\ Done(m, r, o) /\ Spliced(m, r, o, i, zero, n)
      /\ \A k \in 1..n : Cell(r, o, i + k) = v
  BY <1>1, InsertFillCells
<1>3. Sequence(c) /\ Len(c) = n /\ \A k \in 1..n : c[k] = v
  BY FilledSequence
<1>4. zero \in Nat /\ i + zero <= m.obj[o].size
  BY <1>1
<1> HIDE DEF r, zero, c
<1>5. Holds(r, o, i, n, c) /\ Agrees(c, c, n)
  BY <1>2, <1>3 DEF Holds, Agrees
<1>6. Kept(m, r, o, With(e, i, zero, c))
  BY <1>1, <1>2, <1>4, <1>5, SpliceKeeps
<1> QED BY <1>6 DEF r, zero, c

LEMMA PopBackKeeps ==
    ASSUME NEW m, NEW o \in Objects, Writable(m, o), m.obj[o].cap > 0, Zt(m.obj[o]) = 1,
           m.obj[o].size > 0, NEW e, Fine(m, o, e)
    PROVE  Kept(m, PopBack(m, o), o, Before(e, m.obj[o].size - 1))
<1> DEFINE r == PopBack(m, o)
           x == m.obj[o].size
           n == x - 1
<1>1. Done(m, r, o) /\ r.obj[o].size = n /\ \A k \in 1..n : Cell(r, o, k) = Cell(m, o, k)
  BY PopBackCells
<1>2. Matches(m, o, e) /\ n \in Nat /\ n <= x
  BY WritableType DEF Fine
<1> HIDE DEF r, n
<1>3. Matches(r, o, Before(e, n))
  BY <1>1, <1>2, BeforeMatches
<1> QED BY <1>1, <1>3, DoneIsWhole DEF Kept, r, n

LEMMA ClearStringKeeps ==
    ASSUME NEW m, NEW o \in Objects, Usable(m, o), Fits(m, o), Zt(m.obj[o]) = 1,
           m.obj[o].cap > 0 \/ m.obj[o].data = Null
    PROVE  Kept(m, ClearString(m, o), o, <<>>)
BY ClearStringCells, EmptyMatches DEF Kept

LEMMA ManageKeeps ==
    ASSUME NEW m, NEW o \in Objects, Usable(m, o), m.obj[o].cap = 0, Zt(m.obj[o]) = 0,
           NEW k \in DOMAIN Literals, Literals[k] # <<>>
    PROVE  Kept(m, Manage(m, o, k), o, Literals[k])
<1> DEFINE r == Manage(m, o, k)
           s == Literals[k]
<1>1. /\ Moves(m, r, o) /\ Writable(r, o)
      /\ r.obj[o].size = Len(s) /\ r.obj[o].zt = m.obj[o].zt
      /\ \A j : Cell(r, o, j) = s[j]
  BY ManageCells
<1> HIDE DEF r
<1>2. ~m.obj[o].zt
  <2>1. Zt(m.obj[o]) # 1
    OBVIOUS
  <2> QED BY <2>1, Zenon DEF Zt
<1>3. Ends(r, o)
  BY <1>1, <1>2, Zenon DEF Ends
<1>4. Sequence(s)
  BY LiteralProperty
<1> HIDE DEF s
<1>5. Matches(r, o, s)
  BY <1>1, <1>4 DEF Matches
<1> QED BY <1>1, <1>3, <1>5, WritableWhole DEF Kept, r, s

\* Container o has been constructed, and holds e.
Made(m, r, o, z, e) ==
    /\ Moves(m, r, o) /\ Usable(r, o) /\ Fits(r, o) /\ Stop(r, o) /\ Matches(r, o, e)
    /\ (r.obj[o].zt <=> z)

LEMMA EmptyLinkable ==
    ASSUME NEW m, NEW z
    PROVE  Linkable(m, Null, 0, z)
BY DEF Linkable

LEMMA LinkEmptyMakes ==
    ASSUME NEW m, NEW o \in Objects, Good(m), ~m.obj[o].made, NEW z \in BOOLEAN
    PROVE  Made(m, Link(m, o, Null, 0, z), o, z, <<>>)
<1> DEFINE p == Null
           n == 0
           r == Link(m, o, p, n, z)
<1>1. Linkable(m, p, n, z) /\ p \in Int /\ n \in Nat
  BY EmptyLinkable DEF Null
<1>2. r.obj[o].data = Null /\ r.obj[o].size = 0 => Stop(r, o) /\ Matches(r, o, <<>>)
  BY EmptyMatches, Zenon DEF Stop
<1>3. p <= 0
  BY DEF Null
<1>4. p = Null /\ n = 0
  OBVIOUS
<1> HIDE DEF p, n
<1>5. Linked(m, r, o, p, n, z)
  BY <1>1, LinkCells
<1> HIDE DEF r
<1>6. /\ Moves(m, r, o) /\ Usable(r, o) /\ Sound(r, o) /\ r.obj[o].size = n /\ r.obj[o].data = p
      /\ (r.obj[o].zt <=> z)
  BY <1>5 DEF Linked
<1>7. Fits(r, o)
  BY <1>3, <1>6, LinkedFitsToo
<1> QED BY <1>2, <1>4, <1>6, <1>7, Zenon DEF Made, r, p, n

\* A text can be linked to, with or without its zero.
LEMMA TextLinkable ==
    ASSUME NEW m, NEW k \in DOMAIN Literals, NEW z \in BOOLEAN
    PROVE  /\ -k \in Int /\ -k < 0 /\ Len(Literals[k]) \in Nat
           /\ Linkable(m, -k, Len(Literals[k]), z)
           /\ Agrees(Literals[k], Cells(m, -k), Len(Literals[k]))
           /\ Cells(m, -k)[Len(Literals[k]) + 1] = Nul
<1> DEFINE p == -k
           s == Literals[k]
           n == Len(s)
           c == Cells(m, p)
<1>1. k \in Nat /\ k > 0 /\ p \in Int /\ p < 0 /\ -p = k
  BY MemoryAssumption
<1>2. Sequence(s) /\ n \in Nat
  BY LiteralProperty
<1>3. /\ Sequence(c) /\ Len(c) = n + 1 /\ c[n + 1] = Nul
      /\ \A j \in 1..n : c[j] = s[j]
  BY <1>1, LiteralCells
<1>4. Place(m, p) /\ p # Null
  BY <1>1 DEF Place, Null
<1> HIDE DEF c
<1>5. Agrees(s, c, n)
  BY <1>2, <1>3 DEF Agrees
<1>6. Linkable(m, p, n, z)
  <2> HIDE DEF n, p
  <2> QED BY <1>2, <1>3, <1>4 DEF Linkable, Readable, c
<1> QED BY <1>1, <1>2, <1>3, <1>5, <1>6 DEF c

LEMMA LinkTextMakes ==
    ASSUME NEW m, NEW o \in Objects, Good(m), ~m.obj[o].made, NEW z \in BOOLEAN,
           NEW k \in DOMAIN Literals
    PROVE  Made(m, Link(m, o, -k, Len(Literals[k]), z), o, z, Literals[k])
<1> DEFINE p == -k
           s == Literals[k]
           n == Len(s)
           c == Cells(m, p)
           r == Link(m, o, p, n, z)
<1>1. /\ Linkable(m, p, n, z) /\ p \in Int /\ p < 0 /\ n \in Nat
      /\ Agrees(s, c, n) /\ c[n + 1] = Nul
  BY TextLinkable
<1> HIDE DEF p, n, c, s
<1>2. Linked(m, r, o, p, n, z)
  BY <1>1, LinkCells
<1> HIDE DEF r
<1>3. /\ Moves(m, r, o) /\ Usable(r, o) /\ Sound(r, o) /\ r.obj[o].size = n /\ r.obj[o].data = p
      /\ (r.obj[o].zt <=> z)
      /\ \A j : Cell(r, o, j) = c[j]
  BY <1>2 DEF Linked, c
<1>4. Fits(r, o)
  BY <1>1, <1>3, LinkedFitsToo
<1>5. Matches(r, o, s)
  BY <1>1, <1>3, AgreesMatches
<1>6. Stop(r, o)
  BY <1>1, <1>3, Zenon DEF Stop
<1> QED BY <1>3, <1>4, <1>5, <1>6, Zenon DEF Made, r, p, n, s

LEMMA CopyStringMakes ==
    ASSUME NEW m, NEW o \in Objects, Good(m), ~m.obj[o].made,
           NEW p \in Int, NEW n \in Nat, Linkable(m, p, n, TRUE), NEW v, Agrees(v, Cells(m, p), n)
    PROVE  Made(m, Resize(Link(m, o, p, n, TRUE), o, n), o, TRUE, v)
<1> DEFINE r == Resize(Link(m, o, p, n, TRUE), o, n)
           c == Cells(m, p)
<1>1. /\ Moves(m, r, o) /\ Writable(r, o) /\ Ends(r, o)
      /\ r.obj[o].size = n /\ r.obj[o].zt
      /\ \A k \in 1..n : Cell(r, o, k) = c[k]
  <2>1. Copied(m, r, o, p, n)
    BY CopyConstructString
  <2> QED BY <2>1, Zenon DEF Copied
<1>2. Agrees(v, c, n)
  OBVIOUS
<1> HIDE DEF r, c
<1>3. Matches(r, o, v)
  BY <1>1, <1>2, AgreesMatches
<1>4. Stop(r, o)
  BY <1>1, Zenon DEF Ends, Stop
<1> QED BY <1>1, <1>3, <1>4, Zenon DEF Made, Writable, r

LEMMA CopyBlockMakes ==
    ASSUME NEW m, NEW o \in Objects, Good(m), ~m.obj[o].made,
           NEW p \in Int, NEW n \in Nat, NEW v, Offers(m, o, p, n, v)
    PROVE  Made(m, Assign(Link(m, o, Null, 0, FALSE), o, p, n), o, FALSE, v)
<1> DEFINE z == FALSE
           l == Link(m, o, Null, 0, z)
           r == Assign(l, o, p, n)
           e == <<>>
<1>1. z \in BOOLEAN
  OBVIOUS
<1>2. ~z
  OBVIOUS
<1> HIDE DEF z
<1>3. Made(m, l, o, z, e)
  BY <1>1, LinkEmptyMakes
<1> HIDE DEF l, e
<1>4. Moves(m, l, o) /\ Changes(m, l, o) /\ Usable(l, o) /\ Fits(l, o)
  BY <1>3, Zenon DEF Made, Moves
<1>5. ~l.obj[o].zt
  BY <1>2, <1>3, Zenon DEF Made
<1>6. Offers(l, o, p, n, v)
  <2>1. Elsewhere(m, o, p, n) /\ Agrees(v, Cells(m, p), n)
    BY DEF Offers
  <2>2. Elsewhere(l, o, p, n) /\ \A k \in 1..n : Cells(l, p)[k] = Cells(m, p)[k]
    BY <1>4, <2>1, ElsewhereKept
  <2>3. Agrees(v, Cells(l, p), n)
    BY <2>1, <2>2 DEF Agrees
  <2> QED BY <2>2, <2>3 DEF Offers
<1>7. Kept(l, r, o, v)
  BY <1>4, <1>6, AssignKeeps
<1> HIDE DEF r
<1>8. Moves(m, r, o)
  BY <1>4, <1>7, MovesTrans DEF Kept, Whole
<1>9. ~r.obj[o].zt
  BY <1>5, <1>7, Zenon DEF Kept, Whole
<1>10. Made(m, r, o, z, v)
  BY <1>2, <1>7, <1>8, <1>9, Zenon DEF Made, Kept, Whole
<1> QED BY <1>10 DEF r, l, z

\* What another container holds can be copied.
LEMMA HeldOffers ==
    ASSUME NEW m, Good(m), NEW o \in Objects, NEW q \in Objects, q # o, NEW e, Fine(m, q, e)
    PROVE  /\ m.obj[q].data \in Int /\ m.obj[q].size \in Nat
           /\ Offers(m, o, m.obj[q].data, m.obj[q].size, e)
<1> DEFINE b == m.obj[q]
           p == b.data
           n == b.size
<1>1. /\ p \in Int /\ n \in Nat /\ b.cap \in Nat /\ Zt(b) \in {0, 1}
      /\ Fits(m, q) /\ Sound(m, q) /\ Matches(m, q, e)
  BY BlockType DEF Fine, Fits, Sound
<1>2. Readable(m, p, n) /\ (n = 0 \/ ~OwnsAt(m, o, p))
  <2>1. CASE b.cap > 0
    <3>1. /\ Place(m, p) /\ Len(m.heap[p]) = b.cap /\ Cells(m, p) = m.heap[p] /\ p \in Addrs
      BY <2>1, OwnCells
    <3>2. n + Zt(b) <= b.cap
      BY <2>1, <1>1 DEF Sound
    <3>3. n <= b.cap
      <4> HIDE DEF b
      <4> QED BY <1>1, <3>2
    <3>4. ~OwnsAt(m, o, p)
      BY <2>1, <3>1 DEF Good, Owned, OwnsAt
    <3> QED BY <3>1, <3>3, <3>4 DEF Readable
  <2>2. CASE b.cap = 0 /\ p # Null
    <3>1. Place(m, p) /\ Readable(m, p, n + Zt(b)) /\ p <= 0
      BY <1>1, <2>2 DEF Sound, Fits
    <3>2. Len(Cells(m, p)) \in Nat
      BY <1>1, <3>1, PlaceCells DEF Good
    <3>3. Readable(m, p, n)
      <4> HIDE DEF b, p
      <4> QED BY <1>1, <3>1, <3>2 DEF Readable
    <3>4. p \notin Addrs
      BY <1>1, <3>1, AddrIsNumber
    <3>5. ~OwnsAt(m, o, p)
      BY <3>4 DEF OwnsAt, Good, Owned
    <3> QED BY <3>3, <3>5
  <2>3. CASE b.cap = 0 /\ p = Null
    BY <1>1, <2>3 DEF Sound, Readable
  <2> QED BY <1>1, <2>1, <2>2, <2>3
<1>3. Agrees(e, Cells(m, p), n)
  BY <1>1 DEF Matches, Agrees, Cell
<1> QED BY <1>1, <1>2, <1>3 DEF Offers, Elsewhere

LEMMA TextOffers ==
    ASSUME NEW m, Good(m), NEW o \in Objects, NEW k \in DOMAIN Literals
    PROVE  /\ -k \in Int /\ Len(Literals[k]) \in Nat
           /\ Offers(m, o, -k, Len(Literals[k]), Literals[k])
<1> DEFINE p == -k
           s == Literals[k]
           n == Len(s)
           z == FALSE
<1>1. z \in BOOLEAN
  OBVIOUS
<1>2. ~z
  OBVIOUS
<1> HIDE DEF z
<1>3. /\ p \in Int /\ p < 0 /\ n \in Nat
      /\ Linkable(m, p, n, z) /\ Agrees(s, Cells(m, p), n)
  BY <1>1, TextLinkable
<1>4. Readable(m, p, n)
  <2>1. p # Null => Readable(m, p, n + (IF z THEN 1 ELSE 0))
    BY <1>3 DEF Linkable
  <2>2. n + (IF z THEN 1 ELSE 0) = n
    <3> HIDE DEF n
    <3> QED BY <1>2, <1>3
  <2>3. p # Null
    BY <1>3 DEF Null
  <2> QED BY <2>1, <2>2, <2>3
<1>5. ~OwnsAt(m, o, p)
  <2>1. p \notin Addrs
    BY <1>3, AddrIsNumber
  <2> QED BY <2>1 DEF OwnsAt, Good, Owned
<1> QED BY <1>3, <1>4, <1>5 DEF Offers, Elsewhere

\* A string that has its zero, or nothing, can be linked to.
LEMMA StringLinkable ==
    ASSUME NEW m, Good(m), NEW q \in Objects, NEW e, Fine(m, q, e), Zt(m.obj[q]) = 1
    PROVE  /\ m.obj[q].data \in Int /\ m.obj[q].size \in Nat
           /\ Linkable(m, m.obj[q].data, m.obj[q].size, TRUE)
           /\ Agrees(e, Cells(m, m.obj[q].data), m.obj[q].size)
<1> DEFINE b == m.obj[q]
           p == b.data
           n == b.size
<1>1. /\ p \in Int /\ n \in Nat /\ b.cap \in Nat /\ Zt(b) = 1
      /\ Fits(m, q) /\ Sound(m, q) /\ Matches(m, q, e)
  BY BlockType DEF Fine, Fits, Sound
<1>2. p = Null => n = 0
  BY <1>1 DEF Sound
<1>3. p # Null => Place(m, p) /\ Readable(m, p, n + 1)
  <2>1. CASE b.cap > 0
    <3>1. /\ Place(m, p) /\ Len(m.heap[p]) = b.cap /\ Cells(m, p) = m.heap[p]
      BY <2>1, OwnCells
    <3>2. n + 1 <= b.cap
      BY <2>1, <1>1 DEF Sound
    <3> QED BY <3>1, <3>2 DEF Readable
  <2>2. CASE b.cap = 0
    BY <1>1, <2>2 DEF Sound
  <2> QED BY <1>1, <2>1, <2>2
<1>4. Agrees(e, Cells(m, p), n)
  BY <1>1 DEF Matches, Agrees, Cell
<1>5. Linkable(m, p, n, TRUE)
  BY <1>2, <1>3 DEF Linkable
<1> QED BY <1>1, <1>4, <1>5

-----------------------------------------------------------------------------
(* The program's calls *)

\* What a container is.
Sorted(m, o) ==
    /\ m.obj[o].made \/ m.obj[o] = Gone
    /\ kind[o] # "string" => Zt(m.obj[o]) = 0
    /\ m.obj[o].size <= MaxSize

\* Every container of bytes holds what the program put into it.
BytesInv ==
    /\ Good(mem)
    /\ expected = [q \in Objects |-> expected[q]]
    /\ \A q \in Objects :
        Sorted(mem, q) /\ (kind[q] # "vector" => Fine(mem, q, expected[q]))

\* A call on o has left the others alone, and o holding what is expected of it.
Served(o) ==
    /\ Moves(mem, mem', o) /\ Sorted(mem', o) /\ Fine(mem', o, expected'[o])
    /\ \A q \in Objects : q # o => expected'[q] = expected[q]
    /\ expected' = [q \in Objects |-> expected'[q]]
    /\ kind' = kind

LEMMA DoesWhat ==
    ASSUME BytesInv, NEW o \in Objects, NEW r, NEW e, Does(o, r, e)
    PROVE  /\ mem' = r /\ expected'[o] = e /\ r.obj[o].size <= MaxSize
           /\ \A q \in Objects : q # o => expected'[q] = expected[q]
           /\ expected' = [q \in Objects |-> expected'[q]]
           /\ kind' = kind
BY DEF Does, BytesInv

LEMMA KeptServed ==
    ASSUME BytesInv, NEW o \in Objects, NEW r, NEW e, Kept(mem, r, o, e), Does(o, r, e)
    PROVE  Served(o)
<1>1. /\ mem' = r /\ expected'[o] = e /\ r.obj[o].size <= MaxSize
      /\ \A q \in Objects : q # o => expected'[q] = expected[q]
      /\ expected' = [q \in Objects |-> expected'[q]]
      /\ kind' = kind
  BY DoesWhat
<1>2. Sorted(mem, o)
  BY DEF BytesInv
<1>3. /\ Moves(mem, r, o) /\ Usable(r, o) /\ Fits(r, o) /\ Stop(r, o) /\ Matches(r, o, e)
      /\ (r.obj[o].zt <=> mem.obj[o].zt)
  BY Zenon DEF Kept, Whole
<1>4. Zt(r.obj[o]) = Zt(mem.obj[o])
  BY <1>3, Zenon DEF Zt
<1>5. Sorted(r, o)
  BY <1>1, <1>2, <1>3, <1>4, Zenon DEF Sorted, Usable
<1>6. Fine(r, o, e)
  BY <1>3 DEF Fine
<1> QED BY <1>1, <1>3, <1>5, <1>6, Zenon DEF Served

LEMMA MadeServed ==
    ASSUME BytesInv, NEW o \in Objects, NEW r, NEW e, NEW z, Made(mem, r, o, z, e), Does(o, r, e),
           z => kind[o] = "string"
    PROVE  Served(o)
<1>1. /\ mem' = r /\ expected'[o] = e /\ r.obj[o].size <= MaxSize
      /\ \A q \in Objects : q # o => expected'[q] = expected[q]
      /\ expected' = [q \in Objects |-> expected'[q]]
      /\ kind' = kind
  BY DoesWhat
<1>2. /\ Moves(mem, r, o) /\ Usable(r, o) /\ Fits(r, o) /\ Stop(r, o) /\ Matches(r, o, e)
      /\ (r.obj[o].zt <=> z)
  BY Zenon DEF Made
<1>3. kind[o] # "string" => Zt(r.obj[o]) = 0
  BY <1>2, Zenon DEF Zt
<1>4. Sorted(r, o)
  BY <1>1, <1>2, <1>3, Zenon DEF Sorted, Usable
<1>5. Fine(r, o, e)
  BY <1>2 DEF Fine
<1> QED BY <1>1, <1>2, <1>4, <1>5, Zenon DEF Served

LEMMA SourceOffers ==
    ASSUME BytesInv, NEW o \in Objects, NEW s \in Sources(o)
    PROVE  s.p \in Int /\ s.n \in Nat /\ Offers(mem, o, s.p, s.n, s.v)
<1>1. CASE s \in Texts
  <2>1. PICK k \in DOMAIN Literals :
          s = [p |-> -k, n |-> Len(Literals[k]), v |-> Literals[k]]
    BY <1>1 DEF Texts
  <2>2. Good(mem)
    BY DEF BytesInv
  <2>3. /\ -k \in Int /\ Len(Literals[k]) \in Nat
        /\ Offers(mem, o, -k, Len(Literals[k]), Literals[k])
    BY <2>2, TextOffers
  <2>4. s.p = -k /\ s.n = Len(Literals[k]) /\ s.v = Literals[k]
    BY <2>1
  <2> QED BY <2>3, <2>4
<1>2. ASSUME NEW q \in Objects, q # o, IsBytes(q), s = Held(q)
      PROVE  s.p \in Int /\ s.n \in Nat /\ Offers(mem, o, s.p, s.n, s.v)
  <2>1. Good(mem) /\ Fine(mem, q, expected[q])
    BY <1>2 DEF BytesInv, IsBytes
  <2>2. /\ mem.obj[q].data \in Int /\ mem.obj[q].size \in Nat
        /\ Offers(mem, o, mem.obj[q].data, mem.obj[q].size, expected[q])
    BY <1>2, <2>1, HeldOffers
  <2>3. s.p = mem.obj[q].data /\ s.n = mem.obj[q].size /\ s.v = expected[q]
    BY <1>2 DEF Held, Obj, Size
  <2> QED BY <2>2, <2>3
<1> QED BY <1>1, <1>2 DEF Sources

\* A container of bytes that a call is made on.
LEMMA BytesUsable ==
    ASSUME BytesInv, NEW o \in Objects, IsBytes(o)
    PROVE  /\ Usable(mem, o) /\ Fine(mem, o, expected[o]) /\ Fits(mem, o)
           /\ Size(o) = mem.obj[o].size /\ Size(o) \in Nat
           /\ Obj(o).data = mem.obj[o].data
           /\ Owns(o) => mem.obj[o].cap > 0 /\ Writable(mem, o)
           /\ ~Owns(o) => mem.obj[o].cap = 0
           /\ kind[o] = "block" => Zt(mem.obj[o]) = 0
           /\ kind[o] = "string" => Zt(mem.obj[o]) = 1
<1>1. Good(mem) /\ Sorted(mem, o) /\ Fine(mem, o, expected[o])
  BY DEF BytesInv, IsBytes
<1>2. mem.obj[o].made /\ (kind[o] = "string" => mem.obj[o].zt)
  BY Zenon DEF IsBytes, Obj
<1>3. Usable(mem, o)
  BY <1>1, <1>2 DEF Usable
<1>4. Fits(mem, o) /\ Sound(mem, o) /\ Size(o) = mem.obj[o].size /\ Size(o) \in Nat
  BY <1>1 DEF Fine, Fits, Sound, Obj, Size
<1>5. kind[o] = "string" => Zt(mem.obj[o]) = 1
  BY <1>2, Zenon DEF Zt
<1>6. kind[o] = "block" => Zt(mem.obj[o]) = 0
  BY <1>1 DEF Sorted
<1>7. mem.obj[o].cap \in Nat
  BY <1>3, BlockType DEF Usable
<1>8. Owns(o) => mem.obj[o].cap > 0 /\ Writable(mem, o)
  BY <1>3, <1>4 DEF Owns, Obj, Writable, Sound
<1>9. ~Owns(o) => mem.obj[o].cap = 0
  BY <1>7 DEF Owns, Obj
<1> QED BY <1>1, <1>3, <1>4, <1>5, <1>6, <1>8, <1>9 DEF Obj

LEMMA AssignBytesServed ==
    ASSUME BytesInv, NEW o \in Objects, AssignBytes(o)
    PROVE  Served(o)
<1>1. IsBytes(o)
  BY DEF AssignBytes
<1>2. /\ Usable(mem, o) /\ Fine(mem, o, expected[o]) /\ Fits(mem, o)
      /\ Size(o) = mem.obj[o].size /\ Obj(o).data = mem.obj[o].data
  BY <1>1, BytesUsable
<1>3. ASSUME NEW s \in Sources(o), Does(o, Assign(mem, o, s.p, s.n), s.v) PROVE Served(o)
  <2>1. s.p \in Int /\ s.n \in Nat /\ Offers(mem, o, s.p, s.n, s.v)
    BY SourceOffers
  <2>2. Kept(mem, Assign(mem, o, s.p, s.n), o, s.v)
    BY <1>2, <2>1, AssignKeeps
  <2> QED BY <1>3, <2>2, KeptServed
<1>4. CASE Does(o, Assign(mem, o, Obj(o).data, Size(o)), expected[o])
  <2>1. Kept(mem, Assign(mem, o, mem.obj[o].data, mem.obj[o].size), o, expected[o])
    BY <1>2, AssignSelfKeeps
  <2>2. Kept(mem, Assign(mem, o, Obj(o).data, Size(o)), o, expected[o])
    BY <1>2, <2>1
  <2> QED BY <1>4, <2>2, KeptServed
<1> QED BY <1>3, <1>4, Zenon DEF AssignBytes

LEMMA SizeBytesServed ==
    ASSUME BytesInv, NEW o \in Objects, SizeBytes(o)
    PROVE  Served(o)
<1>1. IsBytes(o)
  BY DEF SizeBytes
<1>2. /\ Usable(mem, o) /\ Fine(mem, o, expected[o])
      /\ Size(o) = mem.obj[o].size /\ Size(o) \in Nat
      /\ Owns(o) => mem.obj[o].cap > 0
  BY <1>1, BytesUsable
<1>3. ASSUME NEW n \in 0..MaxSize, Does(o, Resize(mem, o, n), Resized(expected[o], n, Junk))
      PROVE  Served(o)
  <2>1. Kept(mem, Resize(mem, o, n), o, Resized(expected[o], n, Junk))
    BY <1>2, ResizeKeeps
  <2> QED BY <1>3, <2>1, KeptServed
<1>4. ASSUME NEW n \in 0..MaxSize, Owns(o) \/ n >= Size(o), Does(o, Reserve(mem, o, n), expected[o])
      PROVE  Served(o)
  <2>1. mem.obj[o].cap > 0 \/ n >= mem.obj[o].size
    BY <1>2, <1>4
  <2>2. n \in Nat
    OBVIOUS
  <2>3. Kept(mem, Reserve(mem, o, n), o, expected[o])
    BY <1>2, <2>1, <2>2, ReserveKeeps
  <2> QED BY <1>4, <2>3, KeptServed
<1>5. ASSUME Owns(o), Size(o) > 0, Does(o, ShrinkToFit(mem, o), expected[o]) PROVE Served(o)
  <2>1. Kept(mem, ShrinkToFit(mem, o), o, expected[o])
    BY <1>2, <1>5, ShrinkKeeps
  <2> QED BY <1>5, <2>1, KeptServed
<1>6. CASE Does(o, Resize(mem, o, Size(o)), expected[o])
  <2>1. Kept(mem, Resize(mem, o, mem.obj[o].size), o, expected[o])
    BY <1>2, ResizeSameKeeps
  <2>2. Kept(mem, Resize(mem, o, Size(o)), o, expected[o])
    BY <1>2, <2>1
  <2> QED BY <1>6, <2>2, KeptServed
<1>7. CASE Does(o, Deallocate(mem, o), <<>>)
  <2>1. Kept(mem, Deallocate(mem, o), o, <<>>)
    BY <1>2, DeallocateKeeps
  <2> QED BY <1>7, <2>1, KeptServed
<1> QED BY <1>3, <1>4, <1>5, <1>6, <1>7, Zenon DEF SizeBytes

LEMMA InsertBytesServed ==
    ASSUME BytesInv, NEW o \in Objects, InsertBytes(o)
    PROVE  Served(o)
<1>1. IsBytes(o)
  BY DEF InsertBytes
<1>2. Usable(mem, o) /\ Fine(mem, o, expected[o]) /\ Size(o) = mem.obj[o].size /\ Size(o) \in Nat
  BY <1>1, BytesUsable
<1>3. PICK i \in 0..Size(o), s \in Sources(o) :
        Does(o, InsertCells(mem, o, i, s.p, s.n), With(expected[o], i, 0, s.v))
  BY Zenon DEF InsertBytes
<1>4. s.p \in Int /\ s.n \in Nat /\ Offers(mem, o, s.p, s.n, s.v)
  BY SourceOffers
<1>5. i \in Nat /\ i <= mem.obj[o].size
  BY <1>2
<1>6. Kept(mem, InsertCells(mem, o, i, s.p, s.n), o, With(expected[o], i, 0, s.v))
  BY <1>2, <1>4, <1>5, InsertKeeps
<1> QED BY <1>3, <1>6, KeptServed

LEMMA EraseBytesServed ==
    ASSUME BytesInv, NEW o \in Objects, EraseBytes(o)
    PROVE  Served(o)
<1>1. IsBytes(o) /\ Owns(o)
  BY DEF EraseBytes
<1>2. /\ Usable(mem, o) /\ Fine(mem, o, expected[o]) /\ Size(o) = mem.obj[o].size /\ Size(o) \in Nat
      /\ Writable(mem, o)
  BY <1>1, BytesUsable
<1>3. ASSUME NEW i \in 0..Size(o), NEW n \in 0..(Size(o) - i)
      PROVE  i \in Nat /\ n \in Nat /\ i + n <= mem.obj[o].size
  BY <1>2
<1>4. ASSUME NEW i \in 0..Size(o), NEW n \in 0..(Size(o) - i),
             Does(o, Erase(mem, o, i, n), With(expected[o], i, n, <<>>))
      PROVE  Served(o)
  <2>1. Kept(mem, Erase(mem, o, i, n), o, With(expected[o], i, n, <<>>))
    BY <1>2, <1>3, EraseKeeps
  <2> QED BY <1>4, <2>1, KeptServed
<1>5. ASSUME NEW i \in 0..Size(o), NEW n \in 0..(Size(o) - i), NEW s \in Sources(o),
             Does(o, Replace(mem, o, i, n, s.p, s.n), With(expected[o], i, n, s.v))
      PROVE  Served(o)
  <2>1. s.p \in Int /\ s.n \in Nat /\ Offers(mem, o, s.p, s.n, s.v)
    BY SourceOffers
  <2>2. Kept(mem, Replace(mem, o, i, n, s.p, s.n), o, With(expected[o], i, n, s.v))
    BY <1>2, <1>3, <2>1, ReplaceKeeps
  <2> QED BY <1>5, <2>2, KeptServed
<1> QED BY <1>4, <1>5, Zenon DEF EraseBytes

LEMMA ManageBytesServed ==
    ASSUME BytesInv, NEW o \in Objects, ManageBytes(o)
    PROVE  Served(o)
<1>1. IsBytes(o) /\ kind[o] = "block" /\ ~Owns(o)
  BY DEF ManageBytes
<1>2. Usable(mem, o) /\ mem.obj[o].cap = 0 /\ Zt(mem.obj[o]) = 0
  BY <1>1, BytesUsable
<1>3. PICK k \in DOMAIN Literals : Literals[k] # <<>> /\ Does(o, Manage(mem, o, k), Literals[k])
  BY Zenon DEF ManageBytes
<1>4. Kept(mem, Manage(mem, o, k), o, Literals[k])
  BY <1>2, <1>3, ManageKeeps
<1> QED BY <1>3, <1>4, KeptServed

LEMMA EditStringServed ==
    ASSUME BytesInv, NEW o \in Objects, EditString(o)
    PROVE  Served(o)
<1>1. IsBytes(o) /\ kind[o] = "string"
  BY DEF EditString, IsString
<1>2. /\ Usable(mem, o) /\ Fine(mem, o, expected[o]) /\ Fits(mem, o)
      /\ Size(o) = mem.obj[o].size /\ Size(o) \in Nat /\ Zt(mem.obj[o]) = 1
      /\ Owns(o) => mem.obj[o].cap > 0 /\ Writable(mem, o)
      /\ Obj(o).data = mem.obj[o].data
  BY <1>1, BytesUsable
<1>3. ASSUME NEW v \in Values, Does(o, PushBack(mem, o, v), Append(expected[o], v))
      PROVE  Served(o)
  <2>1. Kept(mem, PushBack(mem, o, v), o, Append(expected[o], v))
    BY <1>2, PushBackKeeps
  <2> QED BY <1>3, <2>1, KeptServed
<1>4. ASSUME NEW i \in 0..Size(o), NEW n \in 1..MaxSize, NEW v \in Values,
             Does(o, InsertFill(mem, o, i, n, v), With(expected[o], i, 0, Filled(n, v)))
      PROVE  Served(o)
  <2>1. i \in Nat /\ i <= mem.obj[o].size /\ n \in Nat
    BY <1>2
  <2>2. Kept(mem, InsertFill(mem, o, i, n, v), o, With(expected[o], i, 0, Filled(n, v)))
    BY <1>2, <2>1, InsertFillKeeps
  <2> QED BY <1>4, <2>2, KeptServed
<1>5. ASSUME Owns(o), Size(o) > 0, Does(o, PopBack(mem, o), Before(expected[o], Size(o) - 1))
      PROVE  Served(o)
  <2>1. Writable(mem, o) /\ mem.obj[o].cap > 0 /\ mem.obj[o].size > 0
    BY <1>2, <1>5
  <2>2. Kept(mem, PopBack(mem, o), o, Before(expected[o], mem.obj[o].size - 1))
    BY <1>2, <2>1, PopBackKeeps
  <2>3. Kept(mem, PopBack(mem, o), o, Before(expected[o], Size(o) - 1))
    BY <1>2, <2>2
  <2> QED BY <1>5, <2>3, KeptServed
<1>6. ASSUME Owns(o) \/ Obj(o).data = Null, Does(o, ClearString(mem, o), <<>>) PROVE Served(o)
  <2>1. mem.obj[o].cap > 0 \/ mem.obj[o].data = Null
    BY <1>2, <1>6
  <2>2. Kept(mem, ClearString(mem, o), o, <<>>)
    BY <1>2, <2>1, ClearStringKeeps
  <2> QED BY <1>6, <2>2, KeptServed
<1> QED BY <1>3, <1>4, <1>5, <1>6, Zenon DEF EditString

LEMMA ConstructBytesServed ==
    ASSUME BytesInv, NEW o \in Objects, ConstructBytes(o)
    PROVE  Served(o)
<1> DEFINE z == kind[o] = "string"
<1>1. Good(mem) /\ ~mem.obj[o].made /\ z \in BOOLEAN /\ (z => kind[o] = "string")
  BY DEF BytesInv, ConstructBytes, Unmade, Obj
<1>2. \/ Does(o, Link(mem, o, Null, 0, z), <<>>)
      \/ \E s \in Texts : Does(o, Link(mem, o, s.p, s.n, z), s.v)
      \/ /\ z
         /\ \E s \in Texts \cup {Held(q) : q \in {q \in Objects : IsString(q)}} :
                Does(o, Resize(Link(mem, o, s.p, s.n, TRUE), o, s.n), s.v)
      \/ /\ ~z
         /\ \E q \in Objects : IsBytes(q) /\
                Does(o, Assign(Link(mem, o, Null, 0, FALSE), o, Obj(q).data, Size(q)), expected[q])
  BY Zenon DEF ConstructBytes
<1> HIDE DEF z
<1>3. CASE Does(o, Link(mem, o, Null, 0, z), <<>>)
  <2>1. Made(mem, Link(mem, o, Null, 0, z), o, z, <<>>)
    BY <1>1, LinkEmptyMakes
  <2> QED BY <1>1, <1>3, <2>1, MadeServed
<1>4. ASSUME NEW k \in DOMAIN Literals,
             Does(o, Link(mem, o, -k, Len(Literals[k]), z), Literals[k])
      PROVE  Served(o)
  <2>1. Made(mem, Link(mem, o, -k, Len(Literals[k]), z), o, z, Literals[k])
    BY <1>1, LinkTextMakes
  <2> QED BY <1>1, <1>4, <2>1, MadeServed
<1>5. ASSUME z, NEW p \in Int, NEW n \in Nat, NEW v, Linkable(mem, p, n, TRUE),
             Agrees(v, Cells(mem, p), n),
             Does(o, Resize(Link(mem, o, p, n, TRUE), o, n), v)
      PROVE  Served(o)
  <2>1. Made(mem, Resize(Link(mem, o, p, n, TRUE), o, n), o, TRUE, v)
    BY <1>1, <1>5, CopyStringMakes
  <2> QED BY <1>1, <1>5, <2>1, MadeServed
<1>6. ASSUME NEW q \in Objects, IsBytes(q),
             Does(o, Assign(Link(mem, o, Null, 0, FALSE), o, Obj(q).data, Size(q)), expected[q])
      PROVE  Served(o)
  <2>1. q # o /\ Fine(mem, q, expected[q])
    BY <1>1, <1>6 DEF IsBytes, Obj, BytesInv
  <2>2. /\ mem.obj[q].data \in Int /\ mem.obj[q].size \in Nat
        /\ Offers(mem, o, mem.obj[q].data, mem.obj[q].size, expected[q])
    BY <1>1, <2>1, HeldOffers
  <2>3. Obj(q).data = mem.obj[q].data /\ Size(q) = mem.obj[q].size
    BY DEF Obj, Size
  <2>4. Made(mem, Assign(Link(mem, o, Null, 0, FALSE), o, Obj(q).data, Size(q)), o, FALSE,
             expected[q])
    BY <1>1, <2>2, <2>3, CopyBlockMakes
  <2> QED BY <1>6, <2>4, MadeServed
<1>7. ASSUME NEW s \in Texts, Does(o, Link(mem, o, s.p, s.n, z), s.v) PROVE Served(o)
  <2>1. PICK k \in DOMAIN Literals :
          s = [p |-> -k, n |-> Len(Literals[k]), v |-> Literals[k]]
    BY DEF Texts
  <2>2. s.p = -k /\ s.n = Len(Literals[k]) /\ s.v = Literals[k]
    BY <2>1
  <2>3. Does(o, Link(mem, o, -k, Len(Literals[k]), z), Literals[k])
    BY <1>7, <2>2, Zenon
  <2> QED BY <1>4, <2>3
<1>8. ASSUME z, NEW s \in Texts, Does(o, Resize(Link(mem, o, s.p, s.n, TRUE), o, s.n), s.v)
      PROVE  Served(o)
  <2>1. PICK k \in DOMAIN Literals :
          s = [p |-> -k, n |-> Len(Literals[k]), v |-> Literals[k]]
    BY DEF Texts
  <2>2. s.p = -k /\ s.n = Len(Literals[k]) /\ s.v = Literals[k]
    BY <2>1
  <2>3. /\ s.p \in Int /\ s.n \in Nat
        /\ Linkable(mem, s.p, s.n, TRUE) /\ Agrees(s.v, Cells(mem, s.p), s.n)
    BY <2>2, TextLinkable
  <2> QED BY <1>5, <1>8, <2>3
<1>9. ASSUME z, NEW q \in Objects, IsString(q), NEW s, s = Held(q),
             Does(o, Resize(Link(mem, o, s.p, s.n, TRUE), o, s.n), s.v)
      PROVE  Served(o)
  <2>1. Fine(mem, q, expected[q]) /\ Zt(mem.obj[q]) = 1
    BY <1>9, BytesUsable DEF IsString
  <2>2. s.p = mem.obj[q].data /\ s.n = mem.obj[q].size /\ s.v = expected[q]
    BY <1>9 DEF Held, Obj, Size
  <2>3. /\ s.p \in Int /\ s.n \in Nat
        /\ Linkable(mem, s.p, s.n, TRUE) /\ Agrees(s.v, Cells(mem, s.p), s.n)
    BY <1>1, <2>1, <2>2, StringLinkable
  <2> QED BY <1>5, <1>9, <2>3
<1>10. ASSUME z, NEW s \in Texts \cup {Held(q) : q \in {q \in Objects : IsString(q)}},
              Does(o, Resize(Link(mem, o, s.p, s.n, TRUE), o, s.n), s.v)
       PROVE  Served(o)
  <2>1. CASE s \in Texts
    BY <1>8, <1>10, <2>1
  <2>2. CASE ~(s \in Texts)
    <3>1. PICK q \in Objects : IsString(q) /\ s = Held(q)
      BY <2>2
    <3> QED BY <1>9, <1>10, <3>1
  <2> QED BY <2>1, <2>2
<1> QED BY <1>2, <1>3, <1>6, <1>7, <1>10, Zenon

\* A container of bytes that is destroyed.
LEMMA DestroyedServed ==
    ASSUME BytesInv, NEW o \in Objects, Obj(o).made, Does(o, Destroyed(mem, o), <<>>)
    PROVE  Served(o)
<1> DEFINE r == Destroyed(mem, o)
           e == <<>>
<1>1. Usable(mem, o)
  BY DEF BytesInv, Usable, Obj
<1>2. Moves(mem, r, o) /\ r.obj[o] = Gone
  BY <1>1, DestroyedCells
<1>3. Does(o, r, e)
  OBVIOUS
<1> HIDE DEF r, e
<1>4. /\ mem' = r /\ expected'[o] = e /\ r.obj[o].size <= MaxSize
      /\ \A q \in Objects : q # o => expected'[q] = expected[q]
      /\ expected' = [q \in Objects |-> expected'[q]]
      /\ kind' = kind
  BY <1>3, DoesWhat
<1>5. Gone.size = 0 /\ Gone.data = Null /\ Gone.cap = 0 /\ Zt(Gone) = 0
  BY DEF Gone, Zt
<1>6. Fits(r, o)
  BY <1>2, <1>5 DEF Fits, Sound, Null
<1>7. Stop(r, o)
  BY <1>2, <1>5, Zenon DEF Stop
<1>8. Matches(r, o, e)
  BY <1>2, <1>5, EmptyMatches DEF e
<1>9. Sorted(r, o)
  BY <1>2, <1>4, <1>5, Zenon DEF Sorted
<1> QED BY <1>2, <1>4, <1>6, <1>7, <1>8, <1>9, Zenon DEF Served, Fine
=============================================================================
