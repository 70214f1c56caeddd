---------------------------- MODULE MemoryProofs ----------------------------
(***************************************************************************)
(* Theorems about Memory, for any number of containers of any size.        *)
(***************************************************************************)
EXTENDS Memory, FiniteSetTheorems, SequenceTheorems, WellFoundedInduction, TLAPS

-----------------------------------------------------------------------------
(* Numbers: least elements, induction by sets and recursion *)

LEMMA LeastNat ==
    ASSUME NEW T \in SUBSET Nat, T # {}
    PROVE  \E m \in T : \A k \in T : m <= k
<1> DEFINE R == OpToRel(<, Nat)
<1>1. IsWellFoundedOn(R, Nat)
  BY NatLessThanWellFounded
<1>2. PICK m \in T : \A k \in T : ~(<<k, m>> \in R)
  <2> HIDE DEF R
  <2> QED BY <1>1, WFMin
<1>3. \A k \in T : k < m => <<k, m>> \in R
  BY DEF OpToRel
<1>4. \A k \in T : ~(k < m)
  <2> HIDE DEF R
  <2> QED BY <1>2, <1>3
<1> HIDE DEF R
<1> QED BY <1>4

LEMMA UpTo ==
    ASSUME NEW n \in Nat, NEW S, 0 \in S, \A k \in 1..n : k - 1 \in S => k \in S
    PROVE  0..n \subseteq S
<1> DEFINE T == {k \in 0..n : k \notin S}
<1> SUFFICES ASSUME T # {} PROVE FALSE
  OBVIOUS
<1>1. PICK m \in T : \A k \in T : m <= k
  <2>1. T \in SUBSET Nat
    OBVIOUS
  <2> HIDE DEF T
  <2> QED BY <2>1, LeastNat
<1>2. m \in 1..n /\ m - 1 \in 0..n
  BY <1>1
<1>3. m - 1 \in S
  BY <1>1, <1>2
<1> QED BY <1>1, <1>2, <1>3

\* A function defined by recursion on 0..n exists.
LEMMA Recursion ==
    ASSUME NEW n \in Nat, NEW X, NEW x \in X, NEW F \in [X -> X]
    PROVE  \E f \in [0..n -> X] : f[0] = x /\ \A k \in 1..n : f[k] = F[f[k - 1]]
<1> DEFINE Up(f, l) == f[0] = x /\ \A k \in 1..l : f[k] = F[f[k - 1]]
           S == {l \in 0..n : \E f \in [0..n -> X] : Up(f, l)}
<1>1. 0 \in S
  <2> DEFINE f == [k \in 0..n |-> x]
  <2>1. f \in [0..n -> X] /\ Up(f, 0)
    OBVIOUS
  <2> HIDE DEF f, Up
  <2> QED BY <2>1
<1>2. ASSUME NEW l \in 1..n, l - 1 \in S PROVE l \in S
  <2>1. PICK f \in [0..n -> X] : Up(f, l - 1)
    BY <1>2
  <2> DEFINE g == [k \in 0..n |-> IF k = l THEN F[f[l - 1]] ELSE f[k]]
  <2>2. f[l - 1] \in X
    BY <2>1
  <2>3. g \in [0..n -> X]
    BY <2>2
  <2>4. Up(g, l)
    <3>1. g[0] = x
      BY <2>1, <1>2
    <3>2. ASSUME NEW k \in 1..l PROVE g[k] = F[g[k - 1]]
      <4>1. k - 1 \in 0..n /\ k - 1 # l /\ k \in 0..n /\ g[k - 1] = f[k - 1]
        BY <1>2
      <4>2. CASE k = l
        BY <4>1, <4>2
      <4>3. CASE k # l
        BY <1>2, <2>1, <4>1, <4>3
      <4> QED BY <4>2, <4>3
    <3> QED BY <3>1, <3>2
  <2> HIDE DEF g, Up
  <2> QED BY <1>2, <2>3, <2>4
<1>3. n \in S
  <2> HIDE DEF S
  <2>1. 0..n \subseteq S
    BY <1>1, <1>2, UpTo
  <2> QED BY <2>1
<1> QED BY <1>3

LEMMA NextPow2Property ==
    ASSUME NEW n \in Nat
    PROVE  NextPow2(n) \in Nat /\ NextPow2(n) >= n /\ NextPow2(n) >= 2
<1> DEFINE up(f) == [k \in 0..n |-> IF k = 0 THEN 2 ELSE IF f[k - 1] < n THEN 2 * f[k - 1] ELSE f[k - 1]]
           f == CHOOSE f : f = up(f)
<1>1. NextPow2(n) = f[n]
  BY DEF NextPow2
<1>2. \E g : g \in [0..n -> Nat] /\ g = up(g)
  <2> DEFINE F == [c \in Nat |-> IF c < n THEN 2 * c ELSE c]
  <2>1. F \in [Nat -> Nat]
    OBVIOUS
  <2>2. PICK g \in [0..n -> Nat] : g[0] = 2 /\ \A k \in 1..n : g[k] = F[g[k - 1]]
    <3> DEFINE two == 2
               numbers == Nat
    <3>1. two \in numbers /\ F \in [numbers -> numbers]
      OBVIOUS
    <3> HIDE DEF F, f, up, two, numbers
    <3>2. \E g \in [0..n -> numbers] : g[0] = two /\ \A k \in 1..n : g[k] = F[g[k - 1]]
      BY <3>1, Recursion, SMTT(30)
    <3> QED BY <3>2 DEF two, numbers
  <2>3. \A k \in 1..n : g[k] = IF g[k - 1] < n THEN 2 * g[k - 1] ELSE g[k - 1]
    <3> TAKE k \in 1..n
    <3>1. k - 1 \in 0..n
      OBVIOUS
    <3>2. g[k - 1] \in Nat
      BY <3>1
    <3> QED BY <2>2, <3>2
  <2> HIDE DEF F
  <2>4. \A k \in 0..n : g[k] = IF k = 0 THEN 2 ELSE IF g[k - 1] < n THEN 2 * g[k - 1] ELSE g[k - 1]
    BY <2>2, <2>3
  <2>5. g = [k \in 0..n |-> g[k]]
    OBVIOUS
  <2>6. g = up(g)
    BY <2>4, <2>5
  <2> QED BY <2>6
<1>3. f = up(f)
  BY <1>2
<1> HIDE DEF f
<1>4. 0..n \subseteq {k \in 0..n : f[k] \in Nat /\ f[k] >= 2 /\ (f[k] >= n \/ f[k] >= k + 2)}
  <2> DEFINE S == {k \in 0..n : f[k] \in Nat /\ f[k] >= 2 /\ (f[k] >= n \/ f[k] >= k + 2)}
  <2>1. 0 \in S
    BY <1>3
  <2>2. ASSUME NEW k \in 1..n, k - 1 \in S PROVE k \in S
    <3>1. f[k] = IF f[k - 1] < n THEN 2 * f[k - 1] ELSE f[k - 1]
      BY <1>3
    <3> QED BY <2>2, <3>1
  <2> HIDE DEF S
  <2>3. 0..n \subseteq S
    BY <2>1, <2>2, UpTo
  <2> QED BY <2>3 DEF S
<1> QED BY <1>1, <1>4

-----------------------------------------------------------------------------
(***************************************************************************)
(* The heap and who owns it.  What the cells hold, and the elements in     *)
(* them, is left out: it does not matter where the blocks are and how      *)
(* large, and no write changes the size of a block, whatever it writes.    *)
(***************************************************************************)

Sequence(s) == \E n \in Nat : s = [k \in 1..n |-> s[k]]
Block == [made : BOOLEAN, data : Int, size : Int, cap : Nat, zt : BOOLEAN]

Memory(m) ==
    /\ m = [obj |-> m.obj, heap |-> m.heap, elem |-> m.elem, fault |-> m.fault]
    /\ m.obj \in [Objects -> Block]
    /\ m.heap = [a \in Addrs |-> m.heap[a]]
    /\ \A a \in Addrs : Sequence(m.heap[a])

\* Container o owns the block at a.
OwnsAt(m, o, a) == m.obj[o].cap > 0 /\ m.obj[o].data = a

Owned(m) ==
    /\ \A o \in Objects : m.obj[o].cap > 0 =>
        /\ m.obj[o].made /\ m.obj[o].data \in Addrs
        /\ Len(m.heap[m.obj[o].data]) = m.obj[o].cap
    /\ \A o, q \in Objects, a \in Addrs : OwnsAt(m, o, a) /\ OwnsAt(m, q, a) => o = q
    /\ \A a \in Addrs : Len(m.heap[a]) # 0 => \E o \in Objects : OwnsAt(m, o, a)

Good(m) == Memory(m) /\ Owned(m)

\* From m to r only cells and elements change.
SameShape(m, r) ==
    /\ Memory(r)
    /\ r.obj = m.obj
    /\ \A a \in Addrs : Len(r.heap[a]) = Len(m.heap[a])

LEMMA SequenceLen ==
    ASSUME NEW s, NEW n \in Nat, s = [k \in 1..n |-> s[k]]
    PROVE  Sequence(s) /\ Len(s) = n /\ DOMAIN s = 1..n
<1>1. s \in Seq({s[k] : k \in 1..n})
  OBVIOUS
<1>2. Sequence(s)
  BY DEF Sequence
<1> QED BY <1>1, <1>2

LEMMA SequenceProperty ==
    ASSUME NEW s, Sequence(s)
    PROVE  /\ Len(s) \in Nat /\ DOMAIN s = 1..Len(s) /\ s = [k \in 1..Len(s) |-> s[k]]
           /\ s \in Seq({s[k] : k \in 1..Len(s)})
           /\ s = <<>> <=> Len(s) = 0
<1>1. PICK n \in Nat : s = [k \in 1..n |-> s[k]]
  BY DEF Sequence
<1>2. Len(s) = n /\ DOMAIN s = 1..n
  BY <1>1, SequenceLen
<1>3. s \in Seq({s[k] : k \in 1..n})
  BY <1>1
<1>4. s = <<>> <=> Len(s) = 0
  BY <1>3
<1> QED BY <1>1, <1>2, <1>3, <1>4

LEMMA ShapeKept ==
    ASSUME NEW m, NEW r, Good(m), SameShape(m, r)
    PROVE  Good(r)
BY DEF Good, SameShape, Owned, OwnsAt

LEMMA ShapeTrans ==
    ASSUME NEW m, NEW r, NEW t, SameShape(m, r), SameShape(r, t)
    PROVE  SameShape(m, t)
BY DEF SameShape

LEMMA ShapeSelf ==
    ASSUME NEW m, Memory(m)
    PROVE  SameShape(m, m)
BY DEF SameShape

LEMMA FaultShape ==
    ASSUME NEW m, Memory(m)
    PROVE  SameShape(m, Fault(m))
<1>1. \A e : SameShape(m, [m EXCEPT !.fault = e])
  BY DEF SameShape, Memory
<1> QED BY <1>1, Zenon DEF Fault

LEMMA PutShape ==
    ASSUME NEW m, Memory(m), NEW p, NEW i, NEW s
    PROVE  SameShape(m, Put(m, p, i, s))
<1> DEFINE r == [m EXCEPT !.heap[p] = Overlay(@, i, s)]
<1>1. SameShape(m, r)
  <2>1. /\ r = [obj |-> r.obj, heap |-> r.heap, elem |-> r.elem, fault |-> r.fault]
        /\ r.obj = m.obj
        /\ r.heap = [m.heap EXCEPT ![p] = Overlay(@, i, s)]
    BY DEF Memory
  <2>2. /\ r.heap = [a \in Addrs |-> r.heap[a]]
        /\ \A a \in Addrs : r.heap[a] = IF a = p THEN Overlay(m.heap[a], i, s) ELSE m.heap[a]
    BY <2>1 DEF Memory
  <2>3. ASSUME NEW a \in Addrs
        PROVE  /\ Sequence(Overlay(m.heap[a], i, s))
               /\ Len(Overlay(m.heap[a], i, s)) = Len(m.heap[a])
    <3> DEFINE c == m.heap[a]
               n == Len(c)
               w == Overlay(c, i, s)
    <3>1. Sequence(c)
      BY DEF Memory
    <3>2. n \in Nat /\ DOMAIN c = 1..n
      <4> HIDE DEF c
      <4> QED BY <3>1, SequenceProperty
    <3>3. w = [k \in 1..n |-> w[k]]
      <4> HIDE DEF c, n
      <4> QED BY <3>2 DEF Overlay
    <3> HIDE DEF c, n, w
    <3>4. Sequence(w) /\ Len(w) = n
      BY <3>2, <3>3, SequenceLen
    <3> QED BY <3>4 DEF c, n, w
  <2> HIDE DEF r
  <2>4. \A a \in Addrs : Sequence(r.heap[a]) /\ Len(r.heap[a]) = Len(m.heap[a])
    BY <2>2, <2>3 DEF Memory
  <2> QED BY <2>1, <2>2, <2>4 DEF SameShape, Memory
<1> HIDE DEF r
<1>2. Put(m, p, i, s) \in {m, r, Fault(m)}
  BY DEF Put, r
<1> QED BY <1>1, <1>2, FaultShape, ShapeSelf

LEMMA CopyFromShape ==
    ASSUME NEW m, Memory(m), NEW src, NEW n, NEW dst, NEW i
    PROVE  SameShape(m, CopyFrom(m, src, n, dst, i))
BY PutShape, FaultShape DEF CopyFrom

LEMMA DestroyRangeShape ==
    ASSUME NEW m, Memory(m), NEW p, NEW f, NEW l
    PROVE  SameShape(m, DestroyRange(m, p, f, l))
<1>1. ASSUME NEW e PROVE SameShape(m, [m EXCEPT !.elem = e])
  BY DEF SameShape, Memory
<1> QED BY <1>1, FaultShape, ShapeSelf DEF DestroyRange

LEMMA AssignElementsShape ==
    ASSUME NEW m, Memory(m), NEW o, NEW s
    PROVE  SameShape(m, AssignElements(m, o, s))
<1>1. ASSUME NEW e PROVE SameShape(m, [m EXCEPT !.elem = e])
  BY DEF SameShape, Memory
<1> QED BY <1>1, FaultShape DEF AssignElements

\* Construct makes one element after the other.
LEMMA ConstructSteps ==
    ASSUME NEW m, NEW p, NEW i, NEW s, Len(s) \in Nat
    PROVE  \E f : /\ f[0] = m
                  /\ \A k \in 1..Len(s) : f[k] = ConstructAt(f[k - 1], p, i + k - 1, s[k])
                  /\ Construct(m, p, i, s) = f[Len(s)]
<1> DEFINE n == Len(s)
           step(x, k) == ConstructAt(x, p, i + k - 1, s[k])
           up(f) == [k \in 0..n |-> IF k = 0 THEN m ELSE step(f[k - 1], k)]
           made == CHOOSE f : f = up(f)
           Partly(f, l) == /\ f = [k \in 0..n |-> f[k]] /\ f[0] = m
                           /\ \A k \in 1..l : f[k] = step(f[k - 1], k)
           S == {l \in 0..n : \E f : Partly(f, l)}
<1>1. Construct(m, p, i, s) = made[n]
  BY DEF Construct
<1> HIDE DEF n, step
<1>2. 0 \in S
  <2> DEFINE f == [k \in 0..n |-> m]
  <2>1. Partly(f, 0)
    BY DEF n
  <2> HIDE DEF f, Partly
  <2> QED BY <2>1 DEF n
<1>3. ASSUME NEW l \in 1..n, l - 1 \in S PROVE l \in S
  <2>1. PICK f : Partly(f, l - 1)
    BY <1>3
  <2> DEFINE g == [k \in 0..n |-> IF k = l THEN step(f[l - 1], l) ELSE f[k]]
  <2>2. g = [k \in 0..n |-> g[k]]
    OBVIOUS
  <2>3. g[0] = m
    BY <1>3, <2>1 DEF n
  <2>4. ASSUME NEW k \in 1..l PROVE g[k] = step(g[k - 1], k)
    <3>1. k - 1 \in 0..n /\ k - 1 # l /\ k \in 0..n /\ g[k - 1] = f[k - 1]
      BY <1>3 DEF n
    <3>2. CASE k = l
      BY <3>1, <3>2
    <3>3. CASE k # l
      <4>1. k \in 1..(l - 1)
        BY <1>3, <3>3 DEF n
      <4>2. f[k] = step(f[k - 1], k)
        BY <2>1, <4>1
      <4>3. g[k] = f[k]
        BY <3>1, <3>3
      <4> HIDE DEF g
      <4> QED BY <3>1, <4>2, <4>3
    <3> QED BY <3>2, <3>3
  <2>5. Partly(g, l)
    <3> HIDE DEF g
    <3> QED BY <2>2, <2>3, <2>4
  <2> HIDE DEF g, Partly
  <2> QED BY <1>3, <2>5
<1>4. \E f : Partly(f, n)
  <2> HIDE DEF S
  <2>1. 0..n \subseteq S
    BY <1>2, <1>3, UpTo DEF n
  <2>2. n \in S
    BY <2>1 DEF n
  <2> QED BY <2>2 DEF S
<1>5. \E f : f = up(f)
  <2>1. PICK f : Partly(f, n)
    BY <1>4
  <2>2. \A k \in 0..n : f[k] = IF k = 0 THEN m ELSE step(f[k - 1], k)
    BY <2>1 DEF n
  <2>3. f = up(f)
    BY <2>1, <2>2
  <2> QED BY <2>3
<1>6. made = up(made)
  BY <1>5
<1> HIDE DEF made
<1>7. made[0] = m /\ \A k \in 1..n : made[k] = step(made[k - 1], k)
  BY <1>6 DEF n
<1> QED BY <1>1, <1>7 DEF n, step

LEMMA ConstructAtShape ==
    ASSUME NEW m, Memory(m), NEW p, NEW k, NEW v
    PROVE  SameShape(m, ConstructAt(m, p, k, v))
<1> DEFINE r == [m EXCEPT !.elem[FreeToken(m)] = v]
<1>1. SameShape(m, r)
  BY DEF SameShape, Memory
<1>2. Memory(r)
  BY <1>1 DEF SameShape
<1>3. ConstructAt(m, p, k, v) = Put(r, p, k, <<FreeToken(m)>>)
  BY DEF ConstructAt
<1> HIDE DEF r
<1>4. SameShape(r, ConstructAt(m, p, k, v))
  BY <1>2, <1>3, PutShape
<1> QED BY <1>1, <1>4, ShapeTrans

LEMMA ConstructShape ==
    ASSUME NEW m, Memory(m), NEW p, NEW i, NEW s, Len(s) \in Nat
    PROVE  SameShape(m, Construct(m, p, i, s))
<1>1. PICK f : /\ f[0] = m
               /\ \A k \in 1..Len(s) : f[k] = ConstructAt(f[k - 1], p, i + k - 1, s[k])
               /\ Construct(m, p, i, s) = f[Len(s)]
  BY ConstructSteps
<1> DEFINE S == {k \in 0..Len(s) : SameShape(m, f[k])}
<1>2. 0 \in S
  BY <1>1, ShapeSelf
<1>3. ASSUME NEW k \in 1..Len(s), k - 1 \in S PROVE k \in S
  <2>1. SameShape(m, f[k - 1])
    BY <1>3
  <2>2. Memory(f[k - 1])
    BY <2>1 DEF SameShape
  <2>3. SameShape(f[k - 1], f[k])
    BY <1>1, <2>2, ConstructAtShape
  <2>4. SameShape(m, f[k])
    BY <2>1, <2>3, ShapeTrans
  <2> QED BY <2>4
<1>4. Len(s) \in S
  <2> HIDE DEF S
  <2>1. 0..Len(s) \subseteq S
    BY <1>2, <1>3, UpTo
  <2> QED BY <2>1
<1> QED BY <1>1, <1>4

-----------------------------------------------------------------------------
(* The heap's operations *)

\* There is always a free block: one more than there are containers.
LEMMA FreeAddrProperty ==
    ASSUME NEW m, Good(m)
    PROVE  FreeAddr(m) \in Addrs /\ m.heap[FreeAddr(m)] = <<>>
<1>0. IsFiniteSet(Objects) /\ Cardinality(Objects) \in Nat
  BY MemoryAssumption, FS_CardinalityType
<1> DEFINE Free == {a \in Addrs : m.heap[a] = <<>>}
<1>1. Free # {}
  <2> SUFFICES ASSUME Free = {} PROVE FALSE
    OBVIOUS
  <2>1. \A a \in Addrs : \E o \in Objects : OwnsAt(m, o, a)
    <3> TAKE a \in Addrs
    <3>1. m.heap[a] # <<>>
      OBVIOUS
    <3>2. Len(m.heap[a]) # 0
      BY <3>1, SequenceProperty DEF Good, Memory
    <3> QED BY <3>2 DEF Good, Owned
  <2> DEFINE f == [a \in Addrs |-> CHOOSE o \in Objects : OwnsAt(m, o, a)]
  <2>2. \A a \in Addrs : f[a] \in Objects /\ OwnsAt(m, f[a], a)
    BY <2>1
  <2>3. f \in [Addrs -> Objects]
    BY <2>1
  <2>4. IsFiniteSet(Addrs) /\ Cardinality(Addrs) = Cardinality(Objects) + 1
    BY <1>0, FS_Interval DEF Addrs
  <2> HIDE DEF f
  <2>5. PICK a \in Addrs, b \in Addrs : a # b /\ f[a] = f[b]
    <3>1. Cardinality(Objects) < Cardinality(Addrs)
      BY <1>0, <2>4
    <3> QED BY <1>0, <2>3, <2>4, <3>1, FS_PigeonHole
  <2> QED BY <2>2, <2>5 DEF OwnsAt
<1>2. PICK a \in Free : \A b \in Free : a <= b
  <2>1. Free \in SUBSET Nat
    BY <1>0 DEF Addrs
  <2> HIDE DEF Free
  <2> QED BY <1>1, <2>1, LeastNat
<1>3. \A b \in 1..(a - 1) : m.heap[b] # <<>>
  <2> TAKE b \in 1..(a - 1)
  <2>1. b \in Addrs /\ ~(a <= b)
    BY <1>0 DEF Addrs
  <2> QED BY <1>2, <2>1
<1> QED BY <1>3 DEF FreeAddr

LEMMA HeapSet ==
    ASSUME NEW m, Memory(m), NEW a \in Addrs, NEW s, Sequence(s)
    PROVE  LET r == [m EXCEPT !.heap[a] = s]
           IN  /\ Memory(r) /\ r.obj = m.obj /\ r.heap[a] = s
               /\ \A b \in Addrs : b # a => r.heap[b] = m.heap[b]
<1> DEFINE r == [m EXCEPT !.heap[a] = s]
<1>1. /\ r = [obj |-> r.obj, heap |-> r.heap, elem |-> r.elem, fault |-> r.fault]
      /\ r.obj = m.obj
      /\ r.heap = [m.heap EXCEPT ![a] = s]
  BY DEF Memory
<1>2. /\ r.heap = [b \in Addrs |-> r.heap[b]]
      /\ \A b \in Addrs : r.heap[b] = IF b = a THEN s ELSE m.heap[b]
  BY <1>1 DEF Memory
<1> HIDE DEF r
<1>3. Memory(r)
  BY <1>1, <1>2 DEF Memory
<1> QED BY <1>1, <1>2, <1>3 DEF r

LEMMA EmptySequence == Sequence(<<>>) /\ Len(<<>>) = 0
<1>1. <<>> = [k \in 1..0 |-> <<>>[k]]
  OBVIOUS
<1> QED BY <1>1, SequenceLen

\* A block is released by its owner's address.
LEMMA ReleaseShape ==
    ASSUME NEW m, Memory(m), NEW p \in Addrs \cup {Null}, p # Null => Len(m.heap[p]) # 0
    PROVE  LET r == Release(m, p)
           IN  /\ Memory(r) /\ r.obj = m.obj
               /\ \A a \in Addrs : Len(r.heap[a]) = IF a = p THEN 0 ELSE Len(m.heap[a])
<1>0. Null \notin Addrs
  BY MemoryAssumption, FS_CardinalityType DEF Addrs, Null
<1>1. CASE p = Null
  BY <1>0, <1>1 DEF Release
<1>2. CASE p # Null
  <2>1. p \in Addrs /\ m.heap[p] # <<>>
    BY <1>2, EmptySequence
  <2>2. Release(m, p) = [m EXCEPT !.heap[p] = <<>>]
    BY <1>2, <2>1 DEF Release
  <2> QED BY <2>1, <2>2, HeapSet, EmptySequence
<1> QED BY <1>1, <1>2

LEMMA ReallocShape ==
    ASSUME NEW m, Good(m), NEW old \in Addrs \cup {Null}, old # Null => Len(m.heap[old]) # 0,
           NEW c \in Nat
    PROVE  LET r == Realloc(m, old, c)
               new == FreeAddr(m)
           IN  /\ Memory(r) /\ r.obj = m.obj
               /\ new \in Addrs /\ Len(m.heap[new]) = 0 /\ Len(r.heap[new]) = c
               /\ \A a \in Addrs : a # new =>
                    Len(r.heap[a]) = IF a = old THEN 0 ELSE Len(m.heap[a])
<1> DEFINE new == FreeAddr(m)
           was == IF old = Null THEN <<>> ELSE m.heap[old]
           s == [k \in 1..c |-> IF k <= Len(was) THEN was[k] ELSE Junk]
           x == [m EXCEPT !.heap[new] = s]
<1>1. new \in Addrs /\ Len(m.heap[new]) = 0 /\ new # old
  <2>1. new \in Addrs /\ Len(m.heap[new]) = 0
    BY FreeAddrProperty, EmptySequence
  <2>2. Null \notin Addrs
    BY MemoryAssumption, FS_CardinalityType DEF Addrs, Null
  <2> QED BY <2>1, <2>2
<1>2. Realloc(m, old, c) = Release(x, old)
  BY DEF Realloc
<1>3. Sequence(s) /\ Len(s) = c
  <2>1. s = [k \in 1..c |-> s[k]]
    OBVIOUS
  <2> HIDE DEF s
  <2> QED BY <2>1, SequenceLen
<1> HIDE DEF new, was, s
<1>4. /\ Memory(x) /\ x.obj = m.obj /\ x.heap[new] = s
      /\ \A b \in Addrs : b # new => x.heap[b] = m.heap[b]
  BY <1>1, <1>3, HeapSet DEF Good
<1> HIDE DEF x
<1>5. old # Null => Len(x.heap[old]) # 0
  BY <1>1, <1>4
<1>6. /\ Memory(Release(x, old)) /\ Release(x, old).obj = x.obj
      /\ \A a \in Addrs : Len(Release(x, old).heap[a]) = IF a = old THEN 0 ELSE Len(x.heap[a])
  BY <1>4, <1>5, ReleaseShape
<1> QED BY <1>1, <1>2, <1>3, <1>4, <1>6 DEF new

\* A container takes a new block, and its old one, if it owned one, is gone.
LEMMA TakesBlock ==
    ASSUME NEW m, Good(m), NEW o \in Objects, NEW r, Memory(r), r.obj[o].made,
           NEW new \in Addrs, Len(m.heap[new]) = 0,
           r.obj[o].data = new, r.obj[o].cap > 0, Len(r.heap[new]) = r.obj[o].cap,
           \A q \in Objects : q # o => r.obj[q] = m.obj[q],
           \A a \in Addrs : a # new =>
                Len(r.heap[a]) = IF OwnsAt(m, o, a) THEN 0 ELSE Len(m.heap[a])
    PROVE  Good(r)
<1>1. \A q \in Objects : ~OwnsAt(m, q, new)
  BY DEF Good, Owned, OwnsAt
<1>2. ASSUME NEW q \in Objects, q # o, m.obj[q].cap > 0
      PROVE  /\ m.obj[q].data \in Addrs /\ m.obj[q].data # new /\ ~OwnsAt(m, o, m.obj[q].data)
             /\ Len(r.heap[m.obj[q].data]) = m.obj[q].cap
  BY <1>1, <1>2 DEF Good, Owned, OwnsAt
<1>3. ASSUME NEW a \in Addrs, Len(r.heap[a]) # 0 PROVE \E q \in Objects : OwnsAt(r, q, a)
  <2>1. CASE a = new
    BY <2>1 DEF OwnsAt
  <2>2. CASE a # new
    <3>1. ~OwnsAt(m, o, a) /\ Len(m.heap[a]) # 0
      BY <1>3, <2>2
    <3>2. PICK q \in Objects : OwnsAt(m, q, a)
      BY <3>1 DEF Good, Owned
    <3> QED BY <3>1, <3>2 DEF OwnsAt
  <2> QED BY <2>1, <2>2
<1>4. \A q, t \in Objects, a \in Addrs : OwnsAt(r, q, a) /\ OwnsAt(r, t, a) => q = t
  BY <1>1, <1>2 DEF Good, Owned, OwnsAt
<1>5. \A q \in Objects : r.obj[q].cap > 0 =>
        /\ r.obj[q].made /\ r.obj[q].data \in Addrs
        /\ Len(r.heap[r.obj[q].data]) = r.obj[q].cap
  BY <1>2 DEF Good, Owned
<1> QED BY <1>3, <1>4, <1>5 DEF Good, Owned

\* The block a container owns, or none.
LEMMA OwnBlock ==
    ASSUME NEW m, Good(m), NEW o \in Objects
    PROVE  LET old == IF m.obj[o].cap > 0 THEN m.obj[o].data ELSE Null
           IN  /\ old \in Addrs \cup {Null}
               /\ old # Null => Len(m.heap[old]) # 0
               /\ \A a \in Addrs : OwnsAt(m, o, a) <=> a = old
<1>1. Null \notin Addrs /\ m.obj[o].cap \in Nat
  BY MemoryAssumption, FS_CardinalityType DEF Addrs, Null, Good, Memory, Block
<1> QED BY <1>1 DEF Good, Owned, OwnsAt

-----------------------------------------------------------------------------
(* What the containers do *)

LEMMA ObjSet ==
    ASSUME NEW m, Memory(m), NEW o \in Objects, NEW b \in Block
    PROVE  LET r == [m EXCEPT !.obj[o] = b]
           IN  /\ Memory(r) /\ r.heap = m.heap /\ r.obj[o] = b
               /\ \A q \in Objects : q # o => r.obj[q] = m.obj[q]
<1> DEFINE r == [m EXCEPT !.obj[o] = b]
<1>1. /\ r = [obj |-> r.obj, heap |-> r.heap, elem |-> r.elem, fault |-> r.fault]
      /\ r.heap = m.heap
      /\ r.obj = [m.obj EXCEPT ![o] = b]
  BY DEF Memory
<1>2. /\ r.obj \in [Objects -> Block] /\ r.obj[o] = b
      /\ \A q \in Objects : q # o => r.obj[q] = m.obj[q]
  BY <1>1 DEF Memory
<1> HIDE DEF r
<1>3. Memory(r)
  BY <1>1, <1>2 DEF Memory
<1> QED BY <1>1, <1>2, <1>3 DEF r

LEMMA BlockSet ==
    ASSUME NEW b \in Block, NEW p \in Int, NEW c \in Nat
    PROVE  LET d == [b EXCEPT !.data = p, !.cap = c]
           IN  /\ d \in Block /\ d.data = p /\ d.cap = c
               /\ d.made = b.made /\ d.size = b.size /\ d.zt = b.zt
BY DEF Block

LEMMA BlockReset ==
    ASSUME NEW b \in Block, NEW p \in Int, NEW n \in Int, NEW c \in Nat
    PROVE  LET d == [b EXCEPT !.data = p, !.size = n, !.cap = c]
           IN  /\ d \in Block /\ d.data = p /\ d.size = n /\ d.cap = c
               /\ d.made = b.made /\ d.zt = b.zt
BY DEF Block

\* Only the size of a container changes.
LEMMA SetSizeGood ==
    ASSUME NEW m, Good(m), NEW o \in Objects, NEW n \in Int
    PROVE  LET r == SetSize(m, o, n)
           IN  Good(r) /\ r.obj[o] = [m.obj[o] EXCEPT !.size = n]
<1> DEFINE b == [m.obj[o] EXCEPT !.size = n]
           r == [m EXCEPT !.obj[o] = b]
<1>1. m.obj[o] \in Block
  BY DEF Good, Memory
<1>2. b \in Block /\ b.made = m.obj[o].made /\ b.data = m.obj[o].data /\ b.cap = m.obj[o].cap
  BY <1>1 DEF Block
<1>3. SetSize(m, o, n) = r
  BY <1>1 DEF SetSize, Good, Memory, Block
<1> HIDE DEF b
<1>4. /\ Memory(r) /\ r.heap = m.heap /\ r.obj[o] = b
      /\ \A q \in Objects : q # o => r.obj[q] = m.obj[q]
  BY <1>2, ObjSet DEF Good
<1> HIDE DEF r
<1>5. \A q \in Objects : /\ r.obj[q].made = m.obj[q].made /\ r.obj[q].data = m.obj[q].data
                         /\ r.obj[q].cap = m.obj[q].cap
  BY <1>2, <1>4
<1>6. Owned(r)
  BY <1>4, <1>5 DEF Good, Owned, OwnsAt
<1> QED BY <1>3, <1>4, <1>6 DEF Good, b

LEMMA ReserveGood ==
    ASSUME NEW m, Good(m), NEW o \in Objects, m.obj[o].made, NEW n \in Int
    PROVE  LET r == Reserve(m, o, n)
           IN  Good(r) /\ r.obj[o].made /\ r.obj[o].size = m.obj[o].size /\ r.obj[o].zt = m.obj[o].zt
<1> DEFINE b == m.obj[o]
           cap == Needed(b, n)
           old == IF b.cap > 0 THEN b.data ELSE Null
           new == FreeAddr(m)
           c == NextPow2(cap)
           r == Realloc(m, old, c)
           fit == IF b.size + Zt(b) < c THEN b.size + Zt(b) ELSE c
           copied == IF old = Null /\ b.data # Null THEN CopyFrom(r, b.data, fit, new, 0) ELSE r
           d == [b EXCEPT !.data = new, !.cap = c]
           t == [copied EXCEPT !.obj[o] = d]
<1>1. b \in Block /\ b.made
  BY DEF Good, Memory
<1>2. CASE cap <= b.cap
  <2>1. Reserve(m, o, n) = m
    BY <1>2 DEF Reserve
  <2> QED BY <1>1, <2>1
<1>3. CASE ~(cap <= b.cap)
  <2>1. cap \in Nat /\ cap > 0 /\ c \in Nat /\ c >= 2
    <3>1. cap \in Nat /\ cap > 0
      BY <1>1, <1>3 DEF Needed, Zt, Block
    <3> HIDE DEF cap
    <3> QED BY <3>1, NextPow2Property
  <2>2. /\ old \in Addrs \cup {Null} /\ (old # Null => Len(m.heap[old]) # 0)
        /\ \A a \in Addrs : OwnsAt(m, o, a) <=> a = old
    BY OwnBlock
  <2> HIDE DEF old, c, cap
  <2>3. /\ Memory(r) /\ r.obj = m.obj
        /\ new \in Addrs /\ Len(m.heap[new]) = 0 /\ Len(r.heap[new]) = c
        /\ \A a \in Addrs : a # new =>
             Len(r.heap[a]) = IF a = old THEN 0 ELSE Len(m.heap[a])
    BY <2>1, <2>2, ReallocShape
  <2> HIDE DEF r, new, fit
  <2>4. SameShape(r, copied)
    BY <2>3, CopyFromShape, ShapeSelf
  <2>5. /\ Memory(copied) /\ copied.obj = m.obj
        /\ \A a \in Addrs : Len(copied.heap[a]) = Len(r.heap[a])
    BY <2>3, <2>4 DEF SameShape
  <2>6. Reserve(m, o, n) = t
    <3>1. Reserve(m, o, n) = [copied EXCEPT !.obj[o].data = new, !.obj[o].cap = c]
      BY <1>3 DEF Reserve, cap, old, new, c, r, fit
    <3> HIDE DEF copied
    <3> QED BY <1>1, <2>5, <3>1 DEF Memory, Block
  <2> HIDE DEF copied
  <2>7. /\ d \in Block /\ d.made /\ d.data = new /\ d.cap = c /\ d.size = b.size /\ d.zt = b.zt
    <3>1. new \in Int
      BY <2>3, MemoryAssumption, FS_CardinalityType DEF Addrs
    <3> HIDE DEF b
    <3>2. /\ d \in Block /\ d.data = new /\ d.cap = c
          /\ d.made = b.made /\ d.size = b.size /\ d.zt = b.zt
      <4>1. b \in Block /\ new \in Int /\ c \in Nat
        BY <1>1, <2>1, <3>1
      <4>2. d \in Block
        BY <4>1 DEF Block
      <4>3. d.data = new 
        BY <4>1 DEF Block
      <4>4. d.cap = c
        BY <4>1 DEF Block
      <4>5. d.size = b.size 
        BY <4>1 DEF Block
      <4>6. d.zt = b.zt
        BY <4>1 DEF Block
      <4>7. d.made = b.made
        BY <4>1 DEF Block
      <4> QED BY <4>2, <4>3, <4>4, <4>5, <4>6, <4>7
    <3> HIDE DEF d
    <3>3. d.made
      BY <1>1, <3>2, Zenon
    <3> QED BY <3>2, <3>3
  <2> HIDE DEF d
  <2>8. /\ Memory(t) /\ t.heap = copied.heap /\ t.obj[o] = d
        /\ \A q \in Objects : q # o => t.obj[q] = m.obj[q]
    BY <2>5, <2>7, ObjSet
  <2> HIDE DEF t
  <2>9. Good(t)
    BY <2>1, <2>2, <2>3, <2>5, <2>7, <2>8, TakesBlock
  <2> QED BY <2>6, <2>7, <2>8, <2>9
<1> QED BY <1>2, <1>3

LEMMA ResizeGood ==
    ASSUME NEW m, Good(m), NEW o \in Objects, m.obj[o].made, NEW n \in Int
    PROVE  LET r == Resize(m, o, n)
           IN  Good(r) /\ r.obj[o].made /\ r.obj[o].size = n /\ r.obj[o].zt = m.obj[o].zt
<1> DEFINE v == Reserve(m, o, n)
           s == SetSize(v, o, n)
<1>1. Good(v) /\ v.obj[o].made /\ v.obj[o].zt = m.obj[o].zt
  BY ReserveGood
<1> HIDE DEF v
<1>2. Good(s) /\ s.obj[o] = [v.obj[o] EXCEPT !.size = n] /\ v.obj[o] \in Block
  <2>1. v.obj[o] \in Block
    BY <1>1 DEF Good, Memory
  <2> QED BY <1>1, <2>1, SetSizeGood
<1>3. s.obj[o].made /\ s.obj[o].size = n /\ s.obj[o].zt = m.obj[o].zt
  BY <1>1, <1>2 DEF Block
<1>4. Resize(m, o, n) = IF s.obj[o].zt THEN Put(s, s.obj[o].data, n, <<Nul>>) ELSE s
  BY DEF Resize, v
<1> HIDE DEF s
<1>5. SameShape(s, Resize(m, o, n))
  BY <1>2, <1>4, PutShape, ShapeSelf DEF Good
<1> QED BY <1>2, <1>3, <1>5, ShapeKept DEF SameShape

\* A container that is constructed, in a good memory.
Usable(m, o) == Good(m) /\ m.obj[o].made

LEMMA UsableType ==
    ASSUME NEW m, NEW o \in Objects, Usable(m, o)
    PROVE  /\ Memory(m) /\ m.obj[o] \in Block /\ m.obj[o].size \in Int
           /\ m.obj[o].cap \in Nat /\ Zt(m.obj[o]) \in {0, 1}
BY DEF Usable, Good, Memory, Block, Zt

LEMMA UsableKept ==
    ASSUME NEW m, NEW r, NEW o, Usable(m, o), SameShape(m, r)
    PROVE  Usable(r, o)
BY ShapeKept DEF Usable, SameShape

LEMMA ResizeUsable ==
    ASSUME NEW m, NEW o \in Objects, Usable(m, o), NEW n \in Int
    PROVE  Usable(Resize(m, o, n), o) /\ Resize(m, o, n).obj[o].size = n
BY ResizeGood DEF Usable

LEMMA SetSizeUsable ==
    ASSUME NEW m, NEW o \in Objects, Usable(m, o), NEW n \in Int
    PROVE  Usable(SetSize(m, o, n), o)
<1>1. m.obj[o] \in Block
  BY UsableType
<1>2. Good(SetSize(m, o, n)) /\ SetSize(m, o, n).obj[o] = [m.obj[o] EXCEPT !.size = n]
  BY SetSizeGood DEF Usable
<1>3. SetSize(m, o, n).obj[o].made
  BY <1>1, <1>2 DEF Usable, Block
<1> QED BY <1>2, <1>3 DEF Usable

LEMMA PutUsable ==
    ASSUME NEW m, NEW o \in Objects, Usable(m, o), NEW p, NEW i, NEW s
    PROVE  Usable(Put(m, p, i, s), o)
BY PutShape, UsableKept, UsableType

LEMMA CopyFromUsable ==
    ASSUME NEW m, NEW o \in Objects, Usable(m, o), NEW p, NEW n, NEW q, NEW i
    PROVE  Usable(CopyFrom(m, p, n, q, i), o)
BY CopyFromShape, UsableKept, UsableType

LEMMA AssignUsable ==
    ASSUME NEW m, NEW o \in Objects, Usable(m, o), NEW p, NEW n \in Int
    PROVE  Usable(Assign(m, o, p, n), o)
BY ResizeUsable, CopyFromUsable DEF Assign

LEMMA InsertHoleUsable ==
    ASSUME NEW m, NEW o \in Objects, Usable(m, o), NEW i, NEW n \in Int
    PROVE  Usable(InsertHole(m, o, i, n), o)
<1>1. Usable(Resize(m, o, m.obj[o].size + n), o)
  BY ResizeUsable, UsableType
<1> QED BY <1>1, PutUsable DEF InsertHole

LEMMA InsertCellsUsable ==
    ASSUME NEW m, NEW o \in Objects, Usable(m, o), NEW i, NEW p, NEW n \in Int
    PROVE  Usable(InsertCells(m, o, i, p, n), o)
BY InsertHoleUsable, CopyFromUsable DEF InsertCells

LEMMA EraseUsable ==
    ASSUME NEW m, NEW o \in Objects, Usable(m, o), NEW i, NEW n \in Int
    PROVE  Usable(Erase(m, o, i, n), o)
<1> DEFINE b == m.obj[o]
           moved == IF b.size = i + n \/ n = 0 THEN m
                    ELSE Put(m, b.data, 0, CopyN(Cells(m, b.data), i + n, b.size - (i + n), i))
<1>1. Usable(moved, o)
  BY PutUsable
<1>2. Erase(m, o, i, n) = Resize(moved, o, b.size - n)
  BY DEF Erase
<1>3. b.size - n \in Int
  BY UsableType
<1> HIDE DEF moved, b
<1> QED BY <1>1, <1>2, <1>3, ResizeUsable

LEMMA ReplaceUsable ==
    ASSUME NEW m, NEW o \in Objects, Usable(m, o), NEW i, NEW d \in Int, NEW p, NEW n \in Int
    PROVE  Usable(Replace(m, o, i, d, p, n), o)
<1> DEFINE w == IF n > d THEN InsertHole(m, o, i, n - d) ELSE Erase(m, o, i, d - n)
<1>1. n - d \in Int /\ d - n \in Int
  OBVIOUS
<1>2. Usable(w, o)
  BY <1>1, InsertHoleUsable, EraseUsable
<1>3. Replace(m, o, i, d, p, n) = CopyFrom(w, p, n, w.obj[o].data, i)
  BY DEF Replace
<1> HIDE DEF w
<1> QED BY <1>2, <1>3, CopyFromUsable

LEMMA ReserveUsable ==
    ASSUME NEW m, NEW o \in Objects, Usable(m, o), NEW n \in Int
    PROVE  Usable(Reserve(m, o, n), o)
BY ReserveGood DEF Usable

\* deallocate: the block goes and the container owns none.
LEMMA DeallocateUsable ==
    ASSUME NEW m, NEW o \in Objects, Usable(m, o)
    PROVE  /\ Usable(Deallocate(m, o), o) /\ Deallocate(m, o).obj[o].cap = 0
<1> DEFINE b == [m.obj[o] EXCEPT !.data = Null, !.size = 0, !.cap = 0]
           u == [m EXCEPT !.obj[o] = b]
           old == IF m.obj[o].cap > 0 THEN m.obj[o].data ELSE Null
           r == Release(u, old)
<1>1. m.obj[o] \in Block /\ m.obj[o].made /\ Memory(m)
  BY UsableType DEF Usable
<1>2. Deallocate(m, o) = r
  BY <1>1 DEF Deallocate, Unlink, Memory
<1>3. b \in Block /\ b.cap = 0 /\ b.made
  <2>1. Null \in Int /\ 0 \in Int /\ 0 \in Nat
    BY DEF Null
  <2>2. b \in Block /\ b.cap = 0 /\ b.made = m.obj[o].made
    <3> DEFINE d == m.obj[o]
    <3> HIDE DEF d
    <3>1. d \in Block
      BY <1>1 DEF d
    <3> DEFINE e == [d EXCEPT !.data = Null, !.size = 0, !.cap = 0]
    <3>2. e \in Block
      BY <2>1, <3>1 DEF Block
    <3>3. e.cap = 0
      BY <3>1 DEF Block
    <3>4. e.made = d.made
      BY <3>1 DEF Block
    <3> QED BY <3>2, <3>3, <3>4 DEF d
  <2> HIDE DEF b
  <2>3. b.made
    BY <1>1, <2>2, Zenon
  <2> QED BY <2>2, <2>3
<1> HIDE DEF b
<1>4. /\ Memory(u) /\ u.heap = m.heap /\ u.obj[o] = b
      /\ \A q \in Objects : q # o => u.obj[q] = m.obj[q]
  BY <1>1, <1>3, ObjSet
<1>5. /\ old \in Addrs \cup {Null} /\ (old # Null => Len(m.heap[old]) # 0)
      /\ \A a \in Addrs : OwnsAt(m, o, a) <=> a = old
  BY OwnBlock DEF Usable
<1> HIDE DEF u, old
<1>6. /\ Memory(r) /\ r.obj = u.obj
      /\ \A a \in Addrs : Len(r.heap[a]) = IF a = old THEN 0 ELSE Len(u.heap[a])
  BY <1>4, <1>5, ReleaseShape
<1> HIDE DEF r
<1>7. Owned(r)
  <2>1. \A q \in Objects, a \in Addrs : OwnsAt(r, q, a) <=> q # o /\ OwnsAt(m, q, a)
    BY <1>3, <1>4, <1>6 DEF OwnsAt
  <2>2. ASSUME NEW q \in Objects, r.obj[q].cap > 0
        PROVE  /\ r.obj[q].made /\ r.obj[q].data \in Addrs
               /\ Len(r.heap[r.obj[q].data]) = r.obj[q].cap
    <3>1. q # o /\ r.obj[q] = m.obj[q]
      BY <1>3, <1>4, <1>6, <2>2
    <3>2. /\ m.obj[q].made /\ m.obj[q].data \in Addrs /\ ~OwnsAt(m, o, m.obj[q].data)
          /\ Len(m.heap[m.obj[q].data]) = m.obj[q].cap
      BY <2>2, <3>1 DEF Usable, Good, Owned, OwnsAt
    <3> QED BY <1>4, <1>5, <1>6, <3>1, <3>2
  <2>3. ASSUME NEW a \in Addrs, Len(r.heap[a]) # 0 PROVE \E q \in Objects : OwnsAt(r, q, a)
    <3>1. a # old /\ Len(m.heap[a]) # 0
      BY <1>4, <1>6, <2>3
    <3> QED BY <1>5, <2>1, <3>1 DEF Usable, Good, Owned
  <2>4. \A q, t \in Objects, a \in Addrs : OwnsAt(r, q, a) /\ OwnsAt(r, t, a) => q = t
    BY <2>1 DEF Usable, Good, Owned
  <2> QED BY <2>2, <2>3, <2>4 DEF Owned
<1> QED BY <1>2, <1>3, <1>4, <1>6, <1>7 DEF Usable, Good

\* Containers pass their blocks on among them: what x owns now f[x] owned.
LEMMA PassedOn ==
    ASSUME NEW m, Good(m), NEW r, Memory(r), NEW f \in [Objects -> Objects],
           \A x, y \in Objects : f[x] = f[y] => x = y,
           \A y \in Objects : \E x \in Objects : f[x] = y,
           \A a \in Addrs : Len(r.heap[a]) = Len(m.heap[a]),
           \A x \in Objects : r.obj[x].cap = m.obj[f[x]].cap,
           \A x \in Objects : r.obj[x].cap > 0 =>
                r.obj[x].made /\ r.obj[x].data = m.obj[f[x]].data
    PROVE  Good(r)
<1>1. \A x \in Objects, a \in Addrs : OwnsAt(r, x, a) <=> OwnsAt(m, f[x], a)
  BY DEF OwnsAt
<1>2. ASSUME NEW x \in Objects, r.obj[x].cap > 0
      PROVE  /\ r.obj[x].made /\ r.obj[x].data \in Addrs
             /\ Len(r.heap[r.obj[x].data]) = r.obj[x].cap
  <2>1. f[x] \in Objects /\ m.obj[f[x]].cap > 0
    BY <1>2
  <2> QED BY <1>2, <2>1 DEF Good, Owned
<1>3. \A x, y \in Objects, a \in Addrs : OwnsAt(r, x, a) /\ OwnsAt(r, y, a) => x = y
  BY <1>1 DEF Good, Owned
<1>4. ASSUME NEW a \in Addrs, Len(r.heap[a]) # 0 PROVE \E x \in Objects : OwnsAt(r, x, a)
  <2>1. PICK y \in Objects : OwnsAt(m, y, a)
    BY <1>4 DEF Good, Owned
  <2>2. PICK x \in Objects : f[x] = y
    OBVIOUS
  <2> QED BY <1>1, <2>1, <2>2
<1> QED BY <1>2, <1>3, <1>4 DEF Good, Owned

\* A container that owned no block and still owns none.
LEMMA NoBlock ==
    ASSUME NEW m, Good(m), NEW o \in Objects, m.obj[o].cap = 0,
           NEW b \in Block, b.cap = 0, b.made
    PROVE  Usable([m EXCEPT !.obj[o] = b], o)
<1> DEFINE r == [m EXCEPT !.obj[o] = b]
           f == [x \in Objects |-> x]
<1>1. /\ Memory(r) /\ r.heap = m.heap /\ r.obj[o] = b
      /\ \A q \in Objects : q # o => r.obj[q] = m.obj[q]
  BY ObjSet DEF Good
<1> HIDE DEF r
<1>2. \A x \in Objects : r.obj[x].cap = m.obj[x].cap
  BY <1>1
<1>3. \A x \in Objects : r.obj[x].cap > 0 => r.obj[x].made /\ r.obj[x].data = m.obj[x].data
  BY <1>1 DEF Good, Owned
<1>4. /\ f \in [Objects -> Objects]
      /\ \A x, y \in Objects : f[x] = f[y] => x = y
      /\ \A y \in Objects : \E x \in Objects : f[x] = y
      /\ \A x \in Objects : f[x] = x
  OBVIOUS
<1> HIDE DEF f
<1>5. Good(r)
  BY <1>1, <1>2, <1>3, <1>4, PassedOn
<1> QED BY <1>1, <1>5 DEF Usable, r

LEMMA UnmadeOwnsNothing ==
    ASSUME NEW m, Good(m), NEW o \in Objects, ~m.obj[o].made
    PROVE  m.obj[o].cap = 0
BY DEF Good, Owned, Memory, Block

LEMMA LinkUsable ==
    ASSUME NEW m, Good(m), NEW o \in Objects, ~m.obj[o].made,
           NEW p \in Int, NEW n \in Int, NEW z \in BOOLEAN
    PROVE  Usable(Link(m, o, p, n, z), o)
<1> DEFINE b == [made |-> TRUE, data |-> p, size |-> n, cap |-> 0, zt |-> z]
<1>1. b \in Block /\ b.cap = 0 /\ b.made
  BY DEF Block
<1>2. m.obj[o].cap = 0
  BY UnmadeOwnsNothing
<1>3. Link(m, o, p, n, z) = [m EXCEPT !.obj[o] = b]
  BY DEF Link
<1> HIDE DEF b
<1> QED BY <1>1, <1>2, <1>3, NoBlock

LEMMA SwapGood ==
    ASSUME NEW m, Good(m), NEW o \in Objects, NEW q \in Objects
    PROVE  Good(Swap(m, o, q))
<1> DEFINE u == [m EXCEPT !.obj[o] = m.obj[q]]
           r == [u EXCEPT !.obj[q] = m.obj[o]]
           f == [x \in Objects |-> IF x = o THEN q ELSE IF x = q THEN o ELSE x]
<1>1. Swap(m, o, q) = r /\ Memory(m) /\ m.obj[o] \in Block /\ m.obj[q] \in Block
  BY DEF Swap, Good, Memory
<1>2. /\ Memory(u) /\ u.heap = m.heap /\ u.obj[o] = m.obj[q]
      /\ \A x \in Objects : x # o => u.obj[x] = m.obj[x]
  BY <1>1, ObjSet
<1> HIDE DEF u
<1>3. /\ Memory(r) /\ r.heap = u.heap /\ r.obj[q] = m.obj[o]
      /\ \A x \in Objects : x # q => r.obj[x] = u.obj[x]
  BY <1>1, <1>2, ObjSet
<1> HIDE DEF r
<1>4. \A x \in Objects : r.obj[x] = m.obj[f[x]]
  BY <1>2, <1>3
<1>5. /\ f \in [Objects -> Objects]
      /\ \A x, y \in Objects : f[x] = f[y] => x = y
      /\ \A y \in Objects : \E x \in Objects : f[x] = y
  <2>1. \A y \in Objects : f[f[y]] = y /\ f[y] \in Objects
    OBVIOUS
  <2> QED BY <2>1
<1> HIDE DEF f
<1>6. \A x \in Objects : r.obj[x].cap > 0 => r.obj[x].made
  BY <1>4, <1>5 DEF Good, Owned
<1> QED BY <1>1, <1>2, <1>3, <1>4, <1>5, <1>6, PassedOn

LEMMA MovedFrom ==
    LET e == [Gone EXCEPT !.made = TRUE] IN e \in Block /\ e.cap = 0
<1>1. Gone \in Block /\ Gone.cap = 0
  BY DEF Gone, Null, Block
<1>2. ASSUME NEW b \in Block, NEW v \in BOOLEAN
      PROVE  [b EXCEPT !.made = v] \in Block /\ [b EXCEPT !.made = v].cap = b.cap
  BY DEF Block
<1> QED BY <1>1, <1>2

LEMMA MoveFromGood ==
    ASSUME NEW m, Good(m), NEW o \in Objects, NEW q \in Objects,
           ~m.obj[o].made, m.obj[q].made
    PROVE  Good(MoveFrom(m, o, q))
<1> DEFINE u == [m EXCEPT !.obj[o] = m.obj[q]]
           e == [Gone EXCEPT !.made = TRUE]
           r == [u EXCEPT !.obj[q] = e]
           f == [x \in Objects |-> IF x = o THEN q ELSE IF x = q THEN o ELSE x]
<1>1. MoveFrom(m, o, q) = r /\ Memory(m) /\ m.obj[q] \in Block /\ o # q /\ m.obj[o].cap = 0
  BY UnmadeOwnsNothing DEF MoveFrom, Good, Memory
<1>2. e \in Block /\ e.cap = 0
  BY MovedFrom
<1> HIDE DEF e
<1>3. /\ Memory(u) /\ u.heap = m.heap /\ u.obj[o] = m.obj[q]
      /\ \A x \in Objects : x # o => u.obj[x] = m.obj[x]
  BY <1>1, ObjSet
<1> HIDE DEF u
<1>4. /\ Memory(r) /\ r.heap = u.heap /\ r.obj[q] = e
      /\ \A x \in Objects : x # q => r.obj[x] = u.obj[x]
  BY <1>2, <1>3, ObjSet
<1> HIDE DEF r
<1>5. \A x \in Objects : /\ r.obj[x].cap = m.obj[f[x]].cap
                         /\ x # q => r.obj[x] = m.obj[f[x]]
  BY <1>1, <1>2, <1>3, <1>4
<1>6. /\ f \in [Objects -> Objects]
      /\ \A x, y \in Objects : f[x] = f[y] => x = y
      /\ \A y \in Objects : \E x \in Objects : f[x] = y
  <2>1. \A y \in Objects : f[f[y]] = y /\ f[y] \in Objects
    OBVIOUS
  <2> QED BY <2>1
<1> HIDE DEF f
<1>7. \A x \in Objects : r.obj[x].cap > 0 =>
        r.obj[x].made /\ r.obj[x].data = m.obj[f[x]].data
  BY <1>2, <1>4, <1>5, <1>6 DEF Good, Owned
<1> QED BY <1>1, <1>3, <1>4, <1>5, <1>6, <1>7, PassedOn

LEMMA AddrIsNumber == \A a \in Addrs : a \in Int /\ a # Null /\ a > 0
BY MemoryAssumption, FS_CardinalityType DEF Addrs, Null

LEMMA ShrinkToFitUsable ==
    ASSUME NEW m, NEW o \in Objects, Usable(m, o), m.obj[o].cap > 0, m.obj[o].size > 0
    PROVE  Usable(ShrinkToFit(m, o), o)
<1> DEFINE b == m.obj[o]
           c == b.size + Zt(b)
           old == b.data
           new == FreeAddr(m)
           r == Realloc(m, old, c)
           d == [b EXCEPT !.data = new, !.cap = c]
           t == [r EXCEPT !.obj[o] = d]
<1>1. b \in Block /\ c \in Nat /\ c > 0 /\ Good(m)
  <2>1. b.size \in Int /\ b.size > 0 /\ Zt(b) \in {0, 1} /\ b \in Block
    BY UsableType
  <2> HIDE DEF b
  <2> QED BY <2>1 DEF Usable
<1>2. /\ old \in Addrs /\ Len(m.heap[old]) # 0
      /\ \A a \in Addrs : OwnsAt(m, o, a) <=> a = old
  BY <1>1 DEF Usable, Good, Owned, OwnsAt
<1>3. ShrinkToFit(m, o) = [r EXCEPT !.obj[o].data = new, !.obj[o].cap = c]
  BY DEF ShrinkToFit
<1> HIDE DEF c, old
<1>4. /\ Memory(r) /\ r.obj = m.obj
      /\ new \in Addrs /\ Len(m.heap[new]) = 0 /\ Len(r.heap[new]) = c
      /\ \A a \in Addrs : a # new =>
           Len(r.heap[a]) = IF a = old THEN 0 ELSE Len(m.heap[a])
  BY <1>1, <1>2, ReallocShape
<1> HIDE DEF r, new
<1>5. ShrinkToFit(m, o) = t
  BY <1>1, <1>3, <1>4 DEF Memory, Block
<1>6. d \in Block /\ d.data = new /\ d.cap = c /\ d.made = b.made
  <2>1. new \in Int
    BY <1>4, AddrIsNumber
  <2> HIDE DEF b
  <2>2. d \in Block
    BY <1>1, <2>1 DEF Block
  <2>3. d.data = new
    BY <1>1 DEF Block
  <2>4. d.cap = c
    BY <1>1 DEF Block
  <2>5. d.made = b.made
    BY <1>1 DEF Block
  <2> QED BY <2>2, <2>3, <2>4, <2>5
<1> HIDE DEF d
<1>7. d.made
  BY <1>6, Zenon DEF Usable
<1>8. /\ Memory(t) /\ t.heap = r.heap /\ t.obj[o] = d
      /\ \A q \in Objects : q # o => t.obj[q] = m.obj[q]
  BY <1>4, <1>6, ObjSet
<1> HIDE DEF t
<1>9. Good(t)
  BY <1>1, <1>2, <1>4, <1>6, <1>7, <1>8, TakesBlock
<1> QED BY <1>5, <1>7, <1>8, <1>9 DEF Usable

LEMMA LiteralProperty ==
    ASSUME NEW k \in DOMAIN Literals
    PROVE  Sequence(Literals[k]) /\ Len(Literals[k]) \in Nat
<1> DEFINE s == Literals[k]
<1>1. s \in Seq(Values)
  BY MemoryAssumption
<1> HIDE DEF s
<1>2. Len(s) \in Nat /\ s = [i \in 1..Len(s) |-> s[i]]
  BY <1>1
<1>3. Sequence(s)
  BY <1>2 DEF Sequence
<1> QED BY <1>2, <1>3 DEF s

LEMMA ManageUsable ==
    ASSUME NEW m, NEW o \in Objects, Usable(m, o), m.obj[o].cap = 0,
           NEW k \in DOMAIN Literals, Literals[k] # <<>>
    PROVE  Usable(Manage(m, o, k), o)
<1> DEFINE b == m.obj[o]
           c == Len(Literals[k])
           new == FreeAddr(m)
           r == [m EXCEPT !.heap[new] = Literals[k]]
           d == [b EXCEPT !.data = new, !.size = c, !.cap = c]
           t == [r EXCEPT !.obj[o] = d]
<1>1. Good(m) /\ Memory(m) /\ b \in Block
  BY UsableType DEF Usable
<1>2. Sequence(Literals[k]) /\ c \in Nat /\ c > 0
  <2>1. Sequence(Literals[k])
    BY LiteralProperty
  <2>2. Len(Literals[k]) \in Nat /\ Len(Literals[k]) # 0
    BY <2>1, SequenceProperty
  <2> QED BY <2>1, <2>2
<1>3. new \in Addrs /\ Len(m.heap[new]) = 0
  BY <1>1, FreeAddrProperty, EmptySequence
<1>4. Manage(m, o, k) =
        [m EXCEPT !.heap[new] = Literals[k],
                  !.obj[o].data = new, !.obj[o].size = c, !.obj[o].cap = c]
  BY DEF Manage
<1> HIDE DEF new
<1>5. /\ Memory(r) /\ r.obj = m.obj /\ r.heap[new] = Literals[k]
      /\ \A a \in Addrs : a # new => r.heap[a] = m.heap[a]
  BY <1>1, <1>2, <1>3, HeapSet
<1>6. Manage(m, o, k) = [r EXCEPT !.obj[o].data = new, !.obj[o].size = c, !.obj[o].cap = c]
  BY <1>4
<1> HIDE DEF r
<1>6a. Manage(m, o, k) = t
  BY <1>1, <1>5, <1>6, ZenonT(30) DEF Memory, Block
<1>7. d \in Block /\ d.data = new /\ d.cap = c /\ d.made = b.made
  <2>1. new \in Int
    BY <1>3, AddrIsNumber
  <2>0. b \in Block /\ c \in Nat /\ c \in Int
    BY <1>1, <1>2
  <2> HIDE DEF b, c
  <2>2. d \in Block
    BY <2>0, <2>1 DEF Block
  <2>3. d.data = new
    BY <1>1 DEF Block
  <2>4. d.cap = c
    BY <1>1 DEF Block
  <2>5. d.made = b.made
    BY <1>1 DEF Block
  <2> QED BY <2>2, <2>3, <2>4, <2>5
<1> HIDE DEF d
<1>8. d.made
  BY <1>7, Zenon DEF Usable
<1>9. /\ Memory(t) /\ t.heap = r.heap /\ t.obj[o] = d
      /\ \A q \in Objects : q # o => t.obj[q] = m.obj[q]
  BY <1>5, <1>7, ObjSet
<1> HIDE DEF t
<1>10. \A a \in Addrs : ~OwnsAt(m, o, a)
  BY DEF OwnsAt
<1>11. Good(t)
  BY <1>1, <1>2, <1>3, <1>5, <1>7, <1>8, <1>9, <1>10, TakesBlock
<1> QED BY <1>6a, <1>8, <1>9, <1>11 DEF Usable

LEMMA DestroyedGood ==
    ASSUME NEW m, NEW o \in Objects, Usable(m, o)
    PROVE  Good(Destroyed(m, o))
<1> DEFINE u == Deallocate(m, o)
           r == [u EXCEPT !.obj[o] = Gone]
           f == [x \in Objects |-> x]
<1>1. Good(u) /\ u.obj[o].cap = 0
  BY DeallocateUsable DEF Usable
<1>2. Destroyed(m, o) = r
  BY DEF Destroyed
<1> HIDE DEF u
<1>3. Gone \in Block /\ Gone.cap = 0
  BY DEF Gone, Null, Block
<1>4. /\ Memory(r) /\ r.heap = u.heap /\ r.obj[o] = Gone
      /\ \A q \in Objects : q # o => r.obj[q] = u.obj[q]
  BY <1>1, <1>3, ObjSet DEF Good
<1> HIDE DEF r
<1>5. \A x \in Objects : r.obj[x].cap = u.obj[x].cap
  BY <1>1, <1>3, <1>4
<1>6. \A x \in Objects : r.obj[x].cap > 0 => r.obj[x].made /\ r.obj[x].data = u.obj[x].data
  BY <1>1, <1>3, <1>4 DEF Good, Owned
<1>7. /\ f \in [Objects -> Objects]
      /\ \A x, y \in Objects : f[x] = f[y] => x = y
      /\ \A y \in Objects : \E x \in Objects : f[x] = y
      /\ \A x \in Objects : f[x] = x
  OBVIOUS
<1> HIDE DEF f
<1> QED BY <1>1, <1>2, <1>4, <1>5, <1>6, <1>7, PassedOn

-----------------------------------------------------------------------------
(* What strings add *)

LEMMA PushBackUsable ==
    ASSUME NEW m, NEW o \in Objects, Usable(m, o), NEW v
    PROVE  Usable(PushBack(m, o, v), o)
<1>1. Usable(Resize(m, o, m.obj[o].size + 1), o)
  BY ResizeUsable, UsableType
<1> QED BY <1>1, PutUsable DEF PushBack

LEMMA PopBackUsable ==
    ASSUME NEW m, NEW o \in Objects, Usable(m, o)
    PROVE  Usable(PopBack(m, o), o)
<1>1. Usable(SetSize(m, o, m.obj[o].size - 1), o)
  BY SetSizeUsable, UsableType
<1> QED BY <1>1, PutUsable DEF PopBack

LEMMA ClearStringUsable ==
    ASSUME NEW m, NEW o \in Objects, Usable(m, o)
    PROVE  Usable(ClearString(m, o), o)
<1>1. Usable(SetSize(m, o, 0), o)
  <2>1. 0 \in Int
    OBVIOUS
  <2> QED BY <2>1, SetSizeUsable
<1> QED BY <1>1, PutUsable DEF ClearString

LEMMA InsertFillUsable ==
    ASSUME NEW m, NEW o \in Objects, Usable(m, o), NEW i, NEW n \in Int, NEW v
    PROVE  Usable(InsertFill(m, o, i, n, v), o)
BY InsertHoleUsable, PutUsable DEF InsertFill

-----------------------------------------------------------------------------
(* What vectors add *)

LEMMA FilledLen ==
    ASSUME NEW n \in Nat, NEW v
    PROVE  Len(Filled(n, v)) = n
<1> DEFINE s == [k \in 1..n |-> v]
<1>1. s = [k \in 1..n |-> s[k]]
  OBVIOUS
<1>2. Filled(n, v) = s
  BY DEF Filled
<1> HIDE DEF s
<1> QED BY <1>1, <1>2, SequenceLen

LEMMA ConstructUsable ==
    ASSUME NEW m, NEW o \in Objects, Usable(m, o), NEW p, NEW i, NEW s, Len(s) \in Nat
    PROVE  Usable(Construct(m, p, i, s), o)
BY ConstructShape, UsableKept, UsableType

LEMMA DestroyRangeUsable ==
    ASSUME NEW m, NEW o \in Objects, Usable(m, o), NEW p, NEW f, NEW l
    PROVE  Usable(DestroyRange(m, p, f, l), o)
BY DestroyRangeShape, UsableKept, UsableType

LEMMA AssignElementsUsable ==
    ASSUME NEW m, NEW o \in Objects, Usable(m, o), NEW s
    PROVE  Usable(AssignElements(m, o, s), o)
BY AssignElementsShape, UsableKept, UsableType

LEMMA ResizeVectorUsable ==
    ASSUME NEW m, NEW o \in Objects, Usable(m, o), NEW n \in Int, NEW v
    PROVE  Usable(ResizeVector(m, o, n, v), o)
<1> DEFINE r == Reserve(m, o, n)
           b == r.obj[o]
           d == DestroyRange(r, b.data, n, b.size)
           more == IF n > b.size THEN n - b.size ELSE 0
           s == Filled(more, v)
           c == Construct(d, b.data, b.size, s)
<1>1. ResizeVector(m, o, n, v) = SetSize(c, o, n)
  BY DEF ResizeVector
<1>2. Usable(r, o)
  BY ReserveUsable
<1> HIDE DEF r
<1>3. b.size \in Int
  BY <1>2, UsableType
<1>4. Usable(d, o)
  BY <1>2, DestroyRangeUsable
<1> HIDE DEF d, b
<1>5. more \in Nat
  BY <1>3
<1> HIDE DEF more
<1>6. Len(s) \in Nat
  BY <1>5, FilledLen
<1> HIDE DEF s
<1>7. Usable(c, o)
  BY <1>4, <1>6, ConstructUsable
<1> HIDE DEF c
<1> QED BY <1>1, <1>7, SetSizeUsable

LEMMA InsertElementsUsable ==
    ASSUME NEW m, NEW o \in Objects, Usable(m, o), NEW i, NEW s, Len(s) \in Nat
    PROVE  Usable(InsertElements(m, o, i, s), o)
<1>1. Usable(InsertHole(m, o, i, Len(s)), o)
  <2>1. Len(s) \in Int
    OBVIOUS
  <2> QED BY <2>1, InsertHoleUsable
<1> QED BY <1>1, ConstructUsable DEF InsertElements

LEMMA EraseElementsUsable ==
    ASSUME NEW m, NEW o \in Objects, Usable(m, o), NEW i, NEW n \in Int
    PROVE  Usable(EraseElements(m, o, i, n), o)
BY DestroyRangeUsable, EraseUsable DEF EraseElements

LEMMA AssignVectorUsable ==
    ASSUME NEW m, NEW o \in Objects, Usable(m, o), NEW s, Len(s) \in Nat
    PROVE  Usable(AssignVector(m, o, s), o)
<1>1. Usable(ResizeVector(m, o, Len(s), Nul), o)
  <2>1. Len(s) \in Int
    OBVIOUS
  <2> QED BY <2>1, ResizeVectorUsable
<1> QED BY <1>1, AssignElementsUsable DEF AssignVector

LEMMA FillVectorUsable ==
    ASSUME NEW m, NEW o \in Objects, Usable(m, o), NEW n \in Int, NEW v
    PROVE  Usable(FillVector(m, o, n, v), o)
BY ResizeVectorUsable, AssignElementsUsable DEF FillVector

LEMMA PopBackElementUsable ==
    ASSUME NEW m, NEW o \in Objects, Usable(m, o)
    PROVE  Usable(PopBackElement(m, o), o)
<1>1. Usable(SetSize(m, o, m.obj[o].size - 1), o)
  BY SetSizeUsable, UsableType
<1> QED BY <1>1, DestroyRangeUsable DEF PopBackElement

LEMMA DestroyAllUsable ==
    ASSUME NEW m, NEW o \in Objects, Usable(m, o)
    PROVE  Usable(DestroyAll(m, o), o)
BY DestroyRangeUsable DEF DestroyAll

LEMMA ClearVectorUsable ==
    ASSUME NEW m, NEW o \in Objects, Usable(m, o)
    PROVE  Usable(ClearVector(m, o), o)
<1>1. 0 \in Int
  OBVIOUS
<1> QED BY <1>1, DestroyAllUsable, ResizeUsable DEF ClearVector

LEMMA DeallocateVectorUsable ==
    ASSUME NEW m, NEW o \in Objects, Usable(m, o)
    PROVE  Usable(DeallocateVector(m, o), o)
BY DestroyAllUsable, DeallocateUsable DEF DeallocateVector

LEMMA DestroyedVectorGood ==
    ASSUME NEW m, NEW o \in Objects, Usable(m, o)
    PROVE  Good(DestroyedVector(m, o))
BY DestroyAllUsable, DestroyedGood DEF DestroyedVector

-----------------------------------------------------------------------------
(* Every call leaves a good memory *)

LEMMA ElementsLen ==
    ASSUME NEW m, Good(m), NEW q \in Objects
    PROVE  Len(Elements(m, q)) \in Nat
<1> DEFINE n == m.obj[q].size
           e == Elements(m, q)
           top == IF n > 0 THEN n ELSE 0
<1>1. n \in Int
  BY DEF Good, Memory, Block
<1>2. e = [k \in 1..n |-> e[k]]
  BY DEF Elements
<1> HIDE DEF n, e
<1>3. 1..n = 1..top /\ top \in Nat
  BY <1>1
<1> HIDE DEF top
<1>4. e = [k \in 1..top |-> e[k]]
  BY <1>2, <1>3
<1>5. Len(e) = top
  BY <1>3, <1>4, SequenceLen
<1> QED BY <1>3, <1>5 DEF e

LEMMA TextProperty ==
    ASSUME NEW s \in Texts
    PROVE  s.p \in Int /\ s.n \in Int /\ s.n \in Nat /\ Len(s.v) = s.n
<1>1. PICK k \in DOMAIN Literals :
        s = [p |-> -k, n |-> Len(Literals[k]), v |-> Literals[k]]
  BY DEF Texts
<1>2. k \in Int
  BY MemoryAssumption
<1>3. Len(Literals[k]) \in Nat
  BY LiteralProperty
<1> QED BY <1>1, <1>2, <1>3

LEMMA HeldProperty ==
    ASSUME Good(mem), NEW q \in Objects
    PROVE  Held(q).p = Obj(q).data /\ Held(q).n = Size(q) /\ Size(q) \in Int /\ Obj(q).data \in Int
BY DEF Held, Size, Obj, Good, Memory, Block

LEMMA SourceProperty ==
    ASSUME Good(mem), NEW o \in Objects, NEW s \in Sources(o)
    PROVE  s.p \in Int /\ s.n \in Int
<1>1. s \in Texts \/ \E q \in Objects : s = Held(q)
  BY DEF Sources
<1> QED BY <1>1, TextProperty, HeldProperty

LEMMA MadeUsable ==
    ASSUME Good(mem), NEW o \in Objects
    PROVE  /\ Obj(o).made => Usable(mem, o)
           /\ IsBytes(o) => Usable(mem, o)
           /\ IsString(o) => Usable(mem, o)
           /\ IsVector(o) => Usable(mem, o)
           /\ Size(o) \in Int /\ Size(o) = mem.obj[o].size
BY HeldProperty DEF Obj, IsBytes, IsString, IsVector, Usable, Size

LEMMA ConstructBytesGood ==
    ASSUME Good(mem), NEW o \in Objects, ConstructBytes(o)
    PROVE  Good(mem')
<1> DEFINE z == kind[o] = "string"
           L(s) == Link(mem, o, s.p, s.n, z)
           Empty == Link(mem, o, Null, 0, z)
<1>1. z \in BOOLEAN /\ ~mem.obj[o].made /\ Null \in Int /\ 0 \in Int
  BY DEF ConstructBytes, Unmade, Obj, Null
<1>2. ASSUME NEW p \in Int, NEW n \in Int, NEW y \in BOOLEAN
      PROVE  Usable(Link(mem, o, p, n, y), o)
  BY <1>1, <1>2, LinkUsable
<1>3. CASE mem' = Link(mem, o, Null, 0, z)
  BY <1>1, <1>2, <1>3 DEF Usable
<1>4. ASSUME NEW s \in Texts, mem' = Link(mem, o, s.p, s.n, z) PROVE Good(mem')
  BY <1>1, <1>2, <1>4, TextProperty DEF Usable
<1>5. ASSUME NEW s \in Texts \cup {Held(q) : q \in {q \in Objects : IsString(q)}},
             mem' = Resize(Link(mem, o, s.p, s.n, TRUE), o, s.n)
      PROVE  Good(mem')
  <2>1. s.p \in Int /\ s.n \in Int
    BY TextProperty, HeldProperty
  <2>2. Usable(Link(mem, o, s.p, s.n, TRUE), o)
    BY <1>2, <2>1
  <2> QED BY <1>5, <2>1, <2>2, ResizeUsable DEF Usable
<1>6. ASSUME NEW q \in Objects,
             mem' = Assign(Link(mem, o, Null, 0, FALSE), o, Obj(q).data, Size(q))
      PROVE  Good(mem')
  <2>1. Usable(Link(mem, o, Null, 0, FALSE), o)
    BY <1>1, <1>2
  <2>2. Size(q) \in Int
    BY HeldProperty
  <2> QED BY <1>6, <2>1, <2>2, AssignUsable DEF Usable
<1>7. \/ mem' = Link(mem, o, Null, 0, z)
      \/ \E s \in Texts : mem' = Link(mem, o, s.p, s.n, z)
      \/ \E s \in Texts \cup {Held(q) : q \in {q \in Objects : IsString(q)}} :
            mem' = Resize(Link(mem, o, s.p, s.n, TRUE), o, s.n)
      \/ \E q \in Objects :
            mem' = Assign(Link(mem, o, Null, 0, FALSE), o, Obj(q).data, Size(q))
  BY Zenon DEF ConstructBytes, Does
<1> HIDE DEF z
<1> QED BY <1>3, <1>4, <1>5, <1>6, <1>7

LEMMA ConstructVectorGood ==
    ASSUME Good(mem), NEW o \in Objects, ConstructVector(o)
    PROVE  Good(mem')
<1> DEFINE e == Link(mem, o, Null, 0, FALSE)
<1>1. Usable(e, o)
  <2>1. ~mem.obj[o].made
    BY DEF ConstructVector, Unmade, Obj
  <2>2. Null \in Int /\ 0 \in Int /\ FALSE \in BOOLEAN
    BY DEF Null
  <2> QED BY <2>1, <2>2, LinkUsable
<1>2. \/ mem' = e
      \/ \E n \in 1..MaxSize, v \in Values \cup {Nul} :
            mem' = InsertElements(e, o, 0, Filled(n, v))
      \/ \E s \in Texts : mem' = InsertElements(e, o, 0, s.v)
      \/ \E q \in Objects : mem' = InsertElements(e, o, 0, Elements(mem, q))
  BY Zenon DEF ConstructVector, Does
<1> HIDE DEF e
<1>3. \A s : Len(s) \in Nat => Good(InsertElements(e, o, 0, s))
  BY <1>1, InsertElementsUsable DEF Usable
<1>4. ASSUME NEW n \in 1..MaxSize, NEW v PROVE Len(Filled(n, v)) \in Nat
  BY FilledLen, MemoryAssumption
<1>5. \A s \in Texts : Len(s.v) \in Nat
  BY TextProperty
<1>6. \A q \in Objects : Len(Elements(mem, q)) \in Nat
  BY ElementsLen
<1> QED BY <1>1, <1>2, <1>3, <1>4, <1>5, <1>6 DEF Usable

LEMMA PassingGood ==
    ASSUME Good(mem), NEW o \in Objects, MoveConstruct(o) \/ SwapWith(o) \/ Destruct(o)
    PROVE  Good(mem')
<1>1. CASE MoveConstruct(o)
  <2>1. PICK q \in Objects : (IsBytes(q) \/ IsVector(q)) /\ mem' = MoveFrom(mem, o, q)
    BY <1>1 DEF MoveConstruct
  <2>2. ~mem.obj[o].made /\ mem.obj[q].made
    BY <1>1, <2>1 DEF MoveConstruct, Unmade, Obj, IsBytes, IsVector
  <2> QED BY <2>1, <2>2, MoveFromGood
<1>2. CASE SwapWith(o)
  BY <1>2, SwapGood DEF SwapWith
<1>3. CASE Destruct(o)
  <2>1. Usable(mem, o)
    BY <1>3, MadeUsable DEF Destruct
  <2>2. mem' \in {DestroyedVector(mem, o), Destroyed(mem, o)}
    BY <1>3, Zenon DEF Destruct, Does
  <2> QED BY <2>1, <2>2, DestroyedGood, DestroyedVectorGood
<1> QED BY <1>1, <1>2, <1>3

LEMMA BytesGood ==
    ASSUME Good(mem), NEW o \in Objects,
           \/ AssignBytes(o) \/ SizeBytes(o) \/ InsertBytes(o) \/ EraseBytes(o) \/ ManageBytes(o)
    PROVE  Good(mem')
<1>0. /\ Usable(mem, o) /\ Size(o) \in Int /\ Size(o) = mem.obj[o].size
      /\ \A s \in Sources(o) : s.p \in Int /\ s.n \in Int
  BY MadeUsable, SourceProperty DEF AssignBytes, SizeBytes, InsertBytes, EraseBytes, ManageBytes
<1>1. CASE AssignBytes(o)
  <2>1. \/ \E s \in Sources(o) : mem' = Assign(mem, o, s.p, s.n)
        \/ mem' = Assign(mem, o, Obj(o).data, Size(o))
    BY <1>1, Zenon DEF AssignBytes, Does
  <2> QED BY <1>0, <2>1, AssignUsable DEF Usable
<1>2. CASE SizeBytes(o)
  <2>1. \/ \E n \in 0..MaxSize : mem' \in {Resize(mem, o, n), Reserve(mem, o, n)}
        \/ Owns(o) /\ Size(o) > 0 /\ mem' = ShrinkToFit(mem, o)
        \/ mem' = Resize(mem, o, Size(o))
        \/ mem' = Deallocate(mem, o)
    BY <1>2, Zenon DEF SizeBytes, Does
  <2>2. \A n \in Int : Good(Resize(mem, o, n)) /\ Good(Reserve(mem, o, n))
    BY <1>0, ResizeUsable, ReserveUsable DEF Usable
  <2>3. Owns(o) /\ Size(o) > 0 => Good(ShrinkToFit(mem, o))
    BY <1>0, ShrinkToFitUsable DEF Usable, Owns, Obj
  <2>4. Good(Deallocate(mem, o))
    BY <1>0, DeallocateUsable DEF Usable
  <2>5. \A n \in 0..MaxSize : n \in Int
    OBVIOUS
  <2> QED BY <1>0, <2>1, <2>2, <2>3, <2>4, <2>5
<1>3. CASE InsertBytes(o)
  <2>1. \E i \in 0..Size(o), s \in Sources(o) : mem' = InsertCells(mem, o, i, s.p, s.n)
    BY <1>3, Zenon DEF InsertBytes, Does
  <2> QED BY <1>0, <2>1, InsertCellsUsable DEF Usable
<1>4. CASE EraseBytes(o)
  <2>1. \E i \in 0..Size(o) : \E n \in 0..(Size(o) - i) :
            \/ mem' = Erase(mem, o, i, n)
            \/ \E s \in Sources(o) : mem' = Replace(mem, o, i, n, s.p, s.n)
    BY <1>4, Zenon DEF EraseBytes, Does
  <2>2. ASSUME NEW i, NEW n \in Int
        PROVE  /\ Good(Erase(mem, o, i, n))
               /\ \A s \in Sources(o) : Good(Replace(mem, o, i, n, s.p, s.n))
    BY <1>0, EraseUsable, ReplaceUsable DEF Usable
  <2>3. \A i : \A n \in 0..(Size(o) - i) : n \in Int
    OBVIOUS
  <2> QED BY <2>1, <2>2, <2>3
<1>5. CASE ManageBytes(o)
  <2>1. PICK k \in DOMAIN Literals : Literals[k] # <<>> /\ mem' = Manage(mem, o, k)
    BY <1>5, Zenon DEF ManageBytes, Does
  <2>2. mem.obj[o].cap = 0
    BY <1>0, <1>5, UsableType DEF ManageBytes, Owns, Obj
  <2> QED BY <1>0, <2>1, <2>2, ManageUsable DEF Usable
<1> QED BY <1>1, <1>2, <1>3, <1>4, <1>5

LEMMA EditStringGood ==
    ASSUME Good(mem), NEW o \in Objects, EditString(o)
    PROVE  Good(mem')
<1>1. Usable(mem, o)
  BY MadeUsable DEF EditString
<1>2. \/ \E v \in Values : mem' = PushBack(mem, o, v)
      \/ \E i \in 0..Size(o), n \in 1..MaxSize, v \in Values : mem' = InsertFill(mem, o, i, n, v)
      \/ mem' = PopBack(mem, o)
      \/ mem' = ClearString(mem, o)
  BY Zenon DEF EditString, Does
<1>3. \A n \in 1..MaxSize : n \in Int
  OBVIOUS
<1> QED BY <1>1, <1>2, <1>3, PushBackUsable, InsertFillUsable, PopBackUsable, ClearStringUsable
        DEF Usable

LEMMA VectorGood ==
    ASSUME Good(mem), NEW o \in Objects, SizeVector(o) \/ AssignToVector(o) \/ EditVector(o)
    PROVE  Good(mem')
<1>0. Usable(mem, o) /\ Size(o) \in Int /\ Size(o) = mem.obj[o].size
  BY MadeUsable DEF SizeVector, AssignToVector, EditVector
<1>1. CASE SizeVector(o)
  <2>1. \/ \E n \in 0..MaxSize :
            \/ \E v \in Values \cup {Nul} : mem' = ResizeVector(mem, o, n, v)
            \/ mem' = Reserve(mem, o, n)
        \/ Owns(o) /\ Size(o) > 0 /\ mem' = ShrinkToFit(mem, o)
        \/ mem' = ClearVector(mem, o)
        \/ mem' = DeallocateVector(mem, o)
    BY <1>1, Zenon DEF SizeVector, Does
  <2>2. ASSUME NEW n \in Int
        PROVE  Good(Reserve(mem, o, n)) /\ \A v : Good(ResizeVector(mem, o, n, v))
    BY <1>0, ResizeVectorUsable, ReserveUsable DEF Usable
  <2>3. Owns(o) /\ Size(o) > 0 => Good(ShrinkToFit(mem, o))
    BY <1>0, ShrinkToFitUsable DEF Usable, Owns, Obj
  <2>4. Good(ClearVector(mem, o)) /\ Good(DeallocateVector(mem, o))
    BY <1>0, ClearVectorUsable, DeallocateVectorUsable DEF Usable
  <2>5. \A n \in 0..MaxSize : n \in Int
    OBVIOUS
  <2> QED BY <2>1, <2>2, <2>3, <2>4, <2>5
<1>2. CASE AssignToVector(o)
  <2>1. \/ \E s \in Texts : mem' = AssignVector(mem, o, s.v)
        \/ \E q \in Objects : mem' = AssignVector(mem, o, Elements(mem, q))
        \/ \E n \in 0..MaxSize, v \in Values : mem' = FillVector(mem, o, n, v)
    BY <1>2, Zenon DEF AssignToVector, Does
  <2>2. \A s : Len(s) \in Nat => Good(AssignVector(mem, o, s))
    BY <1>0, AssignVectorUsable DEF Usable
  <2>3. \A n \in Int : \A v : Good(FillVector(mem, o, n, v))
    BY <1>0, FillVectorUsable DEF Usable
  <2>4. \A n \in 0..MaxSize : n \in Int
    OBVIOUS
  <2>5. \A s \in Texts : Len(s.v) \in Nat
    BY TextProperty
  <2>6. \A q \in Objects : Len(Elements(mem, q)) \in Nat
    BY ElementsLen
  <2> QED BY <2>1, <2>2, <2>3, <2>4, <2>5, <2>6
<1>3. CASE EditVector(o)
  <2>1. \E i \in 0..Size(o) :
        \/ \E s \in Texts \cup {[v |-> Filled(n, v)] : n \in 1..MaxSize, v \in Values} :
            mem' = InsertElements(mem, o, i, s.v)
        \/ \E n \in 0..(Size(o) - i) :
            \/ mem' = EraseElements(mem, o, i, n)
            \/ \E s \in Texts : mem' = InsertElements(EraseElements(mem, o, i, n), o, i, s.v)
        \/ mem' = PopBackElement(mem, o)
    <3>1. \A m, v : Does(o, m, v) => mem' = m
      BY Zenon DEF Does
    <3> QED BY <1>3, <3>1 DEF EditVector
  <2>2. ASSUME NEW s \in Texts \cup {[v |-> Filled(n, v)] : n \in 1..MaxSize, v \in Values}
        PROVE  Len(s.v) \in Nat
    <3>1. CASE s \in Texts
      BY <3>1, TextProperty
    <3>2. ASSUME NEW n \in 1..MaxSize, NEW v, s = [v |-> Filled(n, v)] PROVE Len(s.v) \in Nat
      BY <3>2, FilledLen
    <3> QED BY <3>1, <3>2
  <2>3. ASSUME NEW i, NEW s, Len(s) \in Nat PROVE Good(InsertElements(mem, o, i, s))
    BY <1>0, <2>3, InsertElementsUsable DEF Usable
  <2>4. ASSUME NEW i, NEW n \in Int
        PROVE  /\ Good(EraseElements(mem, o, i, n))
               /\ \A s : Len(s) \in Nat => Good(InsertElements(EraseElements(mem, o, i, n), o, i, s))
    BY <1>0, EraseElementsUsable, InsertElementsUsable DEF Usable
  <2>5. Good(PopBackElement(mem, o))
    BY <1>0, PopBackElementUsable DEF Usable
  <2>6. \A i : \A n \in 0..(Size(o) - i) : n \in Int
    OBVIOUS
  <2>7. \A s \in Texts : Len(s.v) \in Nat
    BY TextProperty
  <2> QED BY <2>1, <2>2, <2>3, <2>4, <2>5, <2>6, <2>7
<1> QED BY <1>1, <1>2, <1>3

LEMMA InitGood ==
    ASSUME Init
    PROVE  Good(mem)
<1>1. /\ mem.obj = [o \in Objects |-> Gone]
      /\ mem.heap = [a \in Addrs |-> <<>>]
      /\ mem = [obj |-> mem.obj, heap |-> mem.heap, elem |-> mem.elem, fault |-> mem.fault]
  BY DEF Init
<1>2. Gone \in Block /\ Gone.cap = 0
  BY DEF Gone, Block, Null
<1>3. Sequence(<<>>) /\ Len(<<>>) = 0
  BY EmptySequence
<1>4. /\ \A o \in Objects : mem.obj[o] = Gone
      /\ \A a \in Addrs : mem.heap[a] = <<>>
  BY <1>1
<1>5. Memory(mem)
  <2>1. mem.obj \in [Objects -> Block]
    BY <1>1, <1>2
  <2>2. mem.heap = [a \in Addrs |-> mem.heap[a]]
    BY <1>1
  <2> QED BY <1>1, <1>3, <1>4, <2>1, <2>2 DEF Memory
<1>6. Owned(mem)
  BY <1>2, <1>3, <1>4 DEF Owned, OwnsAt
<1> QED BY <1>5, <1>6 DEF Good

\* After every call the blocks of the heap and the containers that own them
\* match, whatever the containers and the texts are, and whatever the calls
\* read and write.
MemoryInv == Good(mem)

THEOREM MemoryGood == Spec => []MemoryInv
<1>1. Init => MemoryInv
  BY InitGood DEF MemoryInv
<1>2. MemoryInv /\ [Next]_vars => MemoryInv'
  <2> USE DEF MemoryInv
  <2> SUFFICES ASSUME Good(mem), [Next]_vars PROVE Good(mem')
    OBVIOUS
  <2>1. CASE UNCHANGED vars
    BY <2>1 DEF vars
  <2>2. CASE Next
    <3>1. PICK o \in Objects :
            \/ ConstructBytes(o) \/ ConstructVector(o)
            \/ MoveConstruct(o) \/ SwapWith(o) \/ Destruct(o)
            \/ AssignBytes(o) \/ SizeBytes(o) \/ InsertBytes(o) \/ EraseBytes(o) \/ ManageBytes(o)
            \/ EditString(o)
            \/ SizeVector(o) \/ AssignToVector(o) \/ EditVector(o)
      BY <2>2, Zenon DEF Next
    <3> QED
      BY <3>1, ConstructBytesGood, ConstructVectorGood, PassingGood, BytesGood, EditStringGood,
         VectorGood
  <2> QED BY <2>1, <2>2
<1> QED BY <1>1, <1>2, PTL DEF Spec

\* OneOwner: every block of the heap is owned by exactly one container, which
\* knows how large it is.  No sequence of calls leaks a block, lets two
\* containers free it, or leaves one with a block that is gone.
THEOREM BlocksOwned == Spec => []OneOwner
<1>1. MemoryInv => OneOwner
  <2> USE DEF MemoryInv
  <2> SUFFICES ASSUME Good(mem) PROVE OneOwner
    OBVIOUS
  <2>1. ASSUME NEW a \in Addrs, mem.heap[a] # <<>>
        PROVE  Cardinality({o \in Objects : Owns(o) /\ Obj(o).data = a}) = 1
    <3>1. Len(mem.heap[a]) # 0
      BY <2>1, SequenceProperty DEF Good, Memory
    <3>2. PICK o \in Objects : OwnsAt(mem, o, a)
      BY <3>1 DEF Good, Owned
    <3>3. \A q \in Objects : OwnsAt(mem, q, a) => q = o
      BY <3>2 DEF Good, Owned
    <3>4. {q \in Objects : Owns(q) /\ Obj(q).data = a} = {o}
      BY <3>2, <3>3 DEF OwnsAt, Owns, Obj
    <3> QED BY <3>4, FS_Singleton
  <2>2. ASSUME NEW o \in Objects, Owns(o)
        PROVE  Obj(o).data \in Addrs /\ Len(mem.heap[Obj(o).data]) = Obj(o).cap
    BY <2>2 DEF Good, Owned, Owns, Obj
  <2> QED BY <2>1, <2>2 DEF OneOwner
<1> QED BY <1>1, MemoryGood, PTL
=============================================================================
