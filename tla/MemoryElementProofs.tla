------------------------ MODULE MemoryElementProofs ------------------------
(***************************************************************************)
(* The elements of vectors, each alive in one cell, and the theorems about *)
(* what containers hold, for any number of containers of any size.         *)
(***************************************************************************)
EXTENDS MemoryCellProofs

-----------------------------------------------------------------------------
(* The elements of one vector *)

\* The value of the element in cell k of container o.
Elem(m, o, k) == m.elem[Cell(m, o, k)]

\* The elements that live are those in the cells I of container o, one in
\* each, and those in X, which the other vectors have.
Lives(m, o, I, X) ==
    /\ m.elem = [t \in Tokens |-> m.elem[t]]
    /\ \A k \in I : Cell(m, o, k) \in Tokens /\ Cell(m, o, k) \notin X /\ Elem(m, o, k) # Junk
    /\ \A j, k \in I : Cell(m, o, j) = Cell(m, o, k) => j = k
    /\ \A t \in X : t \in Tokens /\ m.elem[t] # Junk
    /\ \A t \in Tokens : m.elem[t] # Junk => t \in X \/ \E k \in I : Cell(m, o, k) = t

\* The elements in X are in different cells of the other containers.
Room(o, X) ==
    \E h \in [X -> (Objects \ {o}) \X (1..MaxSize)] : \A t, u \in X : h[t] = h[u] => t = u

LEMMA TokenCount ==
    /\ IsFiniteSet(Objects \X (1..MaxSize))
    /\ IsFiniteSet(Tokens)
    /\ Cardinality(Tokens) > Cardinality(Objects \X (1..MaxSize))
<1> DEFINE c == Cardinality(Objects)
           P == Objects \X (1..MaxSize)
<1>1. c \in Nat /\ MaxSize \in Nat /\ MaxSize > 0
  BY MemoryAssumption, FS_CardinalityType
<1>2. IsFiniteSet(1..MaxSize) /\ Cardinality(1..MaxSize) = MaxSize
  BY <1>1, FS_Interval
<1>3. IsFiniteSet(P) /\ Cardinality(P) = c * MaxSize
  BY <1>2, MemoryAssumption, FS_Product
<1>4. (c + 1) * MaxSize = c * MaxSize + MaxSize /\ c * MaxSize \in Nat
  <2> HIDE DEF c
  <2> QED BY <1>1
<1> DEFINE n == (c + 1) * MaxSize
<1>5. n \in Nat /\ n > c * MaxSize /\ n > 0 /\ Tokens = 1..n
  BY <1>1, <1>4 DEF Tokens
<1> HIDE DEF n
<1>6. IsFiniteSet(Tokens) /\ Cardinality(Tokens) = n
  BY <1>5, FS_Interval
<1> HIDE DEF P, c
<1> QED BY <1>1, <1>3, <1>4, <1>5, <1>6 DEF P

\* There is always a token for a new element.
LEMMA TokenFree ==
    ASSUME NEW m, NEW o \in Objects, NEW I \in SUBSET (1..MaxSize), NEW X,
           Lives(m, o, I, X), Room(o, X)
    PROVE  \E t \in Tokens : m.elem[t] = Junk
<1> SUFFICES ASSUME \A t \in Tokens : m.elem[t] # Junk PROVE FALSE
  OBVIOUS
<1>1. PICK h \in [X -> (Objects \ {o}) \X (1..MaxSize)] :
        \A t, u \in X : h[t] = h[u] => t = u
  BY DEF Room
<1> DEFINE P == Objects \X (1..MaxSize)
           at(t) == CHOOSE k \in I : Cell(m, o, k) = t
           f == [t \in Tokens |-> IF t \in X THEN h[t] ELSE <<o, at(t)>>]
<1>2. \A t \in Tokens : t \in X \/ (at(t) \in I /\ Cell(m, o, at(t)) = t)
  BY DEF Lives
<1> HIDE DEF at
<1>3. \A t \in X : h[t] \in (Objects \ {o}) \X (1..MaxSize)
  BY <1>1
<1>4. \A t \in X : h[t] \in P /\ h[t][1] # o
  BY <1>3
<1>5. \A t \in Tokens : f[t] \in P
  BY <1>2, <1>4
<1>6. \A t, u \in Tokens : f[t] = f[u] => t = u
  <2> TAKE t, u \in Tokens
  <2> HAVE f[t] = f[u]
  <2>1. CASE t \in X /\ u \in X
    BY <1>1, <2>1
  <2>2. CASE t \notin X /\ u \notin X
    <3>1. <<o, at(t)>> = <<o, at(u)>>
      BY <2>2
    <3>2. at(t) = at(u)
      BY <3>1
    <3> QED BY <1>2, <2>2, <3>2
  <2>3. CASE t \in X /\ u \notin X
    <3>1. h[t] = <<o, at(u)>>
      BY <2>3
    <3> QED BY <1>4, <2>3, <3>1
  <2>4. CASE t \notin X /\ u \in X
    <3>1. h[u] = <<o, at(t)>>
      BY <2>4
    <3> QED BY <1>4, <2>4, <3>1
  <2> QED BY <2>1, <2>2, <2>3, <2>4
<1>7. f \in [Tokens -> P]
  BY <1>5
<1> HIDE DEF f, P
<1>8. \E t, u \in Tokens : t # u /\ f[t] = f[u]
  BY <1>7, TokenCount, FS_PigeonHole DEF P
<1> QED BY <1>6, <1>8

LEMMA FreeTokenProperty ==
    ASSUME NEW m, \E t \in Tokens : m.elem[t] = Junk
    PROVE  FreeToken(m) \in Tokens /\ m.elem[FreeToken(m)] = Junk
<1> DEFINE T == {t \in Tokens : m.elem[t] = Junk}
           n == (Cardinality(Objects) + 1) * MaxSize
<1>0. n \in Int /\ Tokens = 1..n
  BY MemoryAssumption, FS_CardinalityType DEF Tokens
<1> HIDE DEF n
<1>1. T \in SUBSET Nat /\ T # {}
  BY <1>0
<1>2. PICK t \in T : \A u \in T : t <= u
  BY <1>1, LeastNat
<1>3. t \in Nat /\ t \in Tokens
  BY <1>1, <1>2
<1>4. \A u \in 1..(t - 1) : m.elem[u] # Junk
  <2> TAKE u \in 1..(t - 1)
  <2>1. u \in Tokens
    BY <1>0, <1>3
  <2>2. ~(t <= u)
    BY <1>3
  <2> QED BY <1>2, <2>1, <2>2
<1> QED BY <1>2, <1>3, <1>4 DEF FreeToken

\* Memory with other elements.
WithElems(m, e) == [m EXCEPT !.elem = e]

LEMMA ElemsReplaced ==
    ASSUME NEW m, Good(m), NEW e
    PROVE  LET r == WithElems(m, e)
           IN  /\ Good(r) /\ r.obj = m.obj /\ r.heap = m.heap /\ r.elem = e /\ r.fault = m.fault
               /\ \A q : Changes(m, r, q)
               /\ \A q, k : Cell(r, q, k) = Cell(m, q, k)
<1> DEFINE r == WithElems(m, e)
<1>1. /\ r = [obj |-> m.obj, heap |-> m.heap, elem |-> e, fault |-> m.fault]
  BY DEF WithElems, Good, Memory
<1>2. r.obj = m.obj /\ r.heap = m.heap /\ r.elem = e /\ r.fault = m.fault
  BY <1>1
<1>3. r = [obj |-> r.obj, heap |-> r.heap, elem |-> r.elem, fault |-> r.fault]
  BY <1>1
<1> HIDE DEF r
<1>4. SameShape(m, r)
  BY <1>2, <1>3 DEF SameShape, Good, Memory
<1>5. Good(r)
  BY <1>4, ShapeKept
<1>6. \A q : Changes(m, r, q)
  BY <1>2, <1>5 DEF Changes, Typed
<1>7. \A q, k : Cell(r, q, k) = Cell(m, q, k)
  BY <1>2 DEF Cell, Cells
<1> QED BY <1>2, <1>5, <1>6, <1>7 DEF r

\* From m to r the elements in cells I of o, and those in X, stay as they are.
Keeps(m, r, o, I, X) ==
    /\ Changes(m, r, o) /\ r.obj = m.obj
    /\ \A t \in X : r.elem[t] = m.elem[t]
    /\ \A k \in I : Elem(r, o, k) = Elem(m, o, k)

\* What can be written to a cell.
Written(s) == \A k \in 1..Len(s) : s[k] \in CellValues

LEMMA PutOwnWrites ==
    ASSUME NEW m, Good(m), NEW o \in Objects, NEW i \in Nat, NEW s, Sequence(s), Written(s),
           m.obj[o].cap > 0, i + Len(s) <= m.obj[o].cap
    PROVE  LET r == Put(m, m.obj[o].data, i, s)
           IN  Moves(m, r, o) /\ r.obj = m.obj /\ Wrote(m, r, o, m.obj[o].cap, i, Len(s), s)
BY PutOwn DEF Wrote, Written

\* The cells I are among the first n.
Below(I, n) == \A k \in I : k <= n

\* Cell k of o has a new element of value v.
Adds(m, r, o, I, X, k, v) ==
    Keeps(m, r, o, I, X) /\ Lives(r, o, I \cup {k}, X) /\ Elem(r, o, k) = v

LEMMA ConstructAtLives ==
    ASSUME NEW m, Good(m), NEW o \in Objects, m.obj[o].cap > 0,
           NEW I \in SUBSET (1..MaxSize), NEW X, Lives(m, o, I, X), Room(o, X),
           Below(I, m.obj[o].cap),
           NEW k \in Nat, k + 1 <= m.obj[o].cap, k + 1 \notin I, NEW v, v # Junk
    PROVE  Adds(m, ConstructAt(m, m.obj[o].data, k, v), o, I, X, k + 1, v)
<1> DEFINE t == FreeToken(m)
           e == [m.elem EXCEPT ![t] = v]
           w == WithElems(m, e)
           r == Put(w, w.obj[o].data, k, <<t>>)
           c == m.obj[o].cap
<1>1. t \in Tokens /\ m.elem[t] = Junk
  BY TokenFree, FreeTokenProperty
<1>2. /\ m.elem = [u \in Tokens |-> m.elem[u]]
      /\ \A j \in I : Cell(m, o, j) \in Tokens /\ Cell(m, o, j) \notin X /\ Elem(m, o, j) # Junk
      /\ \A j, l \in I : Cell(m, o, j) = Cell(m, o, l) => j = l
      /\ \A u \in X : u \in Tokens /\ m.elem[u] # Junk
      /\ \A u \in Tokens : m.elem[u] # Junk => u \in X \/ \E j \in I : Cell(m, o, j) = u
  BY DEF Lives
<1> HIDE DEF t
<1>3. /\ e = [u \in Tokens |-> e[u]]
      /\ \A u \in Tokens : e[u] = IF u = t THEN v ELSE m.elem[u]
  BY <1>1, <1>2
<1>4. [m EXCEPT !.elem[t] = v] = w
  BY DEF WithElems
<1> HIDE DEF e
<1>5. /\ Good(w) /\ w.obj = m.obj /\ w.elem = e /\ Changes(m, w, o)
      /\ \A j : Cell(w, o, j) = Cell(m, o, j)
  BY ElemsReplaced
<1>6. ConstructAt(m, m.obj[o].data, k, v) = r
  BY <1>4, <1>5 DEF ConstructAt, t
<1> HIDE DEF w
<1>7. /\ Moves(w, r, o) /\ r.obj = w.obj
      /\ \A j \in 1..c : Cell(r, o, j) = IF j = k + 1 THEN t ELSE Cell(w, o, j)
  <2> DEFINE s == <<t>>
  <2>1. Sequence(s) /\ Len(s) = 1 /\ s[1] = t
    BY OneCell
  <2>2. Written(s)
    BY <1>1, <2>1 DEF CellValues, Written
  <2>3. c \in Nat /\ w.obj[o].cap = c /\ c > 0
    BY <1>5, BlockType
  <2> HIDE DEF s
  <2>4. k + Len(s) <= w.obj[o].cap
    <3> HIDE DEF c
    <3> QED BY <2>1, <2>3 DEF c
  <2> DEFINE u == Put(w, w.obj[o].data, k, s)
  <2>5. Moves(w, u, o) /\ u.obj = w.obj /\ Wrote(w, u, o, w.obj[o].cap, k, Len(s), s)
    BY <1>5, <2>1, <2>2, <2>3, <2>4, PutOwnWrites
  <2>6. u = r
    BY DEF s
  <2> HIDE DEF u, r, c
  <2>7. \A j \in 1..c : j \in k+1..k+Len(s) <=> j = k + 1
    BY <2>1, <2>3
  <2>8. (k + 1) - k = 1
    OBVIOUS
  <2> QED BY <2>1, <2>3, <2>5, <2>6, <2>7, <2>8 DEF Wrote
<1> HIDE DEF r
<1>8. r.elem = e /\ r.obj = m.obj /\ Changes(m, r, o)
  BY <1>5, <1>7, ChangesTrans DEF Moves
<1>9. c \in Nat /\ I \subseteq 1..c /\ k + 1 \in 1..c
  <2>1. c \in Nat
    BY BlockType
  <2> HIDE DEF c
  <2> QED BY <2>1 DEF c, Below
<1>10. /\ \A j \in I : Cell(r, o, j) = Cell(m, o, j)
       /\ Cell(r, o, k + 1) = t
  <2> HIDE DEF c
  <2> QED BY <1>5, <1>7, <1>9
<1> DEFINE z == k + 1
<1>11. z \notin I
  OBVIOUS
<1> HIDE DEF z
<1>12. \A j \in I : Cell(m, o, j) # t
  BY <1>1, <1>2 DEF Elem
<1>13. t \notin X
  BY <1>1, <1>2
<1>14. /\ \A j \in I : Elem(r, o, j) = Elem(m, o, j)
       /\ Elem(r, o, z) = v
       /\ \A u \in X : r.elem[u] = m.elem[u]
  BY <1>1, <1>2, <1>3, <1>8, <1>10, <1>12, <1>13 DEF Elem, z
<1>15. Lives(r, o, I \cup {z}, X)
  <2>1. \A j \in I \cup {z} : Cell(r, o, j) \in Tokens /\ Cell(r, o, j) \notin X /\ Elem(r, o, j) # Junk
    BY <1>1, <1>2, <1>10, <1>13, <1>14 DEF z
  <2>2. \A j, l \in I \cup {z} : Cell(r, o, j) = Cell(r, o, l) => j = l
    BY <1>2, <1>10, <1>12 DEF z
  <2>3. ASSUME NEW u \in Tokens, r.elem[u] # Junk
        PROVE  u \in X \/ \E j \in I \cup {z} : Cell(r, o, j) = u
    <3>1. CASE u = t
      BY <3>1, <1>10 DEF z
    <3>2. CASE u # t
      BY <1>2, <1>3, <1>8, <1>10, <2>3, <3>2
    <3> QED BY <3>1, <3>2
  <2>4. \A u \in X : u \in Tokens /\ r.elem[u] # Junk
    BY <1>2, <1>14
  <2>5. r.elem = [u \in Tokens |-> r.elem[u]]
    BY <1>3, <1>8
  <2> QED BY <2>1, <2>2, <2>3, <2>4, <2>5 DEF Lives
<1> QED BY <1>6, <1>8, <1>14, <1>15 DEF Keeps, Adds, z

LEMMA KeepsSelf ==
    ASSUME NEW m, Good(m), NEW o, NEW I, NEW X
    PROVE  Keeps(m, m, o, I, X)
BY ChangesSelf DEF Keeps, Moves

LEMMA KeepsTrans ==
    ASSUME NEW m, NEW w, NEW r, NEW o \in Objects, NEW I, NEW J, NEW X, I \subseteq J,
           Keeps(m, w, o, I, X), Keeps(w, r, o, J, X)
    PROVE  Keeps(m, r, o, I, X)
<1>1. Changes(m, r, o)
  BY ChangesTrans DEF Keeps
<1> QED BY <1>1 DEF Keeps

\* The cells I are not the n after i.
Apart(I, i, n) == \A k \in I : k \notin i+1..i+n

\* Values that elements have.
Living(s) == \A k \in 1..Len(s) : s[k] # Junk

\* The memories f[0], f[1], ... of the steps of Construct.
Stepwise(f, m, p, i, s) ==
    /\ f[0] = m
    /\ \A k \in 1..Len(s) : f[k] = ConstructAt(f[k - 1], p, i + k - 1, s[k])

LEMMA ConstructStepwise ==
    ASSUME NEW m, NEW p, NEW i, NEW s, Len(s) \in Nat
    PROVE  \E f : Stepwise(f, m, p, i, s) /\ Construct(m, p, i, s) = f[Len(s)]
BY ConstructSteps DEF Stepwise

\* The n cells of o after i have new elements, of the values s.
Builds(m, r, o, I, X, i, s) ==
    /\ Keeps(m, r, o, I, X)
    /\ Lives(r, o, I \cup (i+1..i+Len(s)), X)
    /\ \A k \in 1..Len(s) : Elem(r, o, i + k) = s[k]

\* Elements constructed one after the other.
LEMMA ConstructLives ==
    ASSUME NEW m, Good(m), NEW o \in Objects,
           NEW I \in SUBSET (1..MaxSize), NEW X, Lives(m, o, I, X), Room(o, X),
           Below(I, m.obj[o].cap),
           NEW i \in Nat, NEW s, Len(s) \in Nat, i + Len(s) <= m.obj[o].cap, i + Len(s) <= MaxSize,
           Apart(I, i, Len(s)), Living(s)
    PROVE  Builds(m, Construct(m, m.obj[o].data, i, s), o, I, X, i, s)
<1> DEFINE n == Len(s)
           p == m.obj[o].data
           c == m.obj[o].cap
<1>0. PICK f : Stepwise(f, m, p, i, s) /\ Construct(m, p, i, s) = f[n]
  BY ConstructStepwise
<1>1. /\ f[0] = m
      /\ \A k \in 1..n : f[k] = ConstructAt(f[k - 1], p, i + k - 1, s[k])
      /\ Construct(m, p, i, s) = f[n]
  BY <1>0 DEF Stepwise
<1>2. /\ n \in Nat /\ c \in Nat /\ MaxSize \in Nat /\ i + n <= c /\ i + n <= MaxSize
      /\ \A j \in I : j \notin i+1..i+n /\ j <= c /\ j \in 1..MaxSize
      /\ \A k \in 1..n : s[k] # Junk
  BY BlockType, MemoryAssumption DEF Below, Apart, Living
<1> DEFINE J(k) == I \cup (i+1..i+k)
           Built(k) == /\ Keeps(m, f[k], o, I, X)
                       /\ Lives(f[k], o, J(k), X)
                       /\ \A j \in 1..k : Elem(f[k], o, i + j) = s[j]
           S == {k \in 0..n : Built(k)}
<1>3. Built(0)
  <2>1. J(0) = I
    <3>1. i+1..i+0 = {}
      OBVIOUS
    <3> QED BY <3>1
  <2>2. Keeps(m, f[0], o, I, X)
    BY <1>1, KeepsSelf
  <2>3. Lives(f[0], o, J(0), X)
    BY <1>1, <2>1
  <2>4. \A j \in 1..0 : Elem(f[0], o, i + j) = s[j]
    OBVIOUS
  <2> QED BY <2>2, <2>3, <2>4
<1>4. ASSUME NEW k \in 1..n, Built(k - 1) PROVE Built(k)
  <2> DEFINE x == i + k - 1
             h == k - 1
             w == f[h]
             r == ConstructAt(w, w.obj[o].data, x, s[k])
             K == J(h)
  <2>1. /\ h \in Nat /\ k = h + 1 /\ x \in Nat /\ x = i + h /\ x + 1 = i + k /\ i + k <= c
        /\ i + k <= MaxSize /\ h \in 0..n
    <3> HIDE DEF n, c
    <3> QED BY <1>2
  <2>2. /\ Keeps(m, w, o, I, X) /\ Lives(w, o, K, X)
        /\ \A j \in 1..h : Elem(w, o, i + j) = s[j]
    BY <1>4
  <2> HIDE DEF w
  <2>3. /\ K \in SUBSET (1..MaxSize) /\ x + 1 \notin K
        /\ \A j \in K : j <= c
    <3> HIDE DEF n, c, h, x
    <3>1. \A j \in i+1..i+h : j \in 1..MaxSize /\ j <= c /\ j # x + 1
      BY <1>2, <2>1
    <3>2. x + 1 \in i+1..i+n
      BY <1>2, <2>1
    <3>3. \A j \in I : j # x + 1
      BY <1>2, <3>2
    <3> QED BY <1>2, <3>1, <3>3
  <2>4. w.obj = m.obj /\ Good(w) /\ Changes(m, w, o)
    BY <2>2 DEF Keeps, Changes
  <2>5. w.obj[o].data = p /\ w.obj[o].cap = c /\ c > 0 /\ x + 1 <= c
    <3>1. c > 0
      <4> HIDE DEF c
      <4> QED BY <1>2, <2>1
    <3> QED BY <2>1, <2>4, <3>1
  <2>6. r = f[k]
    BY <1>1, <2>5 DEF w
  <2>7. s[k] # Junk
    BY <1>2
  <2>14. /\ Good(w) /\ w.obj[o].cap > 0 /\ K \in SUBSET (1..MaxSize)
        /\ Lives(w, o, K, X) /\ Below(K, w.obj[o].cap)
    BY <2>2, <2>3, <2>4, <2>5 DEF Below
  <2>15. x \in Nat /\ x + 1 <= w.obj[o].cap /\ x + 1 \notin K
    BY <2>1, <2>3, <2>5
  <2> HIDE DEF x, h, K, c, n
  <2>8. Keeps(w, r, o, K, X) /\ Lives(r, o, K \cup {x + 1}, X) /\ Elem(r, o, x + 1) = s[k]
    <3> DEFINE v == s[k]
    <3>1. v # Junk
      BY <2>7
    <3> HIDE DEF v
    <3>2. Adds(w, ConstructAt(w, w.obj[o].data, x, v), o, K, X, x + 1, v)
      BY <2>14, <2>15, <3>1, ConstructAtLives
    <3> QED BY <3>2 DEF Adds, v
  <2> HIDE DEF r
  <2>9. I \subseteq K
    BY DEF K
  <2>10. Keeps(m, r, o, I, X)
    BY <2>2, <2>8, <2>9, KeepsTrans
  <2>11. K \cup {x + 1} = J(k)
    <3>1. (i+1..i+h) \cup {x + 1} = i+1..i+k
      BY <2>1
    <3> QED BY <3>1 DEF K
  <2>12. ASSUME NEW j \in 1..k PROVE Elem(r, o, i + j) = s[j]
    <3>1. CASE j = k
      BY <2>1, <2>8, <3>1
    <3>2. CASE j # k
      <4>1. j \in 1..h /\ i + j \in i+1..i+h
        BY <2>1, <3>2
      <4>2. i + j \in K
        BY <4>1 DEF K
      <4>3. Elem(r, o, i + j) = Elem(w, o, i + j)
        BY <2>8, <4>2 DEF Keeps
      <4> QED BY <2>2, <4>1, <4>3
    <3> QED BY <3>1, <3>2
  <2> QED BY <2>6, <2>8, <2>10, <2>11, <2>12
<1>5. 0 \in S
  BY <1>2, <1>3
<1>6. \A k \in 1..n : k - 1 \in S => k \in S
  <2> TAKE k \in 1..n
  <2> HAVE k - 1 \in S
  <2>1. Built(k - 1)
    OBVIOUS
  <2> HIDE DEF Built
  <2>2. Built(k)
    BY <1>4, <2>1
  <2>3. k \in 0..n
    BY <1>2
  <2> QED BY <2>2, <2>3
<1>7. n \in S
  <2> HIDE DEF S
  <2>1. 0..n \subseteq S
    BY <1>2, <1>5, <1>6, UpTo
  <2> QED BY <1>2, <2>1
<1>8. Built(n)
  BY <1>7
<1> HIDE DEF Built
<1>9. Built(n) => /\ Keeps(m, f[n], o, I, X)
                  /\ Lives(f[n], o, J(n), X)
                  /\ \A j \in 1..n : Elem(f[n], o, i + j) = s[j]
  BY DEF Built
<1> QED BY <1>1, <1>8, <1>9 DEF Builds

\* The elements in the cells I of o are those that are left.
Leaves(m, r, o, I, X) == Keeps(m, r, o, I, X) /\ Lives(r, o, I, X)

\* Elements destroyed: they were alive, each in a cell of its own.
LEMMA DestroyRangeLives ==
    ASSUME NEW m, Good(m), NEW o \in Objects, NEW I, NEW X, Lives(m, o, I, X),
           NEW f \in Nat, NEW l \in Nat, l <= m.obj[o].cap, f+1..l \subseteq I
    PROVE  Leaves(m, DestroyRange(m, m.obj[o].data, f, l), o, I \ (f+1..l), X)
<1> DEFINE p == m.obj[o].data
           c == m.obj[o].cap
           r == DestroyRange(m, p, f, l)
           D == f+1..l
           J == I \ D
           dead == {m.heap[p][k] : k \in D}
<1>1. /\ m.elem = [t \in Tokens |-> m.elem[t]]
      /\ \A k \in I : Cell(m, o, k) \in Tokens /\ Cell(m, o, k) \notin X /\ Elem(m, o, k) # Junk
      /\ \A j, k \in I : Cell(m, o, j) = Cell(m, o, k) => j = k
      /\ \A t \in X : t \in Tokens /\ m.elem[t] # Junk
      /\ \A t \in Tokens : m.elem[t] # Junk => t \in X \/ \E k \in I : Cell(m, o, k) = t
  BY DEF Lives
<1>2. CASE f >= l
  <2>1. r = m
    BY <1>2 DEF DestroyRange
  <2>2. J = I
    BY <1>2
  <2> HIDE DEF r, J
  <2>3. Leaves(m, r, o, J, X)
    BY <2>1, <2>2, KeepsSelf DEF Leaves
  <2> QED BY <2>3 DEF r, J
<1>3. CASE ~(f >= l)
  <2>1. c \in Nat /\ c > 0 /\ l <= c
    <3>1. c \in Nat /\ l <= c
      BY BlockType
    <3> HIDE DEF c
    <3> QED BY <1>3, <3>1
  <2>2. /\ p \in Addrs /\ p # Null /\ Len(m.heap[p]) = c /\ Cells(m, p) = m.heap[p]
        /\ \A k : Cell(m, o, k) = m.heap[p][k]
    BY <2>1, OwnCells, AddrIsNumber
  <2>3. dead = {Cell(m, o, k) : k \in D}
    BY <2>2
  <2> DEFINE g == [k \in D |-> Cell(m, o, k)]
  <2>4. IsFiniteSet(D) /\ Cardinality(D) = l - f
    BY <1>3, FS_Interval
  <2>5. D \subseteq I
    OBVIOUS
  <2> HIDE DEF D, dead, c, p, J
  <2>6. g \in Surjection(D, dead) /\ g \in Injection(D, dead)
    <3>1. g \in [D -> dead]
      BY <2>3
    <3>2. \A t \in dead : \E k \in D : g[k] = t
      BY <2>3
    <3>3. \A j, k \in D : g[j] = g[k] => j = k
      BY <1>1, <2>5
    <3> HIDE DEF g
    <3> QED BY <3>1, <3>2, <3>3 DEF Surjection, Injection, IsInjective
  <2>7. Cardinality(dead) = l - f
    <3> HIDE DEF g
    <3> QED BY <2>4, <2>6, FS_Surjection
  <2>8. \A t \in dead : Alive(m, t)
    BY <1>1, <2>3, <2>5 DEF Alive, Elem
  <2>9. InBounds(m, p, f, l - f)
    BY <1>3, <2>1, <2>2 DEF InBounds
  <2> DEFINE e == [t \in Tokens |-> IF t \in dead THEN Junk ELSE m.elem[t]]
             w == WithElems(m, e)
  <2>10. r = w
    <3>1. DestroyRange(m, p, f, l) =
            IF f >= l THEN m
            ELSE IF InBounds(m, p, f, l - f) /\ Cardinality(dead) = l - f
                    /\ \A t \in dead : Alive(m, t)
            THEN w
            ELSE Fault(m)
      BY DEF DestroyRange, WithElems, dead, D
    <3> HIDE DEF w, r
    <3> QED BY <1>3, <2>7, <2>8, <2>9, <3>1 DEF r
  <2> HIDE DEF e, r
  <2>11. /\ w.obj = m.obj /\ w.elem = e /\ Changes(m, w, o)
         /\ \A k : Cell(w, o, k) = Cell(m, o, k)
    BY ElemsReplaced
  <2> HIDE DEF w
  <2>12. \A t \in Tokens : e[t] = IF t \in dead THEN Junk ELSE m.elem[t]
    BY DEF e
  <2>13. J \subseteq I /\ \A k \in J : Cell(m, o, k) \notin dead
    BY <1>1, <2>3, <2>5 DEF J
  <2>14. /\ \A k \in J : Elem(w, o, k) = Elem(m, o, k)
         /\ \A t \in X : w.elem[t] = m.elem[t]
    BY <1>1, <2>3, <2>5, <2>11, <2>12, <2>13 DEF Elem
  <2>15. Keeps(m, w, o, J, X)
    BY <2>11, <2>14 DEF Keeps
  <2>16. Lives(w, o, J, X)
    <3>1. \A k \in J : Cell(w, o, k) \in Tokens /\ Cell(w, o, k) \notin X /\ Elem(w, o, k) # Junk
      BY <1>1, <2>11, <2>13, <2>14
    <3>2. \A j, k \in J : Cell(w, o, j) = Cell(w, o, k) => j = k
      BY <1>1, <2>11, <2>13
    <3>3. \A t \in X : t \in Tokens /\ w.elem[t] # Junk
      BY <1>1, <2>14
    <3>4. ASSUME NEW t \in Tokens, w.elem[t] # Junk
          PROVE  t \in X \/ \E k \in J : Cell(w, o, k) = t
      <4>1. t \notin dead /\ m.elem[t] # Junk
        BY <2>11, <2>12, <3>4
      <4>2. CASE t \notin X
        <5>1. PICK k \in I : Cell(m, o, k) = t
          BY <1>1, <4>1, <4>2
        <5>2. k \in J
          BY <2>3, <4>1, <5>1 DEF J
        <5> QED BY <2>11, <5>1, <5>2
      <4> QED BY <4>2
    <3>5. w.elem = [t \in Tokens |-> w.elem[t]]
      BY <2>11 DEF e
    <3> QED BY <3>1, <3>2, <3>3, <3>4, <3>5 DEF Lives
  <2>17. Leaves(m, r, o, J, X)
    BY <2>10, <2>15, <2>16 DEF Leaves
  <2> QED BY <2>17 DEF r, p, J, D
<1> QED BY <1>2, <1>3

\* The elements of o have new values.
Revalues(m, r, o, I, X, s) ==
    /\ Keeps(m, r, o, {}, X) /\ Lives(r, o, I, X)
    /\ \A k \in I : Elem(r, o, k) = s[k]

LEMMA AssignElementsLives ==
    ASSUME NEW m, Good(m), NEW o \in Objects, NEW s, Sequence(s), Living(s), NEW X,
           Lives(m, o, 1..Len(s), X)
    PROVE  Revalues(m, AssignElements(m, o, s), o, 1..Len(s), X, s)
<1> DEFINE I == 1..Len(s)
           e == [t \in Tokens |-> IF \E k \in DOMAIN s : Cell(m, o, k) = t
                                  THEN s[CHOOSE k \in DOMAIN s : Cell(m, o, k) = t] ELSE m.elem[t]]
           w == WithElems(m, e)
<1>1. /\ m.elem = [t \in Tokens |-> m.elem[t]]
      /\ \A k \in I : Cell(m, o, k) \in Tokens /\ Cell(m, o, k) \notin X /\ Elem(m, o, k) # Junk
      /\ \A j, k \in I : Cell(m, o, j) = Cell(m, o, k) => j = k
      /\ \A t \in X : t \in Tokens /\ m.elem[t] # Junk
      /\ \A t \in Tokens : m.elem[t] # Junk => t \in X \/ \E k \in I : Cell(m, o, k) = t
  BY DEF Lives
<1>2. DOMAIN s = I
  BY SequenceProperty
<1>3. \A k \in I : s[k] # Junk
  BY DEF Living
<1> HIDE DEF I
<1>4. AssignElements(m, o, s) = w
  <2>1. \A k \in DOMAIN s : Alive(m, Cell(m, o, k))
    BY <1>1, <1>2 DEF Alive, Elem
  <2> QED BY <2>1 DEF AssignElements, WithElems
<1>5. \A k \in I : e[Cell(m, o, k)] = s[k]
  <2> TAKE k \in I
  <2> DEFINE t == Cell(m, o, k)
             j == CHOOSE j \in DOMAIN s : Cell(m, o, j) = t
  <2>1. t \in Tokens /\ k \in DOMAIN s
    BY <1>1, <1>2
  <2>2. j \in I /\ Cell(m, o, j) = t
    BY <1>2, <2>1
  <2>3. j = k
    <3> HIDE DEF j
    <3> QED BY <1>1, <2>2
  <2>4. e[t] = s[j]
    BY <2>1
  <2> QED BY <2>3, <2>4
<1>6. \A t \in Tokens : (\E k \in I : Cell(m, o, k) = t) \/ e[t] = m.elem[t]
  BY <1>2
<1>7. e = [t \in Tokens |-> e[t]]
  OBVIOUS
<1> HIDE DEF e
<1>8. /\ w.obj = m.obj /\ w.elem = e /\ Changes(m, w, o)
      /\ \A k : Cell(w, o, k) = Cell(m, o, k)
  BY ElemsReplaced
<1> HIDE DEF w
<1>9. \A k \in I : Elem(w, o, k) = s[k]
  BY <1>5, <1>8 DEF Elem
<1>10. \A t \in X : w.elem[t] = m.elem[t]
  BY <1>1, <1>6, <1>8
<1>11. Lives(w, o, I, X)
  <2>1. \A k \in I : Cell(w, o, k) \in Tokens /\ Cell(w, o, k) \notin X /\ Elem(w, o, k) # Junk
    BY <1>1, <1>3, <1>8, <1>9
  <2>2. \A j, k \in I : Cell(w, o, j) = Cell(w, o, k) => j = k
    BY <1>1, <1>8
  <2>3. \A t \in X : t \in Tokens /\ w.elem[t] # Junk
    BY <1>1, <1>10
  <2>4. \A t \in Tokens : w.elem[t] # Junk => t \in X \/ \E k \in I : Cell(w, o, k) = t
    BY <1>1, <1>6, <1>8
  <2>5. w.elem = [t \in Tokens |-> w.elem[t]]
    BY <1>7, <1>8
  <2> QED BY <2>1, <2>2, <2>3, <2>4, <2>5 DEF Lives
<1> QED BY <1>4, <1>8, <1>9, <1>10, <1>11 DEF Revalues, Keeps, I

-----------------------------------------------------------------------------
(* Vectors *)

\* Elements move with their cells: what is in cell j of o was in cell g[j].
LEMMA LivesMoved ==
    ASSUME NEW m, NEW r, NEW o, Moves(m, r, o), NEW I, NEW J, NEW X, Lives(m, o, I, X),
           NEW g \in [J -> I], \A j \in J : Cell(r, o, j) = Cell(m, o, g[j]),
           \A j, k \in J : g[j] = g[k] => j = k, \A k \in I : \E j \in J : g[j] = k
    PROVE  Lives(r, o, J, X) /\ \A j \in J : Elem(r, o, j) = Elem(m, o, g[j])
<1>1. r.elem = m.elem
  BY DEF Moves
<1>2. \A j \in J : g[j] \in I
  OBVIOUS
<1>3. \A j \in J : Elem(r, o, j) = Elem(m, o, g[j])
  BY <1>1 DEF Elem
<1> QED BY <1>1, <1>2, <1>3 DEF Lives

LEMMA LivesStay ==
    ASSUME NEW m, NEW r, NEW o, Moves(m, r, o), NEW I, NEW X, Lives(m, o, I, X),
           \A j \in I : Cell(r, o, j) = Cell(m, o, j)
    PROVE  Lives(r, o, I, X) /\ \A j \in I : Elem(r, o, j) = Elem(m, o, j)
<1>1. r.elem = m.elem
  BY DEF Moves
<1> QED BY <1>1 DEF Lives, Elem

\* The cells of o before and after d of them, after i, have given way to n others.
Spared(i, d, x) == (1..i) \cup (i+d+1..x)

\* What is left moves as the splice moves its cells.
Carried(m, r, o, i, d, n, x) ==
    /\ \A k \in 1..i : Elem(r, o, k) = Elem(m, o, k)
    /\ \A k \in i+n+1..x-d+n : Elem(r, o, k) = Elem(m, o, k - n + d)

LEMMA SplicedLives ==
    ASSUME NEW m, NEW r, NEW o, Moves(m, r, o), NEW i \in Nat, NEW d \in Nat, NEW n \in Nat,
           m.obj[o].size \in Nat, i + d <= m.obj[o].size, Spliced(m, r, o, i, d, n),
           NEW X, Lives(m, o, Spared(i, d, m.obj[o].size), X)
    PROVE  /\ Lives(r, o, Spared(i, n, m.obj[o].size - d + n), X)
           /\ Carried(m, r, o, i, d, n, m.obj[o].size)
<1> DEFINE x == m.obj[o].size
           y == x - d + n
           I == Spared(i, d, x)
           J == Spared(i, n, y)
           g == [j \in J |-> IF j <= i THEN j ELSE j - n + d]
<1>1. /\ \A k \in 1..i : Cell(r, o, k) = Cell(m, o, k)
      /\ \A k \in i+n+1..y : Cell(r, o, k) = Cell(m, o, k - n + d)
  BY DEF Spliced
<1>2. x \in Nat /\ i + d <= x
  OBVIOUS
<1> HIDE DEF x
<1>3. y \in Int /\ y = x - d + n
  BY <1>2
<1> HIDE DEF y
<1>4. \A j : j \in J <=> j \in Int /\ ((1 <= j /\ j <= i) \/ (i + n + 1 <= j /\ j <= y))
  BY <1>3 DEF Spared
<1>5. \A j : j \in I <=> j \in Int /\ ((1 <= j /\ j <= i) \/ (i + d + 1 <= j /\ j <= x))
  BY <1>2 DEF Spared
<1> HIDE DEF I, J
<1>6. \A j \in J : g[j] = IF j <= i THEN j ELSE j - n + d
  OBVIOUS
<1>7. \A j \in J : g[j] \in I
  BY <1>2, <1>3, <1>4, <1>5, <1>6
<1>8. g \in [J -> I]
  BY <1>7
<1> HIDE DEF g
<1>9. \A j \in J : Cell(r, o, j) = Cell(m, o, g[j])
  <2> TAKE j \in J
  <2>1. CASE j <= i
    <3>1. j \in 1..i
      BY <1>4, <2>1
    <3> QED BY <1>1, <1>6, <2>1, <3>1
  <2>2. CASE ~(j <= i)
    <3>1. j \in i+n+1..y
      BY <1>3, <1>4, <2>2
    <3> QED BY <1>1, <1>6, <2>2, <3>1
  <2> QED BY <2>1, <2>2
<1>10. \A j, k \in J : g[j] = g[k] => j = k
  BY <1>4, <1>6
<1>11. \A k \in I : \E j \in J : g[j] = k
  <2> TAKE k \in I
  <2>1. CASE k <= i
    BY <1>4, <1>5, <1>6, <2>1
  <2>2. CASE ~(k <= i)
    <3> DEFINE j == k + n - d
    <3>1. j \in J /\ ~(j <= i) /\ j - n + d = k
      BY <1>2, <1>3, <1>4, <1>5, <2>2
    <3> HIDE DEF j
    <3> QED BY <1>6, <3>1
  <2> QED BY <2>1, <2>2
<1>12. Lives(m, o, I, X)
  BY DEF I, x
<1>13. Lives(r, o, J, X) /\ \A j \in J : Elem(r, o, j) = Elem(m, o, g[j])
  BY <1>8, <1>9, <1>10, <1>11, <1>12, LivesMoved
<1>14. Carried(m, r, o, i, d, n, x)
  <2>1. ASSUME NEW k \in 1..i PROVE Elem(r, o, k) = Elem(m, o, k)
    <3>1. k \in J /\ k <= i
      BY <1>4
    <3> QED BY <1>6, <1>13, <3>1
  <2>2. ASSUME NEW k \in i+n+1..x-d+n PROVE Elem(r, o, k) = Elem(m, o, k - n + d)
    <3>1. k \in J /\ ~(k <= i)
      BY <1>2, <1>3, <1>4
    <3> QED BY <1>6, <1>13, <3>1
  <2> QED BY <2>1, <2>2 DEF Carried
<1> QED BY <1>13, <1>14 DEF J, y, x

\* A vector, whose elements are those that live but for X.
Vector(m, o, X) ==
    /\ Writable(m, o) /\ Zt(m.obj[o]) = 0 /\ m.obj[o].size <= MaxSize
    /\ Room(o, X) /\ Lives(m, o, 1..m.obj[o].size, X)

\* Vector o holds e.
Reads(m, o, e) ==
    /\ Sequence(e) /\ Living(e) /\ Len(e) = m.obj[o].size
    /\ \A k \in 1..Len(e) : Elem(m, o, k) = e[k]

\* An operation on vector o, which leaves the other elements alone.
Rebuilt(m, r, o, X) ==
    Changes(m, r, o) /\ Vector(r, o, X) /\ \A t \in X : r.elem[t] = m.elem[t]

\* New elements in the place of old ones.
Holding(r, o, i, s) == \A k \in 1..Len(s) : Elem(r, o, i + k) = s[k]

LEMMA ReplacedReads ==
    ASSUME NEW m, NEW r, NEW o, NEW e, Reads(m, o, e), NEW i \in Nat, NEW d \in Nat,
           i + d <= m.obj[o].size, NEW s, Sequence(s), Living(s),
           r.obj[o].size = m.obj[o].size - d + Len(s),
           Carried(m, r, o, i, d, Len(s), m.obj[o].size), Holding(r, o, i, s)
    PROVE  Reads(r, o, With(e, i, d, s))
<1> DEFINE x == m.obj[o].size
           n == Len(s)
           u == With(e, i, d, s)
           y == x - d + n
<1>1. Sequence(e) /\ Len(e) = x /\ x \in Nat /\ n \in Nat
  BY SequenceProperty DEF Reads
<1>2. Replaced(u, e, i, d, s)
  BY <1>1, WithCells
<1> HIDE DEF u
<1>3. /\ Sequence(u) /\ Len(u) = y
      /\ \A k \in 1..y : u[k] = IF k <= i THEN e[k]
                                ELSE IF k <= i + n THEN s[k - i] ELSE e[k - n + d]
  BY <1>1, <1>2 DEF Replaced
<1>4. /\ \A k \in 1..x : Elem(m, o, k) = e[k] /\ e[k] # Junk
      /\ \A k \in 1..n : s[k] # Junk /\ Elem(r, o, i + k) = s[k]
  BY <1>1 DEF Reads, Living, Holding
<1>5. /\ \A k \in 1..i : Elem(r, o, k) = Elem(m, o, k)
      /\ \A k \in i+n+1..x-d+n : Elem(r, o, k) = Elem(m, o, k - n + d)
  BY DEF Carried
<1>6. i + d <= x /\ r.obj[o].size = y
  OBVIOUS
<1> HIDE DEF x, n
<1>7. ASSUME NEW k \in 1..y PROVE u[k] # Junk /\ Elem(r, o, k) = u[k]
  <2>1. CASE k <= i
    <3>1. k \in 1..i /\ k \in 1..x
      BY <1>1, <1>6, <2>1
    <3> QED BY <1>3, <1>4, <1>5, <2>1, <3>1
  <2>2. CASE ~(k <= i) /\ k <= i + n
    <3>1. k - i \in 1..n /\ i + (k - i) = k
      BY <1>1, <2>2
    <3>2. Elem(r, o, k) = s[k - i] /\ s[k - i] # Junk
      BY <1>4, <3>1
    <3> QED BY <1>3, <2>2, <3>2
  <2>3. CASE ~(k <= i) /\ ~(k <= i + n)
    <3>1. k \in i+n+1..x-d+n /\ k - n + d \in 1..x
      BY <1>1, <1>6, <2>3
    <3>2. Elem(r, o, k) = Elem(m, o, k - n + d)
      BY <1>5, <3>1
    <3>3. u[k] = e[k - n + d]
      BY <1>3, <2>3
    <3> QED BY <1>4, <3>1, <3>2, <3>3
  <2> QED BY <2>1, <2>2, <2>3
<1> QED BY <1>3, <1>6, <1>7 DEF Reads, Living, u

\* What an operation on vector o leaves it holding.
Stands(m, r, o, X, e) == Rebuilt(m, r, o, X) /\ Reads(r, o, e)

LEMMA VectorType ==
    ASSUME NEW m, NEW o \in Objects, NEW X, Vector(m, o, X)
    PROVE  /\ Usable(m, o) /\ Good(m) /\ Fits(m, o) /\ Sound(m, o)
           /\ m.obj[o].size \in Nat /\ m.obj[o].cap \in Nat /\ m.obj[o].size <= m.obj[o].cap
           /\ m.obj[o].size <= MaxSize /\ Zt(m.obj[o]) = 0
           /\ MaxSize \in Nat
<1>1. Writable(m, o) /\ Zt(m.obj[o]) = 0 /\ m.obj[o].size <= MaxSize
  BY DEF Vector
<1>2. /\ m.obj[o].size \in Nat /\ m.obj[o].cap \in Nat
      /\ m.obj[o].size + Zt(m.obj[o]) <= m.obj[o].cap /\ Good(m)
  BY <1>1, WritableType
<1>3. Usable(m, o) /\ Fits(m, o) /\ Sound(m, o)
  BY <1>1 DEF Writable, Fits
<1> QED BY <1>1, <1>2, <1>3, MemoryAssumption

\* Nothing is left out when nothing is removed, and what is put in fills the gap.
LEMMA SparedCells ==
    ASSUME NEW i \in Nat, NEW d \in Nat, NEW x \in Nat, i + d <= x
    PROVE  /\ Spared(i, 0, x) = 1..x
           /\ Spared(i, d, x) \cup (i+1..i+d) = 1..x
           /\ (1..x) \ (i+1..i+d) = Spared(i, d, x)
           /\ Apart(Spared(i, d, x), i, d) /\ Below(Spared(i, d, x), x)
           /\ Spared(i, d, x) \subseteq 1..x
BY DEF Spared, Apart, Below

LEMMA CarriedOn ==
    ASSUME NEW m, NEW h, NEW r, NEW o, NEW i \in Nat, NEW d \in Nat, NEW n \in Nat, NEW x \in Nat,
           i + d <= x, Carried(m, h, o, i, d, n, x), NEW X, Keeps(h, r, o, Spared(i, n, x - d + n), X)
    PROVE  Carried(m, r, o, i, d, n, x)
<1>1. \A k \in Spared(i, n, x - d + n) : Elem(r, o, k) = Elem(h, o, k)
  BY DEF Keeps
<1>2. (1..i) \subseteq Spared(i, n, x - d + n) /\ (i+n+1..x-d+n) \subseteq Spared(i, n, x - d + n)
  BY DEF Spared
<1> QED BY <1>1, <1>2 DEF Carried

LEMMA InsertElementsStands ==
    ASSUME NEW m, NEW o \in Objects, NEW X, Vector(m, o, X), NEW e, Reads(m, o, e),
           NEW i \in Nat, i <= m.obj[o].size, NEW s, Sequence(s), Living(s),
           m.obj[o].size + Len(s) <= MaxSize
    PROVE  Stands(m, InsertElements(m, o, i, s), o, X, With(e, i, 0, s))
<1> DEFINE n == Len(s)
           x == m.obj[o].size
           h == InsertHole(m, o, i, n)
           r == Construct(h, h.obj[o].data, i, s)
           y == x - 0 + n
           I == Spared(i, n, y)
           zero == 0
<1>1. /\ Usable(m, o) /\ Good(m) /\ Fits(m, o) /\ x \in Nat /\ x <= MaxSize /\ Zt(m.obj[o]) = 0
      /\ MaxSize \in Nat
  BY VectorType
<1>2. n \in Nat /\ i <= x /\ x + n <= MaxSize
  BY SequenceProperty
<1>3. InsertElements(m, o, i, s) = r
  BY DEF InsertElements
<1>4. Done(m, h, o) /\ Spliced(m, h, o, i, 0, n)
  BY <1>1, <1>2, HoleSplices
<1> HIDE DEF h
<1>5. Lives(m, o, Spared(i, 0, x), X) /\ Room(o, X)
  <2>1. Spared(i, 0, x) = 1..x
    BY <1>1, <1>2, SparedCells
  <2> QED BY <2>1 DEF Vector
<1> HIDE DEF r, n
<1>6. Lives(h, o, I, X) /\ Carried(m, h, o, i, 0, n, x)
  <2>1. zero \in Nat /\ i + zero <= m.obj[o].size /\ Spliced(m, h, o, i, zero, n)
        /\ Lives(m, o, Spared(i, zero, m.obj[o].size), X)
    BY <1>1, <1>2, <1>4, <1>5
  <2>2. Moves(m, h, o)
    BY <1>4 DEF Done
  <2> HIDE DEF zero, I
  <2>3. /\ Lives(h, o, Spared(i, n, m.obj[o].size - zero + n), X)
        /\ Carried(m, h, o, i, zero, n, m.obj[o].size)
    BY <1>1, <1>2, <2>1, <2>2, SplicedLives
  <2> QED BY <2>3 DEF zero, I
<1>7. /\ Good(h) /\ Writable(h, o) /\ Zt(h.obj[o]) = 0 /\ Changes(m, h, o) /\ h.obj[o].size = y
      /\ h.elem = m.elem
  BY <1>1, <1>4 DEF Done, Spliced, Changes, Moves
<1>8. y \in Nat /\ y = x + n /\ i + n <= y /\ y <= MaxSize
  <2> HIDE DEF x
  <2> QED BY <1>1, <1>2
<1>9. h.obj[o].cap \in Nat /\ y <= h.obj[o].cap
  <2>1. /\ h.obj[o].cap \in Nat /\ h.obj[o].size + Zt(h.obj[o]) <= h.obj[o].cap
    BY <1>7, WritableType
  <2> HIDE DEF y
  <2> QED BY <1>7, <1>8, <2>1
<1> HIDE DEF x, y
<1>10. /\ I \cup (i+1..i+n) = 1..y /\ Apart(I, i, n) /\ Below(I, y) /\ I \subseteq 1..y
  BY <1>2, <1>8, SparedCells
<1>11. Below(I, h.obj[o].cap) /\ I \in SUBSET (1..MaxSize) /\ i + n <= h.obj[o].cap /\ i + n <= MaxSize
  <2> HIDE DEF I
  <2>1. \A k \in I : k \in 1..y
    BY <1>10
  <2>2. \A k \in 1..y : k \in 1..MaxSize /\ k <= h.obj[o].cap
    BY <1>1, <1>8, <1>9
  <2> QED BY <1>1, <1>2, <1>8, <1>9, <2>1, <2>2 DEF Below
<1> HIDE DEF I
<1>12. Builds(h, r, o, I, X, i, s)
  BY <1>2, <1>5, <1>6, <1>7, <1>10, <1>11, ConstructLives DEF r, n
<1>13. /\ Keeps(h, r, o, I, X) /\ Lives(r, o, 1..y, X) /\ Holding(r, o, i, s)
  BY <1>10, <1>12 DEF Builds, Holding, n
<1>14. /\ r.obj = h.obj /\ Changes(h, r, o) /\ Good(r) /\ \A t \in X : r.elem[t] = h.elem[t]
  BY <1>13 DEF Keeps, Changes
<1>15. Changes(m, r, o) /\ Writable(r, o)
  BY <1>7, <1>14, ChangesTrans, FitsKept
<1>16. Vector(r, o, X)
  BY <1>5, <1>7, <1>8, <1>13, <1>14, <1>15 DEF Vector
<1>17. Rebuilt(m, r, o, X)
  BY <1>7, <1>14, <1>15, <1>16 DEF Rebuilt
<1>18. Carried(m, r, o, i, 0, n, x)
  <2>1. zero \in Nat /\ i + zero <= x /\ Carried(m, h, o, i, zero, n, x)
        /\ Keeps(h, r, o, Spared(i, n, x - zero + n), X)
    BY <1>2, <1>6, <1>13 DEF I, y
  <2> HIDE DEF zero
  <2>2. Carried(m, r, o, i, zero, n, x)
    BY <1>1, <1>2, <2>1, CarriedOn
  <2> QED BY <2>2 DEF zero
<1>19. Reads(r, o, With(e, i, 0, s))
  <2>1. zero \in Nat /\ i + zero <= m.obj[o].size /\ r.obj[o].size = m.obj[o].size - zero + Len(s)
        /\ Carried(m, r, o, i, zero, Len(s), m.obj[o].size)
    BY <1>2, <1>7, <1>14, <1>18 DEF x, y, n
  <2> HIDE DEF zero
  <2>2. Reads(r, o, With(e, i, zero, s))
    BY <1>13, <2>1, ReplacedReads
  <2> QED BY <2>2 DEF zero
<1> QED BY <1>3, <1>17, <1>19 DEF Stands

LEMMA CarriedFrom ==
    ASSUME NEW m, NEW w, NEW r, NEW o, NEW i \in Nat, NEW d \in Nat, NEW n \in Nat, NEW x \in Nat,
           i + d <= x, Carried(w, r, o, i, d, n, x), NEW X, Keeps(m, w, o, Spared(i, d, x), X)
    PROVE  Carried(m, r, o, i, d, n, x)
<1>1. \A k \in Spared(i, d, x) : Elem(w, o, k) = Elem(m, o, k)
  BY DEF Keeps
<1>2. ASSUME NEW k \in 1..i PROVE Elem(r, o, k) = Elem(m, o, k)
  <2>1. k \in Spared(i, d, x)
    BY DEF Spared
  <2> QED BY <1>1, <2>1 DEF Carried
<1>3. ASSUME NEW k \in i+n+1..x-d+n PROVE Elem(r, o, k) = Elem(m, o, k - n + d)
  <2>1. k - n + d \in i+d+1..x
    OBVIOUS
  <2>2. k - n + d \in Spared(i, d, x)
    BY <2>1 DEF Spared
  <2> QED BY <1>1, <2>2 DEF Carried
<1> QED BY <1>2, <1>3 DEF Carried

LEMMA EraseElementsStands ==
    ASSUME NEW m, NEW o \in Objects, NEW X, Vector(m, o, X), NEW e, Reads(m, o, e),
           NEW i \in Nat, NEW n \in Nat, i + n <= m.obj[o].size
    PROVE  Stands(m, EraseElements(m, o, i, n), o, X, With(e, i, n, <<>>))
<1> DEFINE x == m.obj[o].size
           c == m.obj[o].cap
           l == i + n
           w == DestroyRange(m, m.obj[o].data, i, l)
           r == Erase(w, o, i, n)
           I == Spared(i, n, x)
           zero == 0
<1>1. /\ Good(m) /\ x \in Nat /\ c \in Nat /\ x <= c /\ x <= MaxSize /\ MaxSize \in Nat
      /\ Zt(m.obj[o]) = 0 /\ Writable(m, o)
      /\ Lives(m, o, 1..x, X) /\ Room(o, X)
  BY VectorType DEF Vector
<1>2. EraseElements(m, o, i, n) = r
  BY DEF EraseElements
<1>3. l \in Nat /\ l <= x
  BY <1>1
<1>4. l <= c /\ i+1..l \subseteq 1..x /\ (1..x) \ (i+1..l) = I
  <2>1. (1..x) \ (i+1..l) = I
    BY <1>1, SparedCells
  <2> HIDE DEF x, c
  <2>2. l <= c /\ i+1..l \subseteq 1..x
    BY <1>1, <1>3
  <2> QED BY <2>1, <2>2
<1>5. Keeps(m, w, o, I, X) /\ Lives(w, o, I, X)
  <2> DEFINE D == 1..x
  <2>1. Lives(m, o, D, X) /\ i+1..l \subseteq D /\ D \ (i+1..l) = I
    BY <1>1, <1>4
  <2> HIDE DEF D, I, l, x
  <2>2. Leaves(m, w, o, D \ (i+1..l), X)
    BY <1>1, <1>3, <1>4, <2>1, DestroyRangeLives DEF c
  <2> QED BY <2>1, <2>2 DEF Leaves
<1> HIDE DEF w
<1>6. Changes(m, w, o) /\ w.obj = m.obj /\ Good(w) /\ \A t \in X : w.elem[t] = m.elem[t]
  BY <1>5 DEF Keeps, Changes
<1>7. Writable(w, o) /\ w.obj[o].size = x
  BY <1>1, <1>6, FitsKept
<1>8. Done(w, r, o) /\ Spliced(w, r, o, i, n, 0)
  BY <1>7, EraseCells
<1> HIDE DEF r
<1>9. Lives(r, o, Spared(i, 0, x - n + 0), X) /\ Carried(w, r, o, i, n, 0, x)
  <2>1. /\ zero \in Nat /\ i + n <= w.obj[o].size /\ w.obj[o].size \in Nat
        /\ Spliced(w, r, o, i, n, zero)
        /\ Lives(w, o, Spared(i, n, w.obj[o].size), X)
    BY <1>1, <1>5, <1>7, <1>8
  <2>2. Moves(w, r, o)
    BY <1>8 DEF Done
  <2> HIDE DEF zero, I
  <2>3. /\ Lives(r, o, Spared(i, zero, w.obj[o].size - n + zero), X)
        /\ Carried(w, r, o, i, n, zero, w.obj[o].size)
    BY <2>1, <2>2, SplicedLives
  <2> QED BY <1>7, <2>3 DEF zero
<1>10. x - n + 0 \in Nat /\ Spared(i, 0, x - n + 0) = 1..(x - n) /\ x - n <= MaxSize
  <2> DEFINE y == x - n + 0
  <2>0. y = x - n /\ y \in Nat /\ i + zero <= y /\ y <= MaxSize
    <3> HIDE DEF x
    <3> QED BY <1>1, <1>3
  <2> HIDE DEF y
  <2>1. Spared(i, 0, y) = 1..y
    BY <2>0, SparedCells
  <2> QED BY <2>0, <2>1 DEF y
<1>11. /\ Writable(r, o) /\ Zt(r.obj[o]) = 0 /\ Changes(w, r, o) /\ r.obj[o].size = x - n
       /\ r.elem = w.elem
  <2>1. Zt(w.obj[o]) = 0
    BY <1>1, <1>6
  <2>2. /\ Moves(w, r, o) /\ Changes(w, r, o) /\ Writable(r, o)
        /\ Zt(r.obj[o]) = Zt(w.obj[o])
    BY <1>8, Zenon DEF Done
  <2>3. r.obj[o].size = x - n + 0
    BY <1>7, <1>8 DEF Spliced
  <2>4. x - n + 0 = x - n
    <3> HIDE DEF x
    <3> QED BY <1>1
  <2> QED BY <2>1, <2>2, <2>3, <2>4 DEF Moves
<1>12. Vector(r, o, X)
  BY <1>1, <1>9, <1>10, <1>11 DEF Vector
<1>13. Changes(m, r, o)
  BY <1>6, <1>11, ChangesTrans
<1>14. Rebuilt(m, r, o, X)
  BY <1>6, <1>11, <1>12, <1>13 DEF Rebuilt
<1> HIDE DEF I
<1>15. Carried(m, r, o, i, n, 0, x)
  <2>1. zero \in Nat /\ Carried(w, r, o, i, n, zero, x) /\ Keeps(m, w, o, Spared(i, n, x), X)
    BY <1>5, <1>9 DEF I
  <2> HIDE DEF zero
  <2>2. Carried(m, r, o, i, n, zero, x)
    BY <1>1, <2>1, CarriedFrom
  <2> QED BY <2>2 DEF zero
<1>16. Reads(r, o, With(e, i, n, <<>>))
  <2> DEFINE s == <<>>
  <2>1. Sequence(s) /\ Len(s) = 0
    BY EmptySequence
  <2> HIDE DEF s
  <2>2. Living(s) /\ Holding(r, o, i, s)
    BY <2>1 DEF Living, Holding
  <2>3. /\ r.obj[o].size = m.obj[o].size - n + Len(s)
        /\ Carried(m, r, o, i, n, Len(s), m.obj[o].size)
    <3>1. x - n + 0 = x - n
      <4> HIDE DEF x
      <4> QED BY <1>1
    <3> QED BY <1>10, <1>11, <1>15, <2>1, <3>1
  <2>4. Reads(r, o, With(e, i, n, s))
    BY <2>1, <2>2, <2>3, ReplacedReads
  <2> QED BY <2>4 DEF s
<1> QED BY <1>2, <1>14, <1>16 DEF Stands

LEMMA RebuiltTrans ==
    ASSUME NEW m, NEW w, NEW r, NEW o \in Objects, NEW X, Rebuilt(m, w, o, X), Rebuilt(w, r, o, X)
    PROVE  Rebuilt(m, r, o, X)
<1>1. Changes(m, r, o)
  BY ChangesTrans DEF Rebuilt
<1> QED BY <1>1 DEF Rebuilt

\* Erasing first and then inserting is replacing.
LEMMA ErasedThenInserted ==
    ASSUME NEW e, Sequence(e), NEW i \in Nat, NEW n \in Nat, i + n <= Len(e), NEW s, Sequence(s)
    PROVE  /\ With(With(e, i, n, <<>>), i, 0, s) = With(e, i, n, s)
           /\ Len(With(e, i, n, <<>>)) = Len(e) - n
<1> DEFINE u == With(e, i, n, <<>>)
           v == With(u, i, 0, s)
           w == With(e, i, n, s)
           none == <<>>
           zero == 0
           x == Len(e)
           y == Len(s)
<1>1. x \in Nat /\ y \in Nat /\ Sequence(none) /\ Len(none) = 0
  BY SequenceProperty, EmptySequence
<1> HIDE DEF none
<1>2. Replaced(With(e, i, n, none), e, i, n, none)
  BY <1>1, WithCells
<1>3. Replaced(w, e, i, n, s)
  BY WithCells
<1>4. u = With(e, i, n, none)
  BY DEF none
<1> HIDE DEF u, w
<1>5. /\ Sequence(u) /\ Len(u) = x - n
      /\ \A k \in 1..x-n : u[k] = IF k <= i THEN e[k] ELSE e[k + n]
  <2>1. /\ Sequence(u) /\ Len(u) = x - n + 0
        /\ \A k \in 1..x-n+0 : u[k] = IF k <= i THEN e[k]
                                      ELSE IF k <= i + 0 THEN none[k - i] ELSE e[k - 0 + n]
    BY <1>1, <1>2, <1>4 DEF Replaced
  <2> HIDE DEF x
  <2> QED BY <1>1, <2>1
<1>6. Replaced(v, u, i, 0, s)
  <2>1. zero \in Nat /\ i + zero <= Len(u)
    <3> HIDE DEF x
    <3>1. i + n <= x
      BY DEF x
    <3> QED BY <1>1, <1>5, <3>1
  <2> HIDE DEF zero
  <2>2. Replaced(With(u, i, zero, s), u, i, zero, s)
    BY <1>5, <2>1, WithCells
  <2> QED BY <2>2 DEF zero
<1> HIDE DEF v
<1>7. /\ Sequence(w) /\ Len(w) = x - n + y
      /\ \A k \in 1..x-n+y :
           w[k] = IF k <= i THEN e[k] ELSE IF k <= i + y THEN s[k - i] ELSE e[k - y + n]
  BY <1>3 DEF Replaced
<1>8. /\ Sequence(v) /\ Len(v) = x - n - 0 + y
      /\ \A k \in 1..x-n-0+y :
           v[k] = IF k <= i THEN u[k] ELSE IF k <= i + y THEN s[k - i] ELSE u[k - y + 0]
  BY <1>5, <1>6 DEF Replaced
<1>9. i + n <= x
  OBVIOUS
<1> HIDE DEF x, y
<1> DEFINE z == x - n + y
<1>10. z \in Nat /\ Len(v) = z /\ Len(w) = z
  BY <1>1, <1>7, <1>8, <1>9
<1>11. ASSUME NEW k \in 1..z PROVE v[k] = w[k]
  <2>1. CASE k <= i
    <3>1. k \in 1..x-n
      BY <1>1, <1>9, <2>1
    <3> QED BY <1>1, <1>5, <1>7, <1>8, <2>1, <3>1
  <2>2. CASE ~(k <= i) /\ k <= i + y
    <3>1. k \in 1..x-n+y /\ k \in 1..x-n-0+y
      BY <1>1, <1>9
    <3> QED BY <1>7, <1>8, <2>2, <3>1
  <2>3. CASE ~(k <= i) /\ ~(k <= i + y)
    <3> DEFINE j == k - y
    <3>1. j \in 1..x-n /\ ~(j <= i) /\ k - y + 0 = j
      BY <1>1, <1>9, <2>3
    <3>2. v[k] = u[j] /\ w[k] = e[j + n]
      BY <1>1, <1>7, <1>8, <2>3, <3>1
    <3> HIDE DEF j
    <3> QED BY <1>5, <3>1, <3>2
  <2> QED BY <2>1, <2>2, <2>3
<1>12. v = w
  <2> HIDE DEF z
  <2>1. v = [k \in 1..z |-> v[k]] /\ w = [k \in 1..z |-> w[k]]
    BY <1>7, <1>8, <1>10, SequenceProperty
  <2>2. [k \in 1..z |-> v[k]] = [k \in 1..z |-> w[k]]
    BY <1>11
  <2> QED BY <2>1, <2>2
<1> QED BY <1>5, <1>12 DEF u, v, w, x

LEMMA ReplaceElementsStands ==
    ASSUME NEW m, NEW o \in Objects, NEW X, Vector(m, o, X), NEW e, Reads(m, o, e),
           NEW i \in Nat, NEW n \in Nat, i + n <= m.obj[o].size, NEW s, Sequence(s), Living(s),
           m.obj[o].size - n + Len(s) <= MaxSize
    PROVE  Stands(m, InsertElements(EraseElements(m, o, i, n), o, i, s), o, X, With(e, i, n, s))
<1> DEFINE w == EraseElements(m, o, i, n)
           u == With(e, i, n, <<>>)
           r == InsertElements(w, o, i, s)
<1>1. Rebuilt(m, w, o, X) /\ Reads(w, o, u)
  BY EraseElementsStands DEF Stands
<1>2. Sequence(e) /\ Len(e) = m.obj[o].size /\ m.obj[o].size \in Nat
  BY VectorType DEF Reads
<1>3. With(u, i, 0, s) = With(e, i, n, s) /\ Len(u) = Len(e) - n
  BY <1>2, ErasedThenInserted
<1> HIDE DEF w, u
<1>4. Vector(w, o, X) /\ w.obj[o].size = Len(u)
  BY <1>1 DEF Rebuilt, Reads
<1>5. i <= w.obj[o].size /\ w.obj[o].size + Len(s) <= MaxSize
  BY <1>2, <1>3, <1>4
<1>6. Rebuilt(w, r, o, X) /\ Reads(r, o, With(u, i, 0, s))
  BY <1>1, <1>4, <1>5, InsertElementsStands DEF Stands
<1> HIDE DEF r
<1>7. Rebuilt(m, r, o, X)
  BY <1>1, <1>6, RebuiltTrans
<1> QED BY <1>3, <1>6, <1>7 DEF Stands, r, w

\* Operations that move the cells, and the elements with them.
LEMMA MovedStands ==
    ASSUME NEW m, NEW r, NEW o \in Objects, NEW X, Vector(m, o, X), NEW e, Reads(m, o, e),
           Moves(m, r, o), Writable(r, o), Zt(r.obj[o]) = 0, r.obj[o].size = m.obj[o].size,
           \A k \in 1..m.obj[o].size : Cell(r, o, k) = Cell(m, o, k)
    PROVE  Stands(m, r, o, X, e)
<1> DEFINE x == m.obj[o].size
<1>1. Lives(m, o, 1..x, X) /\ Room(o, X) /\ x <= MaxSize
  BY DEF Vector
<1>2. Lives(r, o, 1..x, X) /\ \A k \in 1..x : Elem(r, o, k) = Elem(m, o, k)
  <2> DEFINE I == 1..x
  <2>1. Lives(m, o, I, X) /\ \A k \in I : Cell(r, o, k) = Cell(m, o, k)
    BY <1>1
  <2> HIDE DEF I
  <2>2. Lives(r, o, I, X) /\ \A k \in I : Elem(r, o, k) = Elem(m, o, k)
    BY <2>1, LivesStay
  <2> QED BY <2>2 DEF I
<1>3. Vector(r, o, X)
  BY <1>1, <1>2 DEF Vector
<1>4. Rebuilt(m, r, o, X)
  BY <1>3 DEF Rebuilt, Moves
<1>5. Reads(r, o, e)
  BY <1>2 DEF Reads
<1> QED BY <1>4, <1>5 DEF Stands

LEMMA ReserveStands ==
    ASSUME NEW m, NEW o \in Objects, NEW X, Vector(m, o, X), NEW e, Reads(m, o, e), NEW n \in Nat
    PROVE  LET r == Reserve(m, o, n)
           IN  Stands(m, r, o, X, e) /\ r.obj[o].size = m.obj[o].size /\ n <= r.obj[o].cap
<1> DEFINE b == m.obj[o]
           r == Reserve(m, o, n)
           c == r.obj[o].cap
           x == b.size
<1>1. /\ Usable(m, o) /\ Good(m) /\ Fits(m, o) /\ Sound(m, o) /\ Writable(m, o)
      /\ x \in Nat /\ b.cap \in Nat /\ x <= b.cap /\ Zt(b) = 0
  BY VectorType DEF Vector
<1>2. Needed(b, n) = n
  BY <1>1 DEF Needed
<1>3. CASE Needed(b, n) <= b.cap
  <2>1. r = m
    BY <1>3, Zenon DEF Reserve
  <2>2. Moves(m, m, o)
    BY <1>1, ChangesSelf
  <2>3. Stands(m, m, o, X, e)
    BY <1>1, <2>2, MovedStands
  <2> HIDE DEF r
  <2>4. Stands(m, r, o, X, e) /\ r.obj[o].size = m.obj[o].size /\ n <= r.obj[o].cap
    BY <1>2, <1>3, <2>1, <2>3
  <2> QED BY <2>4 DEF r
<1>4. CASE ~(Needed(b, n) <= b.cap)
  <2>1. /\ Moves(m, r, o)
        /\ c \in Nat /\ c >= 2 /\ c >= n + Zt(b)
        /\ \A k \in 1..(x + Zt(b)) : k <= c /\ b.data # Null => Cell(r, o, k) = Cell(m, o, k)
    BY <1>1, <1>4, ReserveCells
  <2>2. Good(r) /\ r.obj[o].made /\ r.obj[o].size = x /\ r.obj[o].zt = b.zt
    <3>1. n \in Int /\ m.obj[o].made
      BY <1>1 DEF Usable
    <3> QED BY <1>1, <3>1, ReserveGood
  <2>3. Zt(r.obj[o]) = 0
    BY <1>1, <2>2, Zenon DEF Zt
  <2> HIDE DEF r
  <2>4. c > 0 /\ n <= c /\ x <= c /\ x + Zt(b) = x
    <3> HIDE DEF b, c, x
    <3> QED BY <1>1, <1>2, <1>4, <2>1
  <2>5. r.obj[o].data # Null
    BY <2>2, <2>4, OwnCells, AddrIsNumber
  <2>6. Writable(r, o)
    <3>1. Usable(r, o)
      BY <2>2, Zenon DEF Usable
    <3> HIDE DEF b, x
    <3>2. x + 0 <= c /\ x \in Nat /\ c \in Nat /\ ~(c = 0)
      BY <1>1, <2>1, <2>4
    <3> HIDE DEF c
    <3> QED BY <2>2, <2>3, <2>5, <3>1, <3>2 DEF Writable, Fits, Sound, c
  <2>7. \A k \in 1..x : Cell(r, o, k) = Cell(m, o, k)
    <3> TAKE k \in 1..x
    <3>1. b.data # Null
      <4>1. b.data = Null => b.size = 0
        BY <1>1 DEF Sound
      <4>2. x # 0
        <5> HIDE DEF x
        <5> QED BY <1>1
      <4> QED BY <4>1, <4>2
    <3>2. k \in 1..(x + Zt(b)) /\ k <= c
      <4> HIDE DEF x, c, b
      <4> QED BY <1>1, <2>1, <2>4
    <3> QED BY <2>1, <3>1, <3>2
  <2>8. Stands(m, r, o, X, e)
    BY <2>1, <2>2, <2>3, <2>6, <2>7, MovedStands
  <2>9. Stands(m, r, o, X, e) /\ r.obj[o].size = m.obj[o].size /\ n <= r.obj[o].cap
    BY <2>2, <2>4, <2>8
  <2> QED BY <2>9 DEF r
<1> QED BY <1>3, <1>4

LEMMA ShrinkStands ==
    ASSUME NEW m, NEW o \in Objects, NEW X, Vector(m, o, X), NEW e, Reads(m, o, e),
           m.obj[o].cap > 0, m.obj[o].size > 0
    PROVE  Stands(m, ShrinkToFit(m, o), o, X, e)
<1> DEFINE b == m.obj[o]
           r == ShrinkToFit(m, o)
<1>1. Usable(m, o) /\ Fits(m, o) /\ b.size \in Nat /\ Zt(b) = 0
  BY VectorType
<1>2. /\ Moves(m, r, o) /\ Writable(r, o) /\ r.obj[o].size = b.size /\ Zt(r.obj[o]) = Zt(b)
      /\ \A k \in 1..(b.size + Zt(b)) : Cell(r, o, k) = Cell(m, o, k)
  BY <1>1, ShrinkToFitCells
<1> HIDE DEF r
<1>3. b.size + Zt(b) = b.size
  <2> HIDE DEF b
  <2> QED BY <1>1
<1>4. \A k \in 1..b.size : Cell(r, o, k) = Cell(m, o, k)
  BY <1>2, <1>3
<1>5. Zt(r.obj[o]) = 0
  BY <1>1, <1>2
<1>6. Stands(m, r, o, X, e)
  BY <1>2, <1>4, <1>5, MovedStands
<1> QED BY <1>6 DEF r

\* The size of a vector is set to what its block has room for.
LEMMA SetSizeWritable ==
    ASSUME NEW m, NEW o \in Objects, Writable(m, o), Zt(m.obj[o]) = 0,
           NEW n \in Nat, n <= m.obj[o].cap
    PROVE  LET r == SetSize(m, o, n)
           IN  /\ Moves(m, r, o) /\ Writable(r, o) /\ Zt(r.obj[o]) = 0
               /\ r.obj[o].size = n /\ r.obj[o].cap = m.obj[o].cap /\ r.obj[o].data = m.obj[o].data
               /\ \A k : Cell(r, o, k) = Cell(m, o, k)
<1> DEFINE r == SetSize(m, o, n)
           b == m.obj[o]
           d == r.obj[o]
<1>1. /\ Usable(m, o) /\ Good(m) /\ Sound(m, o) /\ (b.cap = 0 => b.data <= 0)
      /\ b.cap \in Nat /\ b.data \in Int
  BY WritableType DEF Writable, Fits
<1>2. /\ Moves(m, r, o) /\ Usable(r, o)
      /\ d.size = n /\ d.data = b.data /\ d.cap = b.cap /\ Zt(d) = Zt(b)
      /\ \A k : Cell(r, o, k) = Cell(m, o, k)
      /\ \A p \in Int : Place(m, p) => Place(r, p) /\ Cells(r, p) = Cells(m, p)
  <2>1. n \in Int
    OBVIOUS
  <2> QED BY <1>1, <2>1, SetSizeCells, ZenonT(30)
<1> HIDE DEF r
<1>3. b.data = Null => b.cap = 0
  BY <1>1, OwnCells, AddrIsNumber
<1>4. b.cap = 0 /\ b.data # Null => Place(r, b.data)
  BY <1>1, <1>2 DEF Sound
<1>5. b.cap = 0 => n = 0
  <2> HIDE DEF b
  <2>1. n <= b.cap
    BY DEF b
  <2> QED BY <2>1
<1>6. n + 0 = n /\ n <= b.cap
  OBVIOUS
<1> HIDE DEF b
<1>7. Zt(d) = 0
  BY <1>2 DEF b
<1>8. Sound(r, o)
  BY <1>2, <1>3, <1>4, <1>5, <1>6, <1>7 DEF Sound, Readable
<1>9. Writable(r, o)
  BY <1>1, <1>2, <1>6, <1>7, <1>8 DEF Writable, Fits
<1> QED BY <1>2, <1>7, <1>9 DEF r, b

LEMMA ResizedSequence ==
    ASSUME NEW e, NEW n \in Nat, NEW v
    PROVE  /\ Sequence(Resized(e, n, v)) /\ Len(Resized(e, n, v)) = n
           /\ \A k \in 1..n : Resized(e, n, v)[k] = IF k <= Len(e) THEN e[k] ELSE v
<1> DEFINE u == Resized(e, n, v)
<1>1. u = [k \in 1..n |-> u[k]]
  BY DEF Resized
<1>2. \A k \in 1..n : u[k] = IF k <= Len(e) THEN e[k] ELSE v
  BY DEF Resized
<1> HIDE DEF u
<1>3. Sequence(u) /\ Len(u) = n
  BY <1>1, SequenceLen
<1> QED BY <1>2, <1>3 DEF u

\* A vector of x elements that is given n: those behind n are destroyed, or
\* those that are missing constructed, before its size is set.
Refit(m, o, x, n, v) ==
    LET p == m.obj[o].data
    IN  Construct(DestroyRange(m, p, n, x), p, x, Filled(IF n > x THEN n - x ELSE 0, v))

LEMMA RefitLives ==
    ASSUME NEW m, NEW o \in Objects, Good(m), NEW x \in Nat, NEW n \in Nat, NEW X,
           Lives(m, o, 1..x, X), Room(o, X),
           x <= MaxSize, n <= MaxSize, x <= m.obj[o].cap, n <= m.obj[o].cap,
           NEW v, v # Junk
    PROVE  LET r == Refit(m, o, x, n, v)
           IN  /\ Changes(m, r, o) /\ r.obj = m.obj /\ \A t \in X : r.elem[t] = m.elem[t]
               /\ Lives(r, o, 1..n, X)
               /\ \A k \in 1..n : Elem(r, o, k) = IF k <= x THEN Elem(m, o, k) ELSE v
<1> DEFINE p == m.obj[o].data
           c == m.obj[o].cap
           d == DestroyRange(m, p, n, x)
           y == IF n > x THEN n - x ELSE 0
           s == Filled(y, v)
           r == Construct(d, p, x, s)
           D == 1..x
           I == D \ (n+1..x)
<1>1. c \in Nat /\ MaxSize \in Nat /\ x <= c /\ n <= c
  BY BlockType, MemoryAssumption
<1>2. y \in Nat /\ (n > x => x + y = n) /\ (~(n > x) => y = 0)
  OBVIOUS
<1>3. Refit(m, o, x, n, v) = r
  BY DEF Refit
<1> HIDE DEF y, c
<1>4. Sequence(s) /\ Len(s) = y /\ \A k \in 1..y : s[k] = v
  BY <1>2, FilledSequence
<1> HIDE DEF s
<1>5. Keeps(m, d, o, I, X) /\ Lives(d, o, I, X)
  <2>1. n+1..x \subseteq D /\ Lives(m, o, D, X)
    OBVIOUS
  <2> HIDE DEF D
  <2>2. Leaves(m, d, o, I, X)
    BY <1>1, <2>1, DestroyRangeLives DEF c
  <2> HIDE DEF I, d
  <2> QED BY <2>2 DEF Leaves
<1> HIDE DEF d
<1>6. d.obj = m.obj /\ Good(d) /\ Changes(m, d, o)
  BY <1>5 DEF Keeps, Changes
<1>7. x + y <= c /\ x + y <= MaxSize
  BY <1>1, <1>2
<1>8. \A k \in I : k \in Int /\ 1 <= k /\ k <= x /\ k <= n
  OBVIOUS
<1>9. I \cup (x+1..x+y) = 1..n
  <2>1. CASE n > x
    BY <1>2, <2>1
  <2>2. CASE ~(n > x)
    BY <1>2, <2>2
  <2> QED BY <2>1, <2>2
<1>10. \A k \in 1..n : IF k <= x THEN k \in I ELSE k - x \in 1..y /\ x + (k - x) = k
  BY <1>2
<1> HIDE DEF I
<1>11. /\ I \in SUBSET (1..MaxSize) /\ Below(I, d.obj[o].cap) /\ Apart(I, x, Len(s)) /\ Living(s)
       /\ Len(s) \in Nat /\ x + Len(s) <= d.obj[o].cap /\ x + Len(s) <= MaxSize
  <2>1. I \in SUBSET (1..MaxSize)
    BY <1>1, <1>8
  <2>2. Below(I, d.obj[o].cap)
    BY <1>1, <1>6, <1>8 DEF Below, c
  <2>3. Apart(I, x, Len(s)) /\ Living(s)
    BY <1>4, <1>8 DEF Apart, Living
  <2> QED BY <1>2, <1>4, <1>6, <1>7, <2>1, <2>2, <2>3 DEF c
<1>12. Builds(d, Construct(d, d.obj[o].data, x, s), o, I, X, x, s)
  BY <1>5, <1>6, <1>11, ConstructLives
<1>13. d.obj[o].data = p
  BY <1>6
<1>14. Builds(d, r, o, I, X, x, s)
  BY <1>12, <1>13
<1> HIDE DEF r, p
<1>15. /\ Keeps(d, r, o, I, X) /\ Lives(r, o, 1..n, X)
       /\ \A k \in 1..y : Elem(r, o, x + k) = s[k]
  BY <1>4, <1>9, <1>14 DEF Builds
<1>16. Changes(m, r, o) /\ r.obj = m.obj /\ \A t \in X : r.elem[t] = m.elem[t]
  <2>1. Changes(d, r, o)
    BY <1>15 DEF Keeps
  <2>2. Changes(m, r, o)
    BY <1>6, <2>1, ChangesTrans
  <2> QED BY <1>5, <1>15, <2>2 DEF Keeps
<1>17. ASSUME NEW k \in 1..n PROVE Elem(r, o, k) = IF k <= x THEN Elem(m, o, k) ELSE v
  <2>1. CASE k <= x
    <3>1. k \in I
      BY <1>10, <2>1
    <3> QED BY <1>5, <1>15, <2>1, <3>1 DEF Keeps
  <2>2. CASE ~(k <= x)
    <3>1. k - x \in 1..y /\ x + (k - x) = k
      BY <1>10, <2>2
    <3> QED BY <1>4, <1>15, <2>2, <3>1
  <2> QED BY <2>1, <2>2
<1> QED BY <1>3, <1>15, <1>16, <1>17

LEMMA ResizeVectorStands ==
    ASSUME NEW m, NEW o \in Objects, NEW X, Vector(m, o, X), NEW e, Reads(m, o, e),
           NEW n \in Nat, n <= MaxSize, NEW v, v # Junk
    PROVE  Stands(m, ResizeVector(m, o, n, v), o, X, Resized(e, n, v))
<1> DEFINE w == Reserve(m, o, n)
           x == m.obj[o].size
           f == Refit(w, o, x, n, v)
           r == SetSize(f, o, n)
           u == Resized(e, n, v)
<1>1. Stands(m, w, o, X, e) /\ w.obj[o].size = x /\ n <= w.obj[o].cap
  BY ReserveStands
<1>2. ResizeVector(m, o, n, v) = r
  <2>1. ResizeVector(m, o, n, v) = SetSize(Refit(w, o, w.obj[o].size, n, v), o, n)
    BY DEF ResizeVector, Refit
  <2> HIDE DEF w
  <2> QED BY <1>1, <2>1
<1> HIDE DEF w
<1>3. /\ Rebuilt(m, w, o, X) /\ Reads(w, o, e) /\ Vector(w, o, X)
      /\ Lives(w, o, 1..x, X) /\ Room(o, X) /\ Writable(w, o) /\ Zt(w.obj[o]) = 0
  BY <1>1 DEF Stands, Rebuilt, Vector
<1>4. Good(w) /\ x \in Nat /\ x <= MaxSize /\ x <= w.obj[o].cap /\ n <= w.obj[o].cap
  BY <1>1, <1>3, VectorType
<1>5. /\ Changes(w, f, o) /\ f.obj = w.obj /\ (\A t \in X : f.elem[t] = w.elem[t])
      /\ Lives(f, o, 1..n, X)
      /\ \A k \in 1..n : Elem(f, o, k) = IF k <= x THEN Elem(w, o, k) ELSE v
  <2> HIDE DEF x
  <2> QED BY <1>3, <1>4, RefitLives
<1> HIDE DEF f
<1>6. Good(f) /\ Writable(f, o) /\ Zt(f.obj[o]) = 0 /\ n <= f.obj[o].cap
  BY <1>3, <1>4, <1>5, FitsKept DEF Changes
<1>7. /\ Moves(f, r, o) /\ Writable(r, o) /\ Zt(r.obj[o]) = 0 /\ r.obj[o].size = n
      /\ \A k : Cell(r, o, k) = Cell(f, o, k)
  BY <1>6, SetSizeWritable
<1> HIDE DEF r
<1>8. Lives(r, o, 1..n, X) /\ \A k \in 1..n : Elem(r, o, k) = Elem(f, o, k)
  <2> DEFINE I == 1..n
  <2>1. Lives(f, o, I, X) /\ \A k \in I : Cell(r, o, k) = Cell(f, o, k)
    BY <1>5, <1>7
  <2> HIDE DEF I
  <2>2. Lives(r, o, I, X) /\ \A k \in I : Elem(r, o, k) = Elem(f, o, k)
    BY <1>7, <2>1, LivesStay
  <2> QED BY <2>2 DEF I
<1>9. Vector(r, o, X)
  BY <1>3, <1>7, <1>8 DEF Vector
<1>10. Rebuilt(w, r, o, X)
  <2>1. Changes(w, r, o) /\ r.elem = f.elem
    BY <1>5, <1>7, ChangesTrans DEF Moves
  <2> QED BY <1>5, <1>9, <2>1 DEF Rebuilt
<1>11. Rebuilt(m, r, o, X)
  BY <1>3, <1>10, RebuiltTrans
<1>12. /\ Sequence(u) /\ Len(u) = n
       /\ \A k \in 1..n : u[k] = IF k <= Len(e) THEN e[k] ELSE v
  <2>1. Sequence(u) /\ Len(u) = n
    BY ResizedSequence
  <2>2. \A k \in 1..n : u[k] = IF k <= Len(e) THEN e[k] ELSE v
    BY DEF Resized
  <2> QED BY <2>1, <2>2
<1> HIDE DEF u
<1>13. /\ Len(e) = x /\ \A k \in 1..x : Elem(w, o, k) = e[k] /\ e[k] # Junk
  BY <1>1, <1>3 DEF Reads, Living
<1> HIDE DEF x
<1>14. ASSUME NEW k \in 1..n PROVE Elem(r, o, k) = u[k] /\ u[k] # Junk
  <2>1. CASE k <= x
    <3>1. k \in 1..x
      BY <1>4, <2>1
    <3> QED BY <1>5, <1>8, <1>12, <1>13, <2>1, <3>1
  <2>2. CASE ~(k <= x)
    BY <1>5, <1>8, <1>12, <1>13, <2>2
  <2> QED BY <2>1, <2>2
<1>15. Reads(r, o, u)
  BY <1>7, <1>12, <1>14 DEF Reads, Living
<1> QED BY <1>2, <1>11, <1>15 DEF Stands, u

LEMMA AssignElementsStands ==
    ASSUME NEW m, NEW o \in Objects, NEW X, Vector(m, o, X), NEW s, Sequence(s), Living(s),
           Len(s) = m.obj[o].size
    PROVE  Stands(m, AssignElements(m, o, s), o, X, s)
<1> DEFINE r == AssignElements(m, o, s)
           I == 1..Len(s)
<1>1. Good(m) /\ Lives(m, o, I, X) /\ Room(o, X) /\ Writable(m, o) /\ Zt(m.obj[o]) = 0
      /\ m.obj[o].size <= MaxSize
  BY VectorType DEF Vector
<1>2. Revalues(m, r, o, I, X, s)
  BY <1>1, AssignElementsLives
<1> HIDE DEF r
<1>3. /\ Changes(m, r, o) /\ r.obj = m.obj /\ (\A t \in X : r.elem[t] = m.elem[t])
      /\ Lives(r, o, I, X) /\ \A k \in I : Elem(r, o, k) = s[k]
  BY <1>2 DEF Revalues, Keeps
<1>4. Writable(r, o)
  BY <1>1, <1>3, FitsKept DEF Changes
<1>5. Rebuilt(m, r, o, X)
  BY <1>1, <1>3, <1>4 DEF Rebuilt, Vector
<1>6. Reads(r, o, s)
  BY <1>3 DEF Reads
<1> QED BY <1>5, <1>6 DEF Stands, r

LEMMA AssignVectorStands ==
    ASSUME NEW m, NEW o \in Objects, NEW X, Vector(m, o, X), NEW e, Reads(m, o, e),
           NEW s, Sequence(s), Living(s), Len(s) <= MaxSize
    PROVE  Stands(m, AssignVector(m, o, s), o, X, s)
<1> DEFINE w == ResizeVector(m, o, Len(s), Nul)
           r == AssignElements(w, o, s)
           n == Len(s)
<1>1. n \in Nat /\ Nul # Junk
  BY SequenceProperty DEF Nul, Junk
<1>2. Stands(m, w, o, X, Resized(e, n, Nul))
  BY <1>1, ResizeVectorStands
<1>3. Len(Resized(e, n, Nul)) = n
  BY <1>1, ResizedSequence
<1> HIDE DEF w
<1>4. Rebuilt(m, w, o, X) /\ Vector(w, o, X) /\ Len(s) = w.obj[o].size
  BY <1>2, <1>3 DEF Stands, Rebuilt, Reads
<1>5. Stands(w, r, o, X, s)
  BY <1>4, AssignElementsStands
<1>6. AssignVector(m, o, s) = r
  BY DEF AssignVector, w
<1> HIDE DEF r
<1>7. Rebuilt(m, r, o, X) /\ Reads(r, o, s)
  BY <1>4, <1>5, RebuiltTrans DEF Stands
<1> QED BY <1>6, <1>7 DEF Stands

LEMMA FillVectorStands ==
    ASSUME NEW m, NEW o \in Objects, NEW X, Vector(m, o, X), NEW e, Reads(m, o, e),
           NEW n \in Nat, n <= MaxSize, NEW v, v # Junk
    PROVE  Stands(m, FillVector(m, o, n, v), o, X, Filled(n, v))
<1> DEFINE s == Filled(n, v)
<1>1. Sequence(s) /\ Len(s) = n /\ \A k \in 1..n : s[k] = v
  BY FilledSequence
<1>2. FillVector(m, o, n, v) = AssignElements(ResizeVector(m, o, n, Nul), o, s)
  BY DEF FillVector
<1>3. AssignVector(m, o, s) = AssignElements(ResizeVector(m, o, n, Nul), o, s)
  BY <1>1 DEF AssignVector
<1> HIDE DEF s
<1>4. Living(s) /\ Len(s) <= MaxSize
  BY <1>1 DEF Living
<1>5. Stands(m, AssignVector(m, o, s), o, X, s)
  BY <1>1, <1>4, AssignVectorStands
<1> QED BY <1>2, <1>3, <1>5 DEF s

LEMMA PopBackElementStands ==
    ASSUME NEW m, NEW o \in Objects, NEW X, Vector(m, o, X), NEW e, Reads(m, o, e),
           m.obj[o].size > 0
    PROVE  Stands(m, PopBackElement(m, o), o, X, Before(e, m.obj[o].size - 1))
<1> DEFINE x == m.obj[o].size
           y == x - 1
           w == SetSize(m, o, y)
           r == DestroyRange(w, m.obj[o].data, y, x)
           D == 1..x
           u == Before(e, y)
<1>1. /\ Good(m) /\ x \in Nat /\ m.obj[o].cap \in Nat /\ x <= m.obj[o].cap /\ x <= MaxSize
      /\ Zt(m.obj[o]) = 0 /\ Writable(m, o) /\ Lives(m, o, D, X) /\ Room(o, X) /\ MaxSize \in Nat
  BY VectorType DEF Vector
<1>2. PopBackElement(m, o) = r
  BY DEF PopBackElement
<1>3. y \in Nat /\ y < x /\ y <= m.obj[o].cap /\ y <= MaxSize /\ (1..x) \ (y+1..x) = 1..y
      /\ y+1..x \subseteq 1..x
  <2>1. x > 0
    OBVIOUS
  <2> HIDE DEF x
  <2> QED BY <1>1, <2>1
<1> HIDE DEF y
<1>4. /\ Moves(m, w, o) /\ Writable(w, o) /\ Zt(w.obj[o]) = 0 /\ w.obj[o].size = y
      /\ w.obj[o].cap = m.obj[o].cap /\ w.obj[o].data = m.obj[o].data
      /\ \A k : Cell(w, o, k) = Cell(m, o, k)
  BY <1>1, <1>3, SetSizeWritable
<1> HIDE DEF w, D
<1>5. Lives(w, o, D, X) /\ \A k \in D : Elem(w, o, k) = Elem(m, o, k)
  BY <1>1, <1>4, LivesStay
<1>6. Good(w) /\ x <= w.obj[o].cap /\ y+1..x \subseteq D /\ Changes(m, w, o)
  BY <1>1, <1>3, <1>4 DEF D, Moves, Changes
<1>7. Leaves(w, r, o, D \ (y+1..x), X)
  <2> HIDE DEF x
  <2>1. Leaves(w, DestroyRange(w, w.obj[o].data, y, x), o, D \ (y+1..x), X)
    BY <1>1, <1>3, <1>5, <1>6, DestroyRangeLives
  <2> QED BY <1>4, <2>1
<1>8. D \ (y+1..x) = 1..y
  BY <1>3 DEF D
<1> HIDE DEF r
<1>9. Keeps(w, r, o, 1..y, X) /\ Lives(r, o, 1..y, X)
  BY <1>7, <1>8 DEF Leaves
<1>10. Changes(w, r, o) /\ r.obj = w.obj /\ (\A t \in X : r.elem[t] = m.elem[t])
       /\ \A k \in 1..y : Elem(r, o, k) = Elem(w, o, k)
  BY <1>4, <1>9 DEF Keeps, Moves
<1>11. Writable(r, o) /\ Changes(m, r, o)
  BY <1>4, <1>6, <1>10, FitsKept, ChangesTrans DEF Changes
<1>12. Rebuilt(m, r, o, X)
  BY <1>1, <1>3, <1>4, <1>9, <1>10, <1>11 DEF Rebuilt, Vector
<1>13. Sequence(e) /\ Len(e) = x /\ \A k \in 1..x : Elem(m, o, k) = e[k] /\ e[k] # Junk
  BY DEF Reads, Living
<1>14. Sequence(u) /\ Len(u) = y /\ \A k \in 1..y : u[k] = e[k]
  <2> HIDE DEF x
  <2> DEFINE zero == 0
             t == SubSeq(e, zero + 1, y)
  <2>1. zero \in Nat /\ zero <= y /\ y <= Len(e)
    BY <1>1, <1>3, <1>13
  <2>2. u = t
    BY DEF Before
  <2>3. y - zero = y /\ \A k \in 1..y : zero + k = k
    BY <1>3
  <2> HIDE DEF zero, u
  <2>4. Sequence(t) /\ Len(t) = y - zero /\ \A k \in 1..y-zero : t[k] = e[zero + k]
    BY <1>3, <1>13, <2>1, SubSequence
  <2> HIDE DEF t
  <2> QED BY <2>2, <2>3, <2>4
<1> HIDE DEF u
<1>15. ASSUME NEW k \in 1..y PROVE Elem(r, o, k) = u[k] /\ u[k] # Junk
  <2>1. k \in 1..x
    <3> HIDE DEF x
    <3> QED BY <1>1, <1>3
  <2> QED BY <1>5, <1>10, <1>13, <1>14, <2>1 DEF D
<1>16. Reads(r, o, u)
  BY <1>4, <1>10, <1>14, <1>15 DEF Reads, Living
<1>17. Stands(m, r, o, X, u)
  BY <1>12, <1>16 DEF Stands
<1> QED BY <1>2, <1>17 DEF u, y

\* None of the elements of o are left: those in X are.
Emptied(m, r, o, X) ==
    /\ Changes(m, r, o) /\ Lives(r, o, {}, X) /\ \A t \in X : r.elem[t] = m.elem[t]

LEMMA DestroyAllEmpties ==
    ASSUME NEW m, NEW o \in Objects, NEW X, Vector(m, o, X)
    PROVE  LET r == DestroyAll(m, o)
           IN  Emptied(m, r, o, X) /\ r.obj = m.obj /\ Writable(r, o)
<1> DEFINE r == DestroyAll(m, o)
           x == m.obj[o].size
           zero == 0
           D == 1..x
           none == {}
<1>1. /\ Good(m) /\ x \in Nat /\ m.obj[o].cap \in Nat /\ x <= m.obj[o].cap
      /\ Writable(m, o) /\ Lives(m, o, D, X)
  BY VectorType DEF Vector
<1>2. CASE m.obj[o].cap = 0
  <2>1. r = m
    BY <1>2 DEF DestroyAll
  <2>2. D = {}
    <3>1. x = 0
      <4> HIDE DEF x
      <4> QED BY <1>1, <1>2
    <3> HIDE DEF x
    <3> QED BY <3>1
  <2>3. Changes(m, m, o)
    BY <1>1, ChangesSelf DEF Moves
  <2> HIDE DEF r, D
  <2>4. Emptied(m, r, o, X) /\ r.obj = m.obj /\ Writable(r, o)
    BY <1>1, <2>1, <2>2, <2>3 DEF Emptied
  <2> QED BY <2>4 DEF r
<1>3. CASE m.obj[o].cap # 0
  <2>1. r = DestroyRange(m, m.obj[o].data, zero, x)
    BY <1>3 DEF DestroyAll
  <2>2. zero \in Nat /\ zero+1..x \subseteq D /\ D \ (zero+1..x) = none
    OBVIOUS
  <2> HIDE DEF zero, D, none, x, r
  <2>3. Leaves(m, r, o, none, X)
    BY <1>1, <2>1, <2>2, DestroyRangeLives
  <2>4. Changes(m, r, o) /\ r.obj = m.obj /\ (\A t \in X : r.elem[t] = m.elem[t])
        /\ Lives(r, o, none, X)
    BY <2>3 DEF Leaves, Keeps
  <2>5. Writable(r, o)
    BY <1>1, <2>4, FitsKept DEF Changes
  <2>6. Emptied(m, r, o, X) /\ r.obj = m.obj /\ Writable(r, o)
    BY <2>4, <2>5 DEF Emptied, none
  <2> QED BY <2>6 DEF r
<1> QED BY <1>2, <1>3

\* An operation on vector o, which may end its life.
Settled(m, r, o, X, e) ==
    /\ Changes(m, r, o) /\ Fits(r, o) /\ Zt(r.obj[o]) = 0
    /\ r.obj[o].size <= MaxSize /\ r.obj[o].size <= r.obj[o].cap
    /\ r.obj[o].made \/ r.obj[o] = Gone
    /\ Lives(r, o, 1..r.obj[o].size, X) /\ Reads(r, o, e)
    /\ \A t \in X : r.elem[t] = m.elem[t]

LEMMA StandsSettled ==
    ASSUME NEW m, NEW r, NEW o \in Objects, NEW X, NEW e, Stands(m, r, o, X, e)
    PROVE  Settled(m, r, o, X, e)
<1>1. Rebuilt(m, r, o, X) /\ Reads(r, o, e)
  BY DEF Stands
<1>2. Vector(r, o, X) /\ Changes(m, r, o) /\ \A t \in X : r.elem[t] = m.elem[t]
  BY <1>1 DEF Rebuilt
<1>3. /\ Writable(r, o) /\ Zt(r.obj[o]) = 0 /\ r.obj[o].size <= MaxSize
      /\ Lives(r, o, 1..r.obj[o].size, X)
  BY <1>2 DEF Vector
<1>4. Fits(r, o) /\ r.obj[o].made
  BY <1>3, Zenon DEF Writable, Usable
<1>5. r.obj[o].size <= r.obj[o].cap
  BY <1>2, VectorType
<1> QED BY <1>1, <1>2, <1>3, <1>4, <1>5, Zenon DEF Settled

LEMMA EmptiedSettled ==
    ASSUME NEW m, NEW w, NEW r, NEW o \in Objects, NEW X, Emptied(m, w, o, X), Moves(w, r, o),
           Fits(r, o), Zt(r.obj[o]) = 0, r.obj[o].made \/ r.obj[o] = Gone, r.obj[o].size = 0
    PROVE  Settled(m, r, o, X, <<>>)
<1> DEFINE none == {}
<1>1. Lives(w, o, none, X) /\ Changes(m, w, o) /\ \A t \in X : w.elem[t] = m.elem[t]
  BY DEF Emptied
<1>2. Lives(r, o, none, X)
  <2>1. \A j \in none : Cell(r, o, j) = Cell(w, o, j)
    OBVIOUS
  <2> HIDE DEF none
  <2> QED BY <1>1, <2>1, LivesStay
<1>3. 1..r.obj[o].size = none
  <2> DEFINE x == r.obj[o].size
  <2>1. x = 0
    OBVIOUS
  <2> HIDE DEF x
  <2>2. 1..x = {}
    BY <2>1
  <2> QED BY <2>2 DEF x
<1>4. Changes(m, r, o) /\ \A t \in X : r.elem[t] = m.elem[t]
  BY <1>1, ChangesTrans DEF Moves
<1>5. Reads(r, o, <<>>)
  BY EmptySequence DEF Reads, Living
<1>6. r.obj[o].size <= MaxSize /\ r.obj[o].size <= r.obj[o].cap
  <2>1. r.obj[o].cap \in Nat
    BY <1>4, BlockType DEF Changes
  <2> QED BY <2>1, MemoryAssumption
<1> HIDE DEF none
<1>7. Lives(r, o, 1..r.obj[o].size, X)
  BY <1>2, <1>3
<1> QED BY <1>4, <1>5, <1>6, <1>7, Zenon DEF Settled

LEMMA ClearVectorSettles ==
    ASSUME NEW m, NEW o \in Objects, NEW X, Vector(m, o, X)
    PROVE  Settled(m, ClearVector(m, o), o, X, <<>>)
<1> DEFINE w == DestroyAll(m, o)
           r == Resize(w, o, 0)
           zero == 0
<1>1. Emptied(m, w, o, X) /\ w.obj = m.obj /\ Writable(w, o)
  BY DestroyAllEmpties
<1>2. ClearVector(m, o) = r
  BY DEF ClearVector
<1> HIDE DEF w
<1>3. Zt(w.obj[o]) = 0
  BY <1>1 DEF Vector
<1>4. Usable(w, o) /\ Fits(w, o) /\ Sound(w, o)
  BY <1>1 DEF Writable, Fits
<1>5. Moves(w, r, o) /\ Writable(r, o) /\ r.obj[o].size = 0 /\ Zt(r.obj[o]) = Zt(w.obj[o])
  <2>1. zero \in Nat
    OBVIOUS
  <2> HIDE DEF zero
  <2>2. LET t == Resize(w, o, zero)
        IN  Moves(w, t, o) /\ Writable(t, o) /\ t.obj[o].size = zero /\ Zt(t.obj[o]) = Zt(w.obj[o])
    BY <1>4, <2>1, ResizeWritable
  <2> QED BY <2>2 DEF zero
<1> HIDE DEF r
<1>6. Fits(r, o) /\ r.obj[o].made
  BY <1>5, Zenon DEF Writable, Usable
<1>7. Zt(r.obj[o]) = 0
  BY <1>3, <1>5
<1>8. Settled(m, r, o, X, <<>>)
  BY <1>1, <1>5, <1>6, <1>7, EmptiedSettled
<1> QED BY <1>2, <1>8

LEMMA DeallocateVectorSettles ==
    ASSUME NEW m, NEW o \in Objects, NEW X, Vector(m, o, X)
    PROVE  Settled(m, DeallocateVector(m, o), o, X, <<>>)
<1> DEFINE w == DestroyAll(m, o)
           r == Deallocate(w, o)
<1>1. Emptied(m, w, o, X) /\ w.obj = m.obj /\ Writable(w, o)
  BY DestroyAllEmpties
<1>2. DeallocateVector(m, o) = r
  BY DEF DeallocateVector
<1> HIDE DEF w
<1>3. Zt(w.obj[o]) = 0
  BY <1>1 DEF Vector
<1>4. Usable(w, o)
  BY <1>1 DEF Writable
<1>5. /\ Moves(w, r, o) /\ Usable(r, o)
      /\ r.obj[o].size = 0 /\ r.obj[o].data = Null /\ r.obj[o].cap = 0
      /\ r.obj[o].zt = w.obj[o].zt
  BY <1>4, DeallocateCells
<1> HIDE DEF r
<1>6. Fits(r, o)
  BY <1>5 DEF Fits, Sound, Null
<1>7. Zt(r.obj[o]) = 0
  BY <1>3, <1>5, Zenon DEF Zt
<1>8. r.obj[o].made
  BY <1>5, Zenon DEF Usable
<1>9. Settled(m, r, o, X, <<>>)
  BY <1>1, <1>5, <1>6, <1>7, <1>8, EmptiedSettled
<1> QED BY <1>2, <1>9

LEMMA GoneFits ==
    ASSUME NEW r, NEW o, r.obj[o] = Gone
    PROVE  Fits(r, o) /\ Zt(r.obj[o]) = 0 /\ r.obj[o].size = 0
<1>1. Gone.size = 0 /\ Gone.data = Null /\ Gone.cap = 0 /\ Zt(Gone) = 0
  BY DEF Gone, Zt
<1>2. /\ r.obj[o].size = 0 /\ r.obj[o].cap = 0 /\ r.obj[o].data = Null /\ Zt(r.obj[o]) = 0
  BY <1>1, Zenon
<1> QED BY <1>2 DEF Fits, Sound, Null

LEMMA DestroyedVectorSettles ==
    ASSUME NEW m, NEW o \in Objects, NEW X, Vector(m, o, X)
    PROVE  Settled(m, DestroyedVector(m, o), o, X, <<>>)
<1> DEFINE w == DestroyAll(m, o)
           r == Destroyed(w, o)
<1>1. Emptied(m, w, o, X) /\ w.obj = m.obj /\ Writable(w, o)
  BY DestroyAllEmpties
<1>2. DestroyedVector(m, o) = r
  BY DEF DestroyedVector
<1> HIDE DEF w
<1>3. Moves(w, r, o) /\ r.obj[o] = Gone
  BY <1>1, DestroyedCells DEF Writable
<1> HIDE DEF r
<1>4. Fits(r, o) /\ Zt(r.obj[o]) = 0 /\ r.obj[o].size = 0
  BY <1>3, GoneFits
<1>5. Settled(m, r, o, X, <<>>)
  BY <1>1, <1>3, <1>4, EmptiedSettled
<1> QED BY <1>2, <1>5

-----------------------------------------------------------------------------
(* The elements of all the vectors *)

\* The vectors of the program.
Vectors == {q \in Objects : kind[q] = "vector"}

\* Element t is in a cell of container q.
Has(m, q, t) == \E k \in 1..m.obj[q].size : Cell(m, q, k) = t

\* Two containers, or two cells of one, do not have the same element.
Distinct(m, q, p) ==
    \A j \in 1..m.obj[q].size, k \in 1..m.obj[p].size :
        Cell(m, q, j) = Cell(m, p, k) => q = p /\ j = k

\* The cells of a container are elements.
Lodged(m, q) == \A k \in 1..m.obj[q].size : Cell(m, q, k) \in Tokens

\* A vector that holds e.  It is never linked to a text.
Reading(m, q, e) ==
    Fits(m, q) /\ m.obj[q].size <= m.obj[q].cap /\ Reads(m, q, e) /\ Lodged(m, q)

\* The elements that live are those of the vectors V, each in one cell, and
\* have the values expected of them.
ElementsInv(V, m, x) ==
    /\ m.elem = [t \in Tokens |-> m.elem[t]]
    /\ \A q \in V : Reading(m, q, x[q])
    /\ \A q, p \in V : Distinct(m, q, p)
    /\ \A t \in Tokens : m.elem[t] # Junk => \E q \in V : Has(m, q, t)

\* The elements of the vectors other than o.
Others(V, m, o) == {t \in Tokens : \E q \in V \ {o} : Has(m, q, t)}

LEMMA ReadingProperty ==
    ASSUME NEW m, NEW q, NEW e, Reading(m, q, e)
    PROVE  /\ m.obj[q].size \in Nat /\ Len(e) = m.obj[q].size
           /\ \A k \in 1..m.obj[q].size :
                /\ Cell(m, q, k) \in Tokens /\ Elem(m, q, k) = e[k] /\ Elem(m, q, k) # Junk
                /\ m.obj[q].data # Null
<1> DEFINE x == m.obj[q].size
           data == m.obj[q].data
<1>1. Fits(m, q) /\ Reads(m, q, e) /\ Lodged(m, q)
  BY DEF Reading
<1>2. x \in Nat /\ (data = Null => x = 0)
  BY <1>1 DEF Fits, Sound
<1>3. Len(e) = x /\ \A k \in 1..Len(e) : Elem(m, q, k) = e[k] /\ e[k] # Junk
  BY <1>1 DEF Reads, Living
<1>4. \A k \in 1..x : Cell(m, q, k) \in Tokens
  BY <1>1 DEF Lodged
<1> HIDE DEF x, data
<1>5. \A k \in 1..x : data # Null
  BY <1>2
<1> QED BY <1>2, <1>3, <1>4, <1>5 DEF x, data

LEMMA VectorLives ==
    ASSUME NEW V \in SUBSET Objects, NEW m, NEW x, ElementsInv(V, m, x), NEW o \in V,
           \A q \in V : m.obj[q].size <= MaxSize
    PROVE  /\ Lives(m, o, 1..m.obj[o].size, Others(V, m, o))
           /\ Room(o, Others(V, m, o))
<1> DEFINE X == Others(V, m, o)
           I == 1..m.obj[o].size
<1>1. /\ m.elem = [t \in Tokens |-> m.elem[t]]
      /\ \A q \in V : Reading(m, q, x[q])
      /\ \A q, p \in V : Distinct(m, q, p)
      /\ \A t \in Tokens : m.elem[t] # Junk => \E q \in V : Has(m, q, t)
  BY DEF ElementsInv
<1>2. \A q \in V : \A k \in 1..m.obj[q].size :
        Cell(m, q, k) \in Tokens /\ Elem(m, q, k) # Junk
  <2> TAKE q \in V
  <2> DEFINE e == x[q]
  <2>1. Reading(m, q, e)
    BY <1>1
  <2> HIDE DEF e
  <2> QED BY <2>1, ReadingProperty
<1>3. \A t \in X : t \in Tokens /\ \E q \in V \ {o} : Has(m, q, t)
  BY DEF Others
<1>4. \A q \in V \ {o} : \A t \in Tokens : Has(m, q, t) => t \in X
  BY DEF Others
<1> HIDE DEF X
<1>5. Lives(m, o, I, X)
  <2>1. ASSUME NEW k \in I PROVE Cell(m, o, k) \notin X
    <3> SUFFICES ASSUME Cell(m, o, k) \in X PROVE FALSE
      OBVIOUS
    <3>1. PICK q \in V \ {o} : Has(m, q, Cell(m, o, k))
      BY <1>3
    <3>2. PICK j \in 1..m.obj[q].size : Cell(m, q, j) = Cell(m, o, k)
      BY <3>1 DEF Has
    <3>3. Distinct(m, q, o)
      BY <1>1
    <3> QED BY <3>2, <3>3 DEF Distinct
  <2>2. \A k \in I : Cell(m, o, k) \in Tokens /\ Elem(m, o, k) # Junk
    BY <1>2
  <2>3. \A j, k \in I : Cell(m, o, j) = Cell(m, o, k) => j = k
    <3>1. Distinct(m, o, o)
      BY <1>1
    <3> QED BY <3>1 DEF Distinct
  <2>4. ASSUME NEW t \in X PROVE t \in Tokens /\ m.elem[t] # Junk
    <3>1. PICK q \in V \ {o} : Has(m, q, t)
      BY <1>3
    <3>2. PICK k \in 1..m.obj[q].size : Cell(m, q, k) = t
      BY <3>1 DEF Has
    <3> QED BY <1>2, <1>3, <3>2 DEF Elem
  <2>5. ASSUME NEW t \in Tokens, m.elem[t] # Junk PROVE t \in X \/ \E k \in I : Cell(m, o, k) = t
    <3>1. PICK q \in V : Has(m, q, t)
      BY <1>1, <2>5
    <3>2. CASE q = o
      BY <3>1, <3>2 DEF Has
    <3>3. CASE q # o
      BY <1>4, <3>1, <3>3
    <3> QED BY <3>2, <3>3
  <2> HIDE DEF I
  <2> QED BY <1>1, <2>1, <2>2, <2>3, <2>4, <2>5 DEF Lives
<1>6. Room(o, X)
  <2> DEFINE own(t) == CHOOSE q \in V \ {o} : Has(m, q, t)
             at(t) == CHOOSE k \in 1..m.obj[own(t)].size : Cell(m, own(t), k) = t
             h == [t \in X |-> <<own(t), at(t)>>]
  <2>1. \A t \in X : own(t) \in V \ {o} /\ Has(m, own(t), t)
    BY <1>3
  <2>2. \A t \in X : at(t) \in 1..m.obj[own(t)].size /\ Cell(m, own(t), at(t)) = t
    <3> HIDE DEF own
    <3> QED BY <2>1 DEF Has
  <2> HIDE DEF own, at
  <2>3. \A t \in X : own(t) \in Objects \ {o} /\ at(t) \in 1..MaxSize
    <3> TAKE t \in X
    <3> DEFINE q == own(t)
               n == m.obj[q].size
    <3>1. q \in V \ {o} /\ at(t) \in 1..n
      BY <2>1, <2>2
    <3>2. n <= MaxSize /\ Reading(m, q, x[q]) /\ q \in Objects
      BY <1>1, <3>1
    <3>3. n \in Nat /\ MaxSize \in Nat
      <4> DEFINE e == x[q]
      <4>1. Reading(m, q, e)
        BY <3>2
      <4> HIDE DEF e, q
      <4> QED BY <4>1, ReadingProperty, MemoryAssumption
    <3> HIDE DEF n
    <3>4. at(t) \in 1..MaxSize
      BY <3>1, <3>2, <3>3
    <3> QED BY <3>1, <3>2, <3>4
  <2>4. h \in [X -> (Objects \ {o}) \X (1..MaxSize)]
    BY <2>3
  <2>5. \A t, u \in X : h[t] = h[u] => t = u
    <3> TAKE t, u \in X
    <3> HAVE h[t] = h[u]
    <3>1. own(t) = own(u) /\ at(t) = at(u)
      OBVIOUS
    <3> QED BY <2>2, <3>1
  <2> HIDE DEF h
  <2> QED BY <2>4, <2>5 DEF Room
<1> QED BY <1>5, <1>6 DEF X

\* A container that another one's operation leaves alone keeps its elements.
LEMMA ReadingStays ==
    ASSUME NEW m, NEW r, NEW o \in Objects, Changes(m, r, o), NEW q \in Objects, q # o, NEW e,
           Reading(m, q, e), \A k \in 1..m.obj[q].size : r.elem[Cell(m, q, k)] = m.elem[Cell(m, q, k)]
    PROVE  /\ Reading(r, q, e) /\ r.obj[q].size = m.obj[q].size
           /\ \A k \in 1..m.obj[q].size : Cell(r, q, k) = Cell(m, q, k)
<1>1. Fits(m, q) /\ Reads(m, q, e) /\ Lodged(m, q)
  BY DEF Reading
<1>2. /\ r.obj[q] = m.obj[q] /\ Fits(r, q)
      /\ m.obj[q].data # Null => Cells(r, m.obj[q].data) = Cells(m, m.obj[q].data)
  BY <1>1, CellsElsewhere
<1>3. \A k \in 1..m.obj[q].size : m.obj[q].data # Null
  BY ReadingProperty
<1>4. \A k \in 1..m.obj[q].size : Cell(r, q, k) = Cell(m, q, k)
  BY <1>2, <1>3 DEF Cell
<1>5. \A k \in 1..m.obj[q].size : Elem(r, q, k) = Elem(m, q, k)
  BY <1>4 DEF Elem
<1>6. Reads(r, q, e)
  BY <1>1, <1>2, <1>5 DEF Reads
<1>7. Lodged(r, q)
  BY <1>1, <1>2, <1>4 DEF Lodged
<1> QED BY <1>2, <1>4, <1>6, <1>7 DEF Reading

\* The cells of a container stay as they are.
SameCells(m, r, q) ==
    r.obj[q].size = m.obj[q].size /\ \A k \in 1..m.obj[q].size : Cell(r, q, k) = Cell(m, q, k)

\* What vector o becomes fits to the others.
LEMMA SettledElements ==
    ASSUME NEW V \in SUBSET Objects, NEW m, NEW x, ElementsInv(V, m, x), NEW o \in V,
           NEW r, NEW e, Settled(m, r, o, Others(V, m, o), e),
           NEW y, y[o] = e, \A q \in V : q # o => y[q] = x[q]
    PROVE  ElementsInv(V, r, y)
<1> DEFINE X == Others(V, m, o)
           I == 1..r.obj[o].size
<1>1. /\ \A q \in V : Reading(m, q, x[q])
      /\ \A q, p \in V : Distinct(m, q, p)
  BY DEF ElementsInv
<1>2. /\ Changes(m, r, o) /\ Fits(r, o) /\ Lives(r, o, I, X) /\ Reads(r, o, e)
      /\ \A t \in X : r.elem[t] = m.elem[t]
  BY Zenon DEF Settled
<1>3. /\ r.elem = [t \in Tokens |-> r.elem[t]]
      /\ \A k \in I : Cell(r, o, k) \in Tokens /\ Cell(r, o, k) \notin X /\ Elem(r, o, k) # Junk
      /\ \A j, k \in I : Cell(r, o, j) = Cell(r, o, k) => j = k
      /\ \A t \in Tokens : r.elem[t] # Junk => t \in X \/ \E k \in I : Cell(r, o, k) = t
  BY <1>2 DEF Lives
<1>4. \A q \in V : q # o => \A t \in Tokens : Has(m, q, t) => t \in X
  BY DEF Others
<1>5. \A t \in X : \E q \in V \ {o} : Has(m, q, t)
  BY DEF Others
<1> HIDE DEF X
<1>6. ASSUME NEW q \in V, q # o PROVE Reading(r, q, y[q]) /\ SameCells(m, r, q)
  <2> DEFINE f == x[q]
  <2>1. Reading(m, q, f) /\ y[q] = f
    BY <1>1, <1>6
  <2> HIDE DEF f
  <2>2. \A k \in 1..m.obj[q].size : Cell(m, q, k) \in Tokens
    BY <2>1, ReadingProperty
  <2>3. \A k \in 1..m.obj[q].size : r.elem[Cell(m, q, k)] = m.elem[Cell(m, q, k)]
    BY <1>2, <1>4, <1>6, <2>2 DEF Has
  <2>4. /\ Reading(r, q, f) /\ r.obj[q].size = m.obj[q].size
        /\ \A k \in 1..m.obj[q].size : Cell(r, q, k) = Cell(m, q, k)
    BY <1>2, <1>6, <2>1, <2>3, ReadingStays
  <2> QED BY <2>1, <2>4 DEF SameCells
<1>7. Reading(r, o, y[o])
  <2>1. r.obj[o].size <= r.obj[o].cap
    BY Zenon DEF Settled
  <2> QED BY <1>2, <1>3, <2>1 DEF Reading, Lodged
<1>8. \A q \in V : Reading(r, q, y[q])
  BY <1>6, <1>7
<1>9. ASSUME NEW q \in V, q # o PROVE Distinct(r, q, o) /\ Distinct(r, o, q)
  <2>1. \A k \in 1..m.obj[q].size : Cell(m, q, k) \in Tokens
    <3> DEFINE f == x[q]
    <3>1. Reading(m, q, f)
      BY <1>1
    <3> HIDE DEF f
    <3> QED BY <3>1, ReadingProperty
  <2>2. \A k \in 1..m.obj[q].size : Cell(m, q, k) \in X
    BY <1>4, <1>9, <2>1 DEF Has
  <2>3. \A k \in 1..r.obj[q].size : Cell(r, q, k) \in X
    BY <1>6, <1>9, <2>2 DEF SameCells
  <2>4. \A j \in 1..r.obj[q].size, k \in I : Cell(r, q, j) # Cell(r, o, k)
    BY <1>3, <2>3
  <2> QED BY <2>4 DEF Distinct
<1>10. ASSUME NEW q \in V, NEW p \in V PROVE Distinct(r, q, p)
  <2>1. CASE q = o /\ p = o
    BY <1>3, <2>1 DEF Distinct
  <2>2. CASE q # o /\ p # o
    <3>1. Distinct(m, q, p) /\ SameCells(m, r, q) /\ SameCells(m, r, p)
      BY <1>1, <1>6, <2>2
    <3> QED BY <3>1 DEF Distinct, SameCells
  <2> QED BY <1>9, <2>1, <2>2
<1>11. ASSUME NEW t \in Tokens, r.elem[t] # Junk PROVE \E q \in V : Has(r, q, t)
  <2>1. CASE t \in X
    <3>1. PICK q \in V \ {o} : Has(m, q, t)
      BY <1>5, <2>1
    <3>2. SameCells(m, r, q)
      BY <1>6, <3>1
    <3>3. Has(r, q, t)
      BY <3>1, <3>2 DEF Has, SameCells
    <3> QED BY <3>3
  <2>2. CASE t \notin X
    BY <1>3, <1>11, <2>2 DEF Has
  <2> QED BY <2>1, <2>2
<1> QED BY <1>3, <1>8, <1>10, <1>11 DEF ElementsInv

\* What happens to a container of bytes does not concern the vectors.
LEMMA MovedElements ==
    ASSUME NEW V \in SUBSET Objects, NEW m, NEW x, ElementsInv(V, m, x), NEW o \in Objects, o \notin V,
           NEW r, Moves(m, r, o), NEW y, \A q \in V : y[q] = x[q]
    PROVE  ElementsInv(V, r, y)
<1>1. /\ m.elem = [t \in Tokens |-> m.elem[t]]
      /\ \A q \in V : Reading(m, q, x[q])
      /\ \A q, p \in V : Distinct(m, q, p)
      /\ \A t \in Tokens : m.elem[t] # Junk => \E q \in V : Has(m, q, t)
  BY DEF ElementsInv
<1>2. Changes(m, r, o) /\ r.elem = m.elem
  BY DEF Moves
<1>3. ASSUME NEW q \in V PROVE Reading(r, q, y[q]) /\ SameCells(m, r, q)
  <2> DEFINE f == x[q]
  <2>1. Reading(m, q, f) /\ y[q] = f /\ q # o /\ q \in Objects
    BY <1>1
  <2> HIDE DEF f
  <2>2. \A k \in 1..m.obj[q].size : r.elem[Cell(m, q, k)] = m.elem[Cell(m, q, k)]
    BY <1>2
  <2>3. /\ Reading(r, q, f) /\ r.obj[q].size = m.obj[q].size
        /\ \A k \in 1..m.obj[q].size : Cell(r, q, k) = Cell(m, q, k)
    BY <1>2, <2>1, <2>2, ReadingStays
  <2> QED BY <2>1, <2>3 DEF SameCells
<1>4. ASSUME NEW q \in V, NEW p \in V PROVE Distinct(r, q, p)
  <2>1. Distinct(m, q, p) /\ SameCells(m, r, q) /\ SameCells(m, r, p)
    BY <1>1, <1>3
  <2> QED BY <2>1 DEF Distinct, SameCells
<1>5. ASSUME NEW t \in Tokens, r.elem[t] # Junk PROVE \E q \in V : Has(r, q, t)
  <2>1. PICK q \in V : Has(m, q, t)
    BY <1>1, <1>2, <1>5
  <2>2. Has(r, q, t)
    BY <1>3, <2>1 DEF Has, SameCells
  <2> QED BY <2>2
<1> QED BY <1>1, <1>2, <1>3, <1>4, <1>5 DEF ElementsInv

-----------------------------------------------------------------------------
(* Containers that change places *)

\* In r container o has what q has in m.
Alike(m, q, r, o) ==
    /\ r.obj[o].data = m.obj[q].data /\ r.obj[o].size = m.obj[q].size
    /\ r.obj[o].cap = m.obj[q].cap /\ (r.obj[o].zt <=> m.obj[q].zt)

\* From m to r the containers have changed places by f.
Passed(m, r, f) ==
    /\ f \in [Objects -> Objects]
    /\ \A x, y \in Objects : f[x] = f[y] => x = y
    /\ \A y \in Objects : \E x \in Objects : f[x] = y
    /\ r.heap = m.heap /\ r.elem = m.elem /\ r.fault = m.fault
    /\ \A o \in Objects : Alike(m, f[o], r, o)

LEMMA AlikeFine ==
    ASSUME NEW m, NEW r, NEW o, NEW q, r.heap = m.heap, r.elem = m.elem, Alike(m, q, r, o)
    PROVE  /\ Fits(m, q) => Fits(r, o)
           /\ \A k : Cell(r, o, k) = Cell(m, q, k) /\ Elem(r, o, k) = Elem(m, q, k)
           /\ Zt(r.obj[o]) = Zt(m.obj[q]) /\ r.obj[o].size = m.obj[q].size
           /\ \A e : /\ Fine(m, q, e) => Fine(r, o, e)
                     /\ Reads(m, q, e) => Reads(r, o, e)
                     /\ Reading(m, q, e) => Reading(r, o, e)
<1>1. /\ r.obj[o].data = m.obj[q].data /\ r.obj[o].size = m.obj[q].size
      /\ r.obj[o].cap = m.obj[q].cap /\ (r.obj[o].zt <=> m.obj[q].zt)
  BY Zenon DEF Alike
<1>2. Zt(r.obj[o]) = Zt(m.obj[q])
  BY <1>1, Zenon DEF Zt
<1>3. \A p : Cells(r, p) = Cells(m, p) /\ (Place(r, p) <=> Place(m, p))
  BY DEF Cells, Place
<1>4. \A p, n : Readable(r, p, n) <=> Readable(m, p, n)
  BY <1>3 DEF Readable
<1>5. \A k : Cell(r, o, k) = Cell(m, q, k)
  BY <1>1, <1>3 DEF Cell
<1>6. \A k : Elem(r, o, k) = Elem(m, q, k)
  BY <1>5 DEF Elem
<1>7. Fits(m, q) => Fits(r, o)
  BY <1>1, <1>2, <1>3, <1>4 DEF Fits, Sound
<1>8. Stop(m, q) => Stop(r, o)
  BY <1>1, <1>5, Zenon DEF Stop
<1>9. \A e : Matches(m, q, e) => Matches(r, o, e)
  BY <1>1, <1>5, Zenon DEF Matches
<1>10. \A e : Fine(m, q, e) => Fine(r, o, e)
  BY <1>7, <1>8, <1>9 DEF Fine
<1>11. \A e : Reads(m, q, e) => Reads(r, o, e)
  BY <1>1, <1>6, Zenon DEF Reads
<1>12. Lodged(m, q) => Lodged(r, o)
  BY <1>1, <1>5, Zenon DEF Lodged
<1>13. \A e : Reading(m, q, e) => Reading(r, o, e)
  <2>1. m.obj[q].size <= m.obj[q].cap => r.obj[o].size <= r.obj[o].cap
    BY <1>1
  <2> QED BY <1>7, <1>11, <1>12, <2>1, Zenon DEF Reading
<1> QED BY <1>1, <1>2, <1>5, <1>6, <1>7, <1>10, <1>11, <1>13, Zenon

LEMMA PassedElements ==
    ASSUME NEW V \in SUBSET Objects, NEW m, NEW x, ElementsInv(V, m, x),
           NEW r, NEW f, Passed(m, r, f), \A o \in Objects : f[o] \in V <=> o \in V,
           NEW y, \A o \in V : y[o] = x[f[o]]
    PROVE  ElementsInv(V, r, y)
<1>1. /\ m.elem = [t \in Tokens |-> m.elem[t]]
      /\ \A q \in V : Reading(m, q, x[q])
      /\ \A q, p \in V : Distinct(m, q, p)
      /\ \A t \in Tokens : m.elem[t] # Junk => \E q \in V : Has(m, q, t)
  BY DEF ElementsInv
<1>2. /\ f \in [Objects -> Objects]
      /\ \A a, b \in Objects : f[a] = f[b] => a = b
      /\ \A b \in Objects : \E a \in Objects : f[a] = b
      /\ r.heap = m.heap /\ r.elem = m.elem
      /\ \A o \in Objects : Alike(m, f[o], r, o)
  BY DEF Passed
<1>3. ASSUME NEW o \in V
      PROVE  /\ f[o] \in V /\ Reading(r, o, y[o]) /\ r.obj[o].size = m.obj[f[o]].size
             /\ \A k : Cell(r, o, k) = Cell(m, f[o], k)
  <2> DEFINE q == f[o]
             e == x[q]
  <2>1. q \in V /\ Reading(m, q, e) /\ Alike(m, q, r, o) /\ y[o] = e
    BY <1>1, <1>2
  <2> HIDE DEF e, q
  <2>2. r.obj[o].size = m.obj[q].size /\ (\A k : Cell(r, o, k) = Cell(m, q, k)) /\ Reading(r, o, e)
    BY <1>2, <2>1, AlikeFine
  <2> QED BY <2>1, <2>2 DEF q
<1>4. ASSUME NEW q \in V, NEW p \in V PROVE Distinct(r, q, p)
  <2>1. Distinct(m, f[q], f[p])
    BY <1>1, <1>3
  <2>2. f[q] = f[p] => q = p
    BY <1>2
  <2> QED BY <1>3, <2>1, <2>2 DEF Distinct
<1>5. ASSUME NEW t \in Tokens, r.elem[t] # Junk PROVE \E q \in V : Has(r, q, t)
  <2>1. PICK p \in V : Has(m, p, t)
    BY <1>1, <1>2, <1>5
  <2>2. PICK q \in Objects : f[q] = p
    BY <1>2
  <2>3. q \in V
    BY <2>2
  <2>4. Has(r, q, t)
    BY <1>3, <2>1, <2>2, <2>3 DEF Has
  <2> QED BY <2>3, <2>4
<1> QED BY <1>1, <1>2, <1>3, <1>4, <1>5 DEF ElementsInv

-----------------------------------------------------------------------------
(* The calls on vectors *)

\* Every container holds what the program put into it, in memory that is its
\* own, and nothing has gone wrong.
ContentsInv ==
    /\ kind \in Pairings
    /\ BytesInv
    /\ ElementsInv(Vectors, mem, expected)
    /\ Typed(mem) /\ ~mem.fault

\* The elements that are not those of o.
Rest(o) == Others(Vectors, mem, o)

\* A call on vector o has left the others alone, and o holding what is
\* expected of it.
VectorServed(o) ==
    /\ o \in Vectors /\ Settled(mem, mem', o, Rest(o), expected'[o])
    /\ \A q \in Objects : q # o => expected'[q] = expected[q]
    /\ expected' = [q \in Objects |-> expected'[q]]
    /\ kind' = kind

LEMMA SettledServed ==
    ASSUME ContentsInv, NEW o \in Vectors, NEW r, NEW e, Settled(mem, r, o, Rest(o), e), Does(o, r, e)
    PROVE  VectorServed(o)
<1>1. BytesInv /\ o \in Objects
  BY DEF ContentsInv, Vectors
<1>2. /\ mem' = r /\ expected'[o] = e
      /\ \A q \in Objects : q # o => expected'[q] = expected[q]
      /\ expected' = [q \in Objects |-> expected'[q]]
      /\ kind' = kind
  BY <1>1, DoesWhat
<1> QED BY <1>2 DEF VectorServed

LEMMA StandsServed ==
    ASSUME ContentsInv, NEW o \in Vectors, NEW r, NEW e, Stands(mem, r, o, Rest(o), e), Does(o, r, e)
    PROVE  VectorServed(o)
<1>1. o \in Objects
  BY DEF Vectors
<1> QED BY <1>1, StandsSettled, SettledServed

\* Between two calls a vector is as its operations need it.
LEMMA VectorReady ==
    ASSUME ContentsInv, NEW o \in Objects, kind[o] = "vector"
    PROVE  /\ o \in Vectors /\ Good(mem) /\ Size(o) = mem.obj[o].size
           /\ Reading(mem, o, expected[o]) /\ Reads(mem, o, expected[o])
           /\ Lives(mem, o, 1..mem.obj[o].size, Rest(o)) /\ Room(o, Rest(o))
           /\ Obj(o).made => Vector(mem, o, Rest(o))
<1> DEFINE e == expected[o]
           b == mem.obj[o]
<1>1. o \in Vectors /\ Size(o) = b.size /\ Good(mem) /\ BytesInv
  BY DEF Vectors, Size, Obj, ContentsInv, BytesInv
<1>2. Reading(mem, o, e)
  BY <1>1 DEF ContentsInv, ElementsInv
<1>3. \A q \in Vectors : mem.obj[q].size <= MaxSize
  BY <1>1 DEF BytesInv, Sorted, Vectors
<1>4. Lives(mem, o, 1..b.size, Rest(o)) /\ Room(o, Rest(o))
  <2>1. Vectors \in SUBSET Objects /\ ElementsInv(Vectors, mem, expected)
    BY DEF Vectors, ContentsInv
  <2> QED BY <1>1, <1>3, <2>1, VectorLives DEF Rest
<1>5. Zt(b) = 0 /\ b.size <= MaxSize
  BY <1>1 DEF BytesInv, Sorted
<1> HIDE DEF e
<1>6. Fits(mem, o) /\ Reads(mem, o, e) /\ b.size <= b.cap /\ b.size \in Nat
  BY <1>2, ReadingProperty DEF Reading
<1>7. Obj(o).made => Vector(mem, o, Rest(o))
  <2>1. Obj(o).made => Usable(mem, o)
    BY <1>1, Zenon DEF Obj, Usable
  <2>2. b.size + Zt(b) <= b.cap
    <3> HIDE DEF b
    <3>1. b.size + 0 = b.size
      BY <1>6
    <3> QED BY <1>5, <1>6, <3>1
  <2>3. Obj(o).made => Writable(mem, o)
    BY <1>6, <2>1, <2>2, Zenon DEF Writable
  <2> QED BY <1>4, <1>5, <2>3, Zenon DEF Vector
<1> QED BY <1>1, <1>2, <1>4, <1>6, <1>7 DEF e

\* What the elements of a vector are made of.
LEMMA ElementsRead ==
    ASSUME NEW m, NEW q, NEW e, Reading(m, q, e)
    PROVE  Elements(m, q) = e
<1> DEFINE x == m.obj[q].size
           u == Elements(m, q)
<1>1. Sequence(e) /\ Len(e) = x
  BY DEF Reading, Reads
<1>2. \A k \in 1..x : Cell(m, q, k) \in Tokens /\ Elem(m, q, k) = e[k] /\ Elem(m, q, k) # Junk
  BY ReadingProperty
<1>3. u = [k \in 1..x |-> IF Alive(m, Cell(m, q, k)) THEN m.elem[Cell(m, q, k)] ELSE Junk]
  BY DEF Elements
<1> HIDE DEF x, u
<1>4. \A k \in 1..x : (IF Alive(m, Cell(m, q, k)) THEN m.elem[Cell(m, q, k)] ELSE Junk) = e[k]
  BY <1>2 DEF Alive, Elem
<1>5. u = [k \in 1..x |-> e[k]]
  <2>1. u = [k \in 1..x |-> u[k]]
    BY <1>3
  <2>2. \A k \in 1..x : u[k] = IF Alive(m, Cell(m, q, k)) THEN m.elem[Cell(m, q, k)] ELSE Junk
    BY <1>3
  <2>3. \A k \in 1..x : u[k] = e[k]
    BY <1>4, <2>2
  <2>4. [k \in 1..x |-> u[k]] = [k \in 1..x |-> e[k]]
    BY <2>3
  <2> QED BY <2>1, <2>4
<1>6. e = [k \in 1..x |-> e[k]]
  BY <1>1, SequenceProperty
<1> QED BY <1>5, <1>6 DEF u

LEMMA TextLiving ==
    ASSUME NEW s \in Texts
    PROVE  Sequence(s.v) /\ Living(s.v) /\ Len(s.v) = s.n /\ s.n \in Nat
<1>1. PICK k \in DOMAIN Literals :
        s = [p |-> -k, n |-> Len(Literals[k]), v |-> Literals[k]]
  BY DEF Texts
<1>2. s.v = Literals[k] /\ s.n = Len(Literals[k])
  BY <1>1
<1>3. Sequence(Literals[k]) /\ Len(Literals[k]) \in Nat
  BY LiteralProperty
<1>4. Literals[k] \in Seq(Values) /\ Values \subseteq Nat
  BY MemoryAssumption
<1>5. \A j \in 1..Len(Literals[k]) : Literals[k][j] \in Nat
  <2> DEFINE t == Literals[k]
  <2>1. t \in Seq(Values) /\ Values \subseteq Nat
    BY <1>4
  <2> HIDE DEF t
  <2>2. \A j \in 1..Len(t) : t[j] \in Values
    BY <2>1
  <2>3. \A j \in 1..Len(t) : t[j] \in Nat
    BY <2>1, <2>2
  <2> QED BY <2>3 DEF t
<1> QED BY <1>2, <1>3, <1>5 DEF Living, Junk

LEMMA FilledLiving ==
    ASSUME NEW n \in Nat, NEW v \in Values \cup {Nul}
    PROVE  /\ v # Junk
           /\ Sequence(Filled(n, v)) /\ Living(Filled(n, v)) /\ Len(Filled(n, v)) = n
<1>1. v # Junk
  BY MemoryAssumption DEF Nul, Junk
<1> QED BY <1>1, FilledSequence DEF Living

LEMMA EditVectorServed ==
    ASSUME ContentsInv, NEW o \in Objects, EditVector(o)
    PROVE  VectorServed(o)
<1> DEFINE X == Rest(o)
           e == expected[o]
           x == mem.obj[o].size
<1>1. Obj(o).made /\ kind[o] = "vector"
  BY DEF EditVector, IsVector
<1>2. o \in Vectors /\ Size(o) = x /\ Vector(mem, o, X) /\ Reads(mem, o, e)
  BY <1>1, VectorReady
<1>3. x \in Nat
  BY <1>2, VectorType
<1> HIDE DEF X
<1>4. ASSUME NEW i \in 0..Size(o), NEW s, Sequence(s), Living(s), Size(o) + Len(s) <= MaxSize,
             Does(o, InsertElements(mem, o, i, s), With(expected[o], i, 0, s))
      PROVE  VectorServed(o)
  <2>1. i \in Nat /\ i <= x
    BY <1>2, <1>3
  <2>2. Stands(mem, InsertElements(mem, o, i, s), o, X, With(e, i, 0, s))
    BY <1>2, <1>4, <2>1, InsertElementsStands
  <2> QED BY <1>2, <1>4, <2>2, StandsServed DEF X
<1>5. ASSUME NEW i \in 0..Size(o), NEW n \in 0..(Size(o) - i)
      PROVE  i \in Nat /\ n \in Nat /\ i + n <= x
  BY <1>2, <1>3
<1>6. ASSUME NEW i \in 0..Size(o), NEW n \in 0..(Size(o) - i),
             Does(o, EraseElements(mem, o, i, n), With(expected[o], i, n, <<>>))
      PROVE  VectorServed(o)
  <2>1. Stands(mem, EraseElements(mem, o, i, n), o, X, With(e, i, n, <<>>))
    BY <1>2, <1>5, EraseElementsStands
  <2> QED BY <1>2, <1>6, <2>1, StandsServed DEF X
<1>7. ASSUME NEW i \in 0..Size(o), NEW n \in 0..(Size(o) - i), NEW s, Sequence(s), Living(s),
             Size(o) - n + Len(s) <= MaxSize,
             Does(o, InsertElements(EraseElements(mem, o, i, n), o, i, s), With(expected[o], i, n, s))
      PROVE  VectorServed(o)
  <2>1. Stands(mem, InsertElements(EraseElements(mem, o, i, n), o, i, s), o, X, With(e, i, n, s))
    BY <1>2, <1>5, <1>7, ReplaceElementsStands
  <2> QED BY <1>2, <1>7, <2>1, StandsServed DEF X
<1>8. ASSUME Size(o) > 0, Does(o, PopBackElement(mem, o), Before(expected[o], Size(o) - 1))
      PROVE  VectorServed(o)
  <2>1. x > 0
    BY <1>2, <1>8
  <2>2. Stands(mem, PopBackElement(mem, o), o, X, Before(e, x - 1))
    BY <1>2, <2>1, PopBackElementStands
  <2>3. Does(o, PopBackElement(mem, o), Before(e, x - 1))
    BY <1>2, <1>8
  <2> QED BY <1>2, <2>2, <2>3, StandsServed DEF X
<1>9. ASSUME NEW i \in 0..Size(o), NEW s \in Texts \cup {[v |-> Filled(n, v)] : n \in 1..MaxSize, v \in Values},
             Size(o) + Len(s.v) <= MaxSize,
             Does(o, InsertElements(mem, o, i, s.v), With(expected[o], i, 0, s.v))
      PROVE  VectorServed(o)
  <2>1. Sequence(s.v) /\ Living(s.v)
    <3>1. CASE s \in Texts
      BY <3>1, TextLiving
    <3>2. ASSUME NEW n \in 1..MaxSize, NEW v \in Values, s = [v |-> Filled(n, v)]
          PROVE  Sequence(s.v) /\ Living(s.v)
      <4>1. n \in Nat /\ s.v = Filled(n, v)
        BY <3>2
      <4> QED BY <4>1, FilledLiving
    <3> QED BY <3>1, <3>2
  <2> QED BY <1>4, <1>9, <2>1
<1>10. ASSUME NEW i \in 0..Size(o), NEW n \in 0..(Size(o) - i), NEW s \in Texts,
              Size(o) - n + s.n <= MaxSize,
              Does(o, InsertElements(EraseElements(mem, o, i, n), o, i, s.v),
                   With(expected[o], i, n, s.v))
      PROVE  VectorServed(o)
  <2>1. Sequence(s.v) /\ Living(s.v) /\ Len(s.v) = s.n
    BY TextLiving
  <2>2. Size(o) - n + Len(s.v) <= MaxSize
    BY <1>10, <2>1
  <2> QED BY <1>7, <1>10, <2>1, <2>2
<1> DEFINE Inserts(i) ==
             \E s \in Texts \cup {[v |-> Filled(n, v)] : n \in 1..MaxSize, v \in Values} :
                 /\ Size(o) + Len(s.v) <= MaxSize
                 /\ Does(o, InsertElements(mem, o, i, s.v), With(expected[o], i, 0, s.v))
           Erases(i, n) ==
             Does(o, EraseElements(mem, o, i, n), With(expected[o], i, n, <<>>))
           Replaces(i, n) ==
             \E s \in Texts :
                 /\ Size(o) - n + s.n <= MaxSize
                 /\ Does(o, InsertElements(EraseElements(mem, o, i, n), o, i, s.v),
                         With(expected[o], i, n, s.v))
           Pops(i) ==
             /\ Size(o) > 0 /\ i = Size(o)
             /\ Does(o, PopBackElement(mem, o), Before(expected[o], Size(o) - 1))
<1>11. \A i \in 0..Size(o) : Inserts(i) => VectorServed(o)
  BY <1>9
<1>12. \A i \in 0..Size(o) : \A n \in 0..(Size(o) - i) :
         Erases(i, n) \/ Replaces(i, n) => VectorServed(o)
  BY <1>6, <1>10
<1>13. \A i \in 0..Size(o) : Pops(i) => VectorServed(o)
  BY <1>8
<1>14. \E i \in 0..Size(o) :
         \/ Inserts(i)
         \/ \E n \in 0..(Size(o) - i) : Erases(i, n) \/ Replaces(i, n)
         \/ Pops(i)
  BY DEF EditVector
<1> HIDE DEF Inserts, Erases, Replaces, Pops
<1> QED BY <1>11, <1>12, <1>13, <1>14

LEMMA SizeVectorServed ==
    ASSUME ContentsInv, NEW o \in Objects, SizeVector(o)
    PROVE  VectorServed(o)
<1> DEFINE X == Rest(o)
           e == expected[o]
           x == mem.obj[o].size
<1>1. Obj(o).made /\ kind[o] = "vector"
  BY DEF SizeVector, IsVector
<1>2. o \in Vectors /\ Size(o) = x /\ Vector(mem, o, X) /\ Reads(mem, o, e)
  BY <1>1, VectorReady
<1>3. \A n \in 0..MaxSize : n \in Nat /\ n <= MaxSize
  BY MemoryAssumption
<1> HIDE DEF X
<1>4. ASSUME NEW n \in 0..MaxSize, NEW v \in Values \cup {Nul},
             Does(o, ResizeVector(mem, o, n, v), Resized(expected[o], n, v))
      PROVE  VectorServed(o)
  <2>1. v # Junk /\ n \in Nat /\ n <= MaxSize
    BY <1>3, FilledLiving
  <2>2. Stands(mem, ResizeVector(mem, o, n, v), o, X, Resized(e, n, v))
    BY <1>2, <2>1, ResizeVectorStands
  <2> QED BY <1>2, <1>4, <2>2, StandsServed DEF X
<1>5. ASSUME NEW n \in 0..MaxSize, Does(o, Reserve(mem, o, n), expected[o])
      PROVE  VectorServed(o)
  <2>1. n \in Nat
    BY <1>3
  <2>2. Stands(mem, Reserve(mem, o, n), o, X, e)
    BY <1>2, <2>1, ReserveStands
  <2> QED BY <1>2, <1>5, <2>2, StandsServed DEF X
<1>6. ASSUME Owns(o), Size(o) > 0, Does(o, ShrinkToFit(mem, o), expected[o])
      PROVE  VectorServed(o)
  <2>1. mem.obj[o].cap > 0 /\ mem.obj[o].size > 0
    BY <1>2, <1>6 DEF Owns, Obj
  <2>2. Stands(mem, ShrinkToFit(mem, o), o, X, e)
    BY <1>2, <2>1, ShrinkStands
  <2> QED BY <1>2, <1>6, <2>2, StandsServed DEF X
<1>7. ASSUME Does(o, ClearVector(mem, o), <<>>) PROVE VectorServed(o)
  <2>1. Settled(mem, ClearVector(mem, o), o, X, <<>>)
    BY <1>2, ClearVectorSettles
  <2> QED BY <1>2, <1>7, <2>1, SettledServed DEF X
<1>8. ASSUME Does(o, DeallocateVector(mem, o), <<>>) PROVE VectorServed(o)
  <2>1. Settled(mem, DeallocateVector(mem, o), o, X, <<>>)
    BY <1>2, DeallocateVectorSettles
  <2> QED BY <1>2, <1>8, <2>1, SettledServed DEF X
<1> QED BY <1>4, <1>5, <1>6, <1>7, <1>8, Zenon DEF SizeVector

\* What a call on vector o that copies s into it leaves in its place is no
\* larger than all containers may be.
LEMMA AssignedSize ==
    ASSUME NEW m, NEW o \in Objects, Usable(m, o), NEW s, Len(s) \in Nat
    PROVE  AssignVector(m, o, s).obj[o].size = Len(s)
<1> DEFINE n == Len(s)
           r == Reserve(m, o, n)
           b == r.obj[o]
           y == IF n > b.size THEN n - b.size ELSE 0
           d == DestroyRange(r, b.data, n, b.size)
           c == Construct(d, b.data, b.size, Filled(y, Nul))
           w == SetSize(c, o, n)
           u == AssignElements(w, o, s)
<1>1. AssignVector(m, o, s) = u
  BY DEF AssignVector, ResizeVector
<1>2. n \in Int
  OBVIOUS
<1>3. Usable(r, o)
  BY <1>2, ReserveUsable
<1> HIDE DEF r
<1>4. b.size \in Int
  BY <1>3, UsableType
<1>5. Usable(d, o)
  BY <1>3, DestroyRangeUsable
<1> HIDE DEF d, b
<1>6. y \in Nat
  BY <1>2, <1>4
<1> HIDE DEF y
<1>7. Len(Filled(y, Nul)) \in Nat
  BY <1>6, FilledLen
<1>8. Usable(c, o)
  <2> DEFINE t == Filled(y, Nul)
  <2>1. Len(t) \in Nat
    BY <1>7
  <2> HIDE DEF t
  <2>2. Usable(Construct(d, b.data, b.size, t), o)
    BY <1>5, <2>1, ConstructUsable
  <2> QED BY <2>2 DEF t
<1> HIDE DEF c
<1>9. Usable(w, o) /\ w.obj[o].size = n
  BY <1>2, <1>8, SetSizeCells
<1> HIDE DEF w
<1>10. SameShape(w, u)
  BY <1>9, AssignElementsShape, UsableType
<1> HIDE DEF u
<1> QED BY <1>1, <1>9, <1>10 DEF SameShape

LEMMA AssignToVectorServed ==
    ASSUME ContentsInv, NEW o \in Objects, AssignToVector(o)
    PROVE  VectorServed(o)
<1> DEFINE X == Rest(o)
           e == expected[o]
<1>1. Obj(o).made /\ kind[o] = "vector"
  BY DEF AssignToVector, IsVector
<1>2. o \in Vectors /\ Vector(mem, o, X) /\ Reads(mem, o, e) /\ Usable(mem, o)
  BY <1>1, VectorReady, VectorType
<1> HIDE DEF X
<1>3. ASSUME NEW s, Sequence(s), Living(s), Does(o, AssignVector(mem, o, s), s)
      PROVE  VectorServed(o)
  <2>1. AssignVector(mem, o, s).obj[o].size <= MaxSize
    BY <1>3, DoesWhat DEF ContentsInv
  <2>2. Len(s) \in Nat
    BY <1>3, SequenceProperty
  <2>3. Len(s) <= MaxSize
    BY <1>2, <2>1, <2>2, AssignedSize
  <2>4. Stands(mem, AssignVector(mem, o, s), o, X, s)
    BY <1>2, <1>3, <2>3, AssignVectorStands
  <2> QED BY <1>2, <1>3, <2>4, StandsServed DEF X
<1>4. ASSUME NEW s \in Texts, Does(o, AssignVector(mem, o, s.v), s.v) PROVE VectorServed(o)
  BY <1>3, <1>4, TextLiving
<1>5. ASSUME NEW q \in Objects, IsVector(q),
             Does(o, AssignVector(mem, o, Elements(mem, q)), expected[q])
      PROVE  VectorServed(o)
  <2> DEFINE s == expected[q]
  <2>1. Reading(mem, q, s) /\ Reads(mem, q, s)
    BY <1>5, VectorReady DEF IsVector
  <2> HIDE DEF s
  <2>2. Elements(mem, q) = s /\ Sequence(s) /\ Living(s)
    BY <2>1, ElementsRead DEF Reads
  <2>3. Does(o, AssignVector(mem, o, s), s)
    BY <1>5, <2>2 DEF s
  <2> QED BY <1>3, <2>2, <2>3
<1>6. ASSUME NEW n \in 0..MaxSize, NEW v \in Values, Does(o, FillVector(mem, o, n, v), Filled(n, v))
      PROVE  VectorServed(o)
  <2>1. n \in Nat /\ n <= MaxSize /\ v # Junk
    BY MemoryAssumption, FilledLiving
  <2>2. Stands(mem, FillVector(mem, o, n, v), o, X, Filled(n, v))
    BY <1>2, <2>1, FillVectorStands
  <2> QED BY <1>2, <1>6, <2>2, StandsServed DEF X
<1> QED BY <1>4, <1>5, <1>6, Zenon DEF AssignToVector

\* A vector that is empty, and inserting into it.
LEMMA NothingInserted ==
    ASSUME NEW s, Sequence(s)
    PROVE  With(<<>>, 0, 0, s) = s
<1> DEFINE none == <<>>
           zero == 0
           u == With(none, zero, zero, s)
           n == Len(s)
<1>1. Sequence(none) /\ Len(none) = 0 /\ zero \in Nat /\ n \in Nat
  BY EmptySequence, SequenceProperty
<1>2. zero + zero <= Len(none)
  BY <1>1
<1> HIDE DEF none, zero
<1>3. Replaced(u, none, zero, zero, s)
  BY <1>1, <1>2, WithCells
<1> HIDE DEF u, n
<1>4. /\ Sequence(u) /\ Len(u) = Len(none) - zero + n
      /\ \A k \in 1..Len(none)-zero+n :
           u[k] = IF k <= zero THEN none[k]
                  ELSE IF k <= zero + n THEN s[k - zero] ELSE none[k - n + zero]
  BY <1>3 DEF Replaced, n
<1>5. zero = 0
  BY DEF zero
<1>6. Len(none) - zero + n = n /\ zero + n = n /\ \A k \in 1..n : ~(k <= zero) /\ k <= n /\ k - zero = k
  BY <1>1, <1>5
<1>7. Sequence(u) /\ Len(u) = n /\ \A k \in 1..n : u[k] = s[k]
  BY <1>4, <1>6
<1>8. u = s
  <2>1. u = [k \in 1..n |-> u[k]] /\ s = [k \in 1..n |-> s[k]]
    BY <1>7, SequenceProperty DEF n
  <2>2. [k \in 1..n |-> u[k]] = [k \in 1..n |-> s[k]]
    BY <1>7
  <2> QED BY <2>1, <2>2
<1> QED BY <1>8 DEF u, none, zero

LEMMA InsertedSize ==
    ASSUME NEW m, NEW o \in Objects, Usable(m, o), Fits(m, o), m.obj[o].size = 0,
           NEW s, Len(s) \in Nat
    PROVE  InsertElements(m, o, 0, s).obj[o].size = Len(s)
<1> DEFINE zero == 0
           n == Len(s)
           h == InsertHole(m, o, zero, n)
           r == Construct(h, h.obj[o].data, zero, s)
<1>1. InsertElements(m, o, 0, s) = r
  BY DEF InsertElements
<1>2. zero \in Nat /\ zero <= m.obj[o].size /\ n \in Nat
  OBVIOUS
<1>3. zero = 0
  OBVIOUS
<1> HIDE DEF zero
<1>4. Done(m, h, o) /\ Spliced(m, h, o, zero, 0, n)
  <2> HIDE DEF n
  <2> QED BY <1>2, HoleSplices
<1>5. h.obj[o].size = n
  <2> HIDE DEF n, h
  <2>1. h.obj[o].size = m.obj[o].size - 0 + n
    BY <1>4, Zenon DEF Spliced
  <2> QED BY <1>2, <2>1
<1>6. Usable(h, o)
  BY <1>4, Zenon DEF Done, Writable
<1> HIDE DEF h
<1>7. SameShape(h, r)
  BY <1>2, <1>6, UsableType, ConstructShape
<1>8. r.obj = h.obj
  BY <1>7 DEF SameShape
<1> HIDE DEF r
<1> QED BY <1>1, <1>5, <1>8

\* A vector just constructed, with nothing in it.
LEMMA LinkedVector ==
    ASSUME ContentsInv, NEW o \in Objects, Unmade(o), kind[o] = "vector"
    PROVE  LET l == Link(mem, o, Null, 0, FALSE)
           IN  /\ Stands(mem, l, o, Rest(o), <<>>)
               /\ Usable(l, o) /\ Fits(l, o) /\ l.obj[o].size = 0
<1> DEFINE X == Rest(o)
           l == Link(mem, o, Null, 0, FALSE)
           none == {}
           zero == 0
<1>1. ~mem.obj[o].made /\ Good(mem) /\ mem.obj[o] = Gone
  <2>1. ~mem.obj[o].made /\ Sorted(mem, o) /\ Good(mem)
    BY DEF Unmade, Obj, ContentsInv, BytesInv
  <2> QED BY <2>1, Zenon DEF Sorted
<1>2. /\ Lives(mem, o, 1..mem.obj[o].size, X) /\ Room(o, X)
  BY VectorReady
<1>3. mem.obj[o].size = 0
  BY <1>1, GoneFits
<1> HIDE DEF X
<1>4. Lives(mem, o, none, X)
  <2>1. 1..zero = none
    OBVIOUS
  <2> HIDE DEF none
  <2> QED BY <1>2, <1>3, <2>1
<1>5. Made(mem, l, o, FALSE, <<>>)
  <2>1. FALSE \in BOOLEAN
    OBVIOUS
  <2> QED BY <1>1, <2>1, LinkEmptyMakes
<1> HIDE DEF l
<1>6. /\ Moves(mem, l, o) /\ Usable(l, o) /\ Fits(l, o) /\ Matches(l, o, <<>>) /\ ~l.obj[o].zt
  BY <1>5, Zenon DEF Made
<1>7. Zt(l.obj[o]) = 0
  BY <1>6, Zenon DEF Zt
<1>8. l.obj[o].size = 0
  BY <1>6, EmptySequence DEF Matches
<1>9. Lives(l, o, none, X)
  <2>1. \A j \in none : Cell(l, o, j) = Cell(mem, o, j)
    OBVIOUS
  <2> HIDE DEF none
  <2> QED BY <1>4, <1>6, <2>1, LivesStay
<1>10. Lives(l, o, 1..l.obj[o].size, X)
  <2>1. 1..zero = none
    OBVIOUS
  <2> HIDE DEF none
  <2> QED BY <1>8, <1>9, <2>1
<1>11. Writable(l, o)
  <2>1. l.obj[o].cap \in Nat
    BY <1>6, UsableType
  <2>2. l.obj[o].size + Zt(l.obj[o]) <= l.obj[o].cap
    BY <1>7, <1>8, <2>1
  <2> QED BY <1>6, <2>2, Zenon DEF Writable
<1>12. l.obj[o].size <= MaxSize
  BY <1>8, MemoryAssumption
<1>13. Vector(l, o, X)
  BY <1>2, <1>7, <1>10, <1>11, <1>12, Zenon DEF Vector
<1>14. Rebuilt(mem, l, o, X)
  BY <1>6, <1>13 DEF Rebuilt, Moves
<1>15. Reads(l, o, <<>>)
  BY <1>8, EmptySequence DEF Reads, Living
<1>16. Stands(mem, l, o, X, <<>>)
  BY <1>14, <1>15 DEF Stands
<1> QED BY <1>6, <1>8, <1>16 DEF l, X

LEMMA ConstructVectorServed ==
    ASSUME ContentsInv, NEW o \in Objects, ConstructVector(o)
    PROVE  VectorServed(o)
<1> DEFINE X == Rest(o)
           l == Link(mem, o, Null, 0, FALSE)
           none == <<>>
           zero == 0
<1>1. Unmade(o) /\ kind[o] = "vector"
  BY DEF ConstructVector
<1>2. o \in Vectors
  BY <1>1 DEF Vectors
<1>3. Stands(mem, l, o, X, none) /\ Usable(l, o) /\ Fits(l, o) /\ l.obj[o].size = 0
  BY <1>1, LinkedVector
<1>4. \/ Does(o, l, none)
      \/ \E n \in 1..MaxSize, v \in Values \cup {Nul} :
           Does(o, InsertElements(l, o, zero, Filled(n, v)), Filled(n, v))
      \/ \E s \in Texts : Does(o, InsertElements(l, o, zero, s.v), s.v)
      \/ \E q \in Objects : IsVector(q) /\
           Does(o, InsertElements(l, o, zero, Elements(mem, q)), expected[q])
  BY Zenon DEF ConstructVector
<1> HIDE DEF l, X
<1>5. Rebuilt(mem, l, o, X) /\ Vector(l, o, X) /\ Reads(l, o, none)
  BY <1>3 DEF Stands, Rebuilt
<1>6. CASE Does(o, l, none)
  BY <1>2, <1>3, <1>6, StandsServed DEF X
<1>7. ASSUME NEW s, Sequence(s), Living(s), Does(o, InsertElements(l, o, zero, s), s)
      PROVE  VectorServed(o)
  <2> DEFINE r == InsertElements(l, o, zero, s)
  <2>1. Len(s) \in Nat /\ r.obj[o].size <= MaxSize
    BY <1>7, SequenceProperty, DoesWhat DEF ContentsInv
  <2>2. r.obj[o].size = Len(s)
    BY <1>3, <2>1, InsertedSize
  <2>3. zero \in Nat /\ zero <= l.obj[o].size /\ l.obj[o].size + Len(s) <= MaxSize
    <3> HIDE DEF r
    <3> QED BY <1>3, <2>1, <2>2
  <2>4. With(none, 0, 0, s) = s
    BY <1>7, NothingInserted
  <2>5. Stands(l, r, o, X, With(none, zero, 0, s))
    <3> HIDE DEF none, zero
    <3> QED BY <1>5, <1>7, <2>3, InsertElementsStands
  <2>6. Stands(l, r, o, X, s)
    BY <2>4, <2>5
  <2>7. Does(o, r, s)
    BY <1>7
  <2> HIDE DEF r
  <2>8. Stands(mem, r, o, X, s)
    BY <1>5, <2>6, RebuiltTrans DEF Stands
  <2> QED BY <1>2, <2>7, <2>8, StandsServed DEF X
<1> HIDE DEF zero
<1>8. ASSUME NEW n \in 1..MaxSize, NEW v \in Values \cup {Nul},
             Does(o, InsertElements(l, o, zero, Filled(n, v)), Filled(n, v))
      PROVE  VectorServed(o)
  <2>1. n \in Nat
    OBVIOUS
  <2>2. Sequence(Filled(n, v)) /\ Living(Filled(n, v))
    BY <2>1, FilledLiving
  <2> DEFINE s == Filled(n, v)
  <2>3. Sequence(s) /\ Living(s) /\ Does(o, InsertElements(l, o, zero, s), s)
    BY <1>8, <2>2
  <2> HIDE DEF s
  <2> QED BY <1>7, <2>3
<1>9. ASSUME NEW s \in Texts, Does(o, InsertElements(l, o, zero, s.v), s.v)
      PROVE  VectorServed(o)
  BY <1>7, <1>9, TextLiving
<1>10. ASSUME NEW q \in Objects, IsVector(q),
              Does(o, InsertElements(l, o, zero, Elements(mem, q)), expected[q])
       PROVE  VectorServed(o)
  <2> DEFINE s == expected[q]
  <2>1. Reading(mem, q, s) /\ Reads(mem, q, s)
    BY <1>10, VectorReady DEF IsVector
  <2> HIDE DEF s
  <2>2. Elements(mem, q) = s /\ Sequence(s) /\ Living(s)
    BY <2>1, ElementsRead DEF Reads
  <2>3. Does(o, InsertElements(l, o, zero, s), s)
    BY <1>10, <2>2 DEF s
  <2> QED BY <1>7, <2>2, <2>3
<1> QED BY <1>4, <1>6, <1>8, <1>9, <1>10

\* A vector that is destroyed, and everything else that is.
LEMMA DestructServed ==
    ASSUME ContentsInv, NEW o \in Objects, Destruct(o)
    PROVE  (Served(o) /\ kind[o] # "vector") \/ VectorServed(o)
<1>1. Obj(o).made /\ BytesInv
  BY DEF Destruct, ContentsInv
<1>2. CASE kind[o] = "vector"
  <2>1. Does(o, DestroyedVector(mem, o), <<>>)
    BY <1>2, Zenon DEF Destruct
  <2>2. o \in Vectors /\ Vector(mem, o, Rest(o))
    BY <1>1, <1>2, VectorReady
  <2>3. Settled(mem, DestroyedVector(mem, o), o, Rest(o), <<>>)
    BY <2>2, DestroyedVectorSettles
  <2> QED BY <2>1, <2>2, <2>3, SettledServed
<1>3. CASE kind[o] # "vector"
  <2>1. Does(o, Destroyed(mem, o), <<>>)
    BY <1>3, Zenon DEF Destruct
  <2> QED BY <1>1, <1>3, <2>1, DestroyedServed
<1> QED BY <1>2, <1>3

-----------------------------------------------------------------------------
(* The steps *)

LEMMA ContentsNext ==
    ASSUME kind' = kind, kind \in Pairings, Good(mem'), expected' = [q \in Objects |-> expected'[q]],
           \A q \in Objects : Sorted(mem', q) /\ (kind[q] # "vector" => Fine(mem', q, expected'[q])),
           ElementsInv(Vectors, mem', expected'), Typed(mem'), ~mem'.fault
    PROVE  ContentsInv'
<1>1. Vectors' = Vectors
  BY DEF Vectors
<1>2. BytesInv'
  BY DEF BytesInv, Sorted
<1> QED BY <1>1, <1>2 DEF ContentsInv

\* A call on a container of bytes.
LEMMA ServedStep ==
    ASSUME ContentsInv, NEW o \in Objects, kind[o] # "vector", Served(o)
    PROVE  ContentsInv'
<1>1. /\ Moves(mem, mem', o) /\ Sorted(mem', o) /\ Fine(mem', o, expected'[o])
      /\ \A q \in Objects : q # o => expected'[q] = expected[q]
      /\ expected' = [q \in Objects |-> expected'[q]]
      /\ kind' = kind
  BY Zenon DEF Served
<1>2. kind \in Pairings /\ BytesInv /\ ElementsInv(Vectors, mem, expected) /\ Typed(mem) /\ ~mem.fault
  BY Zenon DEF ContentsInv
<1>3. Changes(mem, mem', o)
  BY <1>1, Zenon DEF Moves
<1>4. /\ Good(mem') /\ mem'.fault = mem.fault /\ Typed(mem')
      /\ \A q \in Objects : q # o => mem'.obj[q] = mem.obj[q]
  BY <1>2, <1>3, Zenon DEF Changes
<1>5. ~mem'.fault
  BY <1>2, <1>4, Zenon
<1>6. ASSUME NEW q \in Objects
      PROVE  Sorted(mem', q) /\ (kind[q] # "vector" => Fine(mem', q, expected'[q]))
  <2>1. CASE q = o
    BY <1>1, <2>1
  <2>2. CASE q # o
    <3>1. Sorted(mem, q) /\ (kind[q] # "vector" => Fine(mem, q, expected[q]))
      BY <1>2 DEF BytesInv
    <3>2. mem'.obj[q] = mem.obj[q] /\ expected'[q] = expected[q]
      BY <1>1, <1>4, <2>2
    <3>3. Sorted(mem', q)
      BY <3>1, <3>2, Zenon DEF Sorted
    <3>4. kind[q] # "vector" => Fine(mem', q, expected[q])
      BY <1>3, <2>2, <3>1, FineElsewhere
    <3> QED BY <3>2, <3>3, <3>4, Zenon
  <2> QED BY <2>1, <2>2
<1>7. ElementsInv(Vectors, mem', expected')
  <2>1. Vectors \in SUBSET Objects /\ o \notin Vectors /\ \A q \in Vectors : expected'[q] = expected[q]
    BY <1>1 DEF Vectors
  <2> QED BY <1>1, <1>2, <2>1, MovedElements
<1> QED BY <1>1, <1>2, <1>4, <1>5, <1>6, <1>7, ContentsNext

\* A call on a vector.
LEMMA VectorServedStep ==
    ASSUME ContentsInv, NEW o \in Objects, VectorServed(o)
    PROVE  ContentsInv'
<1>1. /\ o \in Vectors /\ Settled(mem, mem', o, Rest(o), expected'[o])
      /\ \A q \in Objects : q # o => expected'[q] = expected[q]
      /\ expected' = [q \in Objects |-> expected'[q]]
      /\ kind' = kind
  BY Zenon DEF VectorServed
<1>2. kind \in Pairings /\ BytesInv /\ ElementsInv(Vectors, mem, expected) /\ Typed(mem) /\ ~mem.fault
  BY Zenon DEF ContentsInv
<1>3. /\ Changes(mem, mem', o) /\ Zt(mem'.obj[o]) = 0 /\ mem'.obj[o].size <= MaxSize
      /\ mem'.obj[o].made \/ mem'.obj[o] = Gone
  BY <1>1, Zenon DEF Settled
<1>4. /\ Good(mem') /\ mem'.fault = mem.fault /\ Typed(mem')
      /\ \A q \in Objects : q # o => mem'.obj[q] = mem.obj[q]
  BY <1>2, <1>3, Zenon DEF Changes
<1>5. ~mem'.fault
  BY <1>2, <1>4, Zenon
<1>6. ASSUME NEW q \in Objects
      PROVE  Sorted(mem', q) /\ (kind[q] # "vector" => Fine(mem', q, expected'[q]))
  <2>1. CASE q = o
    <3>1. kind[q] = "vector"
      BY <1>1, <2>1 DEF Vectors
    <3>2. Sorted(mem', q)
      BY <1>3, <2>1, Zenon DEF Sorted
    <3> QED BY <3>1, <3>2
  <2>2. CASE q # o
    <3>1. Sorted(mem, q) /\ (kind[q] # "vector" => Fine(mem, q, expected[q]))
      BY <1>2 DEF BytesInv
    <3>2. mem'.obj[q] = mem.obj[q] /\ expected'[q] = expected[q]
      BY <1>1, <1>4, <2>2
    <3>3. Sorted(mem', q)
      BY <3>1, <3>2, Zenon DEF Sorted
    <3>4. kind[q] # "vector" => Fine(mem', q, expected[q])
      BY <1>3, <2>2, <3>1, FineElsewhere
    <3> QED BY <3>2, <3>3, <3>4, Zenon
  <2> QED BY <2>1, <2>2
<1>7. ElementsInv(Vectors, mem', expected')
  <2>1. Vectors \in SUBSET Objects /\ \A q \in Vectors : q # o => expected'[q] = expected[q]
    BY <1>1 DEF Vectors
  <2> DEFINE e == expected'[o]
  <2>2. Settled(mem, mem', o, Others(Vectors, mem, o), e) /\ expected'[o] = e
    BY <1>1 DEF Rest
  <2> HIDE DEF e
  <2> QED BY <1>1, <1>2, <2>1, <2>2, SettledElements
<1> QED BY <1>1, <1>2, <1>4, <1>5, <1>6, <1>7, ContentsNext

\* Containers of the same kind change places, with what is expected of them.
Follows(f) ==
    /\ kind' = kind /\ expected' = [o \in Objects |-> expected'[o]]
    /\ \A o \in Objects : kind[f[o]] = kind[o] /\ expected'[o] = expected[f[o]]

\* A container that is not there holds nothing.
Proper(m) == \A o \in Objects : m.obj[o].made \/ m.obj[o] = Gone

LEMMA PassedStep ==
    ASSUME ContentsInv, NEW f, Passed(mem, mem', f), Good(mem'), Follows(f), Proper(mem')
    PROVE  ContentsInv'
<1>0. /\ kind' = kind /\ expected' = [o \in Objects |-> expected'[o]]
      /\ \A o \in Objects : kind[f[o]] = kind[o] /\ expected'[o] = expected[f[o]]
      /\ \A o \in Objects : mem'.obj[o].made \/ mem'.obj[o] = Gone
  BY Zenon DEF Follows, Proper
<1>1. kind \in Pairings /\ BytesInv /\ ElementsInv(Vectors, mem, expected) /\ Typed(mem) /\ ~mem.fault
  BY Zenon DEF ContentsInv
<1>2. /\ f \in [Objects -> Objects]
      /\ mem'.heap = mem.heap /\ mem'.elem = mem.elem /\ mem'.fault = mem.fault
      /\ \A o \in Objects : Alike(mem, f[o], mem', o)
  BY Zenon DEF Passed
<1>3. ~mem'.fault
  BY <1>1, <1>2, Zenon
<1>4. Typed(mem')
  BY <1>1, <1>2, Zenon DEF Typed
<1>5. ASSUME NEW o \in Objects
      PROVE  Sorted(mem', o) /\ (kind[o] # "vector" => Fine(mem', o, expected'[o]))
  <2> DEFINE q == f[o]
             e == expected[q]
  <2>1. q \in Objects /\ Alike(mem, q, mem', o)
    BY <1>2
  <2>2. kind[q] = kind[o] /\ expected'[o] = e /\ (mem'.obj[o].made \/ mem'.obj[o] = Gone)
    BY <1>0, Zenon
  <2>3. Sorted(mem, q) /\ (kind[q] # "vector" => Fine(mem, q, e))
    BY <1>1, <2>1 DEF BytesInv
  <2> HIDE DEF e, q
  <2>4. /\ Zt(mem'.obj[o]) = Zt(mem.obj[q]) /\ mem'.obj[o].size = mem.obj[q].size
        /\ Fine(mem, q, e) => Fine(mem', o, e)
    BY <1>2, <2>1, AlikeFine
  <2>5. Sorted(mem', o)
    BY <2>2, <2>3, <2>4, Zenon DEF Sorted
  <2> QED BY <2>2, <2>3, <2>4, <2>5, Zenon
<1>6. ElementsInv(Vectors, mem', expected')
  <2>1. /\ Vectors \in SUBSET Objects /\ (\A o \in Objects : f[o] \in Vectors <=> o \in Vectors)
        /\ \A o \in Vectors : expected'[o] = expected[f[o]]
    BY <1>0, <1>2 DEF Vectors
  <2> QED BY <1>1, <2>1, PassedElements
<1> QED BY <1>0, <1>1, <1>3, <1>4, <1>5, <1>6, ContentsNext

LEMMA TwoChanged ==
    ASSUME NEW m, Memory(m), NEW o \in Objects, NEW q \in Objects, o # q, NEW b \in Block, NEW c \in Block
    PROVE  LET r == [m EXCEPT !.obj[o] = b, !.obj[q] = c]
           IN  /\ r.heap = m.heap /\ r.elem = m.elem /\ r.fault = m.fault
               /\ r.obj[o] = b /\ r.obj[q] = c
               /\ \A x \in Objects : x # o /\ x # q => r.obj[x] = m.obj[x]
<1> DEFINE u == [m EXCEPT !.obj[o] = b]
           g == [u.obj EXCEPT ![q] = c]
           r == [u EXCEPT !.obj[q] = c]
<1>1. /\ m = [obj |-> m.obj, heap |-> m.heap, elem |-> m.elem, fault |-> m.fault]
      /\ m.obj \in [Objects -> Block]
  BY DEF Memory
<1>2. u = [obj |-> [m.obj EXCEPT ![o] = b], heap |-> m.heap, elem |-> m.elem, fault |-> m.fault]
  BY <1>1
<1>6. [m EXCEPT !.obj[o] = b, !.obj[q] = c] = r
  OBVIOUS
<1> HIDE DEF u
<1>7. /\ u.obj = [m.obj EXCEPT ![o] = b] /\ u.heap = m.heap /\ u.elem = m.elem /\ u.fault = m.fault
      /\ u = [obj |-> u.obj, heap |-> u.heap, elem |-> u.elem, fault |-> u.fault]
  BY <1>2
<1>3. r = [obj |-> g, heap |-> u.heap, elem |-> u.elem, fault |-> u.fault]
  BY <1>7
<1>4. g[o] = b /\ g[q] = c /\ \A x \in Objects : x # o /\ x # q => g[x] = m.obj[x]
  BY <1>1, <1>7
<1> HIDE DEF g
<1>5. /\ r.heap = m.heap /\ r.elem = m.elem /\ r.fault = m.fault /\ r.obj = g
  BY <1>3, <1>7
<1> HIDE DEF r
<1> QED BY <1>4, <1>5, <1>6

\* Two containers change places.
Exchange(o, q) == [x \in Objects |-> IF x = o THEN q ELSE IF x = q THEN o ELSE x]

LEMMA ExchangeIsOnto ==
    ASSUME NEW o \in Objects, NEW q \in Objects
    PROVE  LET f == Exchange(o, q)
           IN  /\ f \in [Objects -> Objects] /\ f[o] = q /\ f[q] = o
               /\ \A x \in Objects : x # o /\ x # q => f[x] = x
               /\ \A x, y \in Objects : f[x] = f[y] => x = y
               /\ \A y \in Objects : \E x \in Objects : f[x] = y
<1> DEFINE f == Exchange(o, q)
<1>1. f \in [Objects -> Objects] /\ \A y \in Objects : f[f[y]] = y /\ f[y] \in Objects
  BY DEF Exchange
<1>2. f[o] = q /\ f[q] = o /\ \A x \in Objects : x # o /\ x # q => f[x] = x
  BY DEF Exchange
<1> HIDE DEF f
<1>3. (\A x, y \in Objects : f[x] = f[y] => x = y) /\ \A y \in Objects : \E x \in Objects : f[x] = y
  BY <1>1
<1> QED BY <1>1, <1>2, <1>3 DEF f

\* What is expected of a container that holds nothing.
LEMMA NothingExpected ==
    ASSUME ContentsInv, NEW o \in Objects, mem.obj[o].size = 0
    PROVE  expected[o] = <<>>
<1> DEFINE e == expected[o]
<1>1. CASE kind[o] = "vector"
  <2>1. Reads(mem, o, e)
    BY <1>1, VectorReady
  <2> HIDE DEF e
  <2>2. Sequence(e) /\ Len(e) = 0
    BY <2>1 DEF Reads
  <2>3. e = <<>>
    BY <2>2, SequenceProperty
  <2> QED BY <2>3 DEF e
<1>2. CASE kind[o] # "vector"
  <2>1. Fine(mem, o, e)
    BY <1>2 DEF ContentsInv, BytesInv
  <2> HIDE DEF e
  <2>2. Sequence(e) /\ Len(e) = 0
    BY <2>1 DEF Fine, Matches
  <2>3. e = <<>>
    BY <2>2, SequenceProperty
  <2> QED BY <2>3 DEF e
<1> QED BY <1>1, <1>2

\* Two blocks are the same, but for whether there is a container.
SameBlock(c, b) ==
    c.data = b.data /\ c.size = b.size /\ c.cap = b.cap /\ (c.zt <=> b.zt) /\ (c.made \/ c = Gone)

\* Container o takes what q has, and q is given c, which is what o had.
Exchanged(o, q, c) ==
    /\ mem' = [mem EXCEPT !.obj[o] = mem.obj[q], !.obj[q] = c]
    /\ SameBlock(c, mem.obj[o])
    /\ kind[q] = kind[o] /\ kind' = kind
    /\ expected' = [expected EXCEPT ![o] = expected[q], ![q] = expected[o]]

LEMMA ExchangedStep ==
    ASSUME ContentsInv, NEW o \in Objects, NEW q \in Objects, o # q, Good(mem'),
           NEW c \in Block, Exchanged(o, q, c)
    PROVE  ContentsInv'
<1> DEFINE f == Exchange(o, q)
           b == mem.obj[q]
<1>0. /\ mem' = [mem EXCEPT !.obj[o] = b, !.obj[q] = c]
      /\ SameBlock(c, mem.obj[o])
      /\ kind[q] = kind[o] /\ kind' = kind
      /\ expected' = [expected EXCEPT ![o] = expected[q], ![q] = expected[o]]
  BY Zenon DEF Exchanged
<1>1. Memory(mem) /\ expected = [x \in Objects |-> expected[x]] /\ \A x \in Objects : Sorted(mem, x)
  BY DEF ContentsInv, BytesInv, Good
<1> DEFINE r == [mem EXCEPT !.obj[o] = b, !.obj[q] = c]
<1>2. /\ r.heap = mem.heap /\ r.elem = mem.elem /\ r.fault = mem.fault
      /\ r.obj[o] = b /\ r.obj[q] = c
      /\ \A x \in Objects : x # o /\ x # q => r.obj[x] = mem.obj[x]
  <2>1. Memory(mem) /\ b \in Block
    BY <1>1 DEF Memory
  <2> HIDE DEF b
  <2> QED BY <2>1, TwoChanged
<1>3. mem' = r
  BY <1>0
<1> HIDE DEF r
<1>4. /\ mem'.heap = mem.heap /\ mem'.elem = mem.elem /\ mem'.fault = mem.fault
      /\ mem'.obj[o] = b /\ mem'.obj[q] = c
      /\ \A x \in Objects : x # o /\ x # q => mem'.obj[x] = mem.obj[x]
  BY <1>2, <1>3, Zenon
<1>5. /\ f \in [Objects -> Objects] /\ f[o] = q /\ f[q] = o
      /\ \A x \in Objects : x # o /\ x # q => f[x] = x
      /\ \A x, y \in Objects : f[x] = f[y] => x = y
      /\ \A y \in Objects : \E x \in Objects : f[x] = y
  BY ExchangeIsOnto, ZenonT(30)
<1> HIDE DEF f
<1>6. ASSUME NEW x \in Objects PROVE Alike(mem, f[x], mem', x)
  <2>1. CASE x = o
    BY <1>4, <1>5, <2>1, Zenon DEF Alike
  <2>2. CASE x = q
    <3>1. mem'.obj[q] = c /\ f[x] = o
      BY <1>4, <1>5, <2>2
    <3>2. /\ mem'.obj[q].data = mem.obj[o].data /\ mem'.obj[q].size = mem.obj[o].size
          /\ mem'.obj[q].cap = mem.obj[o].cap
      BY <1>0, <3>1 DEF SameBlock
    <3>3. mem'.obj[q].zt <=> mem.obj[o].zt
      BY <1>0, <3>1, Zenon DEF SameBlock
    <3> QED BY <2>2, <3>1, <3>2, <3>3, Zenon DEF Alike
  <2>3. CASE x # o /\ x # q
    BY <1>4, <1>5, <2>3, Zenon DEF Alike
  <2> QED BY <2>1, <2>2, <2>3
<1>7. Passed(mem, mem', f)
  BY <1>4, <1>5, <1>6, Zenon DEF Passed
<1>8. ASSUME NEW x \in Objects PROVE mem'.obj[x].made \/ mem'.obj[x] = Gone
  <2>1. \A y \in Objects : mem.obj[y].made \/ mem.obj[y] = Gone
    BY <1>1, Zenon DEF Sorted
  <2>2. CASE x = o
    BY <1>4, <2>1, <2>2, Zenon
  <2>3. CASE x = q
    BY <1>0, <1>4, <2>3, Zenon DEF SameBlock
  <2>4. CASE x # o /\ x # q
    BY <1>4, <2>1, <2>4, Zenon
  <2> QED BY <2>2, <2>3, <2>4
<1>9. /\ expected' = [x \in Objects |-> expected'[x]]
      /\ \A x \in Objects : expected'[x] = expected[f[x]]
  <2> HIDE DEF b
  <2> QED BY <1>0, <1>1, <1>5
<1>10. \A x \in Objects : kind[f[x]] = kind[x]
  BY <1>0, <1>5
<1>11. Follows(f) /\ Proper(mem')
  BY <1>0, <1>8, <1>9, <1>10, Zenon DEF Follows, Proper
<1> QED BY <1>7, <1>11, PassedStep

LEMMA PassingStep ==
    ASSUME ContentsInv, NEW o \in Objects, MoveConstruct(o) \/ SwapWith(o)
    PROVE  ContentsInv'
<1>1. Good(mem) /\ Good(mem')
  <2>1. Good(mem)
    BY DEF ContentsInv, BytesInv
  <2> QED BY <2>1, PassingGood
<1>2. \A x \in Objects : mem.obj[x] \in Block
  BY <1>1 DEF Good, Memory
<1>3. \A x \in Objects : mem.obj[x].made \/ mem.obj[x] = Gone
  <2>1. \A x \in Objects : Sorted(mem, x)
    BY DEF ContentsInv, BytesInv
  <2> QED BY <2>1, Zenon DEF Sorted
<1>4. CASE SwapWith(o)
  <2>1. PICK q \in Objects \ {o} :
          /\ kind[q] = kind[o] /\ mem' = Swap(mem, o, q)
          /\ expected' = [expected EXCEPT ![o] = expected[q], ![q] = expected[o]]
          /\ kind' = kind
    BY <1>4, Zenon DEF SwapWith
  <2> DEFINE c == mem.obj[o]
  <2>2. o # q /\ q \in Objects /\ c \in Block
    BY <1>2, <2>1
  <2>3. SameBlock(c, mem.obj[o])
    BY <1>3, Zenon DEF SameBlock
  <2>4. mem' = [mem EXCEPT !.obj[o] = mem.obj[q], !.obj[q] = c]
    BY <2>1, Zenon DEF Swap
  <2> HIDE DEF c
  <2>5. Exchanged(o, q, c)
    BY <2>1, <2>3, <2>4, Zenon DEF Exchanged
  <2> QED BY <1>1, <2>2, <2>5, ExchangedStep
<1>5. CASE MoveConstruct(o)
  <2>1. PICK q \in Objects :
          /\ kind[q] = kind[o] /\ (IsBytes(q) \/ IsVector(q)) /\ mem' = MoveFrom(mem, o, q)
          /\ expected' = [expected EXCEPT ![o] = expected[q], ![q] = <<>>]
          /\ kind' = kind
    BY <1>5, Zenon DEF MoveConstruct
  <2>2. ~mem.obj[o].made /\ mem.obj[q].made
    BY <1>5, <2>1, Zenon DEF MoveConstruct, Unmade, Obj, IsBytes, IsVector
  <2>3. mem.obj[o] = Gone /\ o # q
    BY <1>3, <2>2, Zenon
  <2> DEFINE c == [Gone EXCEPT !.made = TRUE]
  <2>4. c.made /\ c.data = Gone.data /\ c.size = Gone.size /\ c.cap = Gone.cap /\ c.zt = Gone.zt
    BY DEF Gone
  <2>5. c \in Block
    BY MovedFrom
  <2>6. expected[o] = <<>>
    BY <2>3, GoneFits, NothingExpected
  <2>7. mem' = [mem EXCEPT !.obj[o] = mem.obj[q], !.obj[q] = c]
    BY <2>1, Zenon DEF MoveFrom
  <2>8. expected' = [expected EXCEPT ![o] = expected[q], ![q] = expected[o]]
    BY <2>1, <2>6, Zenon
  <2> HIDE DEF c
  <2>9. SameBlock(c, mem.obj[o])
    BY <2>3, <2>4, Zenon DEF SameBlock
  <2>10. Exchanged(o, q, c)
    BY <2>1, <2>7, <2>8, <2>9, Zenon DEF Exchanged
  <2> QED BY <1>1, <2>3, <2>5, <2>10, ExchangedStep
<1> QED BY <1>4, <1>5

LEMMA InitContents ==
    ASSUME Init
    PROVE  ContentsInv
<1> DEFINE none == <<>>
<1>1. /\ kind \in Pairings
      /\ mem.obj = [o \in Objects |-> Gone]
      /\ mem.heap = [a \in Addrs |-> <<>>]
      /\ mem.elem = [t \in Tokens |-> Junk]
      /\ expected = [o \in Objects |-> none]
  BY DEF Init
<1>2. ~mem.fault
  <2>1. mem = [obj   |-> [o \in Objects |-> Gone], heap |-> [a \in Addrs |-> <<>>],
               elem  |-> [t \in Tokens |-> Junk], fault |-> FALSE]
    BY DEF Init
  <2> QED BY <2>1
<1>3. Good(mem)
  BY InitGood
<1>4. ASSUME NEW o \in Objects
      PROVE  /\ mem.obj[o] = Gone /\ mem.obj[o].size = 0 /\ mem.obj[o].cap = 0
             /\ mem.obj[o].data = Null /\ Fits(mem, o) /\ Zt(mem.obj[o]) = 0
             /\ expected[o] = none
  <2>1. mem.obj[o] = Gone /\ expected[o] = none
    BY <1>1
  <2>2. Gone.data = Null /\ Gone.cap = 0
    BY DEF Gone
  <2> HIDE DEF none
  <2> QED BY <2>1, <2>2, GoneFits
<1>5. ASSUME NEW o \in Objects PROVE Sorted(mem, o) /\ Fine(mem, o, none) /\ Reading(mem, o, none)
  <2>1. Sorted(mem, o)
    <3>1. 0 <= MaxSize
      BY MemoryAssumption
    <3>2. mem.obj[o].size <= MaxSize
      BY <1>4, <3>1
    <3> QED BY <1>4, <3>2, Zenon DEF Sorted
  <2>2. Stop(mem, o)
    BY <1>4, Zenon DEF Stop
  <2>3. Matches(mem, o, none)
    BY <1>4, EmptyMatches
  <2>4. Reads(mem, o, none)
    BY <1>4, EmptySequence DEF Reads, Living
  <2>5. Lodged(mem, o)
    BY <1>4 DEF Lodged
  <2>6. mem.obj[o].size <= mem.obj[o].cap
    BY <1>4
  <2> HIDE DEF none
  <2> QED BY <1>4, <2>1, <2>2, <2>3, <2>4, <2>5, <2>6, Zenon DEF Fine, Reading
<1>6. Typed(mem)
  <2>1. \A a \in Addrs : mem.heap[a] = <<>>
    BY <1>1
  <2>2. \A a \in Addrs : Len(mem.heap[a]) = 0
    BY <2>1, EmptySequence
  <2> QED BY <2>2 DEF Typed
<1> HIDE DEF none
<1>7. BytesInv
  <2>1. expected = [q \in Objects |-> expected[q]]
    BY <1>1
  <2> QED BY <1>3, <1>4, <1>5, <2>1 DEF BytesInv
<1>8. ElementsInv(Vectors, mem, expected)
  <2>1. Vectors \subseteq Objects
    BY DEF Vectors
  <2>2. \A q \in Vectors : Reading(mem, q, expected[q])
    BY <1>4, <1>5, <2>1
  <2>3. \A q, p \in Vectors : Distinct(mem, q, p)
    BY <1>4, <2>1 DEF Distinct
  <2>4. mem.elem = [t \in Tokens |-> mem.elem[t]] /\ \A t \in Tokens : mem.elem[t] = Junk
    BY <1>1
  <2> QED BY <2>2, <2>3, <2>4 DEF ElementsInv
<1> QED BY <1>1, <1>2, <1>6, <1>7, <1>8, Zenon DEF ContentsInv

LEMMA NextContents ==
    ASSUME ContentsInv, NEW o \in Objects,
           \/ ConstructBytes(o) \/ ConstructVector(o) \/ MoveConstruct(o) \/ Destruct(o)
           \/ SwapWith(o) \/ AssignBytes(o) \/ SizeBytes(o) \/ InsertBytes(o) \/ EraseBytes(o)
           \/ ManageBytes(o) \/ EditString(o)
           \/ SizeVector(o) \/ AssignToVector(o) \/ EditVector(o)
    PROVE  ContentsInv'
<1>1. BytesInv
  BY DEF ContentsInv
<1>2. CASE ConstructBytes(o)
  <2>1. kind[o] # "vector"
    BY <1>2, Zenon DEF ConstructBytes
  <2> QED BY <1>1, <1>2, <2>1, ConstructBytesServed, ServedStep
<1>3. CASE AssignBytes(o) \/ SizeBytes(o) \/ InsertBytes(o) \/ EraseBytes(o) \/ ManageBytes(o)
  <2>1. kind[o] # "vector"
    BY <1>3, Zenon DEF AssignBytes, SizeBytes, InsertBytes, EraseBytes, ManageBytes, IsBytes
  <2>2. Served(o)
    BY <1>1, <1>3, AssignBytesServed, SizeBytesServed, InsertBytesServed, EraseBytesServed,
       ManageBytesServed
  <2> QED BY <2>1, <2>2, ServedStep
<1>4. CASE EditString(o)
  <2>1. kind[o] # "vector"
    BY <1>4, Zenon DEF EditString, IsString, IsBytes
  <2> QED BY <1>1, <1>4, <2>1, EditStringServed, ServedStep
<1>5. CASE ConstructVector(o) \/ SizeVector(o) \/ AssignToVector(o) \/ EditVector(o)
  <2>1. VectorServed(o)
    BY <1>5, ConstructVectorServed, SizeVectorServed, AssignToVectorServed, EditVectorServed
  <2> QED BY <2>1, VectorServedStep
<1>6. CASE Destruct(o)
  BY <1>6, DestructServed, ServedStep, VectorServedStep
<1>7. CASE MoveConstruct(o) \/ SwapWith(o)
  BY <1>7, PassingStep
<1> QED BY <1>2, <1>3, <1>4, <1>5, <1>6, <1>7

\* The memory and what is expected of the containers agree after every call.
THEOREM ContentsGood == Spec => []ContentsInv
<1>1. Init => ContentsInv
  BY InitContents
<1>2. ContentsInv /\ [Next]_vars => ContentsInv'
  <2> SUFFICES ASSUME ContentsInv, [Next]_vars PROVE ContentsInv'
    OBVIOUS
  <2>1. CASE UNCHANGED vars
    <3>1. kind' = kind /\ mem' = mem /\ expected' = expected
      BY <2>1, Zenon DEF vars
    <3>2. Good(mem') /\ expected' = [q \in Objects |-> expected'[q]]
      BY <3>1, Zenon DEF ContentsInv, BytesInv
    <3>3. \A q \in Objects : Sorted(mem', q) /\ (kind[q] # "vector" => Fine(mem', q, expected'[q]))
      BY <3>1, Zenon DEF ContentsInv, BytesInv
    <3>4. kind \in Pairings /\ ElementsInv(Vectors, mem', expected') /\ Typed(mem') /\ ~mem'.fault
      BY <3>1, Zenon DEF ContentsInv
    <3> QED BY <3>1, <3>2, <3>3, <3>4, ContentsNext
  <2>2. CASE Next
    <3>1. PICK o \in Objects :
            \/ ConstructBytes(o) \/ ConstructVector(o) \/ MoveConstruct(o) \/ Destruct(o)
            \/ SwapWith(o) \/ AssignBytes(o) \/ SizeBytes(o) \/ InsertBytes(o) \/ EraseBytes(o)
            \/ ManageBytes(o) \/ EditString(o)
            \/ SizeVector(o) \/ AssignToVector(o) \/ EditVector(o)
      BY <2>2, Zenon DEF Next
    <3> QED BY <3>1, NextContents
  <2> QED BY <2>1, <2>2
<1> QED BY <1>1, <1>2, PTL DEF Spec

-----------------------------------------------------------------------------
(* The theorems *)

\* NoFault: no sequence of calls that keep the preconditions of the code reads
\* or writes past a block, writes to a text of the program, frees what is not
\* allocated, or destroys an element that does not live.
THEOREM NothingFaults == Spec => []NoFault
<1>1. ContentsInv => NoFault
  BY Zenon DEF ContentsInv, NoFault
<1> QED BY <1>1, ContentsGood, PTL

\* Where a container has its cells, and that they are there.
LEMMA FittingCells ==
    ASSUME NEW m, Good(m), NEW q \in Objects, Fits(m, q)
    PROVE  LET b == m.obj[q]
           IN  /\ b.size \in Nat /\ b.data \in Int /\ b.cap \in Nat /\ Zt(b) \in {0, 1}
               /\ b.data = Null => b.size = 0 /\ b.cap = 0
               /\ b.cap > 0 => b.size + Zt(b) <= b.cap
               /\ b.data # Null =>
                    /\ Place(m, b.data) /\ Sequence(Cells(m, b.data))
                    /\ Len(Cells(m, b.data)) \in Nat /\ b.size + Zt(b) <= Len(Cells(m, b.data))
<1> DEFINE b == m.obj[q]
           p == b.data
           n == b.size
           y == n + Zt(b)
<1>1. /\ p \in Int /\ n \in Nat /\ b.cap \in Nat /\ Zt(b) \in {0, 1} /\ Sound(m, q)
  BY BlockType DEF Fits, Sound
<1>2. b.cap > 0 => p # Null
  <2> SUFFICES ASSUME b.cap > 0 PROVE p # Null
    OBVIOUS
  <2>1. p \in Addrs
    BY OwnCells
  <2> QED BY <2>1, AddrIsNumber
<1>3. p = Null => n = 0 /\ b.cap = 0
  <2>1. p = Null => n = 0
    BY <1>1 DEF Sound
  <2> HIDE DEF b
  <2> QED BY <1>1, <1>2, <2>1
<1>4. b.cap > 0 => y <= b.cap
  BY <1>1 DEF Sound
<1>5. p # Null => Place(m, p) /\ Readable(m, p, y)
  <2>1. CASE b.cap > 0
    <3>1. Place(m, p) /\ Len(m.heap[p]) = b.cap /\ Cells(m, p) = m.heap[p]
      BY <2>1, OwnCells
    <3> QED BY <1>4, <2>1, <3>1 DEF Readable
  <2>2. CASE b.cap = 0
    BY <1>1, <2>2 DEF Sound
  <2> HIDE DEF b
  <2> QED BY <1>1, <2>1, <2>2
<1>6. y \in Nat
  <2> HIDE DEF b
  <2> QED BY <1>1
<1>7. p # Null => /\ Place(m, p) /\ Sequence(Cells(m, p)) /\ Len(Cells(m, p)) \in Nat
                  /\ y <= Len(Cells(m, p))
  <2> HIDE DEF b, p, y
  <2> SUFFICES ASSUME p # Null
               PROVE  /\ Place(m, p) /\ Sequence(Cells(m, p)) /\ Len(Cells(m, p)) \in Nat
                      /\ y <= Len(Cells(m, p))
    OBVIOUS
  <2>1. Sequence(Cells(m, p)) /\ Len(Cells(m, p)) \in Nat
    BY <1>1, <1>5, PlaceCells DEF Good
  <2> QED BY <1>5, <1>6, <2>1 DEF Readable
<1> QED BY <1>1, <1>3, <1>4, <1>7

LEMMA ContentsFit ==
    ASSUME ContentsInv, NEW o \in Objects
    PROVE  Good(mem) /\ Fits(mem, o) /\ Obj(o) = mem.obj[o] /\ Size(o) = mem.obj[o].size
<1>1. Good(mem) /\ (kind[o] # "vector" => Fine(mem, o, expected[o]))
  BY DEF ContentsInv, BytesInv
<1>2. Fits(mem, o)
  BY <1>1, VectorReady DEF Fine, Reading
<1> QED BY <1>1, <1>2 DEF Obj, Size

\* TypeOK: the memory is well formed after every call.  A container without
\* data has no size, and one that owns its data has room for what it holds and
\* for its terminating zero.
THEOREM MemoryTypeOK == Spec => []TypeOK
<1>1. ContentsInv => TypeOK
  <2> SUFFICES ASSUME ContentsInv PROVE TypeOK
    OBVIOUS
  <2>1. kind \in Pairings /\ Typed(mem) /\ Good(mem)
    BY DEF ContentsInv, BytesInv
  <2>2. ASSUME NEW o \in Objects
        PROVE  /\ Obj(o).data \in -Len(Literals)..Cardinality(Addrs)
               /\ Obj(o).data = Null => Size(o) = 0 /\ Obj(o).cap = 0
               /\ Owns(o) => Size(o) + Zt(Obj(o)) <= Obj(o).cap
    <3> DEFINE b == mem.obj[o]
               p == b.data
               n == Len(Literals)
               c == Cardinality(Objects) + 1
    <3>1. /\ p \in Int /\ (p = Null => b.size = 0 /\ b.cap = 0)
          /\ b.cap > 0 => b.size + Zt(b) <= b.cap
          /\ p # Null => Place(mem, p)
      BY ContentsFit, FittingCells
    <3>2. n \in Nat /\ DOMAIN Literals = 1..n
      BY MemoryAssumption
    <3>3. c \in Nat /\ Addrs = 1..c
      BY MemoryAssumption, FS_CardinalityType DEF Addrs
    <3>4. Cardinality(Addrs) = c
      <4> HIDE DEF c
      <4>1. 1 \in Int /\ c \in Int
        BY <3>3
      <4>2. Cardinality(1..c) = c
        BY <3>3, <4>1, FS_Interval
      <4> QED BY <3>3, <4>2
    <3>5. p \in -n..c
      <4> HIDE DEF n, c, b, p
      <4> QED BY <3>1, <3>2, <3>3 DEF Place, Null
    <3>6. Obj(o) = b /\ Size(o) = b.size
      BY ContentsFit
    <3>7. Owns(o) => Size(o) + Zt(Obj(o)) <= Obj(o).cap
      BY <3>1, <3>6, Zenon DEF Owns
    <3> QED BY <3>1, <3>4, <3>5, <3>6, <3>7, Zenon
  <2>3. ASSUME NEW a \in Addrs
        PROVE  Range(mem.heap[a]) \subseteq Tokens \cup Values \cup {Nul, Junk}
    <3> DEFINE s == mem.heap[a]
    <3>1. Sequence(s) /\ \A k \in 1..Len(s) : s[k] \in CellValues
      BY <2>1 DEF Typed, Good, Memory
    <3> HIDE DEF s
    <3>2. DOMAIN s = 1..Len(s)
      BY <3>1, SequenceProperty
    <3>3. Range(s) \subseteq CellValues
      BY <3>1, <3>2 DEF Range
    <3> QED BY <3>3 DEF s, CellValues
  <2> QED BY <2>1, <2>2, <2>3 DEF TypeOK
<1> QED BY <1>1, ContentsGood, PTL

\* ValueKept: after any sequence of insertions, erasures, copies, moves and
\* growth every container holds what the program put into it.
THEOREM ContentsKept == Spec => []ValueKept
<1>1. ContentsInv => ValueKept
  <2> SUFFICES ASSUME ContentsInv, NEW o \in Objects
               PROVE  /\ Size(o) = Len(expected[o])
                      /\ \A k \in 1..Size(o) : expected[o][k] \in {Junk, Contents(o)[k]}
    BY DEF ValueKept
  <2> DEFINE e == expected[o]
             n == Size(o)
  <2>1. CASE kind[o] = "vector"
    <3>1. Reading(mem, o, e) /\ n = mem.obj[o].size
      BY <2>1, VectorReady
    <3> HIDE DEF e
    <3>2. Elements(mem, o) = e /\ Len(e) = mem.obj[o].size
      BY <3>1, ElementsRead, ReadingProperty
    <3>3. Contents(o) = e
      BY <2>1, <3>2 DEF Contents
    <3>4. n = Len(e) /\ \A k \in 1..n : e[k] \in {Junk, Contents(o)[k]}
      BY <3>1, <3>2, <3>3
    <3> QED BY <3>4 DEF e
  <2>2. CASE kind[o] # "vector"
    <3> DEFINE p == mem.obj[o].data
               s == Cells(mem, p)
               zero == 0
               t == SubSeq(s, zero + 1, n)
    <3>1. Fine(mem, o, e) /\ n = mem.obj[o].size /\ Obj(o).data = p
      BY <2>2, ContentsFit DEF ContentsInv, BytesInv
    <3> HIDE DEF e
    <3>2. Len(e) = n /\ \A k \in 1..Len(e) : e[k] \in {Junk, s[k]}
      BY <3>1 DEF Fine, Matches, Cell
    <3>3. /\ n \in Nat /\ (p = Null => n = 0)
          /\ p # Null => Sequence(s) /\ Len(s) \in Nat /\ n <= Len(s)
      <4> DEFINE y == Zt(mem.obj[o])
                 l == Len(s)
      <4>1. /\ mem.obj[o].size \in Nat /\ (p = Null => mem.obj[o].size = 0) /\ y \in {0, 1}
            /\ p # Null => Sequence(s) /\ l \in Nat /\ mem.obj[o].size + y <= l
        BY ContentsFit, FittingCells
      <4> HIDE DEF y, l, p
      <4>2. n \in Nat /\ (p = Null => n = 0) /\ (p # Null => n + y <= l)
        BY <3>1, <4>1
      <4> HIDE DEF n
      <4>3. p # Null => n <= l
        BY <4>1, <4>2
      <4> QED BY <4>1, <4>2, <4>3 DEF l
    <3>4. Contents(o) = t
      <4>1. Contents(o) = SubSeq(Cells(mem, Obj(o).data), 1, n)
        BY <2>2 DEF Contents
      <4>2. zero + 1 = 1
        OBVIOUS
      <4> HIDE DEF zero, n
      <4> QED BY <3>1, <4>1, <4>2
    <3>5. ASSUME NEW k \in 1..n PROVE t[k] = s[k]
      <4> HIDE DEF n, s, p
      <4>1. p # Null
        BY <3>3, <3>5
      <4>2. zero \in Nat /\ zero <= n /\ n - zero = n /\ zero + k = k
        BY <3>3, <3>5
      <4> HIDE DEF zero
      <4>3. \A j \in 1..n-zero : t[j] = s[zero + j]
        BY <3>3, <4>1, <4>2, SubSequence
      <4> QED BY <3>5, <4>2, <4>3
    <3> HIDE DEF n, s, t
    <3>6. n = Len(e) /\ \A k \in 1..n : e[k] \in {Junk, Contents(o)[k]}
      BY <3>2, <3>4, <3>5
    <3> QED BY <3>6 DEF e, n
  <2> QED BY <2>1, <2>2
<1> QED BY <1>1, ContentsGood, PTL

\* Terminated: a string that has data has a zero behind it that is its own to
\* read, linked or not, so that c_str () may be called after any sequence of
\* calls.
THEOREM StringsEnd == Spec => []Terminated
<1>1. ContentsInv => Terminated
  <2> SUFFICES ASSUME ContentsInv, NEW o \in Objects, IsString(o), Obj(o).data # Null
               PROVE  /\ Size(o) < Len(Cells(mem, Obj(o).data))
                      /\ LET z == Cells(mem, Obj(o).data)[Size(o) + 1]
                         IN  z = Nul \/ (Size(o) = 0 /\ z = Junk)
    BY DEF Terminated
  <2> DEFINE b == mem.obj[o]
             p == b.data
             n == b.size
             l == Len(Cells(mem, p))
  <2>1. Obj(o) = b /\ Size(o) = n /\ IsBytes(o) /\ kind[o] = "string" /\ BytesInv
    BY ContentsFit DEF IsString, ContentsInv
  <2>2. Fine(mem, o, expected[o]) /\ Zt(b) = 1
    BY <2>1, BytesUsable
  <2>3. Stop(mem, o)
    BY <2>2 DEF Fine
  <2>4. p # Null
    BY <2>1
  <2>5. b.zt
    BY <2>1, Zenon DEF IsBytes
  <2>6. \/ Cell(mem, o, n + 1) = Nul
        \/ n = 0 /\ Cell(mem, o, n + 1) = Junk
    BY <2>3, <2>4, <2>5, Zenon DEF Stop
  <2>7. n \in Nat /\ l \in Nat /\ n + Zt(b) <= l
    BY <2>4, ContentsFit, FittingCells
  <2>8. n < l
    <3> HIDE DEF b, n, l
    <3> QED BY <2>2, <2>7
  <2>9. \/ Cells(mem, p)[n + 1] = Nul
        \/ n = 0 /\ Cells(mem, p)[n + 1] = Junk
    BY <2>6 DEF Cell
  <2> QED BY <2>1, <2>8, <2>9
<1> QED BY <1>1, ContentsGood, PTL

\* ElementsAlive: the elements that live are those of the vectors, each in one
\* cell.  No sequence of calls destroys an element twice, forgets one when its
\* cell is moved, or leaves a vector with a cell that nothing lives in.
THEOREM ElementsLive == Spec => []ElementsAlive
<1>1. ContentsInv => ElementsAlive
  <2> SUFFICES ASSUME ContentsInv PROVE ElementsAlive
    OBVIOUS
  <2> DEFINE held == {h \in Objects \X (1..MaxSize) : IsVector(h[1]) /\ h[2] <= Size(h[1])}
  <2>1. ASSUME NEW q \in Objects
        PROVE  /\ Size(q) = mem.obj[q].size /\ mem.obj[q].size \in Nat /\ mem.obj[q].size <= MaxSize
               /\ IsVector(q) => q \in Vectors
               /\ q \in Vectors /\ mem.obj[q].size # 0 => IsVector(q)
    <3>1. Size(q) = mem.obj[q].size /\ mem.obj[q].size \in Nat
      BY ContentsFit, FittingCells
    <3>2. Sorted(mem, q)
      BY DEF ContentsInv, BytesInv
    <3>3. mem.obj[q].size <= MaxSize /\ (mem.obj[q].made \/ mem.obj[q] = Gone)
      BY <3>2, Zenon DEF Sorted
    <3>4. mem.obj[q] = Gone => mem.obj[q].size = 0
      BY GoneFits
    <3>5. IsVector(q) => q \in Vectors
      BY DEF IsVector, Vectors
    <3>6. q \in Vectors => kind[q] = "vector"
      BY DEF Vectors
    <3>7. q \in Vectors /\ mem.obj[q].size # 0 => IsVector(q)
      BY <3>3, <3>4, <3>6, Zenon DEF IsVector, Obj
    <3> QED BY <3>1, <3>3, <3>5, <3>7, Zenon
  <2>2. ElementsInv(Vectors, mem, expected)
    BY DEF ContentsInv
  <2>3. ASSUME NEW q \in Vectors, NEW k \in 1..mem.obj[q].size PROVE Alive(mem, Cell(mem, q, k))
    <3> DEFINE e == expected[q]
    <3>1. Reading(mem, q, e)
      BY <2>2 DEF ElementsInv
    <3> HIDE DEF e
    <3> QED BY <3>1, ReadingProperty DEF Alive, Elem
  <2>4. ASSUME NEW h \in held
        PROVE  h = <<h[1], h[2]>> /\ h[1] \in Vectors /\ h[2] \in 1..mem.obj[h[1]].size
    <3>1. /\ h = <<h[1], h[2]>> /\ h[1] \in Objects /\ h[2] \in 1..MaxSize
          /\ IsVector(h[1]) /\ h[2] <= Size(h[1])
      OBVIOUS
    <3> DEFINE q == h[1]
               k == h[2]
    <3>2. q \in Objects /\ k \in 1..MaxSize /\ IsVector(q) /\ k <= Size(q)
      BY <3>1
    <3> HIDE DEF q, k, held
    <3>3. q \in Vectors /\ k \in 1..mem.obj[q].size
      BY <2>1, <3>2, MemoryAssumption
    <3> QED BY <3>1, <3>3 DEF q, k
  <2>5. ASSUME NEW q \in Vectors, NEW k \in 1..mem.obj[q].size PROVE <<q, k>> \in held
    <3>1. q \in Objects
      BY DEF Vectors
    <3>2. k \in 1..MaxSize /\ IsVector(q) /\ k <= Size(q)
      BY <2>1, <3>1, MemoryAssumption
    <3> QED BY <3>1, <3>2
  <2> HIDE DEF held
  <2>6. \A h \in held : Alive(mem, Cell(mem, h[1], h[2]))
    BY <2>3, <2>4
  <2>7. ASSUME NEW t \in Tokens, mem.elem[t] # Junk
        PROVE  Cardinality({h \in held : Cell(mem, h[1], h[2]) = t}) = 1
    <3>1. PICK q \in Vectors : Has(mem, q, t)
      BY <2>2, <2>7 DEF ElementsInv
    <3>2. PICK k \in 1..mem.obj[q].size : Cell(mem, q, k) = t
      BY <3>1 DEF Has
    <3>3. <<q, k>> \in held
      BY <2>5
    <3>4. ASSUME NEW h \in held, Cell(mem, h[1], h[2]) = t PROVE h = <<q, k>>
      <4> DEFINE p == h[1]
                 j == h[2]
      <4>1. h = <<p, j>> /\ p \in Vectors /\ j \in 1..mem.obj[p].size /\ Cell(mem, p, j) = t
        BY <2>4, <3>4
      <4> HIDE DEF p, j
      <4>2. Distinct(mem, p, q)
        BY <2>2, <4>1 DEF ElementsInv
      <4>3. p = q /\ j = k
        BY <3>2, <4>1, <4>2 DEF Distinct
      <4> QED BY <4>1, <4>3
    <3>5. {h \in held : Cell(mem, h[1], h[2]) = t} = {<<q, k>>}
      BY <3>2, <3>3, <3>4
    <3> QED BY <3>5, FS_Singleton
  <2> QED BY <2>6, <2>7 DEF ElementsAlive, held
<1> QED BY <1>1, ContentsGood, PTL
=============================================================================
