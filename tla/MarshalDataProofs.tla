-------------------------- MODULE MarshalDataProofs --------------------------
(***************************************************************************)
(* Theorems about Marshal, for methods with any arguments, of vectors of   *)
(* any depth and structs of any members, and for bodies of any length.     *)
(***************************************************************************)
EXTENDS Marshal, WellFoundedInduction, TLAPS

-----------------------------------------------------------------------------
(* Induction and recursion *)

LEMMA LeastNat ==
    ASSUME NEW T \in SUBSET Nat, T # {}
    PROVE  \E m \in T : \A k \in T : m <= k
<1> DEFINE R == OpToRel(<, Nat)
<1>1. IsWellFoundedOn(R, Nat)
  BY NatLessThanWellFounded
<1>2. PICK m \in T : \A k \in T : ~(<<k, m>> \in R)
  <2> HIDE DEF R
  <2> QED BY <1>1, WFMin
<1>3. \A k \in T : k < m => <<k, m>> \in R
  BY DEF OpToRel
<1>4. \A k \in T : ~(k < m)
  <2> HIDE DEF R
  <2> QED BY <1>2, <1>3
<1> HIDE DEF R
<1> QED BY <1>4

LEMMA UpTo ==
    ASSUME NEW n \in Nat, NEW S, 0 \in S, \A k \in 1..n : k - 1 \in S => k \in S
    PROVE  0..n \subseteq S
<1> DEFINE T == {k \in 0..n : k \notin S}
<1> SUFFICES ASSUME T # {} PROVE FALSE
  OBVIOUS
<1>1. PICK m \in T : \A k \in T : m <= k
  <2>1. T \in SUBSET Nat
    OBVIOUS
  <2> HIDE DEF T
  <2> QED BY <2>1, LeastNat
<1>2. m \in 1..n /\ m - 1 \in 0..n
  BY <1>1
<1>3. m - 1 \in S
  BY <1>1, <1>2
<1> QED BY <1>1, <1>2, <1>3

\* A function defined by recursion on 0..n, with values in a set, exists.
Steps(n, X) == [1..n -> [X -> X]]
Recurs(f, n, X, x, F) == f \in [0..n -> X] /\ f[0] = x /\ \A k \in 1..n : f[k] = F[k][f[k - 1]]

LEMMA Recursion ==
    ASSUME NEW n \in Nat, NEW X, NEW x \in X, NEW F \in Steps(n, X)
    PROVE  \E f : Recurs(f, n, X, x, F)
<1> USE DEF Steps, Recurs
<1> DEFINE Up(f, l) == f[0] = x /\ \A k \in 1..l : f[k] = F[k][f[k - 1]]
           S == {l \in 0..n : \E f \in [0..n -> X] : Up(f, l)}
<1>1. 0 \in S
  <2> DEFINE f == [k \in 0..n |-> x]
  <2>1. f \in [0..n -> X] /\ Up(f, 0)
    OBVIOUS
  <2> HIDE DEF f, Up
  <2> QED BY <2>1
<1>2. ASSUME NEW l \in 1..n, l - 1 \in S PROVE l \in S
  <2>1. PICK f \in [0..n -> X] : Up(f, l - 1)
    BY <1>2
  <2> DEFINE g == [k \in 0..n |-> IF k = l THEN F[l][f[l - 1]] ELSE f[k]]
  <2>2. f[l - 1] \in X /\ F[l] \in [X -> X]
    BY <2>1
  <2>3. g \in [0..n -> X]
    BY <2>2
  <2>4. Up(g, l)
    <3>1. g[0] = x
      BY <2>1, <1>2
    <3>2. ASSUME NEW k \in 1..l PROVE g[k] = F[k][g[k - 1]]
      <4>1. k - 1 \in 0..n /\ k - 1 # l /\ k \in 0..n /\ g[k - 1] = f[k - 1]
        BY <1>2
      <4>2. CASE k = l
        BY <4>1, <4>2
      <4>3. CASE k # l
        BY <1>2, <2>1, <4>1, <4>3
      <4> QED BY <4>2, <4>3
    <3> QED BY <3>1, <3>2
  <2> HIDE DEF g, Up
  <2> QED BY <1>2, <2>3, <2>4
<1>3. n \in S
  <2> HIDE DEF S
  <2>1. 0..n \subseteq S
    BY <1>1, <1>2, UpTo
  <2> QED BY <2>1
<1> QED BY <1>3

-----------------------------------------------------------------------------
(* Numbers *)

Grains == {1, 2, 4, 8, 16}

LEMMA AlignProperty ==
    ASSUME NEW n \in Nat, NEW g \in Grains
    PROVE  /\ Align(n, g) \in Nat /\ n <= Align(n, g) /\ Align(n, g) < n + g
           /\ Align(n, g) % g = 0
           /\ n % g = 0 => Align(n, g) = n
           /\ g >= 4 => Align(n, g) % 4 = 0
<1>1. CASE g = 1
  BY <1>1 DEF Align
<1>2. CASE g = 2
  BY <1>2 DEF Align
<1>3. CASE g = 4
  BY <1>3 DEF Align
<1>4. CASE g = 8
  BY <1>4 DEF Align
<1>5. CASE g = 16
  BY <1>5 DEF Align
<1> QED BY <1>1, <1>2, <1>3, <1>4, <1>5 DEF Grains

\* What is aligned already is left out of aligning the rest.
LEMMA AlignAfter ==
    ASSUME NEW m \in Nat, NEW n \in Nat, m % 4 = 0
    PROVE  Align(m + n, 4) = m + Align(n, 4)
BY DEF Align

LEMMA AlignedSum ==
    ASSUME NEW m \in Nat, NEW n \in Nat, NEW g \in Grains, m % g = 0, n % g = 0
    PROVE  (m + n) % g = 0
BY DEF Grains

\* Aligned to a grain is aligned to any that is less.
LEMMA AlignedFiner ==
    ASSUME NEW n \in Nat, NEW g \in Grains, NEW h \in Grains, h <= g, n % g = 0
    PROVE  n % h = 0
BY DEF Grains

\* Division by a size: the only way to count whole elements in a run of bytes.
LEMMA Dividing ==
    ASSUME NEW s \in Nat \ {0}, NEW i \in Nat
    PROVE  i \div s \in Nat /\ i % s \in 0..s - 1 /\ i = s * (i \div s) + (i % s)
OBVIOUS

LEMMA Multiple ==
    ASSUME NEW s \in Nat \ {0}, NEW k \in Nat, NEW j \in 0..s - 1
    PROVE  /\ s * k \in Nat
           /\ (s * k + j) \div s = k /\ (s * k + j) % s = j
<1> DEFINE i == s * k + j
           q == i \div s
           r == i % s
<1>1. s * k \in Nat
  OBVIOUS
<1>2. i \in Nat
  BY <1>1
<1>3. q \in Nat /\ r \in 0..s - 1 /\ i = s * q + r
  <2> HIDE DEF i
  <2> QED BY <1>2, Dividing
<1> HIDE DEF q, r
<1>4. s * (k - q) = r - j
  BY <1>3
<1>5. ASSUME k - q >= 1 PROVE FALSE
  <2>1. s * (k - q) >= s
    BY <1>3, <1>5
  <2> QED BY <1>3, <1>4, <2>1
<1>6. ASSUME q - k >= 1 PROVE FALSE
  <2>1. s * (q - k) >= s
    BY <1>3, <1>6
  <2>2. s * (q - k) = j - r
    BY <1>3
  <2> QED BY <1>3, <2>1, <2>2
<1>7. q = k
  BY <1>3, <1>5, <1>6
<1> QED BY <1>1, <1>3, <1>7 DEF q, r

-----------------------------------------------------------------------------
(* Runs of bytes *)

\* b begins with the bytes of out.
Begins(out, b) == Len(out) <= Len(b) /\ \A k \in 1..Len(out) : b[k] = out[k]

LEMMA BeginsTransitive ==
    ASSUME NEW a \in Seq(Byte), NEW b \in Seq(Byte), NEW c \in Seq(Byte), Begins(a, b), Begins(b, c)
    PROVE  Begins(a, c)
BY DEF Begins

LEMMA BeginsJoined ==
    ASSUME NEW a \in Seq(Byte), NEW b \in Seq(Byte)
    PROVE  a \o b \in Seq(Byte) /\ Len(a \o b) = Len(a) + Len(b) /\ Begins(a, a \o b)
BY DEF Begins

LEMMA BeginsSelf ==
    ASSUME NEW a \in Seq(Byte)
    PROVE  Begins(a, a)
BY DEF Begins

\* What follows a in b.
LEMMA Within ==
    ASSUME NEW a \in Seq(Byte), NEW x \in Seq(Byte), NEW b \in Seq(Byte), Begins(a \o x, b)
    PROVE  /\ Len(a) + Len(x) <= Len(b)
           /\ \A k \in 1..Len(x) : b[Len(a) + k] = x[k]
<1>1. Len(a \o x) = Len(a) + Len(x) /\ \A k \in 1..Len(x) : (a \o x)[Len(a) + k] = x[k]
  OBVIOUS
<1>2. \A k \in 1..Len(x) : Len(a) + k \in 1..Len(a \o x)
  BY <1>1
<1> QED BY <1>1, <1>2 DEF Begins

LEMMA ZerosType ==
    ASSUME NEW n \in Nat
    PROVE  Zeros(n) \in Seq(Byte) /\ Len(Zeros(n)) = n
BY DEF Zeros, Byte

LEMMA AlignedType ==
    ASSUME NEW bytes \in Seq(Byte), NEW g \in Grains
    PROVE  /\ Aligned(bytes, g) \in Seq(Byte) /\ Len(Aligned(bytes, g)) = Align(Len(bytes), g)
           /\ Begins(bytes, Aligned(bytes, g))
<1> DEFINE n == Align(Len(bytes), g) - Len(bytes)
<1>1. n \in Nat /\ Align(Len(bytes), g) = Len(bytes) + n
  BY AlignProperty
<1>2. Zeros(n) \in Seq(Byte) /\ Len(Zeros(n)) = n
  BY <1>1, ZerosType
<1>3. Aligned(bytes, g) = bytes \o Zeros(n)
  BY DEF Aligned
<1> HIDE DEF n
<1> QED BY <1>1, <1>2, <1>3, BeginsJoined

\* Any count that a message can carry comes back from its bytes.
Counts == {n \in Nat : n <= 2147483647}

LEMMA CountBytesType ==
    ASSUME NEW n \in Counts
    PROVE  CountBytes(n) \in Seq(Byte) /\ Len(CountBytes(n)) = 4 /\ Count(CountBytes(n)) = n
<1>1. /\ n % 256 \in Byte /\ (n \div 256) % 256 \in Byte
      /\ (n \div 65536) % 256 \in Byte /\ n \div 16777216 \in Byte
  <2> DEFINE p == n \div 256
             q == n \div 65536
  <2>1. n \in Nat /\ p \in Nat /\ q \in Nat
    BY DEF Counts
  <2>2. n \div 16777216 \in Byte
    BY DEF Counts, Byte
  <2> HIDE DEF p, q
  <2>3. n % 256 \in Byte /\ p % 256 \in Byte /\ q % 256 \in Byte
    BY <2>1 DEF Byte
  <2> QED BY <2>2, <2>3 DEF p, q
<1>2. n = (n % 256) + 256 * ((n \div 256) % 256) + 65536 * ((n \div 65536) % 256) + 16777216 * (n \div 16777216)
  BY DEF Counts
<1> QED BY <1>1, <1>2 DEF CountBytes, Count

\* What is read at a place where a count was written.
LEMMA CountRead ==
    ASSUME NEW n \in Counts, NEW out \in Seq(Byte), NEW b \in Seq(Byte), Begins(out \o CountBytes(n), b)
    PROVE  LET count == ReadNumber(b, Len(out), size_type)
           IN  count.at = Len(out) + 4 /\ Count(count.v) = n /\ Len(out) + 4 <= Len(b)
<1>1. CountBytes(n) \in Seq(Byte) /\ Len(CountBytes(n)) = 4 /\ Count(CountBytes(n)) = n
  BY CountBytesType
<1>2. Len(out) + 4 <= Len(b) /\ \A k \in 1..4 : b[Len(out) + k] = CountBytes(n)[k]
  <2> DEFINE x == CountBytes(n)
  <2>1. x \in Seq(Byte) /\ Len(x) = 4 /\ Begins(out \o x, b)
    BY <1>1
  <2> HIDE DEF x
  <2>2. Len(out) + Len(x) <= Len(b) /\ \A k \in 1..Len(x) : b[Len(out) + k] = x[k]
    <3>1. x \in Seq(Byte) /\ Begins(out \o x, b)
      BY <2>1
    <3> QED BY <3>1, Within
  <2>3. Len(out) + 4 <= Len(b) /\ \A k \in 1..4 : b[Len(out) + k] = x[k]
    BY <2>1, <2>2
  <2> QED BY <2>3 DEF x
<1>3. ReadNumber(b, Len(out), size_type) = Cursor(Len(out) + 4, Bytes(b, Len(out), 4))
  BY <1>2 DEF ReadNumber, Fits, size_type
<1>4. Count(Bytes(b, Len(out), 4)) = n
  BY <1>1, <1>2 DEF Bytes, Count
<1> QED BY <1>2, <1>3, <1>4 DEF Cursor

-----------------------------------------------------------------------------
(* Flat types *)

LEMMA FlatType ==
    ASSUME NEW F \in Flats
    PROVE  /\ F.kind \in {"number", "string", "struct"}
           /\ F.kind = "number" => F.sz \in Widths
           /\ F.kind = "struct" => F.members \in Seq(Widths) /\ Len(F.members) >= 1
<1>1. CASE F \in [kind : {"number"}, sz : Widths]
  BY <1>1
<1>2. CASE F \in [kind : {"string"}]
  BY <1>2
<1>3. CASE F \in [kind : {"struct"}, members : Seq(Widths) \ {<<>>}]
  <2>1. F.kind = "struct" /\ F.members \in Seq(Widths) /\ F.members # <<>>
    BY <1>3
  <2> DEFINE m == F.members
  <2> HIDE DEF m
  <2>2. m \in Seq(Widths) /\ m # <<>> => Len(m) >= 1
    OBVIOUS
  <2> QED BY <2>1, <2>2 DEF m
<1> QED BY <1>1, <1>2, <1>3 DEF Flats

LEMMA GreatestWidth ==
    ASSUME NEW S \in SUBSET ({0} \cup Widths), S # {}
    PROVE  Greatest(S) \in S /\ \A m \in S : m <= Greatest(S)
<1>1. \E n \in S : \A m \in S : m <= n
  <2>1. CASE 8 \in S
    BY <2>1 DEF Widths
  <2>2. CASE 8 \notin S /\ 4 \in S
    BY <2>2 DEF Widths
  <2>3. CASE 8 \notin S /\ 4 \notin S /\ 2 \in S
    BY <2>3 DEF Widths
  <2>4. CASE 8 \notin S /\ 4 \notin S /\ 2 \notin S /\ 1 \in S
    BY <2>4 DEF Widths
  <2>5. CASE 8 \notin S /\ 4 \notin S /\ 2 \notin S /\ 1 \notin S
    <3>1. \A m \in S : m = 0
      BY <2>5 DEF Widths
    <3>2. PICK n \in S : TRUE
      OBVIOUS
    <3> QED BY <3>1, <3>2
  <2> QED BY <2>1, <2>2, <2>3, <2>4, <2>5
<1> QED BY <1>1 DEF Greatest

LEMMA GreatestOfTwo ==
    ASSUME NEW m \in Nat, NEW n \in Nat
    PROVE  Greatest({m, n}) = IF m >= n THEN m ELSE n
<1> DEFINE g == IF m >= n THEN m ELSE n
<1>1. g \in {m, n} /\ \A x \in {m, n} : x <= g
  OBVIOUS
<1>2. \A h \in {m, n} : (\A x \in {m, n} : x <= h) => h = g
  OBVIOUS
<1> HIDE DEF g
<1>3. Greatest({m, n}) \in {m, n} /\ \A x \in {m, n} : x <= Greatest({m, n})
  BY <1>1 DEF Greatest
<1> QED BY <1>2, <1>3 DEF g

\* The members of a struct lie one after another, each aligned.
LEMMA Offsets ==
    ASSUME NEW F \in Flats, F.kind = "struct"
    PROVE  LET n == Len(F.members)
           IN  /\ offsetof(F) \in [1..n -> Nat] /\ offsetof(F)[1] = 0
               /\ \A k \in 1..n - 1 :
                    offsetof(F)[k + 1] = Align(offsetof(F)[k] + F.members[k], F.members[k + 1])
<1> DEFINE ms == F.members
           n == Len(ms)
           step == [k \in 1..n - 1 |-> [x \in Nat |-> Align(x + ms[k], ms[k + 1])]]
           Up(at) == at = [k \in DOMAIN F.members |->
                             IF k = 1 THEN 0 ELSE Align(at[k - 1] + F.members[k - 1], F.members[k])]
           at == CHOOSE at : Up(at)
<1>1. ms \in Seq(Widths) /\ n \in Nat /\ n >= 1 /\ n - 1 \in Nat /\ DOMAIN ms = 1..n
  BY FlatType
<1>2. \A k \in 1..n : ms[k] \in Widths
  BY <1>1
<1>3. step \in Steps(n - 1, Nat)
  <2> SUFFICES ASSUME NEW k \in 1..n - 1, NEW x \in Nat PROVE Align(x + ms[k], ms[k + 1]) \in Nat
    BY DEF Steps
  <2>1. ms[k] \in Widths /\ ms[k + 1] \in Widths
    BY <1>1, <1>2
  <2>2. x + ms[k] \in Nat /\ ms[k + 1] \in Grains
    BY <2>1 DEF Widths, Grains
  <2> QED BY <2>2, AlignProperty
<1>4. PICK f \in [0..n - 1 -> Nat] : f[0] = 0 /\ \A k \in 1..n - 1 : f[k] = step[k][f[k - 1]]
  <2> HIDE DEF step, n
  <2>1. \E f : Recurs(f, n - 1, Nat, 0, step)
    BY <1>1, <1>3, Recursion
  <2> QED BY <2>1 DEF Recurs
<1>5. Up([k \in 1..n |-> f[k - 1]])
  <2> DEFINE g == [k \in 1..n |-> f[k - 1]]
  <2>1. ASSUME NEW k \in 1..n, k # 1 PROVE g[k] = Align(g[k - 1] + ms[k - 1], ms[k])
    <3>1. k - 1 \in 1..n - 1 /\ k - 1 - 1 \in 0..n - 1 /\ k - 1 \in 1..n /\ (k - 1) + 1 = k
      BY <1>1, <2>1
    <3>2. f[k - 1] = step[k - 1][f[k - 1 - 1]] /\ f[k - 1 - 1] \in Nat
      BY <1>4, <3>1
    <3>3. step[k - 1][f[k - 1 - 1]] = Align(f[k - 1 - 1] + ms[k - 1], ms[k])
      BY <3>1, <3>2
    <3> QED BY <3>1, <3>2, <3>3
  <2>2. g[1] = 0
    BY <1>1, <1>4
  <2> HIDE DEF step
  <2> QED BY <1>1, <2>1, <2>2
<1>6. Up(at)
  <2> HIDE DEF Up
  <2> QED BY <1>5
<1>7. offsetof(F) = at
  BY DEF offsetof
<1> HIDE DEF at, step
<1>8. at[1] = 0 /\ \A k \in 1..n : at[k] = IF k = 1 THEN 0 ELSE Align(at[k - 1] + ms[k - 1], ms[k])
  <2>1. DOMAIN at = 1..n
    BY <1>1, <1>6
  <2>2. \A k \in 1..n : at[k] = IF k = 1 THEN 0 ELSE Align(at[k - 1] + ms[k - 1], ms[k])
    BY <1>1, <1>6
  <2> QED BY <1>1, <2>2
<1>9. \A k \in 1..n - 1 : at[k + 1] = Align(at[k] + ms[k], ms[k + 1])
  <2> TAKE k \in 1..n - 1
  <2>1. k + 1 \in 1..n /\ k + 1 # 1 /\ (k + 1) - 1 = k
    BY <1>1
  <2> QED BY <1>8, <2>1
<1>10. \A k \in 0..n - 1 : at[k + 1] \in Nat
  <2> DEFINE S == {k \in 0..n - 1 : at[k + 1] \in Nat}
  <2>1. 0 \in S
    BY <1>1, <1>8
  <2>2. ASSUME NEW k \in 1..n - 1, k - 1 \in S PROVE k \in S
    <3>1. at[k] \in Nat /\ k \in 1..n /\ k + 1 \in 1..n
      BY <1>1, <2>2
    <3>2. at[k] + ms[k] \in Nat /\ ms[k + 1] \in Grains
      <4>1. ms[k] \in Widths /\ ms[k + 1] \in Widths
        BY <1>2, <3>1
      <4> QED BY <3>1, <4>1 DEF Widths, Grains
    <3>3. at[k + 1] \in Nat
      BY <1>9, <3>2, AlignProperty
    <3> QED BY <3>3
  <2> HIDE DEF S
  <2>3. 0..n - 1 \subseteq S
    BY <1>1, <2>1, <2>2, UpTo
  <2> QED BY <2>3 DEF S
<1>11. at \in [1..n -> Nat]
  <2>1. at = [k \in 1..n |-> at[k]]
    BY <1>1, <1>6
  <2>2. \A k \in 1..n : k - 1 \in 0..n - 1 /\ (k - 1) + 1 = k
    BY <1>1
  <2>3. \A k \in 1..n : at[k] \in Nat
    BY <1>10, <2>2
  <2> QED BY <2>1, <2>3
<1> QED BY <1>7, <1>8, <1>9, <1>11

LEMMA AlignOf ==
    ASSUME NEW F \in Flats, is_trivially_copyable(F)
    PROVE  /\ alignof(F) \in Widths
           /\ F.kind = "struct" => \A k \in 1..Len(F.members) : F.members[k] <= alignof(F)
<1>1. CASE F.kind = "number"
  BY <1>1, FlatType DEF alignof
<1>2. CASE F.kind # "number"
  <2>1. F.kind = "struct"
    BY <1>2, FlatType DEF is_trivially_copyable
  <2> DEFINE S == {F.members[k] : k \in DOMAIN F.members}
  <2>2. F.members \in Seq(Widths) /\ Len(F.members) >= 1 /\ DOMAIN F.members = 1..Len(F.members)
    BY <2>1, FlatType
  <2>3. \A k \in 1..Len(F.members) : F.members[k] \in Widths /\ F.members[k] \in S
    BY <2>2
  <2>4. S \subseteq Widths /\ F.members[1] \in S
    BY <2>2, <2>3
  <2>5. alignof(F) = Greatest(S)
    BY <1>2 DEF alignof
  <2> HIDE DEF S
  <2>6. S \in SUBSET ({0} \cup Widths) /\ S # {}
    BY <2>4
  <2>7. Greatest(S) \in S /\ \A m \in S : m <= Greatest(S)
    BY <2>6, GreatestWidth
  <2> QED BY <2>3, <2>4, <2>5, <2>7
<1> QED BY <1>1, <1>2

LEMMA Members ==
    ASSUME NEW F \in Flats, F.kind = "struct"
    PROVE  LET n == Len(F.members)
           IN  /\ \A k \in 1..n : /\ F.members[k] \in Widths /\ offsetof(F)[k] \in Nat
                                  /\ offsetof(F)[k] % F.members[k] = 0
                                  /\ offsetof(F)[k] + F.members[k] <= sizeof(F)
               /\ \A k \in 1..n : \A j \in 1..k - 1 : offsetof(F)[j] + F.members[j] <= offsetof(F)[k]
               /\ offsetof(F)[1] = 0
               /\ sizeof(F) = Align(offsetof(F)[n] + F.members[n], alignof(F))
               /\ sizeof(F) \in Nat \ {0} /\ sizeof(F) % alignof(F) = 0
<1> DEFINE ms == F.members
           n == Len(ms)
           at == offsetof(F)
<1>1. ms \in Seq(Widths) /\ n \in Nat /\ n >= 1 /\ n - 1 \in Nat
  BY FlatType
<1>2. \A k \in 1..n : ms[k] \in Widths /\ ms[k] \in Grains
  BY <1>1 DEF Widths, Grains
<1>3. at \in [1..n -> Nat] /\ at[1] = 0 /\ \A k \in 1..n - 1 : at[k + 1] = Align(at[k] + ms[k], ms[k + 1])
  BY Offsets
<1>4. is_trivially_copyable(F)
  BY DEF is_trivially_copyable
<1>5. alignof(F) \in Widths /\ alignof(F) \in Grains /\ \A k \in 1..n : ms[k] <= alignof(F)
  BY <1>4, AlignOf DEF Widths, Grains
<1>6. sizeof(F) = Align(at[n] + ms[n], alignof(F))
  BY DEF sizeof
<1> HIDE DEF at, ms, n
<1>7. \A k \in 1..n : at[k] \in Nat /\ ms[k] \in Nat \ {0}
  BY <1>2, <1>3 DEF Widths
<1>8. \A k \in 1..n - 1 : at[k + 1] % ms[k + 1] = 0 /\ at[k] + ms[k] <= at[k + 1]
  <2> TAKE k \in 1..n - 1
  <2>1. k \in 1..n /\ k + 1 \in 1..n
    BY <1>1
  <2>2. at[k] + ms[k] \in Nat /\ ms[k + 1] \in Grains
    BY <1>2, <1>7, <2>1
  <2> DEFINE m == at[k] + ms[k]
             g == ms[k + 1]
  <2>3. Align(m, g) % g = 0 /\ m <= Align(m, g)
    <3> HIDE DEF m, g
    <3>1. m \in Nat /\ g \in Grains
      BY <2>2 DEF m, g
    <3> QED BY <3>1, AlignProperty
  <2>4. at[k + 1] = Align(m, g)
    BY <1>3
  <2> QED BY <2>3, <2>4
<1>9. \A k \in 1..n : at[k] % ms[k] = 0
  <2> TAKE k \in 1..n
  <2>1. CASE k = 1
    BY <1>2, <1>3, <2>1 DEF Widths
  <2>2. CASE k # 1
    <3>1. k - 1 \in 1..n - 1 /\ (k - 1) + 1 = k
      BY <1>1, <2>2
    <3> QED BY <1>8, <3>1
  <2> QED BY <2>1, <2>2
<1>10. \A k \in 1..n : \A j \in 1..k - 1 : at[j] + ms[j] <= at[k]
  <2> DEFINE S == {l \in 0..n : \A k \in 1..l : \A j \in 1..k - 1 : at[j] + ms[j] <= at[k]}
  <2>1. 0 \in S
    BY <1>1
  <2>2. ASSUME NEW l \in 1..n, l - 1 \in S PROVE l \in S
    <3>1. l \in 0..n
      BY <1>1
    <3>2. ASSUME NEW k \in 1..l, NEW j \in 1..k - 1 PROVE at[j] + ms[j] <= at[k]
      <4>1. CASE k # l
        <5>1. k \in 1..l - 1
          BY <1>1, <4>1
        <5> QED BY <2>2, <5>1
      <4>2. CASE k = l /\ j = k - 1
        <5>1. j \in 1..n - 1 /\ j + 1 = k
          BY <1>1, <4>2
        <5> QED BY <1>8, <5>1
      <4>3. CASE k = l /\ j # k - 1
        <5>1. l - 1 \in 1..l - 1 /\ j \in 1..(l - 1) - 1 /\ l - 1 \in 1..n - 1 /\ (l - 1) + 1 = l
          BY <1>1, <4>3
        <5>2. at[j] + ms[j] <= at[l - 1]
          BY <2>2, <5>1
        <5>3. at[l - 1] + ms[l - 1] <= at[l]
          BY <1>8, <5>1
        <5>4. j \in 1..n /\ l - 1 \in 1..n /\ l \in 1..n
          BY <1>1, <5>1
        <5>5. at[j] \in Nat /\ ms[j] \in Nat /\ at[l - 1] \in Nat /\ ms[l - 1] \in Nat /\ at[l] \in Nat
          BY <1>7, <5>4
        <5>6. \A a, b, c, d \in Nat : a <= b /\ b + c <= d => a <= d
          OBVIOUS
        <5>7. at[j] + ms[j] \in Nat
          BY <5>5
        <5>8. at[j] + ms[j] <= at[l]
          BY <5>2, <5>3, <5>5, <5>6, <5>7
        <5> QED BY <4>3, <5>8
      <4> QED BY <4>1, <4>2, <4>3
    <3> QED BY <3>1, <3>2
  <2> HIDE DEF S
  <2>3. 0..n \subseteq S
    BY <1>1, <2>1, <2>2, UpTo
  <2> QED BY <1>1, <2>3 DEF S
<1> DEFINE end == at[n] + ms[n]
           al == alignof(F)
<1>11. n \in 1..n /\ end \in Nat \ {0}
  BY <1>1, <1>7
<1>12. Align(end, al) \in Nat /\ end <= Align(end, al) /\ Align(end, al) % al = 0
  <2> HIDE DEF end, al
  <2>1. end \in Nat /\ al \in Grains
    BY <1>5, <1>11 DEF al
  <2> QED BY <2>1, AlignProperty
<1>13. \A k \in 1..n : at[k] + ms[k] <= end
  <2> TAKE k \in 1..n
  <2>1. CASE k = n
    BY <1>7, <1>11, <2>1
  <2>2. CASE k # n
    <3>1. k \in 1..n - 1
      BY <1>1, <2>2
    <3>2. at[k] + ms[k] <= at[n]
      BY <1>10, <1>11, <3>1
    <3>3. at[n] \in Nat /\ ms[n] \in Nat /\ at[k] \in Nat /\ ms[k] \in Nat
      BY <1>7, <1>11
    <3>4. \A a, b, c \in Nat : a <= b => a <= b + c
      OBVIOUS
    <3> QED BY <3>2, <3>3, <3>4
  <2> QED BY <2>1, <2>2
<1>14. \A k \in 1..n : at[k] + ms[k] <= sizeof(F)
  BY <1>6, <1>7, <1>11, <1>12, <1>13
<1>15. sizeof(F) \in Nat \ {0} /\ sizeof(F) % alignof(F) = 0
  BY <1>6, <1>11, <1>12
<1> HIDE DEF end, al
<1> QED BY <1>2, <1>3, <1>6, <1>7, <1>9, <1>10, <1>14, <1>15 DEF at, ms, n

LEMMA SizeOf ==
    ASSUME NEW F \in Flats, is_trivially_copyable(F)
    PROVE  sizeof(F) \in Nat \ {0} /\ sizeof(F) % alignof(F) = 0
<1>1. CASE F.kind = "number"
  <2>1. F.sz \in Widths /\ sizeof(F) = F.sz /\ alignof(F) = F.sz
    BY <1>1, FlatType DEF sizeof, alignof
  <2>2. \A w \in Widths : w \in Nat \ {0} /\ w % w = 0
    BY DEF Widths
  <2> QED BY <2>1, <2>2
<1>2. CASE F.kind = "struct"
  BY <1>2, Members
<1> QED BY <1>1, <1>2 DEF is_trivially_copyable

\* What the elements of a vector are aligned to.
LEMMA ElementsAlign ==
    ASSUME NEW F \in Flats, NEW d \in Nat \ {0}
    PROVE  /\ elements_align(F, d) \in {4, 8, 16} /\ elements_align(F, d) \in Grains
           /\ d = 1 /\ is_trivially_copyable(F) =>
                elements_align(F, d) = IF alignof(F) <= size_type THEN size_type ELSE alignof(F)
<1> DEFINE s == stream_align(F, d - 1)
<1>1. elements_align(F, d) = Greatest({s, 4})
  BY DEF elements_align, size_type
<1>2. s \in {1, 2, 4, 8, 16} /\ (d = 1 /\ is_trivially_copyable(F) => s = alignof(F) /\ s \in Widths)
  <2>1. CASE d > 1
    BY <2>1 DEF stream_align, size_type
  <2>2. CASE d = 1 /\ F.kind = "string"
    BY <2>2 DEF stream_align, is_trivially_copyable
  <2>3. CASE d = 1 /\ F.kind # "string"
    <3>1. is_trivially_copyable(F)
      BY <2>3, FlatType DEF is_trivially_copyable
    <3>2. alignof(F) \in Widths
      BY <3>1, AlignOf
    <3>3. s = alignof(F)
      BY <2>3 DEF stream_align
    <3> QED BY <3>2, <3>3 DEF Widths
  <2> QED BY <2>1, <2>2, <2>3
<1> HIDE DEF s
<1>3. Greatest({s, 4}) = IF s >= 4 THEN s ELSE 4
  <2>1. s \in Nat
    BY <1>2
  <2> QED BY <2>1, GreatestOfTwo
<1> QED BY <1>1, <1>2, <1>3 DEF Grains, Widths, size_type

-----------------------------------------------------------------------------
(* Values *)

Vectors(S) == UNION {[1..n -> S] : n \in 0..MaxVector}
Nested(F, m, f) == f = [d \in 0..m |-> IF d = 0 THEN FlatValues(F) ELSE Vectors(f[d - 1])]

LEMMA NestedExists ==
    ASSUME NEW F, NEW m \in Nat
    PROVE  \E f : Nested(F, m, f)
<1> DEFINE S == {l \in 0..m : \E f : Nested(F, l, f)}
<1>1. 0 \in S
  <2>1. Nested(F, 0, [d \in 0..0 |-> FlatValues(F)])
    BY DEF Nested
  <2> QED BY <2>1
<1>2. ASSUME NEW l \in 1..m, l - 1 \in S PROVE l \in S
  <2>1. PICK f : Nested(F, l - 1, f)
    BY <1>2
  <2> DEFINE g == [d \in 0..l |-> IF d = l THEN Vectors(f[l - 1]) ELSE f[d]]
  <2>2. ASSUME NEW d \in 0..l PROVE g[d] = IF d = 0 THEN FlatValues(F) ELSE Vectors(g[d - 1])
    <3>1. CASE d = l
      <4>1. l - 1 \in 0..l /\ l - 1 # l /\ d # 0
        BY <3>1
      <4> QED BY <3>1, <4>1
    <3>2. CASE d # l /\ d = 0
      <4>1. g[d] = f[d] /\ d \in 0..l - 1
        BY <3>2
      <4> QED BY <2>1, <3>2, <4>1 DEF Nested
    <3>3. CASE d # l /\ d # 0
      <4>1. d \in 0..l - 1 /\ d - 1 \in 0..l /\ d - 1 # l
        BY <3>3
      <4>2. g[d] = f[d] /\ g[d - 1] = f[d - 1]
        BY <3>3, <4>1
      <4>3. f[d] = Vectors(f[d - 1])
        BY <2>1, <3>3, <4>1 DEF Nested
      <4> QED BY <3>3, <4>2, <4>3
    <3> QED BY <3>1, <3>2, <3>3
  <2>3. g = [d \in 0..l |-> g[d]]
    OBVIOUS
  <2> HIDE DEF g
  <2>4. Nested(F, l, g)
    BY <2>2, <2>3 DEF Nested
  <2> QED BY <2>4
<1>3. m \in S
  <2> HIDE DEF S
  <2>1. 0..m \subseteq S
    BY <1>1, <1>2, UpTo
  <2> QED BY <2>1
<1> QED BY <1>3

LEMMA NestedSame ==
    ASSUME NEW F, NEW m \in Nat, NEW l \in 0..m, NEW f, NEW g, Nested(F, l, f), Nested(F, m, g)
    PROVE  \A d \in 0..l : f[d] = g[d]
<1> DEFINE S == {d \in 0..l : f[d] = g[d]}
<1>1. 0 \in S
  BY DEF Nested
<1>2. ASSUME NEW d \in 1..l, d - 1 \in S PROVE d \in S
  <2>1. d \in 0..l /\ d \in 0..m /\ d # 0
    OBVIOUS
  <2>2. f[d] = Vectors(f[d - 1]) /\ g[d] = Vectors(g[d - 1])
    BY <2>1 DEF Nested
  <2> QED BY <1>2, <2>1, <2>2
<1> HIDE DEF S
<1>3. l \in Nat
  OBVIOUS
<1>4. 0..l \subseteq S
  BY <1>1, <1>2, <1>3, UpTo
<1> QED BY <1>4 DEF S

\* The values of a type are flat, or vectors of those that are less deep.
LEMMA ValuesOf ==
    ASSUME NEW F, NEW d \in Nat
    PROVE  /\ Values(F, 0) = FlatValues(F)
           /\ d > 0 => Values(F, d) = Vectors(Values(F, d - 1))
<1> DEFINE f(m) == CHOOSE f : Nested(F, m, f)
<1>1. ASSUME NEW m \in Nat PROVE Nested(F, m, f(m)) /\ Values(F, m) = f(m)[m]
  <2>1. Nested(F, m, f(m))
    BY NestedExists
  <2>2. Values(F, m) = f(m)[m]
    BY DEF Values, Nested, Vectors
  <2> QED BY <2>1, <2>2
<1> HIDE DEF f
<1>2. Values(F, 0) = FlatValues(F)
  BY <1>1 DEF Nested
<1>3. ASSUME d > 0 PROVE Values(F, d) = Vectors(Values(F, d - 1))
  <2>1. d - 1 \in Nat /\ d - 1 \in 0..d /\ d \in 0..d /\ d - 1 \in 0..d - 1
    BY <1>3
  <2>2. Nested(F, d, f(d)) /\ Nested(F, d - 1, f(d - 1))
    BY <1>1, <2>1
  <2>3. f(d - 1)[d - 1] = f(d)[d - 1]
    BY <2>1, <2>2, NestedSame
  <2>4. f(d)[d] = Vectors(f(d)[d - 1])
    BY <1>3, <2>1, <2>2 DEF Nested
  <2> QED BY <1>1, <2>1, <2>3, <2>4
<1> QED BY <1>2, <1>3


LEMMA NumberBytesType ==
    ASSUME NEW w \in Widths, NEW v \in Byte
    PROVE  NumberBytes(w, v) \in Seq(Byte) /\ Len(NumberBytes(w, v)) = w
<1>1. w - 1 \in Nat /\ w \in Nat
  BY DEF Widths
<1>2. Zeros(w - 1) \in Seq(Byte) /\ Len(Zeros(w - 1)) = w - 1
  BY <1>1, ZerosType
<1>3. <<v>> \in Seq(Byte) /\ Len(<<v>>) = 1
  OBVIOUS
<1> QED BY <1>1, <1>2, <1>3 DEF NumberBytes

LEMMA FlatValueType ==
    ASSUME NEW F \in Flats, NEW v \in FlatValues(F)
    PROVE  /\ F.kind = "number" => v \in Seq(Byte) /\ Len(v) = F.sz
           /\ F.kind = "string" => v \in Seq(Byte) /\ Len(v) <= Largest
           /\ F.kind = "struct" => /\ v = [k \in 1..Len(F.members) |-> v[k]]
                                   /\ \A k \in 1..Len(F.members) :
                                        v[k] \in Seq(Byte) /\ Len(v[k]) = F.members[k]
<1>1. CASE F.kind = "number"
  <2>1. PICK b \in Numbers : v = NumberBytes(F.sz, b)
    BY <1>1 DEF FlatValues
  <2>2. b \in Byte /\ F.sz \in Widths
    BY <1>1, ByteAssumption, FlatType
  <2> QED BY <1>1, <2>1, <2>2, NumberBytesType
<1>2. CASE F.kind = "string"
  <2>1. v \in Strings
    BY <1>2 DEF FlatValues
  <2> QED BY <1>2, <2>1, ByteAssumption
<1>3. CASE F.kind = "struct"
  <2>1. F.members \in Seq(Widths) /\ DOMAIN F.members = 1..Len(F.members)
    BY <1>3, FlatType
  <2>2. PICK b \in [DOMAIN F.members -> Numbers] : v = [k \in DOMAIN F.members |-> NumberBytes(F.members[k], b[k])]
    BY <1>3 DEF FlatValues
  <2>3. ASSUME NEW k \in 1..Len(F.members) PROVE v[k] \in Seq(Byte) /\ Len(v[k]) = F.members[k]
    <3>1. F.members[k] \in Widths /\ b[k] \in Byte /\ v[k] = NumberBytes(F.members[k], b[k])
      <4>1. F.members[k] \in Widths
        BY <2>1
      <4>2. b[k] \in Byte /\ v[k] = NumberBytes(F.members[k], b[k])
        BY <2>1, <2>2, ByteAssumption
      <4> QED BY <4>1, <4>2
    <3> QED BY <3>1, NumberBytesType
  <2>4. v = [k \in 1..Len(F.members) |-> v[k]]
    BY <2>1, <2>2
  <2> QED BY <1>3, <2>3, <2>4
<1> QED BY <1>1, <1>2, <1>3, FlatType

\* A value of a struct lies in memory member by member.
LEMMA InMemoryType ==
    ASSUME NEW F \in Flats, is_trivially_copyable(F), NEW v \in FlatValues(F)
    PROVE  /\ InMemory(F, v) \in Seq(Byte) /\ Len(InMemory(F, v)) = sizeof(F)
           /\ F.kind = "struct" => \A k \in 1..Len(F.members) : \A i \in 1..F.members[k] :
                                      InMemory(F, v)[offsetof(F)[k] + i] = v[k][i]
<1>1. CASE F.kind = "number"
  <2>1. InMemory(F, v) = v /\ sizeof(F) = F.sz
    BY <1>1 DEF InMemory, sizeof
  <2>2. v \in Seq(Byte) /\ Len(v) = F.sz
    BY <1>1, FlatValueType
  <2> QED BY <1>1, <2>1, <2>2
<1>2. CASE F.kind = "struct"
  <2> DEFINE ms == F.members
             n == Len(ms)
             at == offsetof(F)
             Holds(k, i) == i \in at[k] + 1..at[k] + ms[k]
             member(i) == CHOOSE k \in 1..n : Holds(k, i)
  <2>1. /\ \A k \in 1..n : ms[k] \in Widths /\ at[k] \in Nat /\ at[k] + ms[k] <= sizeof(F)
        /\ \A k \in 1..n : \A j \in 1..k - 1 : at[j] + ms[j] <= at[k]
        /\ sizeof(F) \in Nat
    BY <1>2, Members
  <2>2. n \in Nat /\ DOMAIN ms = 1..n
    BY <1>2, FlatType
  <2>3. \A k \in 1..n : v[k] \in Seq(Byte) /\ Len(v[k]) = ms[k]
    BY <1>2, FlatValueType
  <2>4. InMemory(F, v) = [i \in 1..sizeof(F) |-> IF \E k \in 1..n : Holds(k, i)
                                                THEN v[member(i)][i - at[member(i)]] ELSE 0]
    BY <1>2, <2>2 DEF InMemory
  <2> HIDE DEF ms, n, at
  <2>5. \A k \in 1..n : ms[k] \in Nat
    BY <2>1 DEF Widths
  <2>6. ASSUME NEW j \in 1..n, NEW k \in 1..n, NEW i \in Nat, Holds(j, i), Holds(k, i) PROVE j = k
    <3>1. at[j] \in Nat /\ at[k] \in Nat /\ ms[j] \in Nat /\ ms[k] \in Nat
      BY <2>1, <2>5
    <3>2. CASE j < k
      <4>1. at[j] + ms[j] <= at[k]
        BY <2>1, <2>2, <3>2
      <4> QED BY <2>6, <3>1, <4>1
    <3>3. CASE k < j
      <4>1. at[k] + ms[k] <= at[j]
        BY <2>1, <2>2, <3>3
      <4> QED BY <2>6, <3>1, <4>1
    <3> QED BY <2>2, <3>2, <3>3
  <2>7. ASSUME NEW k \in 1..n, NEW i \in Nat, Holds(k, i) PROVE member(i) = k
    <3>1. member(i) \in 1..n /\ Holds(member(i), i)
      BY <2>7
    <3> HIDE DEF member, Holds
    <3> QED BY <2>6, <2>7, <3>1
  <2>8. ASSUME NEW k \in 1..n, NEW i \in 1..ms[k]
        PROVE  /\ at[k] + i \in 1..sizeof(F) /\ Holds(k, at[k] + i)
               /\ member(at[k] + i) = k /\ v[k][i] \in Byte
    <3>1. ms[k] \in Nat /\ at[k] \in Nat /\ at[k] + ms[k] <= sizeof(F) /\ sizeof(F) \in Nat
      BY <2>1, <2>5
    <3>2. at[k] + i \in 1..sizeof(F) /\ Holds(k, at[k] + i) /\ at[k] + i \in Nat
      BY <3>1
    <3>3. v[k][i] \in Byte
      BY <2>3
    <3> HIDE DEF member, Holds
    <3> QED BY <2>7, <3>2, <3>3
  <2>9. ASSUME NEW k \in 1..n, NEW i \in 1..ms[k] PROVE InMemory(F, v)[at[k] + i] = v[k][i]
    <3>1. at[k] + i \in 1..sizeof(F) /\ Holds(k, at[k] + i) /\ member(at[k] + i) = k
      BY <2>8
    <3>2. (at[k] + i) - at[k] = i
      BY <2>1, <2>5
    <3> HIDE DEF member, Holds
    <3> QED BY <2>4, <3>1, <3>2
  <2>10. ASSUME NEW i \in 1..sizeof(F) PROVE InMemory(F, v)[i] \in Byte
    <3>1. CASE \E k \in 1..n : Holds(k, i)
      <4>1. PICK k \in 1..n : Holds(k, i)
        BY <3>1
      <4>2. i \in Nat /\ i - at[k] \in 1..ms[k] /\ at[k] + (i - at[k]) = i
        BY <2>1, <2>5, <4>1
      <4> HIDE DEF member, Holds
      <4>3. InMemory(F, v)[at[k] + (i - at[k])] = v[k][i - at[k]] /\ v[k][i - at[k]] \in Byte
        BY <2>8, <2>9, <4>2
      <4> QED BY <4>2, <4>3
    <3>2. CASE ~\E k \in 1..n : Holds(k, i)
      <4> HIDE DEF member, Holds
      <4>1. InMemory(F, v)[i] = 0
        BY <2>4, <3>2
      <4> QED BY <4>1 DEF Byte
    <3> QED BY <3>1, <3>2
  <2>11. InMemory(F, v) \in Seq(Byte) /\ Len(InMemory(F, v)) = sizeof(F)
    <3> HIDE DEF member, Holds
    <3>1. InMemory(F, v) \in [1..sizeof(F) -> Byte]
      BY <2>4, <2>10
    <3> DEFINE m == InMemory(F, v)
               s == sizeof(F)
    <3>2. m \in [1..s -> Byte] /\ s \in Nat
      BY <2>1, <3>1
    <3> HIDE DEF m, s
    <3>3. m \in Seq(Byte) /\ Len(m) = s
      BY <3>2
    <3> QED BY <3>3 DEF m, s
  <2> QED BY <1>2, <2>9, <2>11 DEF ms, n, at
<1> QED BY <1>1, <1>2 DEF is_trivially_copyable


LEMMA ValueAtWritten ==
    ASSUME NEW F \in Flats, is_trivially_copyable(F), NEW v \in FlatValues(F), NEW b \in Seq(Byte), NEW p \in Nat,
           \A i \in 1..sizeof(F) : b[p + i] = InMemory(F, v)[i]
    PROVE  ValueAt(b, p, F) = v
<1>1. CASE F.kind = "number"
  <2>1. InMemory(F, v) = v /\ sizeof(F) = F.sz /\ v \in Seq(Byte) /\ Len(v) = F.sz
    BY <1>1, FlatValueType DEF InMemory, sizeof
  <2>2. ValueAt(b, p, F) = [i \in 1..F.sz |-> v[i]]
    BY <1>1, <2>1 DEF ValueAt, Bytes
  <2>3. \A s \in Seq(Byte) : s = [i \in 1..Len(s) |-> s[i]]
    OBVIOUS
  <2> QED BY <2>1, <2>2, <2>3
<1>2. CASE F.kind = "struct"
  <2> DEFINE ms == F.members
             n == Len(ms)
             at == offsetof(F)
  <2>1. /\ \A k \in 1..n : ms[k] \in Widths /\ at[k] \in Nat /\ at[k] + ms[k] <= sizeof(F)
        /\ sizeof(F) \in Nat
    BY <1>2, Members
  <2>2. n \in Nat /\ DOMAIN ms = 1..n
    BY <1>2, FlatType
  <2>3. /\ v = [k \in 1..n |-> v[k]]
        /\ \A k \in 1..n : v[k] \in Seq(Byte) /\ Len(v[k]) = ms[k]
    BY <1>2, FlatValueType
  <2>4. \A k \in 1..n : \A i \in 1..ms[k] : InMemory(F, v)[at[k] + i] = v[k][i]
    BY <1>2, InMemoryType
  <2>5. ValueAt(b, p, F) = [k \in 1..n |-> Bytes(b, p + at[k], ms[k])]
    BY <1>2, <2>2 DEF ValueAt
  <2> HIDE DEF ms, n, at
  <2>6. ASSUME NEW k \in 1..n PROVE Bytes(b, p + at[k], ms[k]) = v[k]
    <3>1. ms[k] \in Nat /\ at[k] \in Nat /\ at[k] + ms[k] <= sizeof(F) /\ sizeof(F) \in Nat
      BY <2>1 DEF Widths
    <3> DEFINE a == at[k]
               m == ms[k]
               z == sizeof(F)
    <3>2. ASSUME NEW i \in 1..m PROVE b[(p + a) + i] = v[k][i]
      <4>1. a + i \in 1..z /\ (p + a) + i = p + (a + i)
        <5>1. a \in Nat /\ m \in Nat /\ z \in Nat /\ a + m <= z
          BY <3>1
        <5> HIDE DEF a, m, z
        <5> QED BY <5>1
      <4>2. b[p + (a + i)] = InMemory(F, v)[a + i]
        BY <4>1
      <4>3. InMemory(F, v)[a + i] = v[k][i]
        BY <2>4
      <4> QED BY <4>1, <4>2, <4>3
    <3>3. v[k] = [i \in 1..ms[k] |-> v[k][i]]
      <4>1. \A s \in Seq(Byte) : s = [i \in 1..Len(s) |-> s[i]]
        OBVIOUS
      <4> QED BY <2>3, <4>1
    <3> QED BY <3>2, <3>3 DEF Bytes
  <2> QED BY <2>3, <2>5, <2>6
<1> QED BY <1>1, <1>2 DEF is_trivially_copyable

\* The elements of a vector lie one after another.
LEMMA ContentsType ==
    ASSUME NEW F \in Flats, is_trivially_copyable(F), NEW n \in Nat, NEW v \in [1..n -> FlatValues(F)]
    PROVE  /\ Contents(F, v) \in Seq(Byte) /\ Len(Contents(F, v)) = sizeof(F) * n
           /\ sizeof(F) * n \in Nat
           /\ \A k \in 1..n : \A j \in 1..sizeof(F) : /\ (k - 1) * sizeof(F) + j \in 1..sizeof(F) * n
                                                      /\ Contents(F, v)[(k - 1) * sizeof(F) + j] = InMemory(F, v[k])[j]
<1> DEFINE s == sizeof(F)
           c == Contents(F, v)
           In(i) == InMemory(F, v[((i - 1) \div s) + 1])[((i - 1) % s) + 1]
<1>1. s \in Nat \ {0} /\ s * n \in Nat
  BY SizeOf
<1>2. c = [i \in 1..s * n |-> In(i)]
  BY DEF Contents
<1>3. \A k \in 1..n : InMemory(F, v[k]) \in Seq(Byte) /\ Len(InMemory(F, v[k])) = s
  BY InMemoryType
<1> HIDE DEF s, c
<1>4. ASSUME NEW i \in 1..s * n PROVE In(i) \in Byte
  <2> DEFINE q == (i - 1) \div s
             m == (i - 1) % s
  <2>1. i - 1 \in Nat
    BY <1>1
  <2>2. q \in Nat /\ m \in 0..s - 1 /\ i - 1 = s * q + m
    BY <1>1, <2>1, Dividing
  <2> HIDE DEF q, m
  <2>3. s * q < s * n
    BY <1>1, <2>2
  <2>4. q < n
    <3> SUFFICES ASSUME q >= n PROVE FALSE
      BY <2>2
    <3>1. s * q >= s * n
      <4>1. q - n \in Nat
        BY <2>2
      <4>2. s * (q - n) \in Nat /\ s * q = s * n + s * (q - n)
        BY <1>1, <2>2, <4>1
      <4> QED BY <1>1, <4>2
    <3> QED BY <1>1, <2>2, <2>3, <3>1
  <2>5. q + 1 \in 1..n /\ m + 1 \in 1..s
    BY <1>1, <2>2, <2>4
  <2>6. InMemory(F, v[q + 1])[m + 1] \in Byte
    BY <1>3, <2>5
  <2> QED BY <2>6 DEF q, m
<1>5. c \in Seq(Byte) /\ Len(c) = s * n
  <2>1. c \in [1..s * n -> Byte]
    BY <1>2, <1>4
  <2> DEFINE l == s * n
  <2>2. l \in Nat /\ c \in [1..l -> Byte]
    BY <1>1, <2>1
  <2> HIDE DEF l
  <2>3. c \in Seq(Byte) /\ Len(c) = l
    BY <2>2
  <2> QED BY <2>3 DEF l
<1>6. ASSUME NEW k \in 1..n, NEW j \in 1..s
      PROVE  (k - 1) * s + j \in 1..s * n /\ c[(k - 1) * s + j] = InMemory(F, v[k])[j]
  <2> DEFINE i == s * (k - 1) + (j - 1)
  <2>1. k - 1 \in Nat /\ j - 1 \in 0..s - 1
    BY <1>1
  <2>2. s * (k - 1) \in Nat /\ i \div s = k - 1 /\ i % s = j - 1
    BY <1>1, <2>1, Multiple
  <2>3. (k - 1) * s + j = i + 1
    BY <1>1, <2>2
  <2>4. i + 1 \in 1..s * n
    <3>1. n - k \in Nat /\ s * (n - k) \in Nat
      BY <1>1
    <3>2. s * n = s * (k - 1) + s + s * (n - k)
      BY <1>1
    <3> QED BY <1>1, <2>2, <3>1, <3>2
  <2>5. (i + 1) - 1 = i
    BY <1>1, <2>2
  <2> HIDE DEF i
  <2>6. In(i + 1) = InMemory(F, v[k])[j]
    <3>1. ((k - 1) + 1) = k /\ (j - 1) + 1 = j
      BY <1>1
    <3> QED BY <2>2, <2>5, <3>1
  <2> HIDE DEF In
  <2> QED BY <1>2, <2>3, <2>4, <2>6
<1> QED BY <1>1, <1>5, <1>6 DEF s, c


-----------------------------------------------------------------------------
(* What is written, and what it was counted to be *)

LEMMA CountsType ==
    /\ MaxVector \in Nat /\ 0..MaxVector \subseteq Counts
    /\ \A n \in Nat : n <= Largest => n \in Counts /\ n + 1 \in Counts
<1>1. MaxVector \in Nat /\ MaxVector <= Largest
  <2>1. MaxVector \in 0..Largest
    BY ByteAssumption
  <2>2. Largest \in Nat
    BY DEF Largest
  <2> QED BY <2>1, <2>2
<1>2. \A n \in Nat : n <= Largest => n \in Counts /\ n + 1 \in Counts
  BY DEF Counts, Largest
<1>3. \A n \in 0..MaxVector : n \in Nat /\ n <= Largest
  <2> DEFINE most == Largest
  <2>1. most \in Nat
    BY DEF Largest
  <2> HIDE DEF most
  <2>2. MaxVector \in Nat /\ MaxVector <= most
    BY <1>1 DEF most
  <2>3. \A n \in 0..MaxVector : n \in Nat /\ n <= most
    BY <2>1, <2>2
  <2> QED BY <2>3 DEF most
<1> QED BY <1>1, <1>2, <1>3

LEMMA CountWritten ==
    ASSUME NEW out \in Seq(Byte), NEW n \in Counts
    PROVE  /\ out \o CountBytes(n) \in Seq(Byte) /\ Len(out \o CountBytes(n)) = Len(out) + 4
           /\ Begins(out, out \o CountBytes(n))
<1>1. CountBytes(n) \in Seq(Byte) /\ Len(CountBytes(n)) = 4
  BY CountBytesType
<1> QED BY <1>1, BeginsJoined

LEMMA WriteBlockType ==
    ASSUME NEW out \in Seq(Byte), NEW n \in Counts, NEW bytes \in Seq(Byte)
    PROVE  LET w == WriteBlock(out, n, bytes)
           IN  /\ w \in Seq(Byte) /\ Begins(out, w) /\ Begins(out \o CountBytes(n) \o bytes, w)
               /\ Begins(out \o CountBytes(n), w)
               /\ out \o CountBytes(n) \o bytes \in Seq(Byte)
               /\ Len(w) = SizeBlock(Len(out), Len(bytes)) /\ Len(w) % 4 = 0 /\ Len(out) + 4 <= Len(w)
<1> DEFINE counted == out \o CountBytes(n)
           all == counted \o bytes
           w == Aligned(all, 4)
<1>1. counted \in Seq(Byte) /\ Len(counted) = Len(out) + 4 /\ Begins(out, counted)
  BY CountWritten
<1> HIDE DEF counted
<1>2. all \in Seq(Byte) /\ Len(all) = Len(out) + 4 + Len(bytes) /\ Begins(counted, all)
  BY <1>1, BeginsJoined
<1> HIDE DEF all
<1>3. w \in Seq(Byte) /\ Len(w) = Align(Len(all), 4) /\ Begins(all, w)
  BY <1>2, AlignedType DEF Grains
<1>4. Len(all) \in Nat /\ Len(all) <= Align(Len(all), 4) /\ Align(Len(all), 4) % 4 = 0
  BY <1>2, AlignProperty DEF Grains
<1> HIDE DEF w
<1>5. Begins(counted, w) /\ Begins(out, w)
  BY <1>1, <1>2, <1>3, BeginsTransitive
<1>6. Len(w) = SizeBlock(Len(out), Len(bytes)) /\ Len(w) % 4 = 0 /\ Len(out) + 4 <= Len(w)
  BY <1>2, <1>3, <1>4 DEF SizeBlock, size_type
<1>7. WriteBlock(out, n, bytes) = w
  BY DEF WriteBlock, size_type, w, all, counted
<1> QED BY <1>2, <1>3, <1>5, <1>6, <1>7 DEF all, counted

LEMMA WriteCountType ==
    ASSUME NEW F \in Flats, NEW d \in Nat \ {0}, NEW out \in Seq(Byte), NEW n \in Counts
    PROVE  LET w == WriteCount(out, F, d, n)
           IN  /\ w \in Seq(Byte) /\ Begins(out, w) /\ Begins(out \o CountBytes(n), w)
               /\ Len(w) = SizeCount(Len(out), F, d) /\ Len(w) % 4 = 0 /\ Len(out) + 4 <= Len(w)
               /\ Len(w) % elements_align(F, d) = 0
<1> DEFINE counted == out \o CountBytes(n)
           g == elements_align(F, d)
           w == Aligned(counted, g)
<1>1. counted \in Seq(Byte) /\ Len(counted) = Len(out) + 4 /\ Begins(out, counted)
  BY CountWritten
<1>2. g \in Grains /\ g >= 4
  BY ElementsAlign
<1> HIDE DEF counted, g
<1>3. w \in Seq(Byte) /\ Len(w) = Align(Len(counted), g) /\ Begins(counted, w)
  BY <1>1, <1>2, AlignedType
<1>4. /\ Len(counted) \in Nat /\ Len(counted) <= Align(Len(counted), g)
      /\ Align(Len(counted), g) % g = 0 /\ Align(Len(counted), g) % 4 = 0
  BY <1>1, <1>2, AlignProperty
<1> HIDE DEF w
<1>5. Begins(out, w)
  BY <1>1, <1>3, BeginsTransitive
<1>6. Len(w) = SizeCount(Len(out), F, d)
  BY <1>1, <1>3 DEF SizeCount, size_type, g
<1>7. WriteCount(out, F, d, n) = w
  BY DEF WriteCount, w, g, counted
<1> QED BY <1>1, <1>3, <1>4, <1>5, <1>6, <1>7 DEF counted, g

\* A value was written as it was counted, after what there was.  All but numbers
\* and structs end at a multiple of 4.
Wrote(F, d, out, w, sz) ==
    /\ w \in Seq(Byte) /\ Begins(out, w) /\ Len(w) = sz /\ Len(out) + 1 <= Len(w)
    /\ d > 0 \/ F.kind = "string" => Len(w) % 4 = 0

LEMMA TerminatedType ==
    ASSUME NEW s \in Seq(Byte), Len(s) <= Largest
    PROVE  Terminated(s) \in Seq(Byte) /\ Len(Terminated(s)) \in Counts
<1>1. Len(s) \in Counts /\ Len(s) + 1 \in Counts
  BY CountsType
<1>2. Append(s, 0) \in Seq(Byte) /\ Len(Append(s, 0)) = Len(s) + 1
  BY DEF Byte
<1> QED BY <1>1, <1>2 DEF Terminated

LEMMA WriteFlatType ==
    ASSUME NEW F \in Flats, NEW out \in Seq(Byte), NEW v \in FlatValues(F)
    PROVE  Wrote(F, 0, out, WriteFlat(out, F, v), SizeFlat(Len(out), F, v))
<1>1. CASE F.kind = "string"
  <2>1. Terminated(v) \in Seq(Byte) /\ Len(Terminated(v)) \in Counts
    BY <1>1, FlatValueType, TerminatedType
  <2> DEFINE t == Terminated(v)
             w == WriteBlock(out, Len(t), t)
  <2> HIDE DEF t
  <2>2. w \in Seq(Byte) /\ Begins(out, w) /\ Len(w) = SizeBlock(Len(out), Len(t)) /\ Len(w) % 4 = 0 /\ Len(out) + 4 <= Len(w)
    BY <2>1, WriteBlockType DEF t
  <2> HIDE DEF w
  <2>3. WriteFlat(out, F, v) = w /\ SizeFlat(Len(out), F, v) = SizeBlock(Len(out), Len(t))
    BY <1>1 DEF WriteFlat, SizeFlat, w, t
  <2> QED BY <2>2, <2>3 DEF Wrote
<1>2. CASE F.kind # "string"
  <2>1. is_trivially_copyable(F)
    BY <1>2, FlatType DEF is_trivially_copyable
  <2> DEFINE m == InMemory(F, v)
  <2>2. m \in Seq(Byte) /\ Len(m) = sizeof(F) /\ sizeof(F) \in Nat \ {0}
    BY <2>1, InMemoryType, SizeOf
  <2>3. WriteFlat(out, F, v) = out \o m /\ SizeFlat(Len(out), F, v) = Len(out) + sizeof(F)
    BY <1>2 DEF WriteFlat, SizeFlat
  <2> HIDE DEF m
  <2>4. out \o m \in Seq(Byte) /\ Len(out \o m) = Len(out) + Len(m) /\ Begins(out, out \o m)
    BY <2>2, BeginsJoined
  <2> QED BY <1>2, <2>2, <2>3, <2>4 DEF Wrote
<1> QED BY <1>1, <1>2

LEMMA WriteCopiedType ==
    ASSUME NEW F \in Flats, is_trivially_copyable(F), NEW out \in Seq(Byte),
           NEW n \in Counts, NEW v \in [1..n -> FlatValues(F)]
    PROVE  Wrote(F, 1, out, WriteCopied(out, F, v), SizeCopied(Len(out), F, v))
<1> DEFINE c == Contents(F, v)
           s == sizeof(F) * n
<1>1. n \in Nat /\ Len(v) = n
  BY DEF Counts
<1>2. c \in Seq(Byte) /\ Len(c) = s /\ s \in Nat
  BY <1>1, ContentsType
<1> HIDE DEF c
<1>3. CASE alignof(F) <= size_type
  <2> DEFINE w == WriteBlock(out, n, c)
  <2>1. w \in Seq(Byte) /\ Begins(out, w) /\ Len(w) = SizeBlock(Len(out), Len(c)) /\ Len(w) % 4 = 0 /\ Len(out) + 4 <= Len(w)
    BY <1>2, WriteBlockType
  <2>2. WriteCopied(out, F, v) = w /\ SizeCopied(Len(out), F, v) = SizeBlock(Len(out), s)
    BY <1>1, <1>3 DEF WriteCopied, SizeCopied, c
  <2> HIDE DEF w, s
  <2> QED BY <1>2, <2>1, <2>2 DEF Wrote
<1>4. CASE ~(alignof(F) <= size_type)
  <2> DEFINE o == WriteCount(out, F, 1, n)
             z == Zeros(s)
  <2>1. o \in Seq(Byte) /\ Begins(out, o) /\ Len(o) = SizeCount(Len(out), F, 1) /\ Len(o) % 4 = 0 /\ Len(out) + 4 <= Len(o)
    BY WriteCountType
  <2>2. z \in Seq(Byte) /\ Len(z) = s
    BY <1>2, ZerosType
  <2>3. WriteCopied(out, F, v) = o \o z /\ SizeCopied(Len(out), F, v) = SizeCount(Len(out), F, 1) + s
    BY <1>1, <1>2, <1>4 DEF WriteCopied, SizeCopied, WriteElements, c
  <2> HIDE DEF o, z
  <2>4. o \o z \in Seq(Byte) /\ Len(o \o z) = Len(o) + Len(z) /\ Begins(o, o \o z)
    BY <2>1, <2>2, BeginsJoined
  <2>5. Begins(out, o \o z)
    BY <2>1, <2>4, BeginsTransitive
  <2>6. s % 4 = 0
    <3>1. alignof(F) = 8
      BY <1>4, AlignOf DEF Widths, size_type
    <3>2. sizeof(F) \in Nat \ {0} /\ sizeof(F) % 8 = 0
      BY <3>1, SizeOf
    <3> DEFINE t == sizeof(F)
               q == t \div 8
    <3>3. q \in Nat /\ t = 8 * q
      <4> HIDE DEF t
      <4>1. t \in Nat /\ t % 8 = 0
        BY <3>2 DEF t
      <4> QED BY <4>1
    <3> HIDE DEF q
    <3>4. s = 4 * (2 * (q * n)) /\ q * n \in Nat
      BY <1>1, <3>3
    <3> HIDE DEF s
    <3> QED BY <3>4
  <2>7. Len(o \o z) % 4 = 0
    <3> HIDE DEF s
    <3>1. Len(o) \in Nat /\ s \in Nat /\ Len(o \o z) = Len(o) + s
      BY <1>2, <2>1, <2>2, <2>4
    <3>2. (Len(o) + s) % 4 = 0
      BY <2>1, <2>6, <3>1, AlignedSum DEF Grains
    <3> QED BY <3>1, <3>2
  <2> HIDE DEF s
  <2>8. Len(out) + 1 <= Len(o \o z) /\ Len(o \o z) = SizeCount(Len(out), F, 1) + s
    BY <1>2, <2>1, <2>2, <2>4
  <2> QED BY <2>3, <2>4, <2>5, <2>7, <2>8 DEF Wrote
<1> QED BY <1>3, <1>4

\* Elements are written, and counted, one after another.
Each(w, n, v, X, x, f) ==
    /\ w \in [0..n -> X] /\ w[0] = x /\ \A k \in 1..n : w[k] = f[<<w[k - 1], v[k]>>]
    /\ WriteEach(x, f, v) = w[n] /\ SizeEach(x, f, v) = w[n]
Closed(n, v, X, f) == \A o \in X : \A k \in 1..n : f[<<o, v[k]>>] \in X

LEMMA EachOf ==
    ASSUME NEW n \in Nat, NEW v, Len(v) = n, NEW X, NEW x \in X, NEW f, Closed(n, v, X, f)
    PROVE  \E w : Each(w, n, v, X, x, f)
<1> USE DEF Closed
<1> DEFINE step == [k \in 1..n |-> [o \in X |-> f[<<o, v[k]>>]]]
           Up(w) == w = [k \in 0..n |-> IF k = 0 THEN x ELSE f[<<w[k - 1], v[k]>>]]
           w == CHOOSE w : Up(w)
<1>1. step \in Steps(n, X)
  BY DEF Steps
<1>2. PICK g : Recurs(g, n, X, x, step)
  <2> HIDE DEF step
  <2> QED BY <1>1, Recursion
<1>3. g \in [0..n -> X] /\ g[0] = x /\ \A k \in 1..n : g[k] = f[<<g[k - 1], v[k]>>]
  <2>1. g \in [0..n -> X] /\ g[0] = x /\ \A k \in 1..n : g[k] = step[k][g[k - 1]]
    BY <1>2 DEF Recurs
  <2>2. ASSUME NEW k \in 1..n PROVE g[k] = f[<<g[k - 1], v[k]>>]
    <3>1. g[k - 1] \in X
      BY <2>1
    <3> QED BY <2>1, <3>1
  <2> QED BY <2>1, <2>2
<1> HIDE DEF step
<1>4. Up(g)
  <2>1. \A k \in 0..n : g[k] = IF k = 0 THEN x ELSE f[<<g[k - 1], v[k]>>]
    BY <1>3
  <2>2. g = [k \in 0..n |-> g[k]]
    BY <1>3
  <2> QED BY <2>1, <2>2
<1>5. Up(w)
  <2> HIDE DEF Up
  <2> QED BY <1>4
<1>6. WriteEach(x, f, v) = w[n] /\ SizeEach(x, f, v) = w[n]
  BY DEF WriteEach, SizeEach
<1> HIDE DEF w
<1>7. w[0] = x /\ \A k \in 1..n : w[k] = f[<<w[k - 1], v[k]>>]
  <2>1. \A k \in 0..n : w[k] = IF k = 0 THEN x ELSE f[<<w[k - 1], v[k]>>]
    BY <1>5
  <2>2. 0 \in 0..n /\ \A k \in 1..n : k \in 0..n /\ k # 0
    OBVIOUS
  <2> HIDE DEF Up
  <2> QED BY <2>1, <2>2
<1>8. \A k \in 0..n : w[k] \in X
  <2> DEFINE S == {k \in 0..n : w[k] \in X}
  <2>1. 0 \in S
    BY <1>7
  <2>2. ASSUME NEW k \in 1..n, k - 1 \in S PROVE k \in S
    <3>1. k \in 0..n /\ w[k - 1] \in X
      BY <2>2
    <3>2. f[<<w[k - 1], v[k]>>] \in X
      BY <3>1
    <3> QED BY <1>7, <3>1, <3>2
  <2> HIDE DEF S
  <2>3. 0..n \subseteq S
    BY <2>1, <2>2, UpTo
  <2> QED BY <2>3 DEF S
<1>9. w \in [0..n -> X]
  <2>1. w = [k \in 0..n |-> w[k]]
    BY <1>5
  <2> QED BY <1>8, <2>1
<1> QED BY <1>6, <1>7, <1>9 DEF Each


WriteStep(F, d, write) ==
    [x \in Seq(Byte) \X Values(F, d) |->
        CASE d = 0 -> WriteFlat(x[1], F, x[2])
          [] d = 1 /\ is_trivially_copyable(F) -> WriteCopied(x[1], F, x[2])
          [] OTHER -> WriteEach(WriteCount(x[1], F, d, Len(x[2])), write, x[2])]
Writing(F, m, f) == f = [d \in 0..m |-> WriteStep(F, d, f[d - 1])]

LEMMA WritingExists ==
    ASSUME NEW F, NEW m \in Nat
    PROVE  \E f : Writing(F, m, f)
<1> DEFINE S == {l \in 0..m : \E f : Writing(F, l, f)}
<1>1. 0 \in S
  <2> DEFINE w == WriteStep(F, 0, <<>>)
             f == [d \in 0..0 |-> w]
  <2>1. WriteStep(F, 0, f[-1]) = w
    BY DEF WriteStep
  <2>2. f = [d \in 0..0 |-> WriteStep(F, d, f[d - 1])]
    <3>1. \A d \in 0..0 : WriteStep(F, d, f[d - 1]) = w
      <4>1. \A d \in 0..0 : d = 0 /\ d - 1 = -1
        OBVIOUS
      <4> HIDE DEF f, w
      <4> QED BY <2>1, <4>1
    <3> HIDE DEF w
    <3> QED BY <3>1
  <2> HIDE DEF f
  <2>3. Writing(F, 0, f)
    BY <2>2 DEF Writing
  <2> QED BY <2>3
<1>2. ASSUME NEW l \in 1..m, l - 1 \in S PROVE l \in S
  <2>1. PICK f : Writing(F, l - 1, f)
    BY <1>2
  <2> DEFINE g == [d \in 0..l |-> IF d = l THEN WriteStep(F, l, f[l - 1]) ELSE f[d]]
  <2>2. ASSUME NEW d \in 0..l PROVE g[d] = WriteStep(F, d, g[d - 1])
    <3>1. CASE d = l
      <4>1. l - 1 \in 0..l /\ l - 1 # l
        OBVIOUS
      <4> QED BY <3>1, <4>1
    <3>2. CASE d # l /\ d = 0
      <4>1. g[d] = f[d] /\ d \in 0..l - 1
        BY <3>2
      <4>2. f[d] = WriteStep(F, 0, f[d - 1])
        BY <2>1, <3>2, <4>1 DEF Writing
      <4> HIDE DEF g
      <4> QED BY <3>2, <4>1, <4>2 DEF WriteStep
    <3>3. CASE d # l /\ d # 0
      <4>1. d \in 0..l - 1 /\ d - 1 \in 0..l /\ d - 1 # l
        BY <3>3
      <4>2. g[d] = f[d] /\ g[d - 1] = f[d - 1]
        BY <3>3, <4>1
      <4>3. f[d] = WriteStep(F, d, f[d - 1])
        BY <2>1, <4>1 DEF Writing
      <4> HIDE DEF g
      <4> QED BY <4>2, <4>3
    <3> QED BY <3>1, <3>2, <3>3
  <2>3. g = [d \in 0..l |-> g[d]]
    OBVIOUS
  <2> HIDE DEF g
  <2>4. Writing(F, l, g)
    BY <2>2, <2>3 DEF Writing
  <2> QED BY <2>4
<1>3. m \in S
  <2> HIDE DEF S
  <2>1. 0..m \subseteq S
    BY <1>1, <1>2, UpTo
  <2> QED BY <2>1
<1> QED BY <1>3


SizeStep(F, d, add) ==
    [x \in Nat \X Values(F, d) |->
        CASE d = 0 -> SizeFlat(x[1], F, x[2])
          [] d = 1 /\ is_trivially_copyable(F) -> SizeCopied(x[1], F, x[2])
          [] OTHER -> SizeEach(SizeCount(x[1], F, d), add, x[2])]
Sizing(F, m, f) == f = [d \in 0..m |-> SizeStep(F, d, f[d - 1])]

LEMMA SizingExists ==
    ASSUME NEW F, NEW m \in Nat
    PROVE  \E f : Sizing(F, m, f)
<1> DEFINE S == {l \in 0..m : \E f : Sizing(F, l, f)}
<1>1. 0 \in S
  <2> DEFINE w == SizeStep(F, 0, <<>>)
             f == [d \in 0..0 |-> w]
  <2>1. SizeStep(F, 0, f[-1]) = w
    BY DEF SizeStep
  <2>2. f = [d \in 0..0 |-> SizeStep(F, d, f[d - 1])]
    <3>1. \A d \in 0..0 : SizeStep(F, d, f[d - 1]) = w
      <4>1. \A d \in 0..0 : d = 0 /\ d - 1 = -1
        OBVIOUS
      <4> HIDE DEF f, w
      <4> QED BY <2>1, <4>1
    <3> HIDE DEF w
    <3> QED BY <3>1
  <2> HIDE DEF f
  <2>3. Sizing(F, 0, f)
    BY <2>2 DEF Sizing
  <2> QED BY <2>3
<1>2. ASSUME NEW l \in 1..m, l - 1 \in S PROVE l \in S
  <2>1. PICK f : Sizing(F, l - 1, f)
    BY <1>2
  <2> DEFINE g == [d \in 0..l |-> IF d = l THEN SizeStep(F, l, f[l - 1]) ELSE f[d]]
  <2>2. ASSUME NEW d \in 0..l PROVE g[d] = SizeStep(F, d, g[d - 1])
    <3>1. CASE d = l
      <4>1. l - 1 \in 0..l /\ l - 1 # l
        OBVIOUS
      <4> QED BY <3>1, <4>1
    <3>2. CASE d # l /\ d = 0
      <4>1. g[d] = f[d] /\ d \in 0..l - 1
        BY <3>2
      <4>2. f[d] = SizeStep(F, 0, f[d - 1])
        BY <2>1, <3>2, <4>1 DEF Sizing
      <4> HIDE DEF g
      <4> QED BY <3>2, <4>1, <4>2 DEF SizeStep
    <3>3. CASE d # l /\ d # 0
      <4>1. d \in 0..l - 1 /\ d - 1 \in 0..l /\ d - 1 # l
        BY <3>3
      <4>2. g[d] = f[d] /\ g[d - 1] = f[d - 1]
        BY <3>3, <4>1
      <4>3. f[d] = SizeStep(F, d, f[d - 1])
        BY <2>1, <4>1 DEF Sizing
      <4> HIDE DEF g
      <4> QED BY <4>2, <4>3
    <3> QED BY <3>1, <3>2, <3>3
  <2>3. g = [d \in 0..l |-> g[d]]
    OBVIOUS
  <2> HIDE DEF g
  <2>4. Sizing(F, l, g)
    BY <2>2, <2>3 DEF Sizing
  <2> QED BY <2>4
<1>3. m \in S
  <2> HIDE DEF S
  <2>1. 0..m \subseteq S
    BY <1>1, <1>2, UpTo
  <2> QED BY <2>1
<1> QED BY <1>3

\* A value of a vector is its elements.
LEMMA VectorType ==
    ASSUME NEW F, NEW d \in Nat \ {0}, NEW v \in Values(F, d)
    PROVE  Len(v) \in Counts /\ Len(v) \in Nat /\ v \in [1..Len(v) -> Values(F, d - 1)]
<1>1. v \in Vectors(Values(F, d - 1))
  BY ValuesOf
<1>2. PICK n \in 0..MaxVector : v \in [1..n -> Values(F, d - 1)]
  BY <1>1 DEF Vectors
<1>3. n \in Nat /\ n \in Counts
  BY CountsType
<1>4. Len(v) = n
  BY <1>2, <1>3
<1> QED BY <1>2, <1>3, <1>4

WritesRight(F, d, write, add) ==
    /\ \A out \in Seq(Byte) : \A v \in Values(F, d) : Wrote(F, d, out, write[<<out, v>>], add[<<Len(out), v>>])
    /\ \A z \in Nat : \A v \in Values(F, d) : add[<<z, v>>] \in Nat

LEMMA WriteEachType ==
    ASSUME NEW F \in Flats, NEW d \in Nat \ {0}, d > 1 \/ ~is_trivially_copyable(F),
           NEW out \in Seq(Byte), NEW v \in Values(F, d), NEW write, NEW add, WritesRight(F, d - 1, write, add)
    PROVE  LET n == Len(v)
               first == WriteCount(out, F, d, n)
               w == WriteEach(first, write, v)
           IN  /\ Wrote(F, d, out, w, SizeEach(SizeCount(Len(out), F, d), add, v))
               /\ \E each \in [0..n -> Seq(Byte)] :
                    /\ each[0] = first /\ each[n] = w
                    /\ \A k \in 1..n : each[k] = write[<<each[k - 1], v[k]>>]
                    /\ \A k \in 0..n : /\ Begins(each[k], w) /\ Len(each[k]) % 4 = 0
                                       /\ Len(out) + 4 + k <= Len(each[k])
<1> DEFINE n == Len(v)
           first == WriteCount(out, F, d, n)
           w == WriteEach(first, write, v)
           sz == SizeCount(Len(out), F, d)
<1>1. n \in Counts /\ n \in Nat /\ \A k \in 1..n : v[k] \in Values(F, d - 1)
  <2>1. v \in [1..n -> Values(F, d - 1)]
    BY VectorType
  <2>2. n \in Counts /\ n \in Nat
    BY VectorType
  <2> QED BY <2>1, <2>2
<1>2. /\ first \in Seq(Byte) /\ Begins(out, first)
      /\ Len(first) = sz /\ Len(first) % 4 = 0 /\ Len(out) + 4 <= Len(first)
  BY <1>1, WriteCountType
<1> HIDE DEF first, sz
<1>3. PICK each \in [0..n -> Seq(Byte)] :
        each[0] = first /\ (\A k \in 1..n : each[k] = write[<<each[k - 1], v[k]>>]) /\ w = each[n]
  <2>1. Closed(n, v, Seq(Byte), write)
    BY <1>1 DEF Closed, Wrote, WritesRight
  <2>2. \E each : Each(each, n, v, Seq(Byte), first, write)
    <3> HIDE DEF n
    <3>1. n \in Nat /\ Len(v) = n
      BY <1>1 DEF n
    <3> QED BY <1>2, <2>1, <3>1, EachOf
  <2> QED BY <2>2 DEF Each
<1>4. PICK sum \in [0..n -> Nat] :
        /\ sum[0] = sz /\ \A k \in 1..n : sum[k] = add[<<sum[k - 1], v[k]>>]
        /\ SizeEach(sz, add, v) = sum[n]
  <2>1. Closed(n, v, Nat, add)
    BY <1>1 DEF Closed, WritesRight
  <2>2. sz \in Nat
    BY <1>2
  <2>3. \E sum : Each(sum, n, v, Nat, sz, add)
    <3> HIDE DEF n
    <3>1. n \in Nat /\ Len(v) = n
      BY <1>1 DEF n
    <3> QED BY <2>1, <2>2, <3>1, EachOf
  <2> QED BY <2>3 DEF Each
<1> HIDE DEF w, n
<1>5. \A k \in 0..n : each[k] \in Seq(Byte)
  OBVIOUS
<1>6. ASSUME NEW k \in 1..n
      PROVE  /\ k - 1 \in 0..n /\ k \in 0..n
             /\ Wrote(F, d - 1, each[k - 1], each[k], add[<<Len(each[k - 1]), v[k]>>])
  <2>1. k - 1 \in 0..n /\ k \in 0..n /\ each[k - 1] \in Seq(Byte) /\ v[k] \in Values(F, d - 1)
    BY <1>1, <1>5
  <2>2. Wrote(F, d - 1, each[k - 1], write[<<each[k - 1], v[k]>>], add[<<Len(each[k - 1]), v[k]>>])
    BY <2>1 DEF WritesRight
  <2> QED BY <1>3, <2>1, <2>2
<1>7. d - 1 > 0 \/ F.kind = "string"
  BY FlatType DEF is_trivially_copyable
<1> DEFINE S == {k \in 0..n : /\ Begins(out, each[k]) /\ Len(each[k]) = sum[k] /\ Len(each[k]) % 4 = 0
                              /\ Len(out) + 4 + k <= Len(each[k])}
<1>8. 0 \in S
  BY <1>1, <1>2, <1>3, <1>4
<1>9. ASSUME NEW k \in 1..n, k - 1 \in S PROVE k \in S
  <2>1. Wrote(F, d - 1, each[k - 1], each[k], add[<<Len(each[k - 1]), v[k]>>])
    BY <1>6
  <2>2. /\ each[k - 1] \in Seq(Byte) /\ each[k] \in Seq(Byte) /\ k \in 0..n
        /\ Begins(each[k - 1], each[k]) /\ Len(each[k]) % 4 = 0 /\ Len(each[k - 1]) + 1 <= Len(each[k])
    BY <1>5, <1>6, <1>7, <2>1 DEF Wrote
  <2>3. Len(each[k]) = sum[k]
    BY <1>4, <1>9, <2>1 DEF Wrote
  <2>4. Begins(out, each[k])
    BY <1>9, <2>2, BeginsTransitive
  <2>5. Len(out) + 4 + k <= Len(each[k])
    <3> DEFINE l == Len(out)
               p == Len(each[k - 1])
               q == Len(each[k])
    <3>1. l + 4 + (k - 1) <= p /\ p + 1 <= q
      BY <1>9, <2>2
    <3>2. l \in Nat /\ p \in Nat /\ q \in Nat
      <4>1. \A s \in Seq(Byte) : Len(s) \in Nat
        OBVIOUS
      <4>2. each[k - 1] \in Seq(Byte) /\ each[k] \in Seq(Byte)
        BY <2>2
      <4> QED BY <4>1, <4>2
    <3>3. k \in Nat
      BY <1>1
    <3> HIDE DEF l, p, q
    <3>4. l + 4 + k <= q
      BY <3>1, <3>2, <3>3
    <3> QED BY <3>4 DEF l, q
  <2> QED BY <2>2, <2>3, <2>4, <2>5
<1>10. 0..n \subseteq S
  <2> HIDE DEF S
  <2> QED BY <1>1, <1>8, <1>9, UpTo
<1>11. n \in 0..n
  BY <1>1
<1>12. Wrote(F, d, out, w, SizeEach(sz, add, v))
  <2>1. w \in Seq(Byte) /\ Begins(out, w) /\ Len(w) = sum[n] /\ Len(w) % 4 = 0 /\ Len(out) + 4 + n <= Len(w)
    BY <1>3, <1>5, <1>10, <1>11
  <2>2. Len(out) \in Nat /\ Len(w) \in Nat
    BY <2>1
  <2> QED BY <1>1, <1>4, <2>1, <2>2 DEF Wrote
\* Backwards: each is what the whole begins with.
<1>13. \A k \in 0..n : Begins(each[n - k], w)
  <2> DEFINE R == {k \in 0..n : Begins(each[n - k], w)}
  <2>1. 0 \in R
    BY <1>1, <1>3, <1>5, BeginsSelf
  <2>2. ASSUME NEW k \in 1..n, k - 1 \in R PROVE k \in R
    <3>1. n - (k - 1) \in 1..n /\ (n - (k - 1)) - 1 = n - k /\ k \in 0..n
      BY <1>1
    <3>2. Begins(each[n - k], each[n - (k - 1)])
      BY <1>6, <3>1 DEF Wrote
    <3>3. each[n - k] \in Seq(Byte) /\ each[n - (k - 1)] \in Seq(Byte) /\ w \in Seq(Byte)
      BY <1>3, <1>5, <1>6, <1>11, <3>1
    <3>4. Begins(each[n - k], w)
      BY <2>2, <3>2, <3>3, BeginsTransitive
    <3> QED BY <3>1, <3>4
  <2> HIDE DEF R
  <2>3. 0..n \subseteq R
    BY <1>1, <2>1, <2>2, UpTo
  <2> QED BY <2>3 DEF R
<1>14. \A k \in 0..n : Begins(each[k], w)
  <2>1. \A k \in 0..n : n - k \in 0..n /\ n - (n - k) = k
    BY <1>1
  <2> QED BY <1>13, <2>1
<1>15. \A k \in 0..n : Len(each[k]) % 4 = 0 /\ Len(out) + 4 + k <= Len(each[k])
  BY <1>10
<1> HIDE DEF S
<1> QED BY <1>3, <1>12, <1>14, <1>15 DEF n, first, w, sz


WriteValue(F, d, write, out, v) ==
    CASE d = 0 -> WriteFlat(out, F, v)
      [] d = 1 /\ is_trivially_copyable(F) -> WriteCopied(out, F, v)
      [] OTHER -> WriteEach(WriteCount(out, F, d, Len(v)), write, v)
SizeValue(F, d, add, z, v) ==
    CASE d = 0 -> SizeFlat(z, F, v)
      [] d = 1 /\ is_trivially_copyable(F) -> SizeCopied(z, F, v)
      [] OTHER -> SizeEach(SizeCount(z, F, d), add, v)

LEMMA ValueSteps ==
    ASSUME NEW F, NEW d \in Nat, NEW v \in Values(F, d), NEW w
    PROVE  /\ \A out \in Seq(Byte) : WriteStep(F, d, w)[<<out, v>>] = WriteValue(F, d, w, out, v)
           /\ \A z \in Nat : SizeStep(F, d, w)[<<z, v>>] = SizeValue(F, d, w, z, v)
<1>2. WriteStep(F, d, w) = [x \in Seq(Byte) \X Values(F, d) |-> WriteValue(F, d, w, x[1], x[2])]
  BY DEF WriteStep, WriteValue
<1>3. SizeStep(F, d, w) = [x \in Nat \X Values(F, d) |-> SizeValue(F, d, w, x[1], x[2])]
  BY DEF SizeStep, SizeValue
<1> QED BY <1>2, <1>3

\* What ostream writes of a value is what sstream counted, for every type.
LEMMA WriteTypes ==
    ASSUME NEW F \in Flats, NEW m \in Nat, NEW f, Writing(F, m, f), NEW g, Sizing(F, m, g)
    PROVE  \A d \in 0..m : WritesRight(F, d, f[d], g[d])
<1> DEFINE S == {d \in 0..m : WritesRight(F, d, f[d], g[d])}
<1>1. \A d \in 0..m : f[d] = WriteStep(F, d, f[d - 1]) /\ g[d] = SizeStep(F, d, g[d - 1])
  BY DEF Writing, Sizing
\* Any size is that of some bytes: what is counted does not depend on them.
<1>2. ASSUME NEW d, NEW v, NEW z \in Nat, \A out \in Seq(Byte) : g[d][<<Len(out), v>>] \in Nat
      PROVE  g[d][<<z, v>>] \in Nat
  BY <1>2, ZerosType
<1>3. ASSUME NEW d, NEW v, NEW out \in Seq(Byte), Wrote(F, d, out, f[d][<<out, v>>], g[d][<<Len(out), v>>])
      PROVE  g[d][<<Len(out), v>>] \in Nat
  <2>1. f[d][<<out, v>>] \in Seq(Byte) /\ g[d][<<Len(out), v>>] = Len(f[d][<<out, v>>])
    BY <1>3 DEF Wrote
  <2>2. \A s \in Seq(Byte) : Len(s) \in Nat
    OBVIOUS
  <2> QED BY <2>1, <2>2
<1>4. ASSUME NEW d \in 0..m,
             \A out \in Seq(Byte) : \A v \in Values(F, d) : Wrote(F, d, out, f[d][<<out, v>>], g[d][<<Len(out), v>>])
      PROVE  d \in S
  <2>1. ASSUME NEW v \in Values(F, d), NEW z \in Nat PROVE g[d][<<z, v>>] \in Nat
    BY <1>2, <1>3, <1>4
  <2>2. WritesRight(F, d, f[d], g[d])
    BY <1>4, <2>1 DEF WritesRight
  <2> QED BY <2>2
<1>5. 0 \in S
  <2>1. 0 \in 0..m /\ Values(F, 0) = FlatValues(F)
    BY ValuesOf
  <2>2. ASSUME NEW out \in Seq(Byte), NEW v \in Values(F, 0)
        PROVE  Wrote(F, 0, out, f[0][<<out, v>>], g[0][<<Len(out), v>>])
    <3>1. f[0][<<out, v>>] = WriteFlat(out, F, v)
      BY <1>1, <2>1, ValueSteps DEF WriteValue
    <3>2. Len(out) \in Nat
      OBVIOUS
    <3>3. g[0][<<Len(out), v>>] = SizeFlat(Len(out), F, v)
      BY <1>1, <2>1, <3>2, ValueSteps DEF SizeValue
    <3> QED BY <2>1, <3>1, <3>3, WriteFlatType
  <2> QED BY <1>4, <2>1, <2>2
<1>6. ASSUME NEW d \in 1..m, d - 1 \in S PROVE d \in S
  <2>1. d \in 0..m /\ d \in Nat \ {0} /\ d # 0 /\ d - 1 \in 0..m
    OBVIOUS
  <2>2. ASSUME NEW out \in Seq(Byte), NEW v \in Values(F, d)
        PROVE  Wrote(F, d, out, f[d][<<out, v>>], g[d][<<Len(out), v>>])
    <3>1. Len(out) \in Nat
      OBVIOUS
    <3>2. CASE d = 1 /\ is_trivially_copyable(F)
      <4>1. f[d][<<out, v>>] = WriteCopied(out, F, v) /\ g[d][<<Len(out), v>>] = SizeCopied(Len(out), F, v)
        BY <1>1, <2>1, <3>1, <3>2, ValueSteps DEF WriteValue, SizeValue
      <4>2. Len(v) \in Counts /\ v \in [1..Len(v) -> FlatValues(F)]
        <5>1. Len(v) \in Counts /\ v \in [1..Len(v) -> Values(F, d - 1)]
          BY <2>1, VectorType
        <5>2. d - 1 = 0 /\ Values(F, 0) = FlatValues(F)
          BY <3>2, ValuesOf
        <5> QED BY <5>1, <5>2
      <4>3. Wrote(F, 1, out, WriteCopied(out, F, v), SizeCopied(Len(out), F, v))
        BY <3>2, <4>2, WriteCopiedType
      <4> QED BY <3>2, <4>1, <4>3
    <3>3. CASE ~(d = 1 /\ is_trivially_copyable(F))
      <4>1. f[d][<<out, v>>] = WriteEach(WriteCount(out, F, d, Len(v)), f[d - 1], v)
        BY <1>1, <2>1, <3>3, ValueSteps DEF WriteValue
      <4>2. g[d][<<Len(out), v>>] = SizeEach(SizeCount(Len(out), F, d), g[d - 1], v)
        BY <1>1, <2>1, <3>1, <3>3, ValueSteps DEF SizeValue
      <4>3. d > 1 \/ ~is_trivially_copyable(F)
        BY <3>3
      <4>4. WritesRight(F, d - 1, f[d - 1], g[d - 1])
        BY <1>6
      <4>5. Wrote(F, d, out, WriteEach(WriteCount(out, F, d, Len(v)), f[d - 1], v),
                             SizeEach(SizeCount(Len(out), F, d), g[d - 1], v))
        BY <2>1, <4>3, <4>4, WriteEachType
      <4> QED BY <4>1, <4>2, <4>5
    <3> QED BY <3>2, <3>3
  <2> QED BY <1>4, <2>1, <2>2
<1> HIDE DEF S
<1>7. 0..m \subseteq S
  BY <1>5, <1>6, UpTo
<1> QED BY <1>7 DEF S


\* The function Write applies, and SizeWith.
Writer(T) == CHOOSE f : Writing(T.of, T.depth, f)
Sizer(T) == CHOOSE f : Sizing(T.of, T.depth, f)

LEMMA WriteOf ==
    ASSUME NEW T \in Types
    PROVE  /\ T.of \in Flats /\ T.depth \in Nat
           /\ Writing(T.of, T.depth, Writer(T)) /\ Sizing(T.of, T.depth, Sizer(T))
           /\ \A out : \A v : Write(out, T, v) = Writer(T)[T.depth][<<out, v>>]
           /\ \A z : \A v : SizeWith(z, T, v) = Sizer(T)[T.depth][<<z, v>>]
<1>1. T.of \in Flats /\ T.depth \in Nat
  BY DEF Types
<1>2. Writing(T.of, T.depth, Writer(T))
  BY <1>1, WritingExists DEF Writer
<1>3. Sizing(T.of, T.depth, Sizer(T))
  BY <1>1, SizingExists DEF Sizer
<1>4. \A out : \A v : Write(out, T, v) = Writer(T)[T.depth][<<out, v>>]
  BY DEF Write, Writer, Writing, WriteStep
<1>5. \A z : \A v : SizeWith(z, T, v) = Sizer(T)[T.depth][<<z, v>>]
  BY DEF SizeWith, Sizer, Sizing, SizeStep
<1> QED BY <1>1, <1>2, <1>3, <1>4, <1>5

LEMMA WroteOne ==
    ASSUME NEW T \in Types, NEW out \in Seq(Byte), NEW v \in Values(T.of, T.depth)
    PROVE  Wrote(T.of, T.depth, out, Write(out, T, v), SizeWith(Len(out), T, v))
<1>1. /\ T.of \in Flats /\ T.depth \in Nat
      /\ Writing(T.of, T.depth, Writer(T)) /\ Sizing(T.of, T.depth, Sizer(T))
  BY WriteOf
<1>2. T.depth \in 0..T.depth
  BY <1>1
<1>3. WritesRight(T.of, T.depth, Writer(T)[T.depth], Sizer(T)[T.depth])
  BY <1>1, <1>2, WriteTypes
<1>4. /\ Write(out, T, v) = Writer(T)[T.depth][<<out, v>>]
      /\ SizeWith(Len(out), T, v) = Sizer(T)[T.depth][<<Len(out), v>>]
  BY WriteOf
<1> QED BY <1>3, <1>4 DEF WritesRight

\* The arguments of a call, one after another.
LEMMA ArgumentsType ==
    ASSUME NEW types \in Seq(Types), NEW values \in Arguments(types)
    PROVE  /\ Len(types) \in Nat /\ DOMAIN types = 1..Len(types) /\ DOMAIN values = DOMAIN types
           /\ \A k \in 1..Len(types) : /\ types[k] \in Types /\ types[k].of \in Flats /\ types[k].depth \in Nat
                                       /\ values[k] \in Values(types[k].of, types[k].depth)
<1>1. Len(types) \in Nat /\ DOMAIN types = 1..Len(types) /\ \A k \in 1..Len(types) : types[k] \in Types
  OBVIOUS
<1>2. \A k \in 1..Len(types) : types[k].of \in Flats /\ types[k].depth \in Nat
  BY <1>1, WriteOf
<1>3. DOMAIN values = DOMAIN types /\ \A k \in DOMAIN types : values[k] \in Values(types[k].of, types[k].depth)
  BY DEF Arguments
<1> QED BY <1>1, <1>2, <1>3

LEMMA WrittenOf ==
    ASSUME NEW types \in Seq(Types), NEW values \in Arguments(types)
    PROVE  LET n == Len(types)
               W == Written(types, values)
           IN  /\ W \in [0..n -> Seq(Byte)] /\ W[0] = <<>>
               /\ \A k \in 1..n : W[k] = Write(W[k - 1], types[k], values[k])
<1> DEFINE n == Len(types)
           step == [k \in 1..n |-> [o \in Seq(Byte) |-> Write(o, types[k], values[k])]]
           Up(f) == f = [k \in 0..n |-> IF k = 0 THEN <<>> ELSE Write(f[k - 1], types[k], values[k])]
           W == CHOOSE f : Up(f)
<1>1. n \in Nat /\ \A k \in 1..n : types[k] \in Types /\ values[k] \in Values(types[k].of, types[k].depth)
  BY ArgumentsType
<1>2. \A k \in 1..n : \A o \in Seq(Byte) : Write(o, types[k], values[k]) \in Seq(Byte)
  BY <1>1, WroteOne DEF Wrote
<1>3. step \in Steps(n, Seq(Byte))
  BY <1>2 DEF Steps
<1>4. PICK g : Recurs(g, n, Seq(Byte), <<>>, step)
  <2> HIDE DEF step, n
  <2>1. <<>> \in Seq(Byte)
    OBVIOUS
  <2> QED BY <1>1, <1>3, <2>1, Recursion
<1>5. g \in [0..n -> Seq(Byte)] /\ g[0] = <<>> /\ \A k \in 1..n : g[k] = Write(g[k - 1], types[k], values[k])
  <2>1. g \in [0..n -> Seq(Byte)] /\ g[0] = <<>> /\ \A k \in 1..n : g[k] = step[k][g[k - 1]]
    BY <1>4 DEF Recurs
  <2>2. ASSUME NEW k \in 1..n PROVE g[k] = Write(g[k - 1], types[k], values[k])
    <3>1. k - 1 \in 0..n
      BY <1>1
    <3>2. g[k - 1] \in Seq(Byte)
      BY <2>1, <3>1
    <3> QED BY <2>1, <3>2
  <2> QED BY <2>1, <2>2
<1> HIDE DEF step
<1>6. Up(g)
  <2>1. \A k \in 0..n : g[k] = IF k = 0 THEN <<>> ELSE Write(g[k - 1], types[k], values[k])
    BY <1>5
  <2>2. g = [k \in 0..n |-> g[k]]
    BY <1>5
  <2> QED BY <2>1, <2>2
<1>7. Up(W)
  <2> HIDE DEF Up
  <2> QED BY <1>6
<1>8. Written(types, values) = W
  BY DEF Written
<1> HIDE DEF W
<1>9. W[0] = <<>> /\ \A k \in 1..n : W[k] = Write(W[k - 1], types[k], values[k])
  <2>1. \A k \in 0..n : W[k] = IF k = 0 THEN <<>> ELSE Write(W[k - 1], types[k], values[k])
    BY <1>7
  <2>2. 0 \in 0..n /\ \A k \in 1..n : k \in 0..n /\ k # 0
    BY <1>1
  <2> HIDE DEF Up
  <2> QED BY <2>1, <2>2
<1>10. \A k \in 0..n : W[k] \in Seq(Byte)
  <2> DEFINE S == {k \in 0..n : W[k] \in Seq(Byte)}
  <2>1. 0 \in S
    <3>1. 0 \in 0..n /\ <<>> \in Seq(Byte)
      BY <1>1
    <3> QED BY <1>9, <3>1
  <2>2. ASSUME NEW k \in 1..n, k - 1 \in S PROVE k \in S
    <3>1. k \in 0..n /\ W[k - 1] \in Seq(Byte)
      BY <1>1, <2>2
    <3>2. Write(W[k - 1], types[k], values[k]) \in Seq(Byte)
      BY <1>2, <3>1
    <3> QED BY <1>9, <3>1, <3>2
  <2> HIDE DEF S
  <2>3. 0..n \subseteq S
    BY <1>1, <2>1, <2>2, UpTo
  <2> QED BY <2>3 DEF S
<1>11. W \in [0..n -> Seq(Byte)]
  <2>1. W = [k \in 0..n |-> W[k]]
    BY <1>7
  <2> QED BY <1>10, <2>1
<1> QED BY <1>8, <1>9, <1>11


LEMMA SizesOf ==
    ASSUME NEW types \in Seq(Types), NEW values \in Arguments(types)
    PROVE  \A k \in 0..Len(types) : Sizes(types, values)[k] = Len(Written(types, values)[k])
<1> DEFINE n == Len(types)
           W == Written(types, values)
           Up(f) == f = [k \in 0..n |-> IF k = 0 THEN 0 ELSE SizeWith(f[k - 1], types[k], values[k])]
           Z == CHOOSE f : Up(f)
<1>1. n \in Nat /\ \A k \in 1..n : types[k] \in Types /\ values[k] \in Values(types[k].of, types[k].depth)
  BY ArgumentsType
<1>2. W \in [0..n -> Seq(Byte)] /\ W[0] = <<>> /\ \A k \in 1..n : W[k] = Write(W[k - 1], types[k], values[k])
  BY WrittenOf
<1> HIDE DEF W, n
<1>3. ASSUME NEW k \in 1..n PROVE SizeWith(Len(W[k - 1]), types[k], values[k]) = Len(W[k])
  <2>1. k - 1 \in 0..n /\ W[k - 1] \in Seq(Byte)
    BY <1>1, <1>2
  <2>2. Wrote(types[k].of, types[k].depth, W[k - 1], W[k], SizeWith(Len(W[k - 1]), types[k], values[k]))
    BY <1>1, <1>2, <2>1, WroteOne
  <2> QED BY <2>2 DEF Wrote
<1>4. Up([k \in 0..n |-> Len(W[k])])
  <2> DEFINE g == [k \in 0..n |-> Len(W[k])]
  <2>1. ASSUME NEW k \in 0..n PROVE g[k] = IF k = 0 THEN 0 ELSE SizeWith(g[k - 1], types[k], values[k])
    <3>1. CASE k = 0
      BY <1>2, <3>1
    <3>2. CASE k # 0
      <4>1. k \in 1..n /\ k - 1 \in 0..n
        BY <1>1, <3>2
      <4> QED BY <1>3, <3>2, <4>1
    <3> QED BY <3>1, <3>2
  <2>2. g = [k \in 0..n |-> g[k]]
    OBVIOUS
  <2> HIDE DEF g
  <2>3. Up(g)
    BY <2>1, <2>2
  <2> QED BY <2>3 DEF g
<1>5. Up(Z)
  <2> HIDE DEF Up
  <2> QED BY <1>4
<1>6. Sizes(types, values) = Z
  BY DEF Sizes, n
<1> HIDE DEF Z
<1> DEFINE S == {k \in 0..n : Z[k] = Len(W[k])}
<1>7. \A k \in 0..n : Z[k] = IF k = 0 THEN 0 ELSE SizeWith(Z[k - 1], types[k], values[k])
  BY <1>5
<1> HIDE DEF Up
<1>8. 0 \in S
  <2>1. 0 \in 0..n /\ Len(<<>>) = 0
    BY <1>1
  <2> QED BY <1>2, <1>7, <2>1
<1>9. ASSUME NEW k \in 1..n, k - 1 \in S PROVE k \in S
  <2>1. k \in 0..n /\ k # 0
    BY <1>1
  <2>2. Z[k - 1] = Len(W[k - 1])
    BY <1>9
  <2> QED BY <1>3, <1>7, <2>1, <2>2
<1>10. 0..n \subseteq S
  <2> HIDE DEF S
  <2> QED BY <1>1, <1>8, <1>9, UpTo
<1> QED BY <1>6, <1>10 DEF S, n, W

\* What was written of the first arguments is what the message begins with.
LEMMA WrittenBegins ==
    ASSUME NEW types \in Seq(Types), NEW values \in Arguments(types)
    PROVE  \A k \in 0..Len(types) : Begins(Written(types, values)[k], WriteArgs(types, values))
<1> DEFINE n == Len(types)
           W == Written(types, values)
           R == {k \in 0..n : Begins(W[n - k], W[n])}
<1>1. n \in Nat /\ \A k \in 1..n : types[k] \in Types /\ values[k] \in Values(types[k].of, types[k].depth)
  BY ArgumentsType
<1>2. W \in [0..n -> Seq(Byte)] /\ \A k \in 1..n : W[k] = Write(W[k - 1], types[k], values[k])
  BY WrittenOf
<1>3. WriteArgs(types, values) = W[n]
  BY DEF WriteArgs
<1> HIDE DEF W, n
<1>4. \A k \in 0..n : W[k] \in Seq(Byte)
  BY <1>2
<1>5. 0 \in R
  <2>1. 0 \in 0..n /\ n - 0 = n /\ W[n] \in Seq(Byte)
    BY <1>1, <1>4
  <2> QED BY <2>1, BeginsSelf
<1>6. ASSUME NEW k \in 1..n, k - 1 \in R PROVE k \in R
  <2> DEFINE l == n - (k - 1)
  <2>1. l \in 1..n /\ l \in 0..n /\ l - 1 = n - k /\ l - 1 \in 0..n /\ k \in 0..n /\ n \in 0..n
    BY <1>1
  <2>2. Begins(W[l], W[n])
    BY <1>6
  <2> HIDE DEF l
  <2>3. Wrote(types[l].of, types[l].depth, W[l - 1], W[l], SizeWith(Len(W[l - 1]), types[l], values[l]))
    BY <1>1, <1>2, <1>4, <2>1, WroteOne
  <2>4. Begins(W[l - 1], W[l])
    BY <2>3 DEF Wrote
  <2>5. Begins(W[l - 1], W[n])
    BY <1>4, <2>1, <2>2, <2>4, BeginsTransitive
  <2> QED BY <2>1, <2>5
<1>7. 0..n \subseteq R
  <2> HIDE DEF R
  <2> QED BY <1>1, <1>5, <1>6, UpTo
<1>8. \A k \in 0..n : Begins(W[k], W[n])
  <2>1. \A k \in 0..n : n - k \in 0..n /\ n - (n - k) = k
    BY <1>1
  <2> QED BY <1>7, <2>1
<1> QED BY <1>3, <1>8 DEF W, n


-----------------------------------------------------------------------------
(* Reading what was written *)

\* The bytes that follow a in b are x, where b begins with both.
LEMMA BytesWithin ==
    ASSUME NEW a \in Seq(Byte), NEW x \in Seq(Byte), NEW b \in Seq(Byte), Begins(a \o x, b)
    PROVE  Bytes(b, Len(a), Len(x)) = x /\ Len(a) + Len(x) <= Len(b)
<1>1. Len(a) + Len(x) <= Len(b) /\ \A k \in 1..Len(x) : b[Len(a) + k] = x[k]
  BY Within
<1>2. x = [k \in 1..Len(x) |-> x[k]]
  OBVIOUS
<1> QED BY <1>1, <1>2 DEF Bytes

LEMMA ReadBlockWritten ==
    ASSUME NEW out \in Seq(Byte), Len(out) % 4 = 0, NEW n \in Counts, NEW bytes \in Seq(Byte),
           NEW elsize \in Nat, Len(bytes) = n * elsize,
           NEW b \in Seq(Byte), Begins(WriteBlock(out, n, bytes), b)
    PROVE  ReadBlock(b, Len(out), elsize) = Cursor(Len(WriteBlock(out, n, bytes)), bytes)
<1> DEFINE counted == out \o CountBytes(n)
           all == counted \o bytes
           w == WriteBlock(out, n, bytes)
           count == ReadNumber(b, Len(out), size_type)
           l == Len(bytes)
<1>1. /\ w \in Seq(Byte) /\ all \in Seq(Byte) /\ Begins(all, w) /\ Begins(counted, w)
      /\ Len(w) = SizeBlock(Len(out), l)
  BY WriteBlockType
<1>2. counted \in Seq(Byte) /\ Len(counted) = Len(out) + 4
  BY CountWritten
<1>3. Begins(all, b) /\ Begins(counted, b) /\ Len(w) <= Len(b)
  BY <1>1, <1>2, BeginsTransitive DEF Begins
<1>4. count.at = Len(out) + 4 /\ Count(count.v) = n
  BY <1>3, CountRead
<1>5. Bytes(b, Len(out) + 4, l) = bytes
  <2> HIDE DEF counted
  <2> QED BY <1>2, <1>3, BytesWithin
<1>6. Len(w) = Len(out) + 4 + Align(l, 4)
  <2> DEFINE o == Len(out)
  <2>1. o \in Nat /\ o % 4 = 0 /\ l \in Nat
    OBVIOUS
  <2>2. Len(w) = Align(o + 4 + l, 4)
    BY <1>1 DEF SizeBlock, size_type
  <2> HIDE DEF o, l, w
  <2>3. (o + 4) % 4 = 0 /\ o + 4 \in Nat
    BY <2>1
  <2>4. Align((o + 4) + l, 4) = (o + 4) + Align(l, 4)
    BY <2>1, <2>3, AlignAfter
  <2> QED BY <2>2, <2>4 DEF o
<1>7. Fits(b, Len(out) + 4, Align(l, 4))
  BY <1>3, <1>6 DEF Fits
<1>8. ReadBlock(b, Len(out), elsize) = Cursor(Len(out) + 4 + Align(l, 4), Bytes(b, Len(out) + 4, l))
  <2> DEFINE sz == Count(count.v) * elsize
  <2>1. sz = l
    BY <1>4
  <2>2. ReadBlock(b, Len(out), elsize) =
          IF Fits(b, count.at, Align(sz, size_type))
            THEN Cursor(count.at + Align(sz, size_type), Bytes(b, count.at, sz))
            ELSE Misread
    BY DEF ReadBlock
  <2> HIDE DEF sz, count, l
  <2> QED BY <1>4, <1>7, <2>1, <2>2 DEF size_type
<1> HIDE DEF w, l
<1>9. ReadBlock(b, Len(out), elsize) = Cursor(Len(w), bytes)
  BY <1>5, <1>6, <1>8
<1> QED BY <1>9 DEF w

LEMMA ReadFlatWritten ==
    ASSUME NEW F \in Flats, NEW out \in Seq(Byte), F.kind = "string" => Len(out) % 4 = 0,
           NEW v \in FlatValues(F), NEW b \in Seq(Byte), Begins(WriteFlat(out, F, v), b)
    PROVE  ReadFlat(b, Len(out), F) = Cursor(Len(WriteFlat(out, F, v)), v)
<1>1. CASE F.kind = "string"
  <2> DEFINE t == Terminated(v)
             n == Len(t)
             w == WriteBlock(out, n, t)
  <2>1. v \in Seq(Byte) /\ t \in Seq(Byte) /\ n \in Counts
    BY <1>1, FlatValueType, TerminatedType
  <2>2. WriteFlat(out, F, v) = w
    BY <1>1 DEF WriteFlat
  <2>3. ReadBlock(b, Len(out), 1) = Cursor(Len(w), t)
    <3> HIDE DEF t
    <3>1. n = n * 1 /\ 1 \in Nat
      BY <2>1
    <3> QED BY <1>1, <2>1, <2>2, <3>1, ReadBlockWritten
  <2>4. SubSeq(t, 1, Len(t) - 1) = v
    <3>1. CASE v = <<>>
      BY <3>1 DEF Terminated
    <3>2. CASE v # <<>>
      <4>1. t = Append(v, 0)
        BY <3>2 DEF Terminated
      <4>2. \A s \in Seq(Byte) : SubSeq(Append(s, 0), 1, Len(Append(s, 0)) - 1) = s
        BY DEF Byte
      <4> QED BY <2>1, <4>1, <4>2
    <3> QED BY <3>1, <3>2
  <2> HIDE DEF w, t
  <2>5. ReadString(b, Len(out)) = Cursor(Len(w), v)
    <3>1. \A at : \A c : Cursor(at, c).at = at /\ Cursor(at, c).v = c
      BY DEF Cursor
    <3> DEFINE block == ReadBlock(b, Len(out), 1)
    <3>2. block.at = Len(w) /\ block.v = t
      BY <2>3, <3>1
    <3>3. ReadString(b, Len(out)) = Cursor(block.at, SubSeq(block.v, 1, Len(block.v) - 1))
      BY DEF ReadString
    <3> HIDE DEF block
    <3> QED BY <2>4, <3>2, <3>3
  <2> QED BY <1>1, <2>2, <2>5 DEF ReadFlat
<1>2. CASE F.kind # "string"
  <2>1. is_trivially_copyable(F)
    BY <1>2, FlatType DEF is_trivially_copyable
  <2> DEFINE m == InMemory(F, v)
             s == sizeof(F)
  <2>2. m \in Seq(Byte) /\ Len(m) = s /\ s \in Nat
    BY <2>1, InMemoryType, SizeOf
  <2>3. WriteFlat(out, F, v) = out \o m
    BY <1>2 DEF WriteFlat
  <2>4. Len(out) + s <= Len(b) /\ \A k \in 1..s : b[Len(out) + k] = m[k]
    <3> HIDE DEF m
    <3> QED BY <2>2, <2>3, Within
  <2>5. ValueAt(b, Len(out), F) = v
    <3>1. Len(out) \in Nat
      OBVIOUS
    <3> QED BY <2>1, <2>4, <3>1, ValueAtWritten
  <2>6. Fits(b, Len(out), s)
    BY <2>4 DEF Fits
  <2>7. ReadFlat(b, Len(out), F) = Cursor(Len(out) + s, v)
    BY <1>2, <2>5, <2>6 DEF ReadFlat
  <2>8. Len(out \o m) = Len(out) + s
    BY <2>2
  <2> QED BY <2>3, <2>7, <2>8
<1> QED BY <1>1, <1>2

\* Elements that lie one after another are read as they are.
LEMMA ValuesAtWritten ==
    ASSUME NEW F \in Flats, is_trivially_copyable(F), NEW n \in Nat, NEW v \in [1..n -> FlatValues(F)]
    PROVE  ValuesAt(Contents(F, v), 0, F, n) = v
<1> DEFINE c == Contents(F, v)
           s == sizeof(F)
<1>1. s \in Nat
  BY SizeOf
<1>4. c \in Seq(Byte) /\ \A k \in 1..n : \A j \in 1..s : c[(k - 1) * s + j] = InMemory(F, v[k])[j]
  BY ContentsType
<1> HIDE DEF c
<1>2. ASSUME NEW k \in 1..n PROVE ValueAt(c, 0 + (k - 1) * s, F) = v[k]
  <2>1. (k - 1) * s \in Nat /\ 0 + (k - 1) * s = (k - 1) * s
    <3> HIDE DEF s
    <3> QED BY <1>1
  <2> DEFINE p == (k - 1) * s
  <2>2. v[k] \in FlatValues(F)
    OBVIOUS
  <2>3. \A j \in 1..s : c[p + j] = InMemory(F, v[k])[j]
    BY <1>4
  <2> HIDE DEF p
  <2>4. ValueAt(c, p, F) = v[k]
    BY <1>4, <2>1, <2>2, <2>3, ValueAtWritten DEF p
  <2> QED BY <2>1, <2>4 DEF p
<1>3. ValuesAt(c, 0, F, n) = [k \in 1..n |-> v[k]]
  BY <1>2 DEF ValuesAt
<1> QED BY <1>3 DEF c


LEMMA CursorOf == \A at, v : Cursor(at, v).at = at /\ Cursor(at, v).v = v
  BY DEF Cursor

\* Small elements are read as they were written; wider ones, that were lost, from
\* their place.
LEMMA ReadCopiedWritten ==
    ASSUME NEW F \in Flats, is_trivially_copyable(F), NEW out \in Seq(Byte), Len(out) % 4 = 0,
           NEW n \in Counts, NEW v \in [1..n -> FlatValues(F)],
           NEW b \in Seq(Byte), Begins(WriteCopied(out, F, v), b)
    PROVE  /\ ReadCopied(b, Len(out), F).at = Len(WriteCopied(out, F, v))
           /\ alignof(F) <= size_type => ReadCopied(b, Len(out), F).v = v
<1> DEFINE s == sizeof(F)
           c == Contents(F, v)
           count == ReadNumber(b, Len(out), size_type)
           counted == out \o CountBytes(n)
           block == ReadBlock(b, Len(out), s)
           first == Align(count.at, elements_align(F, 1))
           m == Count(count.v)
           read == ReadCopied(b, Len(out), F)
<1>1. n \in Nat /\ s \in Nat \ {0} /\ Len(v) = n
  BY SizeOf DEF Counts
<1>2. c \in Seq(Byte) /\ Len(c) = s * n /\ s * n \in Nat
  BY <1>1, ContentsType
<1>3. read = CASE alignof(F) <= size_type ->
                    Cursor(block.at, ValuesAt(block.v, 0, F, Len(block.v) \div s))
               [] alignof(F) > size_type /\ count.at >= 0 /\ (m = 0 \/ Fits(b, first, m * s)) ->
                    Cursor(first + m * s, ValuesAt(b, first, F, m))
               [] OTHER -> Misread
  BY DEF ReadCopied
<1>4. counted \in Seq(Byte) /\ Len(counted) = Len(out) + 4
  BY CountWritten
<1>5. CASE alignof(F) <= size_type
  <2> DEFINE w == WriteBlock(out, n, c)
  <2>1. WriteCopied(out, F, v) = w
    BY <1>1, <1>5 DEF WriteCopied
  <2>2. Len(c) = n * s
    <3> HIDE DEF s, c
    <3> QED BY <1>1, <1>2
  <2>3. block = Cursor(Len(w), c)
    <3> HIDE DEF c
    <3> QED BY <1>1, <1>2, <2>1, <2>2, ReadBlockWritten
  <2>4. block.at = Len(w) /\ block.v = c
    BY <2>3, CursorOf
  <2>5. Len(c) \div s = n
    <3> HIDE DEF s, c
    <3>1. 0 \in 0..s - 1 /\ s * n + 0 = s * n
      BY <1>1, <1>2
    <3> QED BY <1>1, <1>2, <3>1, Multiple
  <2>6. ValuesAt(c, 0, F, n) = v
    BY <1>1, ValuesAtWritten
  <2> HIDE DEF block, w, c, s, read
  <2>7. read = Cursor(Len(w), v)
    <3>1. ~(alignof(F) > size_type)
      BY <1>5, AlignOf DEF Widths, size_type
    <3>2. read = Cursor(block.at, ValuesAt(block.v, 0, F, Len(block.v) \div s))
      BY <1>3, <1>5, <3>1
    <3> QED BY <2>4, <2>5, <2>6, <3>2
  <2> QED BY <2>1, <2>7, CursorOf DEF read
<1>6. CASE ~(alignof(F) <= size_type)
  <2> DEFINE o == WriteCount(out, F, 1, n)
             z == Zeros(Len(c))
             w == o \o z
             g == elements_align(F, 1)
  <2>1. WriteCopied(out, F, v) = w
    BY <1>1, <1>6 DEF WriteCopied, WriteElements
  <2>2. o \in Seq(Byte) /\ Begins(counted, o) /\ Len(o) = SizeCount(Len(out), F, 1)
    BY WriteCountType
  <2>3. z \in Seq(Byte) /\ Len(z) = s * n
    BY <1>2, ZerosType
  <2> HIDE DEF z, o, counted
  <2>4. w \in Seq(Byte) /\ Len(w) = Len(o) + s * n /\ Begins(o, w)
    <3> HIDE DEF s, c
    <3> QED BY <1>2, <2>2, <2>3, BeginsJoined
  <2>5. Begins(counted, b) /\ Len(w) <= Len(b)
    <3>1. Begins(w, b) /\ Begins(counted, w)
      BY <1>4, <2>1, <2>2, <2>4, BeginsTransitive
    <3> QED BY <1>4, <2>4, <3>1, BeginsTransitive DEF Begins
  <2>6. count.at = Len(out) + 4 /\ m = n
    BY <2>5, CountRead DEF counted
  <2>7. first = Len(o)
    BY <2>2, <2>6 DEF SizeCount, size_type
  <2>8. alignof(F) > size_type
    <3>1. alignof(F) \in Nat
      BY AlignOf DEF Widths
    <3> QED BY <1>6, <3>1 DEF size_type
  <2>9. first + n * s = Len(w) /\ first >= 0 /\ count.at >= 0
    <3> HIDE DEF s, w, first, count
    <3>1. n * s = s * n
      BY <1>1
    <3> QED BY <1>2, <2>2, <2>4, <2>6, <2>7, <3>1
  <2>10. Fits(b, first, n * s)
    <3> HIDE DEF s, first, w
    <3> QED BY <2>5, <2>9 DEF Fits
  <2> HIDE DEF s, first, count, m, w, read, block
  <2>11. read = Cursor(first + n * s, ValuesAt(b, first, F, n))
    BY <1>3, <1>6, <2>6, <2>8, <2>9, <2>10
  <2> QED BY <1>6, <2>1, <2>9, <2>11, CursorOf DEF read
<1> QED BY <1>5, <1>6



ReadValue(b, F, d, read, p) ==
    CASE d = 0 -> ReadFlat(b, p, F)
      [] d = 1 /\ is_trivially_copyable(F) -> ReadCopied(b, p, F)
      [] OTHER -> ReadVector(b, p, F, d, read)
ReadStep(b, F, d, read) ==
    [p \in Nat |->
        CASE d = 0 -> ReadFlat(b, p, F)
          [] d = 1 /\ is_trivially_copyable(F) -> ReadCopied(b, p, F)
          [] OTHER -> ReadVector(b, p, F, d, read)]
Reading(b, F, m, f) == f = [d \in 0..m |-> ReadStep(b, F, d, f[d - 1])]

LEMMA ReadingExists ==
    ASSUME NEW b, NEW F, NEW m \in Nat
    PROVE  \E f : Reading(b, F, m, f)
<1> DEFINE S == {l \in 0..m : \E f : Reading(b, F, l, f)}
<1>1. 0 \in S
  <2> DEFINE w == ReadStep(b, F, 0, <<>>)
             f == [d \in 0..0 |-> w]
  <2>1. ReadStep(b, F, 0, f[-1]) = w
    BY DEF ReadStep
  <2>2. f = [d \in 0..0 |-> ReadStep(b, F, d, f[d - 1])]
    <3>1. \A d \in 0..0 : ReadStep(b, F, d, f[d - 1]) = w
      <4>1. \A d \in 0..0 : d = 0 /\ d - 1 = -1
        OBVIOUS
      <4> HIDE DEF f, w
      <4> QED BY <2>1, <4>1
    <3> HIDE DEF w
    <3> QED BY <3>1
  <2> HIDE DEF f
  <2>3. Reading(b, F, 0, f)
    BY <2>2 DEF Reading
  <2> QED BY <2>3
<1>2. ASSUME NEW l \in 1..m, l - 1 \in S PROVE l \in S
  <2>1. PICK f : Reading(b, F, l - 1, f)
    BY <1>2
  <2> DEFINE g == [d \in 0..l |-> IF d = l THEN ReadStep(b, F, l, f[l - 1]) ELSE f[d]]
  <2>2. ASSUME NEW d \in 0..l PROVE g[d] = ReadStep(b, F, d, g[d - 1])
    <3>1. CASE d = l
      <4>1. l - 1 \in 0..l /\ l - 1 # l
        OBVIOUS
      <4> QED BY <3>1, <4>1
    <3>2. CASE d # l /\ d = 0
      <4>1. g[d] = f[d] /\ d \in 0..l - 1
        BY <3>2
      <4>2. f[d] = ReadStep(b, F, 0, f[d - 1])
        BY <2>1, <3>2, <4>1 DEF Reading
      <4> HIDE DEF g
      <4> QED BY <3>2, <4>1, <4>2 DEF ReadStep
    <3>3. CASE d # l /\ d # 0
      <4>1. d \in 0..l - 1 /\ d - 1 \in 0..l /\ d - 1 # l
        BY <3>3
      <4>2. g[d] = f[d] /\ g[d - 1] = f[d - 1]
        BY <3>3, <4>1
      <4>3. f[d] = ReadStep(b, F, d, f[d - 1])
        BY <2>1, <4>1 DEF Reading
      <4> HIDE DEF g
      <4> QED BY <4>2, <4>3
    <3> QED BY <3>1, <3>2, <3>3
  <2>3. g = [d \in 0..l |-> g[d]]
    OBVIOUS
  <2> HIDE DEF g
  <2>4. Reading(b, F, l, g)
    BY <2>2, <2>3 DEF Reading
  <2> QED BY <2>4
<1>3. m \in S
  <2> HIDE DEF S
  <2>1. 0..m \subseteq S
    BY <1>1, <1>2, UpTo
  <2> QED BY <2>1
<1> QED BY <1>3

\* All values are read as they were written but those of wide elements, which are
\* lost in a vector.
Kept(F, d) == d = 0 \/ ~is_trivially_copyable(F) \/ alignof(F) <= size_type
ReadsRight(b, F, d, write, read) ==
    \A out \in Seq(Byte) : \A v \in Values(F, d) :
        /\ Begins(write[<<out, v>>], b)
        /\ d > 0 \/ F.kind = "string" => Len(out) % 4 = 0
        => /\ read[Len(out)].at = Len(write[<<out, v>>])
           /\ Kept(F, d) => read[Len(out)].v = v

LEMMA Appended ==
    ASSUME NEW k \in Nat \ {0}, NEW f
    PROVE  Append([j \in 1..k - 1 |-> f[j]], f[k]) = [j \in 1..k |-> f[j]]
<1> DEFINE S == {f[j] : j \in 1..k}
           s == [j \in 1..k - 1 |-> f[j]]
           t == [j \in 1..k |-> f[j]]
<1>1. k \in 1..k /\ k - 1 \in Nat /\ \A j \in 1..k - 1 : j \in 1..k
  OBVIOUS
<1>2. \A j \in 1..k : f[j] \in S
  OBVIOUS
<1> HIDE DEF S
<1>3. s \in Seq(S) /\ Len(s) = k - 1 /\ f[k] \in S
  BY <1>1, <1>2
<1>4. t \in Seq(S) /\ Len(t) = k /\ \A j \in 1..k : t[j] = f[j]
  BY <1>2
<1>5. \A j \in 1..k - 1 : s[j] = f[j]
  OBVIOUS
<1> HIDE DEF s, t
<1>6. \A j \in 1..k : Append(s, f[k])[j] = t[j]
  BY <1>1, <1>3, <1>4, <1>5
<1>7. Append(s, f[k]) \in Seq(S) /\ Len(Append(s, f[k])) = k
  BY <1>1, <1>3
<1>8. Append(s, f[k]) = t
  BY <1>4, <1>6, <1>7
<1> QED BY <1>8 DEF s, t

\* Reading n elements, each from where the one before it ended.
ReadFrom(at, read, n) == [k \in 1..n |-> read[at[k - 1]].v]

LEMMA ReadEachOf ==
    ASSUME NEW n \in Nat, NEW at \in [0..n -> Nat], NEW read, NEW b, n <= Len(b),
           \A k \in 1..n : read[at[k - 1]].at = at[k]
    PROVE  ReadEach(b, at[0], read, n) = Cursor(at[n], ReadFrom(at, read, n))
<1> DEFINE v == [k \in 1..n |-> read[at[k - 1]].v]
           g == [k \in 0..n |-> Cursor(at[k], [j \in 1..k |-> v[j]])]
           Up(c) == c = [k \in 0..n |-> IF k = 0 THEN Cursor(at[0], <<>>) ELSE ReadNext(c[k - 1], read)]
           c == CHOOSE c : Up(c)
<1>1. ASSUME NEW k \in 1..n PROVE ReadNext(g[k - 1], read) = g[k]
  <2> DEFINE e == read[at[k - 1]]
             p == g[k - 1]
             before == [j \in 1..k - 1 |-> v[j]]
  <2>1. k - 1 \in 0..n /\ k \in 0..n /\ at[k - 1] \in Nat /\ at[k] \in Nat
    OBVIOUS
  <2>2. e.at = at[k] /\ e.v = v[k]
    OBVIOUS
  <2>3. p = Cursor(at[k - 1], before)
    BY <2>1
  <2>4. p.at = at[k - 1] /\ p.v = before
    BY <2>3, CursorOf
  <2>5. ReadNext(p, read) =
          IF p.at < 0 \/ read[p.at].at < 0 THEN Misread ELSE Cursor(read[p.at].at, Append(p.v, read[p.at].v))
    BY DEF ReadNext
  <2> HIDE DEF p, before, v
  <2>6. ReadNext(p, read) = Cursor(at[k], Append(before, v[k]))
    BY <2>1, <2>2, <2>4, <2>5
  <2>7. Append(before, v[k]) = [j \in 1..k |-> v[j]]
    BY Appended DEF before
  <2> QED BY <2>1, <2>6, <2>7 DEF p
<1>2. g[0] = Cursor(at[0], <<>>)
  <2>1. [j \in 1..0 |-> v[j]] = <<>>
    OBVIOUS
  <2> HIDE DEF v
  <2> QED BY <2>1
<1>3. Up(g)
  <2>1. ASSUME NEW k \in 0..n PROVE g[k] = IF k = 0 THEN Cursor(at[0], <<>>) ELSE ReadNext(g[k - 1], read)
    <3>1. CASE k = 0
      BY <1>2, <3>1
    <3>2. CASE k # 0
      <4>1. k \in 1..n
        BY <3>2
      <4> QED BY <1>1, <3>2, <4>1
    <3> QED BY <3>1, <3>2
  <2>2. g = [k \in 0..n |-> g[k]]
    OBVIOUS
  <2> HIDE DEF g
  <2>3. Up(g)
    BY <2>1, <2>2
  <2> QED BY <2>3
<1> HIDE DEF g
<1>4. Up(c)
  <2> HIDE DEF Up
  <2> QED BY <1>3
<1>5. ReadEach(b, at[0], read, n) = c[n]
  BY DEF ReadEach
<1> HIDE DEF c
<1>6. \A k \in 0..n : c[k] = IF k = 0 THEN Cursor(at[0], <<>>) ELSE ReadNext(c[k - 1], read)
  BY <1>4
<1> HIDE DEF Up
<1> DEFINE S == {k \in 0..n : c[k] = g[k]}
<1>7. 0 \in S
  BY <1>2, <1>6
<1>8. ASSUME NEW k \in 1..n, k - 1 \in S PROVE k \in S
  <2>1. k \in 0..n /\ k # 0 /\ c[k - 1] = g[k - 1]
    BY <1>8
  <2> QED BY <1>1, <1>6, <2>1
<1>9. 0..n \subseteq S
  <2> HIDE DEF S
  <2> QED BY <1>7, <1>8, UpTo
<1>10. c[n] = g[n] /\ v = [k \in 1..n |-> v[k]]
  BY <1>9
<1>11. g[n] = Cursor(at[n], [j \in 1..n |-> v[j]])
  BY DEF g
<1> HIDE DEF v
<1>12. ReadEach(b, at[0], read, n) = Cursor(at[n], v)
  BY <1>5, <1>10, <1>11
<1> QED BY <1>12 DEF v, ReadFrom


LEMMA ReadVectorWritten ==
    ASSUME NEW F \in Flats, NEW d \in Nat \ {0}, d > 1 \/ ~is_trivially_copyable(F),
           NEW out \in Seq(Byte), NEW v \in Values(F, d), NEW write, NEW add, WritesRight(F, d - 1, write, add),
           NEW b \in Seq(Byte), NEW read, ReadsRight(b, F, d - 1, write, read),
           Begins(WriteEach(WriteCount(out, F, d, Len(v)), write, v), b)
    PROVE  /\ ReadVector(b, Len(out), F, d, read).at = Len(WriteEach(WriteCount(out, F, d, Len(v)), write, v))
           /\ Kept(F, d) => ReadVector(b, Len(out), F, d, read).v = v
<1> DEFINE n == Len(v)
           first == WriteCount(out, F, d, n)
           w == WriteEach(first, write, v)
           counted == out \o CountBytes(n)
           count == ReadNumber(b, Len(out), size_type)
           vector == ReadVector(b, Len(out), F, d, read)
<1>1. n \in Counts /\ n \in Nat /\ v \in [1..n -> Values(F, d - 1)]
  BY VectorType
<1>2. first \in Seq(Byte) /\ Begins(counted, first) /\ Len(first) = SizeCount(Len(out), F, d)
  BY <1>1, WriteCountType
<1>3. counted \in Seq(Byte) /\ Len(counted) = Len(out) + 4
  BY <1>1, CountWritten
<1>4. /\ Wrote(F, d, out, w, SizeEach(SizeCount(Len(out), F, d), add, v))
      /\ \E each \in [0..n -> Seq(Byte)] :
           /\ each[0] = first /\ each[n] = w
           /\ \A k \in 1..n : each[k] = write[<<each[k - 1], v[k]>>]
           /\ \A k \in 0..n : /\ Begins(each[k], w) /\ Len(each[k]) % 4 = 0
                              /\ Len(out) + 4 + k <= Len(each[k])
  BY WriteEachType
<1>5. w \in Seq(Byte) /\ Begins(w, b)
  BY <1>4 DEF Wrote
<1> HIDE DEF first, w, counted
<1>6. PICK each \in [0..n -> Seq(Byte)] :
           /\ each[0] = first /\ each[n] = w
           /\ \A k \in 1..n : each[k] = write[<<each[k - 1], v[k]>>]
           /\ \A k \in 0..n : /\ Begins(each[k], w) /\ Len(each[k]) % 4 = 0
                              /\ Len(out) + 4 + k <= Len(each[k])
  BY <1>4
<1> HIDE DEF n
<1>7. \A k \in 0..n : each[k] \in Seq(Byte) /\ Len(each[k]) \in Nat /\ Begins(each[k], b)
  <2>1. \A k \in 0..n : each[k] \in Seq(Byte)
    OBVIOUS
  <2>2. \A s \in Seq(Byte) : Len(s) \in Nat
    OBVIOUS
  <2>3. \A k \in 0..n : Begins(each[k], b)
    BY <1>5, <1>6, <2>1, BeginsTransitive
  <2> QED BY <2>1, <2>2, <2>3
<1>8. 0 \in 0..n /\ n \in 0..n
  BY <1>1
<1>9. Begins(counted, b)
  BY <1>2, <1>3, <1>6, <1>7, <1>8, BeginsTransitive
<1>10. count.at = Len(out) + 4 /\ Count(count.v) = n
  BY <1>1, <1>9, CountRead DEF counted
<1>11. n <= Len(b)
  <2>1. Len(out) + 4 + n <= Len(w) /\ Len(w) <= Len(b)
    BY <1>5, <1>6, <1>8 DEF Begins
  <2>2. Len(out) \in Nat /\ Len(w) \in Nat /\ Len(b) \in Nat
    BY <1>5
  <2> QED BY <1>1, <2>1, <2>2
<1> DEFINE at == [k \in 0..n |-> Len(each[k])]
<1>12. at \in [0..n -> Nat] /\ at[0] = Len(first) /\ at[n] = Len(w)
  BY <1>6, <1>7, <1>8
<1>13. ASSUME NEW k \in 1..n
       PROVE  read[at[k - 1]].at = at[k] /\ (Kept(F, d - 1) => read[at[k - 1]].v = v[k])
  <2>1. k - 1 \in 0..n /\ k \in 0..n
    BY <1>1
  <2>2. each[k - 1] \in Seq(Byte) /\ v[k] \in Values(F, d - 1) /\ Len(each[k - 1]) % 4 = 0
    BY <1>1, <1>6, <1>7, <2>1
  <2>3. write[<<each[k - 1], v[k]>>] = each[k] /\ Begins(each[k], b)
    BY <1>6, <1>7, <2>1
  <2>4. /\ read[Len(each[k - 1])].at = Len(write[<<each[k - 1], v[k]>>])
        /\ Kept(F, d - 1) => read[Len(each[k - 1])].v = v[k]
    BY <2>2, <2>3 DEF ReadsRight
  <2> QED BY <2>1, <2>3, <2>4
<1>14. vector = ReadEach(b, at[0], read, n)
  <2>1. vector = IF count.at < 0 THEN Misread
                 ELSE ReadEach(b, Align(count.at, elements_align(F, d)), read, Count(count.v))
    BY DEF ReadVector
  <2>2. ~(count.at < 0)
    BY <1>10
  <2>3. at[0] = Align(count.at, elements_align(F, d))
    BY <1>2, <1>10, <1>12 DEF SizeCount, size_type
  <2> HIDE DEF at, count, vector
  <2> QED BY <1>10, <2>1, <2>2, <2>3
<1> HIDE DEF at
<1>15. vector = Cursor(Len(w), ReadFrom(at, read, n))
  <2>1. ReadEach(b, at[0], read, n) = Cursor(at[n], ReadFrom(at, read, n))
    <3>1. \A k \in 1..n : read[at[k - 1]].at = at[k]
      BY <1>13
    <3>2. n \in Nat /\ at \in [0..n -> Nat]
      BY <1>1, <1>12
    <3> QED BY <1>11, <3>1, <3>2, ReadEachOf
  <2> QED BY <1>12, <1>14, <2>1
<1>16. ASSUME Kept(F, d) PROVE ReadFrom(at, read, n) = v
  <2>1. Kept(F, d - 1)
    BY <1>16 DEF Kept
  <2>2. v = [k \in 1..n |-> v[k]]
    BY <1>1
  <2> QED BY <1>13, <2>1, <2>2 DEF ReadFrom
<1> HIDE DEF vector
<1>17. vector.at = Len(w) /\ (Kept(F, d) => vector.v = v)
  BY <1>15, <1>16, CursorOf
<1> QED BY <1>17 DEF vector, w, first, n

LEMMA ReadSteps ==
    ASSUME NEW b, NEW F, NEW d, NEW p \in Nat, NEW read
    PROVE  ReadStep(b, F, d, read)[p] = ReadValue(b, F, d, read, p)
BY DEF ReadStep, ReadValue

\* Whatever type it has, a value is read as it was written.
LEMMA ReadTypes ==
    ASSUME NEW F \in Flats, NEW m \in Nat, NEW f, Writing(F, m, f), NEW g, Sizing(F, m, g),
           NEW b \in Seq(Byte), NEW r, Reading(b, F, m, r)
    PROVE  \A d \in 0..m : ReadsRight(b, F, d, f[d], r[d])
<1> DEFINE S == {d \in 0..m : ReadsRight(b, F, d, f[d], r[d])}
<1>1. \A d \in 0..m : f[d] = WriteStep(F, d, f[d - 1]) /\ r[d] = ReadStep(b, F, d, r[d - 1])
  BY DEF Writing, Reading
<1>2. \A d \in 0..m : WritesRight(F, d, f[d], g[d])
  BY WriteTypes
<1>3. 0 \in S
  <2>1. 0 \in 0..m /\ Values(F, 0) = FlatValues(F)
    BY ValuesOf
  <2>2. ASSUME NEW out \in Seq(Byte), NEW v \in Values(F, 0), Begins(f[0][<<out, v>>], b),
               F.kind = "string" => Len(out) % 4 = 0
        PROVE  r[0][Len(out)].at = Len(f[0][<<out, v>>]) /\ r[0][Len(out)].v = v
    <3>1. f[0][<<out, v>>] = WriteFlat(out, F, v)
      BY <1>1, <2>1, ValueSteps DEF WriteValue
    <3>2. Len(out) \in Nat
      OBVIOUS
    <3>3. r[0][Len(out)] = ReadFlat(b, Len(out), F)
      BY <1>1, <2>1, <3>2, ReadSteps DEF ReadValue
    <3>4. ReadFlat(b, Len(out), F) = Cursor(Len(WriteFlat(out, F, v)), v)
      BY <2>1, <2>2, <3>1, ReadFlatWritten
    <3> QED BY <3>1, <3>3, <3>4, CursorOf
  <2> QED BY <2>1, <2>2 DEF ReadsRight
<1>4. ASSUME NEW d \in 1..m, d - 1 \in S PROVE d \in S
  <2>1. d \in 0..m /\ d \in Nat \ {0} /\ d # 0 /\ d - 1 \in 0..m /\ d > 0
    OBVIOUS
  <2>2. ASSUME NEW out \in Seq(Byte), NEW v \in Values(F, d), Begins(f[d][<<out, v>>], b), Len(out) % 4 = 0
        PROVE  r[d][Len(out)].at = Len(f[d][<<out, v>>]) /\ (Kept(F, d) => r[d][Len(out)].v = v)
    <3>1. Len(out) \in Nat
      OBVIOUS
    <3>2. CASE d = 1 /\ is_trivially_copyable(F)
      <4>1. f[d][<<out, v>>] = WriteCopied(out, F, v)
        BY <1>1, <2>1, <3>1, <3>2, ValueSteps DEF WriteValue
      <4>2. r[d][Len(out)] = ReadCopied(b, Len(out), F)
        BY <1>1, <2>1, <3>1, <3>2, ReadSteps DEF ReadValue
      <4>3. Len(v) \in Counts /\ v \in [1..Len(v) -> FlatValues(F)]
        <5>1. Len(v) \in Counts /\ v \in [1..Len(v) -> Values(F, d - 1)]
          BY <2>1, VectorType
        <5>2. d - 1 = 0 /\ Values(F, 0) = FlatValues(F)
          BY <3>2, ValuesOf
        <5> QED BY <5>1, <5>2
      <4>4. /\ ReadCopied(b, Len(out), F).at = Len(WriteCopied(out, F, v))
            /\ alignof(F) <= size_type => ReadCopied(b, Len(out), F).v = v
        BY <2>2, <3>2, <4>1, <4>3, ReadCopiedWritten
      <4> QED BY <2>1, <3>2, <4>1, <4>2, <4>4 DEF Kept
    <3>3. CASE ~(d = 1 /\ is_trivially_copyable(F))
      <4>1. f[d][<<out, v>>] = WriteEach(WriteCount(out, F, d, Len(v)), f[d - 1], v)
        BY <1>1, <2>1, <3>3, ValueSteps DEF WriteValue
      <4>2. r[d][Len(out)] = ReadVector(b, Len(out), F, d, r[d - 1])
        BY <1>1, <2>1, <3>1, <3>3, ReadSteps DEF ReadValue
      <4>3. d > 1 \/ ~is_trivially_copyable(F)
        BY <3>3
      <4>4. WritesRight(F, d - 1, f[d - 1], g[d - 1]) /\ ReadsRight(b, F, d - 1, f[d - 1], r[d - 1])
        BY <1>2, <1>4, <2>1
      <4>5. Begins(WriteEach(WriteCount(out, F, d, Len(v)), f[d - 1], v), b)
        BY <2>2, <4>1
      <4>6. LET w == WriteEach(WriteCount(out, F, d, Len(v)), f[d - 1], v)
                vector == ReadVector(b, Len(out), F, d, r[d - 1])
            IN  vector.at = Len(w) /\ (Kept(F, d) => vector.v = v)
        BY <2>1, <4>3, <4>4, <4>5, ReadVectorWritten
      <4> QED BY <4>1, <4>2, <4>6
    <3> QED BY <3>2, <3>3
  <2>3. ReadsRight(b, F, d, f[d], r[d])
    BY <2>1, <2>2 DEF ReadsRight
  <2> QED BY <2>1, <2>3
<1> HIDE DEF S
<1>5. 0..m \subseteq S
  BY <1>3, <1>4, UpTo
<1> QED BY <1>5 DEF S

\* An argument that lies aligned is read as it was written.
ArgumentAligned(T, at) == T.depth > 0 \/ T.of.kind = "string" => at % 4 = 0

LEMMA ReadOne ==
    ASSUME NEW T \in Types, NEW out \in Seq(Byte), ArgumentAligned(T, Len(out)),
           NEW v \in Values(T.of, T.depth), NEW b \in Seq(Byte), Begins(Write(out, T, v), b)
    PROVE  /\ Read(b, Len(out), T).at = Len(Write(out, T, v))
           /\ Kept(T.of, T.depth) => Read(b, Len(out), T).v = v
<1> DEFINE r == CHOOSE f : Reading(b, T.of, T.depth, f)
<1>1. /\ T.of \in Flats /\ T.depth \in Nat
      /\ Writing(T.of, T.depth, Writer(T)) /\ Sizing(T.of, T.depth, Sizer(T))
      /\ Write(out, T, v) = Writer(T)[T.depth][<<out, v>>]
  BY WriteOf
<1>2. Reading(b, T.of, T.depth, r)
  BY <1>1, ReadingExists
<1>3. Read(b, Len(out), T) = r[T.depth][Len(out)]
  BY DEF Read, Reading, ReadStep
<1> HIDE DEF r
<1>4. T.depth \in 0..T.depth
  BY <1>1
<1>5. ReadsRight(b, T.of, T.depth, Writer(T)[T.depth], r[T.depth])
  BY <1>1, <1>2, <1>4, ReadTypes
<1> QED BY <1>1, <1>3, <1>5 DEF ReadsRight, ArgumentAligned


\* Where each of the arguments begins it lies aligned, as its reader has it.
ArgumentsAligned(types, values) ==
    \A k \in 1..Len(types) : ArgumentAligned(types[k], Len(Written(types, values)[k - 1]))

LEMMA ReadAll ==
    ASSUME NEW types \in Seq(Types), NEW values \in Arguments(types), ArgumentsAligned(types, values),
           NEW b \in Seq(Byte), Begins(WriteArgs(types, values), b)
    PROVE  LET all == ReadArgs(b, types)
           IN  /\ all.at = Len(WriteArgs(types, values)) /\ DOMAIN all.v = 1..Len(types)
               /\ \A k \in 1..Len(types) : Kept(types[k].of, types[k].depth) => all.v[k] = values[k]
<1> DEFINE n == Len(types)
           W == Written(types, values)
           v == [k \in 1..n |-> Read(b, Len(W[k - 1]), types[k]).v]
           g == [k \in 0..n |-> Cursor(Len(W[k]), [j \in 1..k |-> v[j]])]
           Up(c) == c = [k \in 0..n |-> IF k = 0 THEN Cursor(0, <<>>) ELSE ReadArg(b, c[k - 1], types[k])]
           c == CHOOSE c : Up(c)
<1>1. n \in Nat /\ \A k \in 1..n : types[k] \in Types /\ values[k] \in Values(types[k].of, types[k].depth)
  BY ArgumentsType
<1>2. W \in [0..n -> Seq(Byte)] /\ W[0] = <<>> /\ \A k \in 1..n : W[k] = Write(W[k - 1], types[k], values[k])
  BY WrittenOf
<1>3. WriteArgs(types, values) = W[n] /\ \A k \in 0..n : Begins(W[k], W[n])
  BY WrittenBegins DEF WriteArgs
<1>4. \A k \in 1..n : ArgumentAligned(types[k], Len(W[k - 1]))
  BY DEF ArgumentsAligned
<1>5. ReadArgs(b, types) = c[n]
  BY DEF ReadArgs, Readings
<1> HIDE DEF W, n
<1>6. \A k \in 0..n : W[k] \in Seq(Byte) /\ Len(W[k]) \in Nat /\ Begins(W[k], b)
  <2>1. \A k \in 0..n : W[k] \in Seq(Byte)
    BY <1>2
  <2>2. \A s \in Seq(Byte) : Len(s) \in Nat
    OBVIOUS
  <2>3. n \in 0..n
    BY <1>1
  <2>4. \A k \in 0..n : Begins(W[k], b)
    BY <1>3, <2>1, <2>3, BeginsTransitive
  <2> QED BY <2>1, <2>2, <2>4
<1>7. ASSUME NEW k \in 1..n
      PROVE  LET e == Read(b, Len(W[k - 1]), types[k])
             IN  e.at = Len(W[k]) /\ e.v = v[k] /\ (Kept(types[k].of, types[k].depth) => e.v = values[k])
  <2> DEFINE e == Read(b, Len(W[k - 1]), types[k])
  <2>1. k - 1 \in 0..n /\ k \in 0..n
    BY <1>1
  <2>2. W[k - 1] \in Seq(Byte) /\ Begins(W[k], b) /\ W[k] = Write(W[k - 1], types[k], values[k])
    BY <1>2, <1>6, <2>1
  <2>3. e.at = Len(W[k]) /\ (Kept(types[k].of, types[k].depth) => e.v = values[k])
    BY <1>1, <1>4, <2>2, ReadOne
  <2>4. e.v = v[k]
    OBVIOUS
  <2> QED BY <2>3, <2>4
<1> HIDE DEF v
<1>8. ASSUME NEW k \in 1..n PROVE ReadArg(b, g[k - 1], types[k]) = g[k]
  <2> DEFINE e == Read(b, Len(W[k - 1]), types[k])
             p == g[k - 1]
             before == [j \in 1..k - 1 |-> v[j]]
             T == types[k]
             arg == Read(b, p.at, T)
  <2>1. k - 1 \in 0..n /\ k \in 0..n /\ k \in Nat \ {0}
    BY <1>1
  <2>2. Len(W[k - 1]) \in Nat /\ Len(W[k]) \in Nat
    BY <1>6, <2>1
  <2>3. p.at = Len(W[k - 1]) /\ p.v = before
    <3>1. p = Cursor(Len(W[k - 1]), before)
      BY <2>1
    <3> QED BY <3>1, CursorOf
  <2>4. arg.at = Len(W[k]) /\ arg.v = v[k]
    BY <1>7, <2>3
  <2>5. ReadArg(b, p, T) = IF p.at < 0 \/ arg.at < 0 THEN Misread ELSE Cursor(arg.at, Append(p.v, arg.v))
    BY DEF ReadArg
  <2> HIDE DEF p, before, arg
  <2>6. ReadArg(b, p, T) = Cursor(Len(W[k]), Append(before, v[k]))
    BY <2>2, <2>3, <2>4, <2>5
  <2>7. Append(before, v[k]) = [j \in 1..k |-> v[j]]
    BY <2>1, Appended DEF before
  <2> QED BY <2>1, <2>6, <2>7 DEF p
<1>9. g[0] = Cursor(0, <<>>)
  <2>1. [j \in 1..0 |-> v[j]] = <<>>
    OBVIOUS
  <2>2. Len(W[0]) = 0 /\ 0 \in 0..n
    BY <1>1, <1>2
  <2> QED BY <2>1, <2>2
<1>10. Up(g)
  <2>1. ASSUME NEW k \in 0..n PROVE g[k] = IF k = 0 THEN Cursor(0, <<>>) ELSE ReadArg(b, g[k - 1], types[k])
    <3>1. CASE k = 0
      BY <1>9, <3>1
    <3>2. CASE k # 0
      <4>1. k \in 1..n
        BY <1>1, <3>2
      <4> QED BY <1>8, <3>2, <4>1
    <3> QED BY <3>1, <3>2
  <2>2. g = [k \in 0..n |-> g[k]]
    OBVIOUS
  <2> HIDE DEF g
  <2>3. Up(g)
    BY <2>1, <2>2
  <2> QED BY <2>3
<1> HIDE DEF g
<1>11. Up(c)
  <2> HIDE DEF Up
  <2> QED BY <1>10
<1> HIDE DEF c
<1>12. \A k \in 0..n : c[k] = IF k = 0 THEN Cursor(0, <<>>) ELSE ReadArg(b, c[k - 1], types[k])
  BY <1>11
<1> HIDE DEF Up
<1> DEFINE S == {k \in 0..n : c[k] = g[k]}
<1>13. 0 \in S
  BY <1>1, <1>9, <1>12
<1>14. ASSUME NEW k \in 1..n, k - 1 \in S PROVE k \in S
  <2>1. k \in 0..n /\ k # 0 /\ c[k - 1] = g[k - 1]
    BY <1>1, <1>14
  <2> QED BY <1>8, <1>12, <2>1
<1>15. 0..n \subseteq S
  <2> HIDE DEF S
  <2> QED BY <1>1, <1>13, <1>14, UpTo
<1>16. c[n] = Cursor(Len(W[n]), [j \in 1..n |-> v[j]])
  <2>1. n \in 0..n
    BY <1>1
  <2>2. c[n] = g[n]
    BY <1>15, <2>1
  <2> QED BY <2>1, <2>2 DEF g
<1>17. c[n].at = Len(W[n]) /\ c[n].v = [j \in 1..n |-> v[j]]
  BY <1>16, CursorOf
<1>18. \A k \in 1..n : Kept(types[k].of, types[k].depth) => c[n].v[k] = values[k]
  BY <1>7, <1>17
<1>19. DOMAIN c[n].v = 1..n
  BY <1>17
<1> QED BY <1>3, <1>5, <1>17, <1>18, <1>19 DEF n

=============================================================================
