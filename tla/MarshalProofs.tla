---------------------------- MODULE MarshalProofs ----------------------------
(***************************************************************************)
(* Theorems about Marshal: that a validator which follows the signature of *)
(* a method ends where the reader of its arguments does, and what follows  *)
(* for a call, within a process or between two.                            *)
(***************************************************************************)
EXTENDS MarshalDataProofs, FiniteSetTheorems

-----------------------------------------------------------------------------
(* Signatures *)

Numerals == {"y", "q", "u", "x"}
Chars == Numerals \cup {"s", "a", "(", ")"}

LEMMA LetterOf ==
    ASSUME NEW w \in Widths
    PROVE  Letter(w) \in Numerals /\ SigelementSize(Letter(w)) = w
BY DEF Widths, Letter, Numerals, SigelementSize

LEMMA SizeOfLetter ==
    /\ \A c \in Numerals : SigelementSize(c) \in Widths
    /\ \A c \in {"s", "a", "(", ")"} : SigelementSize(c) = 0
    /\ \A c \in Chars : SigelementSize(c) \in {0} \cup Widths
<1>1. \A c \in Numerals : SigelementSize(c) \in Widths
  BY DEF Numerals, SigelementSize, Widths
<1>2. \A c \in {"s", "a", "(", ")"} : SigelementSize(c) = 0
  BY DEF SigelementSize
<1> QED BY <1>1, <1>2 DEF Chars

LEMMA Joined ==
    ASSUME NEW a \in Seq(Chars), NEW b \in Seq(Chars)
    PROVE  /\ a \o b \in Seq(Chars) /\ Len(a \o b) = Len(a) + Len(b)
           /\ \A k \in 1..Len(a) : (a \o b)[k] = a[k]
           /\ \A k \in 1..Len(b) : (a \o b)[Len(a) + k] = b[k]
OBVIOUS

FlatSignature(F) ==
    CASE F.kind = "number" -> <<Letter(F.sz)>>
      [] F.kind = "string" -> <<"s">>
      [] F.kind = "struct" -> <<"(">> \o [k \in DOMAIN F.members |-> Letter(F.members[k])] \o <<")">>

LEMMA FlatSignatureOf ==
    ASSUME NEW F \in Flats
    PROVE  LET sig == FlatSignature(F)
               m == Len(F.members)
           IN  /\ sig \in Seq(Chars) /\ Len(sig) \in Nat \ {0}
               /\ F.kind = "number" => Len(sig) = 1 /\ sig[1] = Letter(F.sz)
               /\ F.kind = "string" => Len(sig) = 1 /\ sig[1] = "s"
               /\ F.kind = "struct" => /\ Len(sig) = m + 2 /\ sig[1] = "(" /\ sig[m + 2] = ")"
                                       /\ \A k \in 1..m : sig[k + 1] = Letter(F.members[k])
<1>1. CASE F.kind = "number"
  <2>1. FlatSignature(F) = <<Letter(F.sz)>> /\ Letter(F.sz) \in Chars
    BY <1>1, FlatType, LetterOf DEF FlatSignature, Chars
  <2> QED BY <1>1, <2>1
<1>2. CASE F.kind = "string"
  <2>1. FlatSignature(F) = <<"s">> /\ "s" \in Chars
    BY <1>2 DEF FlatSignature, Chars
  <2> QED BY <1>2, <2>1
<1>3. CASE F.kind = "struct"
  <2> DEFINE m == Len(F.members)
             l == [k \in DOMAIN F.members |-> Letter(F.members[k])]
             o == <<"(">>
             c == <<")">>
  <2>1. m \in Nat /\ m >= 1 /\ DOMAIN F.members = 1..m /\ \A k \in 1..m : F.members[k] \in Widths
    BY <1>3, FlatType
  <2> HIDE DEF m
  <2>2. l \in Seq(Chars) /\ Len(l) = m /\ \A k \in 1..m : l[k] = Letter(F.members[k])
    <3>1. \A k \in 1..m : Letter(F.members[k]) \in Chars
      BY <2>1, LetterOf DEF Chars
    <3> QED BY <2>1, <3>1
  <2>3. o \in Seq(Chars) /\ Len(o) = 1 /\ o[1] = "(" /\ c \in Seq(Chars) /\ Len(c) = 1 /\ c[1] = ")"
    BY DEF Chars
  <2>4. FlatSignature(F) = o \o l \o c
    BY <1>3 DEF FlatSignature
  <2> HIDE DEF l, o, c
  <2> DEFINE ol == o \o l
  <2>5. ol \in Seq(Chars) /\ Len(ol) = m + 1 /\ ol[1] = "(" /\ \A k \in 1..m : ol[k + 1] = l[k]
    <3>1. /\ ol \in Seq(Chars) /\ Len(ol) = Len(o) + Len(l)
          /\ \A k \in 1..Len(o) : ol[k] = o[k]
          /\ \A k \in 1..Len(l) : ol[Len(o) + k] = l[k]
      BY <2>2, <2>3, Joined
    <3> HIDE DEF ol
    <3>2. \A k \in 1..m : 1 + k = k + 1
      BY <2>1
    <3> QED BY <2>1, <2>2, <2>3, <3>1, <3>2
  <2> HIDE DEF ol
  <2>6. /\ ol \o c \in Seq(Chars) /\ Len(ol \o c) = m + 2 /\ (ol \o c)[m + 2] = ")"
        /\ \A k \in 1..m + 1 : (ol \o c)[k] = ol[k]
    <3>1. /\ ol \o c \in Seq(Chars) /\ Len(ol \o c) = Len(ol) + Len(c)
          /\ \A k \in 1..Len(ol) : (ol \o c)[k] = ol[k]
          /\ \A k \in 1..Len(c) : (ol \o c)[Len(ol) + k] = c[k]
      BY <2>3, <2>5, Joined
    <3>2. (m + 1) + 1 = m + 2 /\ 1 \in 1..Len(c)
      BY <2>1, <2>3
    <3> QED BY <2>1, <2>3, <2>5, <3>1, <3>2
  <2>7. (ol \o c)[1] = "(" /\ \A k \in 1..m : (ol \o c)[k + 1] = Letter(F.members[k])
    <3>1. 1 \in 1..m + 1 /\ \A k \in 1..m : k + 1 \in 1..m + 1
      BY <2>1
    <3> QED BY <2>2, <2>5, <2>6, <3>1
  <2>8. FlatSignature(F) = ol \o c /\ m + 2 \in Nat \ {0}
    BY <2>1, <2>4 DEF ol
  <2> QED BY <1>3, <2>6, <2>7, <2>8 DEF m
<1> QED BY <1>1, <1>2, <1>3, FlatType

LEMMA SignatureOfType ==
    ASSUME NEW T \in Types
    PROVE  LET sig == SignatureOf(T)
               flat == FlatSignature(T.of)
           IN  /\ sig \in Seq(Chars) /\ Len(sig) = T.depth + Len(flat) /\ Len(sig) \in Nat \ {0}
               /\ \A k \in 1..T.depth : sig[k] = "a"
               /\ \A k \in 1..Len(flat) : sig[T.depth + k] = flat[k]
<1> DEFINE as == [k \in 1..T.depth |-> "a"]
           flat == FlatSignature(T.of)
<1>1. T.of \in Flats /\ T.depth \in Nat
  BY DEF Types
<1>2. as \in Seq(Chars) /\ Len(as) = T.depth /\ \A k \in 1..T.depth : as[k] = "a"
  BY <1>1 DEF Chars
<1>3. flat \in Seq(Chars) /\ Len(flat) \in Nat \ {0}
  BY <1>1, FlatSignatureOf
<1>4. SignatureOf(T) = as \o flat
  BY DEF SignatureOf, FlatSignature
<1> HIDE DEF as, flat
<1>5. /\ as \o flat \in Seq(Chars) /\ Len(as \o flat) = T.depth + Len(flat)
      /\ \A k \in 1..T.depth : (as \o flat)[k] = as[k]
      /\ \A k \in 1..Len(flat) : (as \o flat)[T.depth + k] = flat[k]
  <2>1. /\ as \o flat \in Seq(Chars) /\ Len(as \o flat) = Len(as) + Len(flat)
        /\ \A k \in 1..Len(as) : (as \o flat)[k] = as[k]
        /\ \A k \in 1..Len(flat) : (as \o flat)[Len(as) + k] = flat[k]
    BY <1>2, <1>3, Joined
  <2> QED BY <1>2, <2>1
<1>6. T.depth + Len(flat) \in Nat \ {0}
  BY <1>1, <1>3
<1> QED BY <1>2, <1>4, <1>5, <1>6 DEF flat

\* An array has elements, and a struct has a member.
WellFormed(sig) ==
    /\ sig \in Seq(Chars)
    /\ \A i \in 1..Len(sig) : /\ sig[i] = "a" => i + 1 \in 1..Len(sig)
                              /\ sig[i] = "(" => i + 1 \in 1..Len(sig) /\ sig[i + 1] \in Numerals

LEMMA WellFormedType ==
    ASSUME NEW T \in Types
    PROVE  WellFormed(SignatureOf(T))
<1> DEFINE sig == SignatureOf(T)
           F == T.of
           d == T.depth
           flat == FlatSignature(F)
           m == Len(F.members)
<1>1. F \in Flats /\ d \in Nat
  BY DEF Types
<1>2. /\ sig \in Seq(Chars) /\ Len(sig) = d + Len(flat)
      /\ \A k \in 1..d : sig[k] = "a"
      /\ \A k \in 1..Len(flat) : sig[d + k] = flat[k]
  BY SignatureOfType
<1>3. /\ flat \in Seq(Chars) /\ Len(flat) \in Nat \ {0}
      /\ F.kind = "number" => Len(flat) = 1 /\ flat[1] = Letter(F.sz)
      /\ F.kind = "string" => Len(flat) = 1 /\ flat[1] = "s"
      /\ F.kind = "struct" => /\ Len(flat) = m + 2 /\ flat[1] = "(" /\ flat[m + 2] = ")"
                              /\ \A k \in 1..m : flat[k + 1] = Letter(F.members[k])
  BY <1>1, FlatSignatureOf
<1>4. /\ F.kind \in {"number", "string", "struct"}
      /\ F.kind = "number" => Letter(F.sz) \in Numerals
      /\ F.kind = "struct" => m \in Nat /\ m >= 1 /\ \A k \in 1..m : Letter(F.members[k]) \in Numerals
  <2>1. F.kind = "struct" => m \in Nat /\ m >= 1 /\ \A k \in 1..m : F.members[k] \in Widths
    BY <1>1, FlatType
  <2> QED BY <1>1, <2>1, FlatType, LetterOf
<1> HIDE DEF sig, flat, m, d, F
<1>5. ASSUME NEW i \in 1..Len(flat)
      PROVE  flat[i] # "a" /\ (flat[i] = "(" => i + 1 \in 1..Len(flat) /\ flat[i + 1] \in Numerals)
  <2>1. CASE F.kind = "number"
    <3>1. Len(flat) = 1 /\ flat[1] \in Numerals
      BY <1>3, <1>4, <2>1
    <3>2. i = 1
      BY <3>1
    <3> QED BY <3>1, <3>2 DEF Numerals
  <2>2. CASE F.kind = "string"
    <3>1. i = 1 /\ flat[1] = "s"
      BY <1>3, <2>2
    <3> QED BY <3>1
  <2>3. CASE F.kind = "struct"
    <3>1. CASE i = 1
      BY <1>3, <1>4, <2>3, <3>1
    <3>2. CASE i = m + 2
      BY <1>3, <1>4, <2>3, <3>2
    <3>3. CASE i # 1 /\ i # m + 2
      <4>1. i - 1 \in 1..m /\ (i - 1) + 1 = i
        BY <1>3, <1>4, <2>3, <3>3
      <4>2. flat[i] \in Numerals
        BY <1>3, <1>4, <2>3, <4>1
      <4> QED BY <4>2 DEF Numerals
    <3> QED BY <3>1, <3>2, <3>3
  <2> QED BY <1>4, <2>1, <2>2, <2>3
<1>6. ASSUME NEW i \in 1..Len(sig)
      PROVE  /\ sig[i] = "a" => i + 1 \in 1..Len(sig)
             /\ sig[i] = "(" => i + 1 \in 1..Len(sig) /\ sig[i + 1] \in Numerals
  <2>1. CASE i <= d
    <3>1. sig[i] = "a" /\ i + 1 \in 1..Len(sig)
      BY <1>1, <1>2, <1>3, <2>1
    <3> QED BY <3>1
  <2>2. CASE i > d
    <3>1. i - d \in 1..Len(flat) /\ d + (i - d) = i
      BY <1>1, <1>2, <1>3, <2>2
    <3>2. sig[i] = flat[i - d]
      BY <1>2, <3>1
    <3>3. ASSUME sig[i] = "(" PROVE i + 1 \in 1..Len(sig) /\ sig[i + 1] \in Numerals
      <4>1. (i - d) + 1 \in 1..Len(flat) /\ flat[(i - d) + 1] \in Numerals
        BY <1>5, <3>1, <3>2, <3>3
      <4>2. d + ((i - d) + 1) = i + 1 /\ i + 1 \in 1..Len(sig)
        BY <1>1, <1>2, <1>3, <4>1
      <4> QED BY <1>2, <4>1, <4>2
    <3> QED BY <1>5, <3>1, <3>2, <3>3
  <2> QED BY <1>1, <2>1, <2>2
<1> QED BY <1>2, <1>6 DEF WellFormed, sig


LEMMA WellFormedJoined ==
    ASSUME NEW a, NEW b, WellFormed(a), WellFormed(b)
    PROVE  WellFormed(a \o b)
<1> DEFINE c == a \o b
           l == Len(a)
           m == Len(b)
<1>1. a \in Seq(Chars) /\ b \in Seq(Chars)
  BY DEF WellFormed
<1>2. /\ c \in Seq(Chars) /\ Len(c) = l + m
      /\ \A k \in 1..l : c[k] = a[k]
      /\ \A k \in 1..m : c[l + k] = b[k]
  BY <1>1, Joined
<1>3. l \in Nat /\ m \in Nat
  BY <1>1
<1>4. \A i \in 1..l : /\ a[i] = "a" => i + 1 \in 1..l
                      /\ a[i] = "(" => i + 1 \in 1..l /\ a[i + 1] \in Numerals
  BY DEF WellFormed
<1>5. \A i \in 1..m : /\ b[i] = "a" => i + 1 \in 1..m
                      /\ b[i] = "(" => i + 1 \in 1..m /\ b[i + 1] \in Numerals
  BY DEF WellFormed
<1> HIDE DEF c, l, m
<1>6. ASSUME NEW i \in 1..Len(c)
      PROVE  /\ c[i] = "a" => i + 1 \in 1..Len(c)
             /\ c[i] = "(" => i + 1 \in 1..Len(c) /\ c[i + 1] \in Numerals
  <2>1. CASE i <= l
    <3>1. i \in 1..l /\ c[i] = a[i]
      BY <1>2, <1>3, <2>1
    <3>2. \A j \in 1..l : j \in 1..Len(c)
      BY <1>2, <1>3
    <3> QED BY <1>2, <1>4, <3>1, <3>2
  <2>2. CASE i > l
    <3>1. i - l \in 1..m /\ l + (i - l) = i /\ l + ((i - l) + 1) = i + 1
      BY <1>2, <1>3, <2>2
    <3>2. c[i] = b[i - l]
      BY <1>2, <3>1
    <3>3. \A j \in 1..m : l + j \in 1..Len(c)
      BY <1>2, <1>3
    <3> HIDE <1>6
    <3> QED BY <1>2, <1>5, <3>1, <3>2, <3>3
  <2> QED BY <1>2, <1>3, <2>1, <2>2
<1> QED BY <1>2, <1>6 DEF WellFormed, c

LEMMA SignatureTransitive ==
    ASSUME NEW a \in Seq(Chars), NEW b \in Seq(Chars), NEW c \in Seq(Chars), Begins(a, b), Begins(b, c)
    PROVE  Begins(a, c)
<1>1. Len(a) \in Nat /\ Len(b) \in Nat /\ Len(c) \in Nat
  OBVIOUS
<1> QED BY <1>1 DEF Begins

\* The signature of a method is those of its arguments, one after another.
LEMMA SignaturesOf ==
    ASSUME NEW types \in Seq(Types)
    PROVE  LET n == Len(types)
               G == Signatures(types)
           IN  /\ n \in Nat /\ G \in [0..n -> Seq(Chars)] /\ G[0] = <<>> /\ Signature(types) = G[n]
               /\ \A k \in 1..n : types[k] \in Types /\ G[k] = G[k - 1] \o SignatureOf(types[k])
               /\ \A k \in 0..n : WellFormed(G[k]) /\ Begins(G[k], G[n])
<1> DEFINE n == Len(types)
           step == [k \in 1..n |-> [o \in Seq(Chars) |-> o \o SignatureOf(types[k])]]
           Up(f) == f = [k \in 0..n |-> IF k = 0 THEN <<>> ELSE f[k - 1] \o SignatureOf(types[k])]
           G == CHOOSE f : Up(f)
<1>1. n \in Nat /\ \A k \in 1..n : types[k] \in Types
  OBVIOUS
<1>2. \A k \in 1..n : SignatureOf(types[k]) \in Seq(Chars) /\ WellFormed(SignatureOf(types[k]))
  BY <1>1, WellFormedType DEF WellFormed
<1>3. step \in Steps(n, Seq(Chars))
  <2>1. \A k \in 1..n : \A o \in Seq(Chars) : o \o SignatureOf(types[k]) \in Seq(Chars)
    BY <1>2, Joined
  <2> QED BY <2>1 DEF Steps
<1>4. PICK g : Recurs(g, n, Seq(Chars), <<>>, step)
  <2> HIDE DEF step, n
  <2>1. <<>> \in Seq(Chars)
    OBVIOUS
  <2> QED BY <1>1, <1>3, <2>1, Recursion
<1>5. g \in [0..n -> Seq(Chars)] /\ g[0] = <<>> /\ \A k \in 1..n : g[k] = g[k - 1] \o SignatureOf(types[k])
  <2>1. g \in [0..n -> Seq(Chars)] /\ g[0] = <<>> /\ \A k \in 1..n : g[k] = step[k][g[k - 1]]
    BY <1>4 DEF Recurs
  <2>2. ASSUME NEW k \in 1..n PROVE g[k] = g[k - 1] \o SignatureOf(types[k])
    <3>1. k - 1 \in 0..n
      BY <1>1
    <3>2. g[k - 1] \in Seq(Chars)
      BY <2>1, <3>1
    <3> QED BY <2>1, <3>2
  <2> QED BY <2>1, <2>2
<1> HIDE DEF step
<1>6. Up(g)
  <2>1. ASSUME NEW k \in 0..n PROVE g[k] = IF k = 0 THEN <<>> ELSE g[k - 1] \o SignatureOf(types[k])
    <3>1. CASE k = 0
      BY <1>5, <3>1
    <3>2. CASE k # 0
      <4>1. k \in 1..n
        BY <1>1, <3>2
      <4> QED BY <1>5, <3>2, <4>1
    <3> QED BY <3>1, <3>2
  <2>2. g = [k \in 0..n |-> g[k]]
    BY <1>5
  <2> QED BY <2>1, <2>2
<1>7. Up(G)
  <2> HIDE DEF Up
  <2> QED BY <1>6
<1>8. Signatures(types) = G /\ Signature(types) = G[n]
  BY DEF Signatures, Signature
<1> HIDE DEF G, n
<1>9. G[0] = <<>> /\ \A k \in 1..n : G[k] = G[k - 1] \o SignatureOf(types[k])
  <2>1. \A k \in 0..n : G[k] = IF k = 0 THEN <<>> ELSE G[k - 1] \o SignatureOf(types[k])
    BY <1>7
  <2>2. 0 \in 0..n /\ \A k \in 1..n : k \in 0..n /\ k # 0
    BY <1>1
  <2> HIDE DEF Up
  <2> QED BY <2>1, <2>2
<1> DEFINE S == {k \in 0..n : WellFormed(G[k])}
<1>10. 0 \in S
  <2>1. 0 \in 0..n /\ WellFormed(<<>>)
    BY <1>1 DEF WellFormed
  <2> QED BY <1>9, <2>1
<1>11. ASSUME NEW k \in 1..n, k - 1 \in S PROVE k \in S
  <2>1. k \in 0..n /\ WellFormed(G[k - 1])
    BY <1>1, <1>11
  <2> QED BY <1>2, <1>9, <2>1, WellFormedJoined
<1>12. 0..n \subseteq S
  <2> HIDE DEF S
  <2> QED BY <1>1, <1>10, <1>11, UpTo
<1>13. \A k \in 0..n : WellFormed(G[k]) /\ G[k] \in Seq(Chars)
  BY <1>12 DEF WellFormed
<1> HIDE DEF S
<1>14. G \in [0..n -> Seq(Chars)]
  <2>1. G = [k \in 0..n |-> G[k]]
    BY <1>7
  <2> QED BY <1>13, <2>1
<1> HIDE DEF Up
<1> DEFINE R == {k \in 0..n : Begins(G[n - k], G[n])}
<1>15. 0 \in R
  <2>1. 0 \in 0..n /\ n - 0 = n /\ n \in 0..n
    BY <1>1
  <2>2. G[n] \in Seq(Chars)
    BY <1>13, <2>1
  <2> QED BY <2>1, <2>2 DEF Begins
<1>16. ASSUME NEW k \in 1..n, k - 1 \in R PROVE k \in R
  <2> DEFINE l == n - (k - 1)
  <2>1. l \in 1..n /\ l \in 0..n /\ l - 1 = n - k /\ l - 1 \in 0..n /\ k \in 0..n /\ n \in 0..n
    BY <1>1
  <2>2. Begins(G[l], G[n])
    BY <1>16
  <2> HIDE DEF l
  <2>3. Begins(G[l - 1], G[l])
    <3> DEFINE x == G[l - 1]
               y == SignatureOf(types[l])
    <3>1. x \in Seq(Chars) /\ y \in Seq(Chars) /\ G[l] = x \o y
      BY <1>2, <1>9, <1>13, <2>1
    <3> HIDE DEF x, y
    <3>2. Len(x \o y) = Len(x) + Len(y) /\ \A j \in 1..Len(x) : (x \o y)[j] = x[j]
      BY <3>1, Joined
    <3>3. Len(x) \in Nat /\ Len(y) \in Nat
      BY <3>1
    <3> QED BY <3>1, <3>2, <3>3 DEF Begins, x
  <2>4. Begins(G[l - 1], G[n])
    BY <1>13, <2>1, <2>2, <2>3, SignatureTransitive
  <2> QED BY <2>1, <2>4
<1>17. 0..n \subseteq R
  <2> HIDE DEF R
  <2> QED BY <1>1, <1>15, <1>16, UpTo
<1>18. \A k \in 0..n : Begins(G[k], G[n])
  <2>1. \A k \in 0..n : n - k \in 0..n /\ n - (n - k) = k
    BY <1>1
  <2> QED BY <1>17, <2>1
<1> QED BY <1>1, <1>8, <1>9, <1>13, <1>14, <1>18 DEF n

\* Where a part of the signature begins, it is the signature of its argument.
LEMMA SignatureParts ==
    ASSUME NEW types \in Seq(Types), NEW k \in 1..Len(types)
    PROVE  LET sig == Signature(types)
               part == SignatureOf(types[k])
               from == Len(Signatures(types)[k - 1])
           IN  /\ from \in Nat /\ Len(Signatures(types)[k]) = from + Len(part) /\ from + Len(part) <= Len(sig)
               /\ \A j \in 1..Len(part) : sig[from + j] = part[j]
<1> DEFINE n == Len(types)
           G == Signatures(types)
           x == G[k - 1]
           y == SignatureOf(types[k])
<1>1. /\ n \in Nat /\ G \in [0..n -> Seq(Chars)] /\ Signature(types) = G[n]
      /\ types[k] \in Types /\ G[k] = x \o y /\ \A j \in 0..n : Begins(G[j], G[n])
  BY SignaturesOf
<1> HIDE DEF G, n
<1>2. k - 1 \in 0..n /\ k \in 0..n /\ n \in 0..n
  BY <1>1 DEF n
<1>3. x \in Seq(Chars) /\ y \in Seq(Chars) /\ G[n] \in Seq(Chars) /\ G[k] \in Seq(Chars)
  BY <1>1, <1>2, SignatureOfType
<1> HIDE DEF x, y
<1>4. /\ Len(G[k]) = Len(x) + Len(y)
      /\ \A j \in 1..Len(y) : G[k][Len(x) + j] = y[j]
  <2>1. /\ Len(x \o y) = Len(x) + Len(y)
        /\ \A j \in 1..Len(y) : (x \o y)[Len(x) + j] = y[j]
    BY <1>3, Joined
  <2> QED BY <1>1, <2>1
<1>5. Len(G[k]) <= Len(G[n]) /\ \A j \in 1..Len(G[k]) : G[n][j] = G[k][j]
  BY <1>1, <1>2 DEF Begins
<1>6. Len(x) \in Nat /\ Len(y) \in Nat
  BY <1>3
<1>7. \A j \in 1..Len(y) : Len(x) + j \in 1..Len(G[k])
  BY <1>4, <1>6
<1> QED BY <1>1, <1>4, <1>5, <1>6, <1>7 DEF G, n, x, y



-----------------------------------------------------------------------------
(* The validator, whatever it is given *)

LEMMA SkipType ==
    ASSUME NEW sig, WellFormed(sig), NEW i \in 1..Len(sig)
    PROVE  /\ SkipOneSigelement(sig, i) \in i + 1..Len(sig) + 1
           /\ sig[i] = "(" => SkipOneSigelement(sig, i) >= i + 2
<1> DEFINE l == Len(sig)
           Ends(n) == n = l \/ Depth(sig, i, n) = 0
           Last(n) == Ends(n) /\ \A m \in i..n - 1 : ~Ends(m)
           n == CHOOSE m \in i..l : Last(m)
           T == {m \in i..l : Ends(m)}
<1>1. l \in Nat /\ i \in 1..l
  BY DEF WellFormed
<1>2. SkipOneSigelement(sig, i) = 1 + n
  BY DEF SkipOneSigelement
<1> HIDE DEF l
<1>3. T \in SUBSET Nat /\ l \in T
  BY <1>1
<1>4. PICK m \in T : \A k \in T : m <= k
  <2> HIDE DEF T
  <2> QED BY <1>3, LeastNat
<1>5. m \in i..l /\ Last(m)
  <2>1. m \in i..l /\ Ends(m)
    BY <1>4
  <2> HIDE DEF Ends
  <2>2. ASSUME NEW k \in i..m - 1, Ends(k) PROVE FALSE
    <3>1. k \in T /\ k < m
      BY <1>1, <2>1, <2>2
    <3> QED BY <1>1, <1>4, <2>1, <2>2, <3>1
  <2> QED BY <2>1, <2>2
<1>6. n \in i..l /\ Last(n)
  <2> HIDE DEF Last
  <2> QED BY <1>5
<1> HIDE DEF n
<1>7. ASSUME sig[i] = "(" PROVE n # i
  <2> SUFFICES ASSUME n = i PROVE FALSE
    OBVIOUS
  <2>1. i # l
    BY <1>1, <1>7 DEF WellFormed, l
  <2>2. Depth(sig, i, i) = 0
    BY <1>6, <2>1
  <2>3. {k \in i..i : sig[k] = "("} = {i} /\ {k \in i..i : sig[k] = ")"} = {}
    BY <1>1, <1>7
  <2>4. Depth(sig, i, i) = 1 - 0
    BY <2>3, FS_Singleton, FS_EmptySet DEF Depth
  <2> QED BY <2>2, <2>4
<1> HIDE DEF Last
<1>8. SkipOneSigelement(sig, i) \in i + 1..l + 1 /\ (sig[i] = "(" => SkipOneSigelement(sig, i) >= i + 2)
  BY <1>1, <1>2, <1>6, <1>7
<1> QED BY <1>8 DEF l

LEMMA AlignmentType ==
    ASSUME NEW sig, WellFormed(sig), NEW i \in 1..Len(sig)
    PROVE  /\ SigelementAlignment(sig, i) \in {0} \cup Widths
           /\ sig[i] = "(" => SigelementAlignment(sig, i) \in Widths
<1> DEFINE Own(c) == IF c \in {"a", "s"} THEN size_type ELSE SigelementSize(c)
           end == SkipOneSigelement(sig, i)
           S == {0} \cup {Own(sig[k]) : k \in i..end - 1}
<1>1. sig \in Seq(Chars) /\ Len(sig) \in Nat
  BY DEF WellFormed
<1>2. end \in i + 1..Len(sig) + 1 /\ (sig[i] = "(" => end >= i + 2)
  BY SkipType
<1> HIDE DEF end
<1>3. \A k \in i..end - 1 : sig[k] \in Chars
  BY <1>1, <1>2
<1>4. \A c \in Chars : Own(c) \in {0} \cup Widths
  BY SizeOfLetter DEF size_type, Widths
<1>5. SigelementAlignment(sig, i) = Greatest(S)
  BY DEF SigelementAlignment, end
<1>6. S \in SUBSET ({0} \cup Widths) /\ S # {}
  BY <1>3, <1>4
<1>7. ASSUME sig[i] = "(" PROVE \E m \in S : m \in Widths
  <2>1. i + 1 \in 1..Len(sig) /\ sig[i + 1] \in Numerals
    BY <1>7 DEF WellFormed
  <2>2. Own(sig[i + 1]) \in Widths
    BY <2>1, SizeOfLetter DEF Numerals
  <2>3. i + 1 \in i..end - 1
    BY <1>1, <1>2, <1>7
  <2> QED BY <2>2, <2>3
<1> HIDE DEF S
<1>8. Greatest(S) \in S /\ \A m \in S : m <= Greatest(S)
  BY <1>6, GreatestWidth
<1>9. ASSUME sig[i] = "(" PROVE Greatest(S) \in Widths
  <2>1. PICK m \in S : m \in Widths
    BY <1>7, <1>9
  <2>2. m <= Greatest(S) /\ Greatest(S) \in {0} \cup Widths
    BY <1>6, <1>8, <2>1
  <2>3. \A n \in {0} \cup Widths : \A j \in Widths : j <= n => n \in Widths
    BY DEF Widths
  <2> QED BY <2>1, <2>2, <2>3
<1> QED BY <1>5, <1>6, <1>8, <1>9

\* What the elements of an array are aligned to.
LEMMA ArrayAlign ==
    ASSUME NEW n \in {0} \cup Widths
    PROVE  Greatest({n, 4}) \in {4, 8} /\ Greatest({n, 4}) \in Grains
<1>1. n \in Nat
  BY DEF Widths
<1>2. Greatest({n, 4}) = IF n >= 4 THEN n ELSE 4
  BY <1>1, GreatestOfTwo
<1> QED BY <1>2 DEF Widths, Grains

Validators == [at : Nat, i : Nat, sz : Nat]
Typed(sig, validate) == \A at \in Nat : \A i \in 1..Len(sig) : validate[<<at, i>>] \in Validators

LEMMA AtFields ==
    \A at, i, sz : At(at, i, sz).at = at /\ At(at, i, sz).i = i /\ At(at, i, sz).sz = sz
BY DEF At

LEMMA AtTyped ==
    ASSUME NEW at \in Nat, NEW i \in Nat, NEW sz \in Nat
    PROVE  At(at, i, sz) \in Validators
BY DEF Validators, At

LEMMA InvalidTyped == Invalid \in Validators /\ Invalid.at = 0 /\ Invalid.i = 0 /\ Invalid.sz = 0
BY DEF Validators, At, Invalid

LEMMA ValidatorFields ==
    ASSUME NEW v \in Validators
    PROVE  v.at \in Nat /\ v.i \in Nat /\ v.sz \in Nat
BY DEF Validators

LEMMA AlignTyped ==
    ASSUME NEW v \in Validators, NEW g \in Grains
    PROVE  /\ ValidateReadAlign(v, g) = At(Align(v.at, g), v.i, v.sz + Align(v.at, g) - v.at)
           /\ ValidateReadAlign(v, g) \in Validators
<1>1. v.at \in Nat /\ v.i \in Nat /\ v.sz \in Nat
  BY ValidatorFields
<1>2. Align(v.at, g) \in Nat /\ v.at <= Align(v.at, g)
  BY <1>1, AlignProperty
<1>3. ValidateReadAlign(v, g) = At(Align(v.at, g), v.i, v.sz + Align(v.at, g) - v.at)
  BY DEF ValidateReadAlign
<1>4. v.sz + Align(v.at, g) - v.at \in Nat
  <2> DEFINE a == Align(v.at, g)
  <2> HIDE DEF a
  <2> QED BY <1>1, <1>2 DEF a
<1> QED BY <1>1, <1>2, <1>3, <1>4, AtTyped

LEMMA NextTyped ==
    ASSUME NEW sig, NEW validate, Typed(sig, validate), NEW v \in Validators, NEW i \in 1..Len(sig)
    PROVE  ValidateNext(v, i, validate) \in Validators
<1> DEFINE e == validate[<<v.at, i>>]
<1>1. v.at \in Nat /\ v.i \in Nat /\ v.sz \in Nat
  BY ValidatorFields
<1>2. e \in Validators
  BY <1>1 DEF Typed
<1>3. e.at \in Nat /\ e.i \in Nat /\ v.sz + e.sz \in Nat
  <2> HIDE DEF e
  <2>1. e.at \in Nat /\ e.i \in Nat /\ e.sz \in Nat
    BY <1>2, ValidatorFields
  <2> QED BY <1>1, <2>1
<1>4. At(e.at, e.i, v.sz + e.sz) \in Validators
  BY <1>3, AtTyped
<1> QED BY <1>4, InvalidTyped DEF ValidateNext

\* The members of a struct, one after another.
LEMMA MembersChain ==
    ASSUME NEW b \in Seq(Byte), NEW sig, WellFormed(sig), NEW validate, Typed(sig, validate),
           NEW first \in Validators
    PROVE  \E v \in [0..Len(sig) -> Validators] :
               /\ v[0] = first
               /\ \A k \in 1..Len(sig) : v[k] = (IF v[k - 1].i \in 1..Len(sig) /\ sig[v[k - 1].i] # ")" THEN ValidateNext(v[k - 1], v[k - 1].i, validate) ELSE v[k - 1])
               /\ ValidateMembers(sig, first, validate) = v[Len(sig)]
<1> DEFINE l == Len(sig)
           Up(v) == v = [k \in 0..Len(sig) |-> IF k = 0 THEN first ELSE (IF v[k - 1].i \in 1..Len(sig) /\ sig[v[k - 1].i] # ")" THEN ValidateNext(v[k - 1], v[k - 1].i, validate) ELSE v[k - 1])]
           c == CHOOSE v : Up(v)
           step == [k \in 1..l |-> [p \in Validators |-> (IF p.i \in 1..Len(sig) /\ sig[p.i] # ")" THEN ValidateNext(p, p.i, validate) ELSE p)]]
<1>1. l \in Nat /\ first \in Validators
  BY AtTyped DEF WellFormed
<1>2. \A p \in Validators : (IF p.i \in 1..Len(sig) /\ sig[p.i] # ")" THEN ValidateNext(p, p.i, validate) ELSE p) \in Validators
  BY NextTyped
<1>3. step \in Steps(l, Validators)
  BY <1>2 DEF Steps
<1>4. PICK g : Recurs(g, l, Validators, first, step)
  <2> HIDE DEF step, l
  <2> QED BY <1>1, <1>3, Recursion
<1>5. g \in [0..l -> Validators] /\ g[0] = first /\ \A k \in 1..l : g[k] = (IF g[k - 1].i \in 1..Len(sig) /\ sig[g[k - 1].i] # ")" THEN ValidateNext(g[k - 1], g[k - 1].i, validate) ELSE g[k - 1])
  <2>1. g \in [0..l -> Validators] /\ g[0] = first /\ \A k \in 1..l : g[k] = step[k][g[k - 1]]
    BY <1>4 DEF Recurs
  <2> HIDE DEF l
  <2>2. ASSUME NEW k \in 1..l PROVE g[k] = (IF g[k - 1].i \in 1..Len(sig) /\ sig[g[k - 1].i] # ")" THEN ValidateNext(g[k - 1], g[k - 1].i, validate) ELSE g[k - 1])
    <3>1. k - 1 \in 0..l
      BY <1>1
    <3>2. g[k - 1] \in Validators
      BY <2>1, <3>1
    <3>3. step[k][g[k - 1]] = (IF g[k - 1].i \in 1..Len(sig) /\ sig[g[k - 1].i] # ")" THEN ValidateNext(g[k - 1], g[k - 1].i, validate) ELSE g[k - 1])
      BY <3>2
    <3> QED BY <2>1, <3>3
  <2> QED BY <2>1, <2>2
<1> HIDE DEF step
<1>6. Up(g)
  <2>1. ASSUME NEW k \in 0..l PROVE g[k] = IF k = 0 THEN first ELSE (IF g[k - 1].i \in 1..Len(sig) /\ sig[g[k - 1].i] # ")" THEN ValidateNext(g[k - 1], g[k - 1].i, validate) ELSE g[k - 1])
    <3>1. CASE k = 0
      BY <1>5, <3>1
    <3>2. CASE k # 0
      <4>1. k \in 1..l
        BY <1>1, <3>2
      <4> QED BY <1>5, <3>2, <4>1
    <3> QED BY <3>1, <3>2
  <2>2. g = [k \in 0..l |-> g[k]]
    BY <1>5
  <2> QED BY <2>1, <2>2
<1>7. Up(c)
  <2> HIDE DEF Up
  <2> QED BY <1>6
<1>8. ValidateMembers(sig, first, validate) = c[Len(sig)]
  BY DEF ValidateMembers
<1> HIDE DEF c
<1>9. \A k \in 0..l : c[k] = IF k = 0 THEN first ELSE (IF c[k - 1].i \in 1..Len(sig) /\ sig[c[k - 1].i] # ")" THEN ValidateNext(c[k - 1], c[k - 1].i, validate) ELSE c[k - 1])
  <2> TAKE k \in 0..l
  <2> HIDE DEF l
  <2>1. c = [j \in 0..Len(sig) |-> IF j = 0 THEN first ELSE (IF c[j - 1].i \in 1..Len(sig) /\ sig[c[j - 1].i] # ")" THEN ValidateNext(c[j - 1], c[j - 1].i, validate) ELSE c[j - 1])]
    BY <1>7
  <2>2. k \in 0..Len(sig)
    BY DEF l
  <2> QED BY <2>1, <2>2
<1>10. c = [k \in 0..l |-> c[k]]
  BY <1>7
<1> HIDE DEF Up
<1> DEFINE S == {k \in 0..l : c[k] \in Validators}
<1>11. c[0] = first /\ \A k \in 1..l : c[k] = (IF c[k - 1].i \in 1..Len(sig) /\ sig[c[k - 1].i] # ")" THEN ValidateNext(c[k - 1], c[k - 1].i, validate) ELSE c[k - 1])
  <2> HIDE DEF l
  <2>1. 0 \in 0..l /\ \A k \in 1..l : k \in 0..l /\ k # 0
    BY <1>1
  <2> QED BY <1>9, <2>1
<1>12. 0 \in S
  BY <1>1, <1>11
<1>13. ASSUME NEW k \in 1..l, k - 1 \in S PROVE k \in S
  <2>1. k \in 0..l /\ c[k - 1] \in Validators
    BY <1>1, <1>13
  <2> QED BY <1>2, <1>11, <2>1
<1>14. 0..l \subseteq S
  <2> HIDE DEF S, l
  <2> QED BY <1>1, <1>12, <1>13, UpTo
<1>15. c \in [0..l -> Validators]
  BY <1>10, <1>14
<1> QED BY <1>8, <1>11, <1>15

\* The elements of an array.
ElementsBy(b, first, n, validate, v) ==
    /\ v[0] = first
    /\ \A k \in 1..n : v[k] = ValidateNext(v[k - 1], first.i, validate)
    /\ ValidateElements(b, first, n, validate) = v[n]

LEMMA ElementsChain ==
    ASSUME NEW b \in Seq(Byte), NEW sig, WellFormed(sig), NEW validate, Typed(sig, validate),
           NEW first \in Validators, first.i \in 1..Len(sig), NEW n \in Nat, n <= Len(b)
    PROVE  \E v \in [0..n -> Validators] : ElementsBy(b, first, n, validate, v)
<1> DEFINE l == n
           Up(v) == v = [k \in 0..n |-> IF k = 0 THEN first ELSE ValidateNext(v[k - 1], first.i, validate)]
           c == CHOOSE v : Up(v)
           step == [k \in 1..l |-> [p \in Validators |-> ValidateNext(p, first.i, validate)]]
<1>1. l \in Nat /\ first \in Validators
  BY AtTyped DEF WellFormed
<1>2. \A p \in Validators : ValidateNext(p, first.i, validate) \in Validators
  BY NextTyped
<1>3. step \in Steps(l, Validators)
  BY <1>2 DEF Steps
<1>4. PICK g : Recurs(g, l, Validators, first, step)
  <2> HIDE DEF step, l
  <2> QED BY <1>1, <1>3, Recursion
<1>5. g \in [0..l -> Validators] /\ g[0] = first /\ \A k \in 1..l : g[k] = ValidateNext(g[k - 1], first.i, validate)
  <2>1. g \in [0..l -> Validators] /\ g[0] = first /\ \A k \in 1..l : g[k] = step[k][g[k - 1]]
    BY <1>4 DEF Recurs
  <2> HIDE DEF l
  <2>2. ASSUME NEW k \in 1..l PROVE g[k] = ValidateNext(g[k - 1], first.i, validate)
    <3>1. k - 1 \in 0..l
      BY <1>1
    <3>2. g[k - 1] \in Validators
      BY <2>1, <3>1
    <3>3. step[k][g[k - 1]] = ValidateNext(g[k - 1], first.i, validate)
      BY <3>2
    <3> QED BY <2>1, <3>3
  <2> QED BY <2>1, <2>2
<1> HIDE DEF step
<1>6. Up(g)
  <2>1. ASSUME NEW k \in 0..l PROVE g[k] = IF k = 0 THEN first ELSE ValidateNext(g[k - 1], first.i, validate)
    <3>1. CASE k = 0
      BY <1>5, <3>1
    <3>2. CASE k # 0
      <4>1. k \in 1..l
        BY <1>1, <3>2
      <4> QED BY <1>5, <3>2, <4>1
    <3> QED BY <3>1, <3>2
  <2>2. g = [k \in 0..l |-> g[k]]
    BY <1>5
  <2> QED BY <2>1, <2>2
<1>7. Up(c)
  <2> HIDE DEF Up
  <2> QED BY <1>6
<1>8. ValidateElements(b, first, n, validate) = c[n]
  BY DEF ValidateElements
<1> HIDE DEF c
<1>9. \A k \in 0..l : c[k] = IF k = 0 THEN first ELSE ValidateNext(c[k - 1], first.i, validate)
  BY <1>7
<1>10. c = [k \in 0..l |-> c[k]]
  BY <1>7
<1> HIDE DEF Up
<1> DEFINE S == {k \in 0..l : c[k] \in Validators}
<1>11. c[0] = first /\ \A k \in 1..l : c[k] = ValidateNext(c[k - 1], first.i, validate)
  <2> HIDE DEF l
  <2>1. 0 \in 0..l /\ \A k \in 1..l : k \in 0..l /\ k # 0
    BY <1>1
  <2> QED BY <1>9, <2>1
<1>12. 0 \in S
  BY <1>1, <1>11
<1>13. ASSUME NEW k \in 1..l, k - 1 \in S PROVE k \in S
  <2>1. k \in 0..l /\ c[k - 1] \in Validators
    BY <1>1, <1>13
  <2> QED BY <1>2, <1>11, <2>1
<1>14. 0..l \subseteq S
  <2> HIDE DEF S, l
  <2> QED BY <1>1, <1>12, <1>13, UpTo
<1>15. c \in [0..l -> Validators]
  BY <1>10, <1>14
<1> QED BY <1>8, <1>11, <1>15 DEF ElementsBy


ValidateStep(b, sig, d, validate) ==
    [x \in Nat \X (1..Len(sig)) |->
        CASE d = 0 \/ sig[x[2]] = ")" -> Invalid
          [] d # 0 /\ SigelementSize(sig[x[2]]) # 0 -> ValidateNumber(b, sig, x[1], x[2])
          [] d # 0 /\ sig[x[2]] = "(" -> ValidateStruct(b, sig, x[1], x[2], validate)
          [] OTHER -> ValidateArray(b, sig, x[1], x[2], validate)]
Validating(b, sig, m, f) == f = [d \in 0..m |-> ValidateStep(b, sig, d, f[d - 1])]

LEMMA ValidatingExists ==
    ASSUME NEW b, NEW sig, NEW m \in Nat
    PROVE  \E f : Validating(b, sig, m, f)
<1> DEFINE S == {l \in 0..m : \E f : Validating(b, sig, l, f)}
<1>1. 0 \in S
  <2> DEFINE w == ValidateStep(b, sig, 0, <<>>)
             f == [d \in 0..0 |-> w]
  <2>1. ValidateStep(b, sig, 0, f[-1]) = w
    BY DEF ValidateStep
  <2>2. f = [d \in 0..0 |-> ValidateStep(b, sig, d, f[d - 1])]
    <3>1. \A d \in 0..0 : ValidateStep(b, sig, d, f[d - 1]) = w
      <4>1. \A d \in 0..0 : d = 0 /\ d - 1 = -1
        OBVIOUS
      <4> HIDE DEF f, w
      <4> QED BY <2>1, <4>1
    <3> HIDE DEF w
    <3> QED BY <3>1
  <2> HIDE DEF f
  <2>3. Validating(b, sig, 0, f)
    BY <2>2 DEF Validating
  <2> QED BY <2>3
<1>2. ASSUME NEW l \in 1..m, l - 1 \in S PROVE l \in S
  <2>1. PICK f : Validating(b, sig, l - 1, f)
    BY <1>2
  <2> DEFINE g == [d \in 0..l |-> IF d = l THEN ValidateStep(b, sig, l, f[l - 1]) ELSE f[d]]
  <2>2. ASSUME NEW d \in 0..l PROVE g[d] = ValidateStep(b, sig, d, g[d - 1])
    <3>1. CASE d = l
      <4>1. l - 1 \in 0..l /\ l - 1 # l
        OBVIOUS
      <4> QED BY <3>1, <4>1
    <3>2. CASE d # l /\ d = 0
      <4>1. g[d] = f[d] /\ d \in 0..l - 1
        BY <3>2
      <4>2. f[d] = ValidateStep(b, sig, 0, f[d - 1])
        BY <2>1, <3>2, <4>1 DEF Validating
      <4> HIDE DEF g
      <4> QED BY <3>2, <4>1, <4>2 DEF ValidateStep
    <3>3. CASE d # l /\ d # 0
      <4>1. d \in 0..l - 1 /\ d - 1 \in 0..l /\ d - 1 # l
        BY <3>3
      <4>2. g[d] = f[d] /\ g[d - 1] = f[d - 1]
        BY <3>3, <4>1
      <4>3. f[d] = ValidateStep(b, sig, d, f[d - 1])
        BY <2>1, <4>1 DEF Validating
      <4> HIDE DEF g
      <4> QED BY <4>2, <4>3
    <3> QED BY <3>1, <3>2, <3>3
  <2>3. g = [d \in 0..l |-> g[d]]
    OBVIOUS
  <2> HIDE DEF g
  <2>4. Validating(b, sig, l, g)
    BY <2>2, <2>3 DEF Validating
  <2> QED BY <2>4
<1>3. m \in S
  <2> HIDE DEF S
  <2>1. 0..m \subseteq S
    BY <1>1, <1>2, UpTo
  <2> QED BY <2>1
<1> QED BY <1>3


LEMMA ElementsTyped ==
    ASSUME NEW b \in Seq(Byte), NEW sig, WellFormed(sig), NEW validate, Typed(sig, validate),
           NEW first \in Validators, first.i \in 1..Len(sig), NEW n \in Nat
    PROVE  ValidateElements(b, first, n, validate) \in Validators
<1>1. CASE n > Len(b)
  BY <1>1, InvalidTyped DEF ValidateElements
<1>2. CASE ~(n > Len(b))
  <2>1. n <= Len(b) /\ n \in 0..n
    BY <1>2
  <2>2. \E v \in [0..n -> Validators] : ValidateElements(b, first, n, validate) = v[n]
    BY <2>1, ElementsChain DEF ElementsBy
  <2> QED BY <2>1, <2>2
<1> QED BY <1>1, <1>2

LEMMA MembersTyped ==
    ASSUME NEW b \in Seq(Byte), NEW sig, WellFormed(sig), NEW validate, Typed(sig, validate), NEW first \in Validators
    PROVE  ValidateMembers(sig, first, validate) \in Validators
<1>1. \E v \in [0..Len(sig) -> Validators] : ValidateMembers(sig, first, validate) = v[Len(sig)]
  BY MembersChain
<1>2. Len(sig) \in 0..Len(sig)
  BY DEF WellFormed
<1> QED BY <1>1, <1>2

LEMMA NumberTyped ==
    ASSUME NEW b \in Seq(Byte), NEW sig, WellFormed(sig), NEW at \in Nat, NEW i \in 1..Len(sig)
    PROVE  ValidateNumber(b, sig, at, i) \in Validators
<1> DEFINE sz == SigelementSize(sig[i])
<1>1. sz \in Nat
  BY SizeOfLetter DEF WellFormed, Widths
<1>2. At(at + sz, i + 1, sz) \in Validators
  <2>1. i \in Nat
    BY DEF WellFormed
  <2> HIDE DEF sz
  <2>2. at + sz \in Nat /\ i + 1 \in Nat
    BY <1>1, <2>1
  <2> QED BY <1>1, <2>2, AtTyped
<1> QED BY <1>2, InvalidTyped DEF ValidateNumber

LEMMA StructTyped ==
    ASSUME NEW b \in Seq(Byte), NEW sig, WellFormed(sig), NEW validate, Typed(sig, validate),
           NEW at \in Nat, NEW i \in 1..Len(sig), sig[i] = "("
    PROVE  ValidateStruct(b, sig, at, i, validate) \in Validators
<1> DEFINE sal == SigelementAlignment(sig, i)
           first == ValidateReadAlign(At(at, i + 1, 0), sal)
           members == ValidateMembers(sig, first, validate)
<1>1. sal \in Grains
  BY AlignmentType DEF Widths, Grains
<1>2. At(at, i + 1, 0) \in Validators
  BY AtTyped DEF WellFormed
<1>3. first \in Validators
  BY <1>1, <1>2, AlignTyped
<1>4. members \in Validators
  BY <1>3, MembersTyped
<1>5. ValidateReadAlign(members, sal) \in Validators
  BY <1>1, <1>4, AlignTyped
<1> QED BY <1>5, InvalidTyped DEF ValidateStruct

LEMMA CountType ==
    ASSUME NEW b \in Seq(Byte), NEW at \in Nat, Fits(b, at, 4)
    PROVE  Count(Bytes(b, at, 4)) \in Nat
<1>1. \A k \in 1..4 : b[at + k] \in Byte
  BY DEF Fits
<1>2. Bytes(b, at, 4)[1] \in Nat /\ Bytes(b, at, 4)[2] \in Nat /\ Bytes(b, at, 4)[3] \in Nat /\ Bytes(b, at, 4)[4] \in Nat
  <2>1. \A k \in 1..4 : Bytes(b, at, 4)[k] = b[at + k] /\ k \in 1..4
    BY DEF Bytes
  <2>2. \A c \in Byte : c \in Nat
    BY DEF Byte
  <2>3. \A k \in 1..4 : Bytes(b, at, 4)[k] \in Nat
    BY <1>1, <2>1, <2>2
  <2>4. 1 \in 1..4 /\ 2 \in 1..4 /\ 3 \in 1..4 /\ 4 \in 1..4
    OBVIOUS
  <2> QED BY <2>3, <2>4
<1> DEFINE c == Bytes(b, at, 4)
<1> HIDE DEF c
<1>3. c[1] \in Nat /\ c[2] \in Nat /\ c[3] \in Nat /\ c[4] \in Nat
  BY <1>2 DEF c
<1>4. \A j, k, l, m \in Nat : j + 256 * k + 65536 * l + 16777216 * m \in Nat
  OBVIOUS
<1>5. Count(c) \in Nat
  <2> DEFINE j == c[1]
             k == c[2]
             l == c[3]
             m == c[4]
  <2>1. j \in Nat /\ k \in Nat /\ l \in Nat /\ m \in Nat
    BY <1>3
  <2>2. Count(c) = j + 256 * k + 65536 * l + 16777216 * m
    BY DEF Count
  <2> HIDE DEF j, k, l, m
  <2> QED BY <1>4, <2>1, <2>2
<1> QED BY <1>5 DEF c

LEMMA ArrayTyped ==
    ASSUME NEW b \in Seq(Byte), NEW sig, WellFormed(sig), NEW validate, Typed(sig, validate),
           NEW at \in Nat, NEW i \in 1..Len(sig), sig[i] \in {"a", "s"}
    PROVE  ValidateArray(b, sig, at, i, validate) \in Validators
<1> DEFINE isArray == sig[i] = "a"
           nel == Count(Bytes(b, at, size_type))
           elsz == IF isArray THEN SigelementSize(sig[i + 1]) ELSE 1
           elal == IF isArray THEN Greatest({SigelementAlignment(sig, i + 1), 4}) ELSE 4
           first == ValidateReadAlign(At(at + 4, i + 1, 4), elal)
           elements == ValidateElements(b, first, nel, validate)
           skipped == At(first.at + elsz * nel, i + 1, first.sz + elsz * nel)
           last == CASE elsz = 0 -> elements
                     [] elsz # 0 /\ ~Fits(b, first.at, elsz * nel) -> Invalid
                     [] OTHER -> skipped
           rest == IF isArray THEN SkipOneSigelement(sig, i + 1) ELSE i + 1
           end == ValidateReadAlign(last, elal)
           valid == /\ Fits(b, at, 4) /\ at % 4 = 0 /\ CanAlign(b, at + 4, elal)
                    /\ last.i # 0
                    /\ ~isArray => b[last.at] = 0
                    /\ CanAlign(b, last.at, elal)
<1>1. ValidateArray(b, sig, at, i, validate) = IF valid THEN [end EXCEPT !.i = rest] ELSE Invalid
  BY DEF ValidateArray
<1>2. i \in Nat /\ (isArray => i + 1 \in 1..Len(sig))
  BY DEF WellFormed
<1>3. elal \in Grains
  <2>1. isArray => SigelementAlignment(sig, i + 1) \in {0} \cup Widths
    BY <1>2, AlignmentType
  <2>2. 4 \in Grains
    BY DEF Grains
  <2> QED BY <2>1, <2>2, ArrayAlign
<1>4. elsz \in Nat /\ (elsz = 0 => isArray)
  <2>1. isArray => SigelementSize(sig[i + 1]) \in {0} \cup Widths
    BY <1>2, SizeOfLetter DEF WellFormed
  <2> QED BY <2>1 DEF Widths
<1>5. rest \in Nat
  <2>1. isArray => SkipOneSigelement(sig, i + 1) \in Nat
    BY <1>2, SkipType DEF WellFormed
  <2> QED BY <1>2, <2>1
<1> HIDE DEF elal, elsz, rest
<1>6. first \in Validators /\ first.i = i + 1
  <2>1. At(at + 4, i + 1, 4) \in Validators /\ At(at + 4, i + 1, 4).i = i + 1
    <3>1. at + 4 \in Nat /\ i + 1 \in Nat /\ 4 \in Nat
      BY <1>2
    <3> QED BY <3>1, AtTyped, AtFields
  <2> DEFINE start == At(at + 4, i + 1, 4)
  <2> HIDE DEF start
  <2>2. /\ ValidateReadAlign(start, elal) \in Validators
        /\ ValidateReadAlign(start, elal) = At(Align(start.at, elal), start.i, start.sz + Align(start.at, elal) - start.at)
    BY <1>3, <2>1, AlignTyped DEF start
  <2>3. ValidateReadAlign(start, elal).i = start.i
    BY <2>2, AtFields
  <2> QED BY <2>1, <2>2, <2>3 DEF start
<1> HIDE DEF first
<1>7. ASSUME Fits(b, at, 4) PROVE last \in Validators
  <2>1. nel \in Nat
    BY <1>7, CountType DEF size_type
  <2> HIDE DEF nel
  <2>2. elsz = 0 => elements \in Validators
    BY <1>2, <1>4, <1>6, <2>1, ElementsTyped
  <2>3. skipped \in Validators
    <3> DEFINE all == elsz * nel
    <3>1. first.at \in Nat /\ first.sz \in Nat
      BY <1>6, ValidatorFields
    <3>2. all \in Nat
      BY <1>4, <2>1
    <3> HIDE DEF all
    <3>3. \A j, k \in Nat : j + k \in Nat /\ j + 1 \in Nat
      OBVIOUS
    <3>4. At(first.at + all, i + 1, first.sz + all) \in Validators
      BY <1>2, <3>1, <3>2, <3>3, AtTyped
    <3> QED BY <3>4 DEF all
  <2> HIDE DEF elements, skipped
  <2>4. Invalid \in Validators
    BY InvalidTyped
  <2> QED BY <2>2, <2>3, <2>4
<1> HIDE DEF last
<1>8. ASSUME valid PROVE [end EXCEPT !.i = rest] \in Validators
  <2>1. end \in Validators
    BY <1>3, <1>7, <1>8, AlignTyped
  <2> HIDE DEF end
  <2> QED BY <1>5, <2>1 DEF Validators
<1> HIDE DEF valid, end
<1> QED BY <1>1, <1>8, InvalidTyped

\* What an element is validated as.
ValidatesAs(b, sig, validate, at, i, e) ==
    /\ sig[i] \in Numerals => e = ValidateNumber(b, sig, at, i)
    /\ sig[i] = "(" => e = ValidateStruct(b, sig, at, i, validate)
    /\ sig[i] \in {"a", "s"} => e = ValidateArray(b, sig, at, i, validate)
    /\ sig[i] = ")" => e = Invalid

LEMMA ValidateSteps ==
    ASSUME NEW b, NEW sig, NEW d \in Nat \ {0}, NEW validate, NEW at \in Nat, NEW i \in 1..Len(sig), sig[i] \in Chars
    PROVE  ValidatesAs(b, sig, validate, at, i, ValidateStep(b, sig, d, validate)[<<at, i>>])
<1> DEFINE e == ValidateStep(b, sig, d, validate)[<<at, i>>]
           number == SigelementSize(sig[i]) # 0
<1>1. e = CASE d = 0 \/ sig[i] = ")" -> Invalid
            [] d # 0 /\ number -> ValidateNumber(b, sig, at, i)
            [] d # 0 /\ sig[i] = "(" -> ValidateStruct(b, sig, at, i, validate)
            [] OTHER -> ValidateArray(b, sig, at, i, validate)
  BY DEF ValidateStep
<1>2. d # 0
  OBVIOUS
<1>3. sig[i] \in Numerals => number
  BY SizeOfLetter DEF Widths
<1>4. sig[i] \in {"s", "a", "(", ")"} => ~number
  BY SizeOfLetter
<1>5. sig[i] \in Numerals => sig[i] \notin {"s", "a", "(", ")"}
  BY DEF Numerals
<1> HIDE DEF e, number
<1>6. sig[i] \in Numerals => e = ValidateNumber(b, sig, at, i)
  BY <1>1, <1>2, <1>3, <1>5
<1>7. sig[i] = "(" => e = ValidateStruct(b, sig, at, i, validate)
  BY <1>1, <1>2, <1>4
<1>8. sig[i] \in {"a", "s"} => e = ValidateArray(b, sig, at, i, validate)
  BY <1>1, <1>2, <1>4
<1>9. sig[i] = ")" => e = Invalid
  BY <1>1, <1>2, <1>4
<1> QED BY <1>6, <1>7, <1>8, <1>9 DEF e, ValidatesAs

LEMMA ValidateTypes ==
    ASSUME NEW b \in Seq(Byte), NEW sig, WellFormed(sig), NEW m \in Nat, NEW f, Validating(b, sig, m, f)
    PROVE  \A d \in 0..m : Typed(sig, f[d])
<1> DEFINE S == {d \in 0..m : Typed(sig, f[d])}
<1>1. \A d \in 0..m : f[d] = ValidateStep(b, sig, d, f[d - 1])
  BY DEF Validating
<1>2. 0 \in S
  <2>1. ASSUME NEW at \in Nat, NEW i \in 1..Len(sig) PROVE f[0][<<at, i>>] = Invalid
    <3>1. f[0] = ValidateStep(b, sig, 0, f[0 - 1])
      BY <1>1
    <3> QED BY <3>1 DEF ValidateStep
  <2>2. ASSUME NEW at \in Nat, NEW i \in 1..Len(sig) PROVE f[0][<<at, i>>] \in Validators
    BY <2>1, InvalidTyped
  <2>3. 0 \in 0..m
    OBVIOUS
  <2> QED BY <2>2, <2>3 DEF Typed
<1>3. ASSUME NEW d \in 1..m, d - 1 \in S PROVE d \in S
  <2>1. d \in 0..m /\ d \in Nat \ {0} /\ Typed(sig, f[d - 1]) /\ f[d] = ValidateStep(b, sig, d, f[d - 1])
    BY <1>1, <1>3
  <2>2. ASSUME NEW at \in Nat, NEW i \in 1..Len(sig) PROVE f[d][<<at, i>>] \in Validators
    <3>1. sig[i] \in Chars
      BY DEF WellFormed
    <3>2. /\ sig[i] \in Numerals => f[d][<<at, i>>] = ValidateNumber(b, sig, at, i)
          /\ sig[i] = "(" => f[d][<<at, i>>] = ValidateStruct(b, sig, at, i, f[d - 1])
          /\ sig[i] \in {"a", "s"} => f[d][<<at, i>>] = ValidateArray(b, sig, at, i, f[d - 1])
          /\ sig[i] = ")" => f[d][<<at, i>>] = Invalid
      <4>1. ValidatesAs(b, sig, f[d - 1], at, i, ValidateStep(b, sig, d, f[d - 1])[<<at, i>>])
        <5> HIDE DEF Validating
        <5> QED BY <2>1, <3>1, ValidateSteps
      <4>2. f[d][<<at, i>>] = ValidateStep(b, sig, d, f[d - 1])[<<at, i>>]
        BY <2>1
      <4>3. ValidatesAs(b, sig, f[d - 1], at, i, f[d][<<at, i>>])
        BY <4>1, <4>2
      <4> QED BY <4>3 DEF ValidatesAs
    <3>3. CASE sig[i] \in Numerals
      BY <3>2, <3>3, NumberTyped
    <3>4. CASE sig[i] = "("
      BY <2>1, <3>2, <3>4, StructTyped
    <3>5. CASE sig[i] \in {"a", "s"}
      BY <2>1, <3>2, <3>5, ArrayTyped
    <3>6. CASE sig[i] = ")"
      BY <3>2, <3>6, InvalidTyped
    <3> QED BY <3>1, <3>3, <3>4, <3>5, <3>6 DEF Chars
  <2> QED BY <2>1, <2>2 DEF Typed
<1>4. 0..m \subseteq S
  <2> HIDE DEF S
  <2> QED BY <1>2, <1>3, UpTo
<1> QED BY <1>4

\* The function that ValidateSigelement is.
Validator(b, sig) == CHOOSE f : Validating(b, sig, Len(sig), f)

LEMMA SigelementOf ==
    ASSUME NEW b \in Seq(Byte), NEW sig, WellFormed(sig)
    PROVE  /\ Validating(b, sig, Len(sig), Validator(b, sig)) /\ Len(sig) \in Nat
           /\ ValidateSigelement(b, sig) = Validator(b, sig)[Len(sig)]
           /\ \A d \in 0..Len(sig) : Typed(sig, Validator(b, sig)[d])
           /\ Typed(sig, ValidateSigelement(b, sig))
<1>1. Len(sig) \in Nat /\ Len(sig) \in 0..Len(sig)
  BY DEF WellFormed
<1>2. Validating(b, sig, Len(sig), Validator(b, sig))
  BY <1>1, ValidatingExists DEF Validator
<1>3. ValidateSigelement(b, sig) = Validator(b, sig)[Len(sig)]
  BY DEF ValidateSigelement, Validator, Validating, ValidateStep
<1>4. \A d \in 0..Len(sig) : Typed(sig, Validator(b, sig)[d])
  BY <1>1, <1>2, ValidateTypes
<1> QED BY <1>1, <1>2, <1>3, <1>4

\* The elements of a signature, as far as it goes.
LEMMA SignatureChain ==
    ASSUME NEW b \in Seq(Byte), NEW sig, WellFormed(sig), NEW validate, Typed(sig, validate),
           validate = ValidateSigelement(b, sig)
    PROVE  \E v \in [0..Len(sig) -> Validators] :
               /\ v[0] = At(0, 1, 0)
               /\ \A k \in 1..Len(sig) : v[k] = (IF v[k - 1].i \in 1..Len(sig) THEN ValidateNext(v[k - 1], v[k - 1].i, validate) ELSE v[k - 1])
               /\ ValidateSignature(b, sig) = v[Len(sig)].sz
<1> DEFINE l == Len(sig)
           Up(v) == v = [k \in 0..Len(sig) |-> IF k = 0 THEN At(0, 1, 0) ELSE (IF v[k - 1].i \in 1..Len(sig) THEN ValidateNext(v[k - 1], v[k - 1].i, validate) ELSE v[k - 1])]
           c == CHOOSE v : Up(v)
           step == [k \in 1..l |-> [p \in Validators |-> (IF p.i \in 1..Len(sig) THEN ValidateNext(p, p.i, validate) ELSE p)]]
<1>1. l \in Nat /\ At(0, 1, 0) \in Validators
  BY AtTyped DEF WellFormed
<1>2. \A p \in Validators : (IF p.i \in 1..Len(sig) THEN ValidateNext(p, p.i, validate) ELSE p) \in Validators
  BY NextTyped
<1>3. step \in Steps(l, Validators)
  BY <1>2 DEF Steps
<1>4. PICK g : Recurs(g, l, Validators, At(0, 1, 0), step)
  <2> HIDE DEF step, l
  <2> QED BY <1>1, <1>3, Recursion
<1>5. g \in [0..l -> Validators] /\ g[0] = At(0, 1, 0) /\ \A k \in 1..l : g[k] = (IF g[k - 1].i \in 1..Len(sig) THEN ValidateNext(g[k - 1], g[k - 1].i, validate) ELSE g[k - 1])
  <2>1. g \in [0..l -> Validators] /\ g[0] = At(0, 1, 0) /\ \A k \in 1..l : g[k] = step[k][g[k - 1]]
    BY <1>4 DEF Recurs
  <2> HIDE DEF l
  <2>2. ASSUME NEW k \in 1..l PROVE g[k] = (IF g[k - 1].i \in 1..Len(sig) THEN ValidateNext(g[k - 1], g[k - 1].i, validate) ELSE g[k - 1])
    <3>1. k - 1 \in 0..l
      BY <1>1
    <3>2. g[k - 1] \in Validators
      BY <2>1, <3>1
    <3>3. step[k][g[k - 1]] = (IF g[k - 1].i \in 1..Len(sig) THEN ValidateNext(g[k - 1], g[k - 1].i, validate) ELSE g[k - 1])
      BY <3>2
    <3> QED BY <2>1, <3>3
  <2> QED BY <2>1, <2>2
<1> HIDE DEF step
<1>6. Up(g)
  <2>1. ASSUME NEW k \in 0..l PROVE g[k] = IF k = 0 THEN At(0, 1, 0) ELSE (IF g[k - 1].i \in 1..Len(sig) THEN ValidateNext(g[k - 1], g[k - 1].i, validate) ELSE g[k - 1])
    <3>1. CASE k = 0
      BY <1>5, <3>1
    <3>2. CASE k # 0
      <4>1. k \in 1..l
        BY <1>1, <3>2
      <4> QED BY <1>5, <3>2, <4>1
    <3> QED BY <3>1, <3>2
  <2>2. g = [k \in 0..l |-> g[k]]
    BY <1>5
  <2> QED BY <2>1, <2>2
<1>7. Up(c)
  <2> HIDE DEF Up
  <2> QED BY <1>6
<1>8. ValidateSignature(b, sig) = c[Len(sig)].sz
  BY DEF ValidateSignature
<1> HIDE DEF c
<1>9. \A k \in 0..l : c[k] = IF k = 0 THEN At(0, 1, 0) ELSE (IF c[k - 1].i \in 1..Len(sig) THEN ValidateNext(c[k - 1], c[k - 1].i, validate) ELSE c[k - 1])
  BY <1>7
<1>10. c = [k \in 0..l |-> c[k]]
  BY <1>7
<1> HIDE DEF Up
<1> DEFINE S == {k \in 0..l : c[k] \in Validators}
<1>11. c[0] = At(0, 1, 0) /\ \A k \in 1..l : c[k] = (IF c[k - 1].i \in 1..Len(sig) THEN ValidateNext(c[k - 1], c[k - 1].i, validate) ELSE c[k - 1])
  <2> HIDE DEF l
  <2>1. 0 \in 0..l /\ \A k \in 1..l : k \in 0..l /\ k # 0
    BY <1>1
  <2> QED BY <1>9, <2>1
<1>12. 0 \in S
  BY <1>1, <1>11
<1>13. ASSUME NEW k \in 1..l, k - 1 \in S PROVE k \in S
  <2>1. k \in 0..l /\ c[k - 1] \in Validators
    BY <1>1, <1>13
  <2> QED BY <1>2, <1>11, <2>1
<1>14. 0..l \subseteq S
  <2> HIDE DEF S, l
  <2> QED BY <1>1, <1>12, <1>13, UpTo
<1>15. c \in [0..l -> Validators]
  BY <1>10, <1>14
<1> QED BY <1>8, <1>11, <1>15

LEMMA SignatureTyped ==
    ASSUME NEW b \in Seq(Byte), NEW sig, WellFormed(sig)
    PROVE  ValidateSignature(b, sig) \in Nat
<1>1. PICK v \in [0..Len(sig) -> Validators] : ValidateSignature(b, sig) = v[Len(sig)].sz
  BY SigelementOf, SignatureChain
<1>2. Len(sig) \in 0..Len(sig)
  BY DEF WellFormed
<1>3. v[Len(sig)] \in Validators
  BY <1>2
<1> QED BY <1>1, <1>3, ValidatorFields

-----------------------------------------------------------------------------
(* The validator of the types it follows *)

\* A struct of w, from its opening parenthesis at i to its closing one.
Enclosed(sig, i, w) ==
    /\ i + Len(w) + 1 <= Len(sig) /\ sig[i] = "(" /\ sig[i + Len(w) + 1] = ")"
    /\ \A k \in 1..Len(w) : sig[i + k] = Letter(w[k])

LEMMA SkipLetter ==
    ASSUME NEW sig, WellFormed(sig), NEW i \in 1..Len(sig), sig[i] \notin {"(", ")"}
    PROVE  SkipOneSigelement(sig, i) = i + 1
<1> DEFINE l == Len(sig)
           Ends(n) == n = l \/ Depth(sig, i, n) = 0
           Last(n) == Ends(n) /\ \A m \in i..n - 1 : ~Ends(m)
           n == CHOOSE n \in i..l : Last(n)
<1>1. l \in Nat /\ i \in 1..l
  BY DEF WellFormed
<1>2. SkipOneSigelement(sig, i) = 1 + n
  BY DEF SkipOneSigelement
<1> HIDE DEF l
<1>3. Ends(i)
  <2>1. {k \in i..i : sig[k] = "("} = {} /\ {k \in i..i : sig[k] = ")"} = {}
    BY <1>1
  <2>2. Depth(sig, i, i) = 0 - 0
    BY <2>1, FS_EmptySet DEF Depth
  <2> QED BY <2>2
<1> HIDE DEF Ends
<1>4. i \in i..l /\ Last(i)
  BY <1>1, <1>3
<1>5. n \in i..l /\ Last(n)
  <2> HIDE DEF Last
  <2> QED BY <1>4
<1> HIDE DEF n
<1>6. n = i
  <2> SUFFICES ASSUME n # i PROVE FALSE
    OBVIOUS
  <2>1. i \in i..n - 1
    BY <1>1, <1>5
  <2> QED BY <1>3, <1>5, <2>1
<1> QED BY <1>1, <1>2, <1>6

LEMMA SkipStruct ==
    ASSUME NEW sig, WellFormed(sig), NEW w \in Seq(Widths), NEW i \in 1..Len(sig), Enclosed(sig, i, w)
    PROVE  SkipOneSigelement(sig, i) = i + Len(w) + 2
<1> DEFINE l == Len(sig)
           c == i + Len(w) + 1
           Ends(n) == n = l \/ Depth(sig, i, n) = 0
           Last(n) == Ends(n) /\ \A m \in i..n - 1 : ~Ends(m)
           n == CHOOSE n \in i..l : Last(n)
<1>1. l \in Nat /\ i \in 1..l /\ c \in Nat /\ c <= l /\ Len(w) \in Nat /\ c > i
  BY DEF WellFormed, Enclosed
<1>2. SkipOneSigelement(sig, i) = 1 + n
  BY DEF SkipOneSigelement
<1>3. sig[i] = "(" /\ sig[c] = ")"
  BY DEF Enclosed
<1>4. \A k \in i + 1..c - 1 : sig[k] \notin {"(", ")"}
  <2> TAKE k \in i + 1..c - 1
  <2>1. k - i \in 1..Len(w) /\ i + (k - i) = k
    BY <1>1
  <2>2. sig[k] = Letter(w[k - i]) /\ w[k - i] \in Widths
    BY <2>1 DEF Enclosed
  <2>3. sig[k] \in Numerals
    BY <2>2, LetterOf
  <2> QED BY <2>3 DEF Numerals
<1> HIDE DEF c, l
<1>5. ASSUME NEW m \in i..c - 1 PROVE ~Ends(m)
  <2>1. {k \in i..m : sig[k] = "("} = {i}
    <3>1. \A k \in i..m : k = i \/ k \in i + 1..c - 1
      BY <1>1
    <3>2. i \in i..m
      BY <1>1
    <3> QED BY <1>3, <1>4, <3>1, <3>2
  <2>2. {k \in i..m : sig[k] = ")"} = {}
    <3>1. \A k \in i..m : k = i \/ k \in i + 1..c - 1
      BY <1>1
    <3>2. i \in i..m
      BY <1>1
    <3> QED BY <1>3, <1>4, <3>1, <3>2
  <2>3. Depth(sig, i, m) = 1 - 0
    BY <2>1, <2>2, FS_Singleton, FS_EmptySet DEF Depth
  <2> QED BY <1>1, <2>3
<1>6. Ends(c)
  <2>1. \A k \in i..c : k = i \/ k \in i + 1..c - 1 \/ k = c
    BY <1>1
  <2>2. i \in i..c /\ c \in i..c
    BY <1>1
  <2>3. {k \in i..c : sig[k] = "("} = {i}
    BY <1>3, <1>4, <2>1, <2>2
  <2>4. {k \in i..c : sig[k] = ")"} = {c}
    BY <1>3, <1>4, <2>1, <2>2
  <2>5. Depth(sig, i, c) = 1 - 1
    BY <2>3, <2>4, FS_Singleton DEF Depth
  <2> QED BY <2>5
<1> HIDE DEF Ends
<1>7. c \in i..l /\ Last(c)
  BY <1>1, <1>5, <1>6
<1>8. n \in i..l /\ Last(n)
  <2> HIDE DEF Last
  <2> QED BY <1>7
<1> HIDE DEF n
<1>9. n = c
  <2>1. CASE n < c
    <3>1. n \in i..c - 1
      BY <1>1, <1>8, <2>1
    <3> QED BY <1>5, <1>8, <3>1
  <2>2. CASE n > c
    <3>1. c \in i..n - 1
      BY <1>1, <1>8, <2>2
    <3> QED BY <1>6, <1>8, <3>1
  <2> QED BY <1>1, <1>8, <2>1, <2>2
<1> QED BY <1>1, <1>2, <1>9 DEF c

\* What the validator aligns a struct to is what the compiler does.
LEMMA AlignmentStruct ==
    ASSUME NEW F \in Flats, F.kind = "struct", NEW sig, WellFormed(sig), NEW i \in 1..Len(sig), Enclosed(sig, i, F.members)
    PROVE  SigelementAlignment(sig, i) = alignof(F)
<1> DEFINE Own(c) == IF c \in {"a", "s"} THEN size_type ELSE SigelementSize(c)
           w == F.members
           n == Len(w)
           S == {0} \cup {Own(sig[k]) : k \in i..i + n + 1}
           M == {w[k] : k \in DOMAIN w}
<1>1. w \in Seq(Widths) /\ n \in Nat /\ n >= 1 /\ DOMAIN w = 1..n /\ Len(sig) \in Nat
  BY FlatType DEF WellFormed
<1>2. SigelementAlignment(sig, i) = Greatest(S)
  <2>1. SkipOneSigelement(sig, i) = i + n + 2
    BY <1>1, SkipStruct
  <2>2. SkipOneSigelement(sig, i) - 1 = i + n + 1
    BY <1>1, <2>1
  <2> QED BY <2>2 DEF SigelementAlignment
<1>3. alignof(F) = Greatest(M)
  BY DEF alignof
<1>4. Own(sig[i]) = 0 /\ Own(sig[i + n + 1]) = 0
  BY SizeOfLetter DEF Enclosed
<1>5. \A k \in 1..n : Own(sig[i + k]) = w[k]
  <2> TAKE k \in 1..n
  <2>1. sig[i + k] = Letter(w[k]) /\ w[k] \in Widths
    BY <1>1 DEF Enclosed
  <2>2. Letter(w[k]) \in Numerals /\ SigelementSize(Letter(w[k])) = w[k]
    BY <2>1, LetterOf
  <2>3. Letter(w[k]) \notin {"a", "s"}
    BY <2>2 DEF Numerals
  <2> QED BY <2>1, <2>2, <2>3
<1> HIDE DEF Own
<1>6. S = {0} \cup M
  <2>1. \A k \in i..i + n + 1 : k = i \/ k = i + n + 1 \/ (k - i \in 1..n /\ i + (k - i) = k)
    BY <1>1
  <2>2. \A k \in 1..n : i + k \in i..i + n + 1
    BY <1>1
  <2>3. ASSUME NEW x \in S PROVE x \in {0} \cup M
    <3>1. CASE x = 0
      BY <3>1
    <3>2. CASE x # 0
      <4>1. PICK k \in i..i + n + 1 : x = Own(sig[k])
        BY <3>2
      <4>2. k - i \in 1..n /\ i + (k - i) = k
        BY <1>4, <2>1, <3>2, <4>1
      <4>3. x = w[k - i]
        BY <1>5, <4>1, <4>2
      <4> QED BY <1>1, <4>2, <4>3
    <3> QED BY <3>1, <3>2
  <2>4. ASSUME NEW x \in {0} \cup M PROVE x \in S
    <3>1. CASE x = 0
      BY <3>1
    <3>2. CASE x # 0
      <4>1. PICK k \in 1..n : x = w[k]
        BY <1>1, <3>2
      <4>2. Own(sig[i + k]) = x
        BY <1>5, <4>1
      <4> QED BY <2>2, <4>2
    <3> QED BY <3>1, <3>2
  <2> QED BY <2>3, <2>4
<1>7. M \in SUBSET Widths /\ w[1] \in M
  BY <1>1
<1> HIDE DEF S, M
<1>8. Greatest(M) \in M /\ \A m \in M : m <= Greatest(M)
  BY <1>7, GreatestWidth
<1>9. Greatest(S) \in S /\ \A m \in S : m <= Greatest(S)
  <2>1. S \in SUBSET ({0} \cup Widths) /\ S # {}
    BY <1>6, <1>7
  <2> QED BY <2>1, GreatestWidth
<1>10. Greatest(S) = Greatest(M)
  <2> DEFINE g == Greatest(S)
             h == Greatest(M)
  <2>1. h \in S /\ h \in Widths /\ h <= g
    BY <1>6, <1>7, <1>8, <1>9
  <2>2. g \in {0} \cup Widths /\ (g \in M => g <= h)
    BY <1>6, <1>7, <1>8, <1>9
  <2>3. g = 0 \/ g \in M
    BY <1>6, <1>9
  <2> HIDE DEF g, h
  <2>4. g = h
    BY <2>1, <2>2, <2>3 DEF Widths
  <2> QED BY <2>4 DEF g, h
<1> QED BY <1>2, <1>3, <1>10

LEMMA AlignmentLetter ==
    ASSUME NEW sig, WellFormed(sig), NEW i \in 1..Len(sig), NEW w \in Widths, sig[i] = Letter(w)
    PROVE  SigelementAlignment(sig, i) = w
<1> DEFINE Own(c) == IF c \in {"a", "s"} THEN size_type ELSE SigelementSize(c)
           S == {0} \cup {Own(sig[k]) : k \in i..i}
<1>1. Letter(w) \in Numerals /\ SigelementSize(Letter(w)) = w /\ Letter(w) \notin {"(", ")", "a", "s"} /\ w \in Nat
  BY LetterOf DEF Numerals, Widths
<1>2. SigelementAlignment(sig, i) = Greatest(S)
  <2>1. SkipOneSigelement(sig, i) = i + 1
    BY <1>1, SkipLetter
  <2>2. SkipOneSigelement(sig, i) - 1 = i
    BY <2>1 DEF WellFormed
  <2> QED BY <2>2 DEF SigelementAlignment
<1>3. S = {w, 0}
  <2>1. Own(sig[i]) = w
    BY <1>1
  <2>2. i..i = {i}
    BY DEF WellFormed
  <2> HIDE DEF Own
  <2> QED BY <2>1, <2>2
<1>4. Greatest({w, 0}) = w
  BY <1>1, GreatestOfTwo
<1> QED BY <1>2, <1>3, <1>4

LEMMA ValidNumber ==
    ASSUME NEW b \in Seq(Byte), NEW sig, WellFormed(sig), NEW i \in 1..Len(sig), NEW w \in Widths, sig[i] = Letter(w),
           NEW at \in Nat
    PROVE  ValidateNumber(b, sig, at, i) = IF at + w <= Len(b) /\ at % w = 0 THEN At(at + w, i + 1, w) ELSE Invalid
<1>1. SigelementSize(sig[i]) = w
  BY LetterOf
<1>2. at >= 0
  OBVIOUS
<1> QED BY <1>1, <1>2 DEF ValidateNumber, Fits

\* The first k members of a struct.
Reach(F, k) == IF k = 0 THEN 0 ELSE offsetof(F)[k] + F.members[k]
ValidatesNumbers(b, sig, validate) ==
    \A at \in Nat : \A j \in 1..Len(sig) : sig[j] \in Numerals => validate[<<at, j>>] = ValidateNumber(b, sig, at, j)

LEMMA AlignAfterGrain ==
    ASSUME NEW m \in Nat, NEW n \in Nat, NEW g \in Grains, m % g = 0
    PROVE  Align(m + n, g) = m + Align(n, g)
<1>1. CASE g = 1
  BY <1>1 DEF Align
<1>2. CASE g = 2
  BY <1>2 DEF Align
<1>3. CASE g = 4
  BY <1>3 DEF Align
<1>4. CASE g = 8
  BY <1>4 DEF Align
<1>5. CASE g = 16
  BY <1>5 DEF Align
<1> QED BY <1>1, <1>2, <1>3, <1>4, <1>5 DEF Grains

LEMMA PackedReach ==
    ASSUME NEW F \in Flats, F.kind = "struct", Packed(F)
    PROVE  LET n == Len(F.members)
           IN  /\ n \in Nat \ {0} /\ Reach(F, 0) = 0 /\ sizeof(F) = Align(Reach(F, n), alignof(F)) /\ sizeof(F) \in Nat
               /\ \A k \in 0..n : Reach(F, k) \in Nat /\ Reach(F, k) <= Reach(F, n)
               /\ \A k \in 1..n : /\ F.members[k] \in Widths /\ Reach(F, k - 1) = offsetof(F)[k]
                                  /\ Reach(F, k) = Reach(F, k - 1) + F.members[k]
                                  /\ Reach(F, k - 1) % F.members[k] = 0
<1> DEFINE w == F.members
           o == offsetof(F)
           n == Len(w)
<1>1. w \in Seq(Widths) /\ n \in Nat \ {0} /\ DOMAIN w = 1..n
  <2>1. F.members \in Seq(Widths) /\ Len(F.members) >= 1
    BY FlatType
  <2> QED BY <2>1
<1>2. /\ \A k \in 1..n : w[k] \in Widths /\ o[k] \in Nat /\ o[k] % w[k] = 0
      /\ \A k \in 1..n : \A j \in 1..k - 1 : o[j] + w[j] <= o[k]
      /\ o[1] = 0 /\ sizeof(F) = Align(o[n] + w[n], alignof(F)) /\ sizeof(F) \in Nat
  BY Members
<1>3. \A k \in 1..n : k + 1 \in 1..n => o[k + 1] = o[k] + w[k]
  BY <1>1 DEF Packed
<1> HIDE DEF w, o, n
<1>4. Reach(F, 0) = 0 /\ \A k \in 1..n : Reach(F, k) = o[k] + w[k]
  BY DEF Reach, w, o
<1>5. \A k \in 1..n : w[k] \in Nat
  BY <1>2 DEF Widths
<1>6. \A k \in 1..n : Reach(F, k - 1) = o[k]
  <2> TAKE k \in 1..n
  <2>1. CASE k = 1
    BY <1>2, <1>4, <2>1
  <2>2. CASE k # 1
    <3>1. k - 1 \in 1..n /\ (k - 1) + 1 = k
      BY <1>1, <2>2
    <3> QED BY <1>3, <1>4, <3>1
  <2> QED BY <2>1, <2>2
<1>7. \A k \in 0..n : Reach(F, k) \in Nat
  <2> TAKE k \in 0..n
  <2>1. CASE k = 0
    BY <1>4, <2>1
  <2>2. CASE k # 0
    <3>1. k \in 1..n
      BY <1>1, <2>2
    <3> QED BY <1>2, <1>4, <1>5, <3>1
  <2> QED BY <2>1, <2>2
<1>8. n \in 0..n /\ n \in 1..n
  BY <1>1
<1>9. \A k \in 0..n : Reach(F, k) <= Reach(F, n)
  <2> TAKE k \in 0..n
  <2>1. CASE k = 0
    BY <1>4, <1>7, <1>8, <2>1
  <2>2. CASE k = n
    BY <1>7, <1>8, <2>2
  <2>3. CASE k # 0 /\ k # n
    <3>1. k \in 1..n /\ k \in 1..n - 1
      BY <1>1, <2>3
    <3>2. o[k] + w[k] <= o[n]
      BY <1>2, <1>8, <3>1
    <3> QED BY <1>2, <1>4, <1>5, <1>8, <3>1, <3>2
  <2> QED BY <2>1, <2>2, <2>3
<1>10. sizeof(F) = Align(Reach(F, n), alignof(F))
  BY <1>2, <1>4, <1>8
<1> QED BY <1>1, <1>2, <1>4, <1>6, <1>7, <1>9, <1>10 DEF w, o, n

\* A member of a struct that is aligned is, too.
LEMMA ValidMember ==
    ASSUME NEW b \in Seq(Byte), NEW sig, WellFormed(sig), NEW validate, ValidatesNumbers(b, sig, validate),
           NEW F \in Flats, F.kind = "struct", Packed(F), NEW i \in 1..Len(sig), Enclosed(sig, i, F.members),
           NEW at \in Nat, at % alignof(F) = 0, NEW k \in 1..Len(F.members)
    PROVE  validate[<<at + Reach(F, k - 1), i + k>>] =
               IF at + Reach(F, k) <= Len(b) THEN At(at + Reach(F, k), i + k + 1, F.members[k]) ELSE Invalid
<1> DEFINE w == F.members[k]
           r == Reach(F, k - 1)
           p == at + r
           l == Len(F.members)
<1>1. /\ w \in Widths /\ r \in Nat /\ Reach(F, k) = r + w /\ r % w = 0
  <2>1. l \in Nat /\ k - 1 \in 0..l
    BY PackedReach
  <2> QED BY <2>1, PackedReach
<1>2. w <= alignof(F) /\ alignof(F) \in Widths
  BY AlignOf DEF is_trivially_copyable
<1>3. \A x \in Widths : x \in Grains /\ x \in Nat
  BY DEF Widths, Grains
<1>4. i + k \in 1..Len(sig) /\ sig[i + k] = Letter(w)
  <2>1. l \in Nat /\ i + l + 1 <= Len(sig) /\ Len(sig) \in Nat
    BY PackedReach DEF Enclosed, WellFormed
  <2>2. i + k \in 1..Len(sig)
    BY <2>1
  <2> QED BY <2>2 DEF Enclosed
<1> HIDE DEF w, r
<1>5. p \in Nat /\ p % w = 0 /\ at + Reach(F, k) = p + w
  <2>1. at % w = 0
    BY <1>1, <1>2, <1>3, AlignedFiner
  <2>2. p % w = 0
    BY <1>1, <1>3, <2>1, AlignedSum
  <2> QED BY <1>1, <1>3, <2>2
<1> HIDE DEF p
<1>6. Letter(w) \in Numerals
  BY <1>1, LetterOf
<1>7. validate[<<p, i + k>>] = ValidateNumber(b, sig, p, i + k)
  BY <1>4, <1>5, <1>6 DEF ValidatesNumbers
<1>8. ValidateNumber(b, sig, p, i + k) = IF p + w <= Len(b) /\ p % w = 0 THEN At(p + w, i + k + 1, w) ELSE Invalid
  BY <1>1, <1>4, <1>5, ValidNumber
<1> QED BY <1>5, <1>7, <1>8 DEF w, r, p

LEMMA ValidStruct ==
    ASSUME NEW b \in Seq(Byte), NEW sig, WellFormed(sig), NEW validate, Typed(sig, validate), ValidatesNumbers(b, sig, validate),
           NEW F \in Flats, F.kind = "struct", Packed(F), NEW i \in 1..Len(sig), Enclosed(sig, i, F.members),
           NEW at \in Nat, at % alignof(F) = 0
    PROVE  ValidateStruct(b, sig, at, i, validate) =
               IF at + sizeof(F) <= Len(b) THEN At(at + sizeof(F), i + Len(F.members) + 1, sizeof(F)) ELSE Invalid
<1> DEFINE n == Len(F.members)
           l == Len(sig)
           lb == Len(b)
           al == alignof(F)
           r(k) == Reach(F, k)
           State(k) == IF at + r(k) <= lb THEN At(at + r(k), i + 1 + k, r(k)) ELSE Invalid
           first == ValidateReadAlign(At(at, i + 1, 0), al)
           members == ValidateMembers(sig, first, validate)
<1>1. /\ n \in Nat \ {0} /\ r(0) = 0 /\ sizeof(F) = Align(r(n), al) /\ sizeof(F) \in Nat
      /\ \A k \in 0..n : r(k) \in Nat /\ r(k) <= r(n)
      /\ \A k \in 1..n : F.members[k] \in Widths /\ r(k) = r(k - 1) + F.members[k]
  BY PackedReach
<1>2. SigelementAlignment(sig, i) = al /\ al \in Grains
  <2>1. al \in Widths
    BY AlignOf DEF is_trivially_copyable
  <2> QED BY <2>1, AlignmentStruct DEF Widths, Grains
<1>3. i \in Nat \ {0} /\ l \in Nat /\ lb \in Nat /\ i + n + 1 <= l /\ sig[i + n + 1] = ")"
  BY DEF Enclosed, WellFormed
<1>4. \A k \in 1..n : i + k \in 1..l /\ sig[i + k] # ")"
  <2> TAKE k \in 1..n
  <2>1. F.members[k] \in Widths /\ sig[i + k] = Letter(F.members[k])
    BY <1>1 DEF Enclosed
  <2>2. sig[i + k] # ")"
    BY <2>1, LetterOf DEF Numerals
  <2> QED BY <1>1, <1>3, <2>2
<1> HIDE DEF n, l, lb, al, r
<1>5. ValidateStruct(b, sig, at, i, validate) =
        IF CanAlign(b, at, al) /\ members.i # 0 /\ CanAlign(b, members.at, al) THEN ValidateReadAlign(members, al) ELSE Invalid
  BY <1>2 DEF ValidateStruct
<1>6. first = At(at, i + 1, 0) /\ first \in Validators
  <2>1. At(at, i + 1, 0) \in Validators /\ At(at, i + 1, 0).at = at /\ At(at, i + 1, 0).i = i + 1 /\ At(at, i + 1, 0).sz = 0
    <3>1. i + 1 \in Nat /\ 0 \in Nat
      BY <1>3
    <3>2. At(at, i + 1, 0) \in Validators
      BY <3>1, AtTyped
    <3> QED BY <3>2, AtFields
  <2>2. Align(at, al) = at
    BY <1>2, AlignProperty DEF al
  <2> DEFINE v == At(at, i + 1, 0)
  <2> HIDE DEF v
  <2>3. ValidateReadAlign(v, al) = At(Align(v.at, al), v.i, v.sz + Align(v.at, al) - v.at)
    BY <1>2, <2>1, AlignTyped DEF v
  <2>4. v.sz + Align(v.at, al) - v.at = 0
    BY <2>1, <2>2 DEF v
  <2>5. ValidateReadAlign(v, al) = v
    BY <2>1, <2>2, <2>3, <2>4 DEF v
  <2> QED BY <2>1, <2>5 DEF v
<1> HIDE DEF first
<1>7. CanAlign(b, at, al) <=> at <= lb
  BY <1>2, AlignProperty DEF CanAlign, al, lb
<1>8. CASE at > lb
  <2>1. ~CanAlign(b, at, al)
    BY <1>3, <1>7, <1>8
  <2>2. ~(at + sizeof(F) <= Len(b))
    BY <1>1, <1>3, <1>8 DEF lb
  <2> HIDE DEF members
  <2> QED BY <1>5, <2>1, <2>2
<1>9. CASE at <= lb
  <2>1. PICK v \in [0..Len(sig) -> Validators] :
            /\ v[0] = first
            /\ \A k \in 1..Len(sig) : v[k] = (IF v[k - 1].i \in 1..Len(sig) /\ sig[v[k - 1].i] # ")" THEN ValidateNext(v[k - 1], v[k - 1].i, validate) ELSE v[k - 1])
            /\ ValidateMembers(sig, first, validate) = v[Len(sig)]
    BY <1>6, MembersChain
  <2>2. /\ v[0] = first /\ members = v[l]
        /\ \A k \in 1..l : v[k] = (IF v[k - 1].i \in 1..l /\ sig[v[k - 1].i] # ")" THEN ValidateNext(v[k - 1], v[k - 1].i, validate) ELSE v[k - 1])
    BY <2>1 DEF l
  <2>3. \A k \in 0..n : State(k) = IF at + r(k) <= lb THEN At(at + r(k), i + 1 + k, r(k)) ELSE Invalid
    OBVIOUS
  <2> HIDE DEF State, members
  <2> DEFINE S == {k \in 0..n : v[k] = State(k)}
  <2>4. 0 \in S
    <3>1. 0 \in 0..n /\ at + 0 <= lb /\ i + 1 + 0 = i + 1 /\ at + 0 = at
      BY <1>1, <1>3, <1>9
    <3>2. State(0) = At(at, i + 1, 0)
      BY <1>1, <2>3, <3>1
    <3> QED BY <1>6, <2>2, <3>1, <3>2
  <2>5. ASSUME NEW k \in 1..n, k - 1 \in S PROVE k \in S
    <3>1. k - 1 \in 0..n /\ k \in 0..n /\ k \in 1..l /\ v[k - 1] = State(k - 1)
      BY <1>1, <1>3, <2>5
    <3>2. r(k) \in Nat /\ r(k - 1) \in Nat /\ F.members[k] \in Nat \ {0} /\ r(k) = r(k - 1) + F.members[k]
      <4>1. \A x \in Widths : x \in Nat \ {0}
        BY DEF Widths
      <4> QED BY <1>1, <3>1, <4>1
    <3>3. CASE at + r(k - 1) <= lb
      <4>1. v[k - 1] = At(at + r(k - 1), i + k, r(k - 1))
        <5>1. i + 1 + (k - 1) = i + k
          BY <1>3
        <5>2. State(k - 1) = At(at + r(k - 1), i + 1 + (k - 1), r(k - 1))
          BY <2>3, <3>1, <3>3
        <5> QED BY <3>1, <5>1, <5>2
      <4>2. v[k - 1].at = at + r(k - 1) /\ v[k - 1].i = i + k /\ v[k - 1].sz = r(k - 1)
        BY <4>1, AtFields
      <4>3. v[k] = ValidateNext(v[k - 1], i + k, validate)
        BY <1>4, <2>2, <3>1, <4>2
      <4> DEFINE e == validate[<<at + r(k - 1), i + k>>]
      <4>4. e = IF at + r(k) <= lb THEN At(at + r(k), i + k + 1, F.members[k]) ELSE Invalid
        <5>1. k \in 1..Len(F.members)
          BY DEF n
        <5>2. validate[<<at + Reach(F, k - 1), i + k>>] =
                IF at + Reach(F, k) <= Len(b) THEN At(at + Reach(F, k), i + k + 1, F.members[k]) ELSE Invalid
          BY <5>1, ValidMember
        <5> QED BY <5>2 DEF lb, r
      <4> HIDE DEF e
      <4>5. ValidateNext(v[k - 1], i + k, validate) = IF e.sz = 0 THEN Invalid ELSE At(e.at, e.i, r(k - 1) + e.sz)
        <5>1. i + k # 0
          BY <1>3
        <5> QED BY <4>2, <5>1 DEF ValidateNext, e
      <4>6. CASE at + r(k) <= lb
        <5>1. e.at = at + r(k) /\ e.i = i + k + 1 /\ e.sz = F.members[k]
          BY <4>4, <4>6, AtFields
        <5>2. v[k] = At(at + r(k), i + k + 1, r(k))
          BY <3>2, <4>3, <4>5, <5>1
        <5>3. i + k + 1 = i + 1 + k
          BY <1>3
        <5> QED BY <2>3, <3>1, <4>6, <5>2, <5>3
      <4>7. CASE ~(at + r(k) <= lb)
        <5>1. e.sz = 0
          BY <4>4, <4>7, InvalidTyped
        <5> QED BY <2>3, <3>1, <4>3, <4>5, <4>7, <5>1
      <4> QED BY <4>6, <4>7
    <3>4. CASE ~(at + r(k - 1) <= lb)
      <4>1. v[k - 1] = Invalid /\ v[k - 1].i = 0
        BY <2>3, <3>1, <3>4, InvalidTyped
      <4>2. v[k] = Invalid
        BY <2>2, <3>1, <4>1
      <4>3. ~(at + r(k) <= lb)
        BY <1>3, <3>2, <3>4
      <4> QED BY <2>3, <3>1, <4>2, <4>3
    <3> QED BY <3>3, <3>4
  <2>6. 0..n \subseteq S
    <3> HIDE DEF S
    <3> QED BY <1>1, <2>4, <2>5, UpTo
  <2>7. v[n] = State(n)
    BY <1>1, <2>6
  <2> DEFINE R == {j \in 0..l - n : v[n + j] = State(n)}
             m == l - n
  <2>8. m \in Nat
    BY <1>1, <1>3
  <2>9. 0 \in R
    BY <1>1, <2>7, <2>8
  <2>10. ASSUME NEW j \in 1..m, j - 1 \in R PROVE j \in R
    <3>1. v[n + (j - 1)] = State(n) /\ n + j \in 1..l /\ n + (j - 1) = (n + j) - 1 /\ j \in 0..l - n
      BY <1>1, <1>3, <2>8, <2>10, SMTT(30)
    <3> DEFINE p == n + j
    <3> HIDE DEF p
    <3>2. p \in 1..l /\ v[p - 1] = State(n)
      BY <3>1 DEF p
    <3>3. ~(State(n).i \in 1..l /\ sig[State(n).i] # ")")
      <4>1. CASE at + r(n) <= lb
        <5>1. State(n) = At(at + r(n), i + 1 + n, r(n))
          BY <1>1, <2>3, <4>1
        <5>2. i + 1 + n = i + n + 1
          BY <1>1, <1>3
        <5>3. State(n).i = i + n + 1
          BY <5>1, <5>2, AtFields
        <5> QED BY <1>3, <5>3
      <4>2. CASE ~(at + r(n) <= lb)
        <5>1. State(n) = Invalid
          BY <1>1, <2>3, <4>2
        <5> QED BY <5>1, InvalidTyped
      <4> QED BY <4>1, <4>2
    <3>4. v[p] = State(n)
      BY <2>2, <3>2, <3>3
    <3> QED BY <3>1, <3>4 DEF p
  <2>11. 0..m \subseteq R
    <3> HIDE DEF R, m
    <3> QED BY <2>8, <2>9, <2>10, UpTo
  <2>12. members = State(n)
    <3>1. m \in R /\ n + m = l
      <4>1. m \in 0..m
        BY <2>8
      <4>2. n + m = l
        BY <1>1, <1>3
      <4> HIDE DEF R, m
      <4> QED BY <2>11, <4>1, <4>2
    <3>2. v[n + m] = State(n)
      BY <3>1
    <3> HIDE DEF m
    <3> QED BY <2>2, <3>1, <3>2
  <2>13. CASE at + r(n) <= lb
    <3>1. members.at = at + r(n) /\ members.i = i + 1 + n /\ members.sz = r(n) /\ members \in Validators
      <4>1. members = At(at + r(n), i + 1 + n, r(n))
        BY <1>1, <2>3, <2>12, <2>13
      <4>2. at + r(n) \in Nat /\ i + 1 + n \in Nat /\ r(n) \in Nat
        BY <1>1, <1>3
      <4>3. At(at + r(n), i + 1 + n, r(n)) \in Validators
        BY <4>2, AtTyped
      <4> QED BY <4>1, <4>3, AtFields
    <3>2. Align(at + r(n), al) = at + sizeof(F)
      <4>1. r(n) \in Nat
        BY <1>1
      <4> QED BY <1>1, <1>2, <4>1, AlignAfterGrain DEF al
    <3>3. CanAlign(b, members.at, al) <=> at + sizeof(F) <= lb
      BY <3>1, <3>2 DEF CanAlign, lb
    <3>4. ValidateReadAlign(members, al) = At(at + sizeof(F), i + 1 + n, members.sz + (at + sizeof(F)) - members.at)
      BY <1>2, <3>1, <3>2, AlignTyped
    <3>5. members.sz + (at + sizeof(F)) - members.at = sizeof(F) /\ i + 1 + n = i + n + 1 /\ members.i # 0
      BY <1>1, <1>3, <3>1
    <3> QED BY <1>5, <1>7, <1>9, <3>3, <3>4, <3>5 DEF lb, n
  <2>14. CASE ~(at + r(n) <= lb)
    <3>1. members.i = 0
      <4>1. n \in 0..n
        BY <1>1
      <4>2. State(n) = Invalid
        BY <2>3, <2>14, <4>1
      <4> QED BY <2>12, <4>2, InvalidTyped
    <3>2. ~(at + sizeof(F) <= lb)
      <4>1. r(n) \in Nat /\ r(n) <= sizeof(F)
        BY <1>1, <1>2, AlignProperty, SMTT(30)
      <4> QED BY <1>1, <1>3, <2>14, <4>1
    <3> QED BY <1>5, <3>1, <3>2 DEF lb
  <2> QED BY <2>13, <2>14
<1> QED BY <1>3, <1>8, <1>9

LEMMA Product ==
    ASSUME NEW s \in Nat \ {0}, NEW k \in Nat \ {0}
    PROVE  /\ s * k \in Nat /\ s * (k - 1) \in Nat /\ s * k = s * (k - 1) + s /\ k <= s * k
<1>1. s * k = s * (k - 1) + s
  OBVIOUS
<1>2. s * k \in Nat /\ s * (k - 1) \in Nat
  <2>1. \A m \in Nat : s * m \in Nat
    OBVIOUS
  <2>2. k - 1 \in Nat /\ k \in Nat
    OBVIOUS
  <2> QED BY <2>1, <2>2
<1>3. k <= s * k
  <2>1. (s - 1) * k >= 0
    <3>1. s - 1 \in Nat
      OBVIOUS
    <3>2. \A m \in Nat : m * k \in Nat
      OBVIOUS
    <3>3. (s - 1) * k \in Nat
      BY <3>1, <3>2
    <3> QED BY <3>3
  <2>2. (s - 1) * k = s * k - k
    OBVIOUS
  <2> QED BY <1>2, <2>1, <2>2
<1> QED BY <1>1, <1>2, <1>3

LEMMA ProductAligned ==
    ASSUME NEW s \in Nat \ {0}, NEW g \in Grains, s % g = 0, NEW n \in Nat
    PROVE  \A k \in 0..n : s * k \in Nat /\ (s * k) % g = 0
<1> DEFINE S == {k \in 0..n : s * k \in Nat /\ (s * k) % g = 0}
<1>1. 0 \in S
  <2>1. s * 0 = 0 /\ 0 % g = 0
    BY DEF Grains
  <2> QED BY <2>1
<1>2. ASSUME NEW k \in 1..n, k - 1 \in S PROVE k \in S
  <2>1. k \in Nat \ {0} /\ k \in 0..n
    OBVIOUS
  <2>2. s * k \in Nat /\ s * k = s * (k - 1) + s
    BY <2>1, Product
  <2> DEFINE p == s * (k - 1)
             q == s * k
  <2>3. p \in Nat /\ p % g = 0 /\ q = p + s /\ q \in Nat
    BY <1>2, <2>2
  <2> HIDE DEF p, q
  <2>4. q % g = 0
    BY <2>3, AlignedSum
  <2> QED BY <2>1, <2>2, <2>4 DEF q
<1>3. 0..n \subseteq S
  <2> HIDE DEF S
  <2> QED BY <1>1, <1>2, UpTo
<1> QED BY <1>3

\* Elements of s bytes, each aligned to g, that end at c in the signature.
Strides(b, validate, i, s, g, c) ==
    \A p \in Nat : p % g = 0 => validate[<<p, i>>] = IF p + s <= Len(b) THEN At(p + s, c, s) ELSE Invalid
Strided(b, first, s, n, last) ==
    IF first.at + s * n <= Len(b)
      THEN last.at = first.at + s * n /\ last.i # 0 /\ last.sz = first.sz + s * n
      ELSE last.i = 0

LEMMA ValidElements ==
    ASSUME NEW b \in Seq(Byte), NEW sig, WellFormed(sig), NEW validate, Typed(sig, validate),
           NEW s \in Nat \ {0}, NEW g \in Grains, s % g = 0, NEW c \in Nat \ {0},
           NEW first \in Validators, first.i \in 1..Len(sig), first.at % g = 0, first.at <= Len(b),
           Strides(b, validate, first.i, s, g, c), NEW n \in Nat
    PROVE  Strided(b, first, s, n, ValidateElements(b, first, n, validate))
<1> DEFINE lb == Len(b)
           m(k) == s * k
           p == first.at
           z == first.sz
           last == ValidateElements(b, first, n, validate)
           Ok(v, k) == IF p + m(k) <= lb THEN v.at = p + m(k) /\ v.i # 0 /\ v.sz = z + m(k) ELSE v.i = 0
<1>1. lb \in Nat /\ p \in Nat /\ z \in Nat /\ first.i # 0
  BY ValidatorFields
<1>2. m(0) = 0 /\ \A k \in 0..n : m(k) \in Nat /\ m(k) % g = 0
  <2>1. \A k \in 0..n : s * k \in Nat /\ (s * k) % g = 0
    BY ProductAligned
  <2>2. s * 0 = 0
    OBVIOUS
  <2> QED BY <2>1, <2>2
<1>3. \A k \in 1..n : m(k) = m(k - 1) + s
  BY Product
<1>4. CASE n > Len(b)
  <2>1. last.i = 0
    BY <1>4, InvalidTyped DEF ValidateElements
  <2>2. n \in Nat \ {0}
    BY <1>1, <1>4
  <2>3. n <= m(n)
    BY <2>2, Product
  <2>4. ~(p + m(n) <= lb)
    <3>1. m(n) \in Nat
      BY <1>2
    <3> HIDE DEF m
    <3> QED BY <1>1, <1>4, <2>3, <3>1 DEF lb
  <2> HIDE DEF last
  <2> QED BY <2>1, <2>4 DEF last, Strided
<1>5. CASE ~(n > Len(b))
  <2>1. n <= Len(b)
    BY <1>1, <1>5
  <2>2. PICK v \in [0..n -> Validators] :
          /\ v[0] = first
          /\ \A k \in 1..n : v[k] = ValidateNext(v[k - 1], first.i, validate)
          /\ last = v[n]
    <3> HIDE DEF m, lb, p, z
    <3> HIDE DEF last
    <3>1. \E v \in [0..n -> Validators] : ElementsBy(b, first, n, validate, v)
      BY <2>1, ElementsChain
    <3> QED BY <3>1 DEF last, ElementsBy
  <2> HIDE DEF last, m, lb, p, z
  <2> DEFINE S == {k \in 0..n : Ok(v[k], k)}
  <2>3. 0 \in S
    <3>1. p + m(0) = p /\ z + m(0) = z /\ p <= lb
      BY <1>1, <1>2 DEF p, lb
    <3>2. Ok(v[0], 0)
      BY <1>1, <2>2, <3>1 DEF p, z
    <3> HIDE DEF Ok
    <3> QED BY <3>2
  <2>4. ASSUME NEW k \in 1..n, k - 1 \in S PROVE k \in S
    <3>1. k - 1 \in 0..n /\ k \in 0..n /\ Ok(v[k - 1], k - 1)
      BY <2>4
    <3>2. m(k) \in Nat /\ m(k - 1) \in Nat /\ m(k - 1) % g = 0 /\ m(k) = m(k - 1) + s
      BY <1>2, <1>3, <3>1
    <3> DEFINE u == v[k - 1]
               e == validate[<<u.at, first.i>>]
    <3>3. v[k] = ValidateNext(u, first.i, validate)
      BY <2>2
    <3>4. ValidateNext(u, first.i, validate) = IF u.i = 0 \/ e.sz = 0 THEN Invalid ELSE At(e.at, e.i, u.sz + e.sz)
      BY DEF ValidateNext
    <3> HIDE DEF u
    <3>5. CASE p + m(k - 1) <= lb
      <4>1. u.at = p + m(k - 1) /\ u.i # 0 /\ u.sz = z + m(k - 1)
        BY <3>1, <3>5 DEF u
      <4>2. u.at \in Nat /\ u.at % g = 0
        <5>1. p % g = 0
          BY DEF p
        <5>2. (p + m(k - 1)) % g = 0
          BY <1>1, <3>2, <5>1, AlignedSum
        <5> QED BY <1>1, <3>2, <4>1, <5>2
      <4>3. e = IF u.at + s <= lb THEN At(u.at + s, c, s) ELSE Invalid
        BY <4>2 DEF Strides, lb
      <4> HIDE DEF e
      <4>4. u.at + s = p + m(k) /\ u.sz + s = z + m(k)
        BY <1>1, <3>2, <4>1
      <4>5. CASE p + m(k) <= lb
        <5>1. e.at = p + m(k) /\ e.i = c /\ e.sz = s
          BY <4>3, <4>4, <4>5, AtFields
        <5>2. v[k] = At(p + m(k), c, z + m(k))
          BY <3>3, <3>4, <4>1, <4>4, <5>1
        <5>3. v[k].at = p + m(k) /\ v[k].i = c /\ v[k].sz = z + m(k)
          BY <5>2, AtFields
        <5>4. Ok(v[k], k)
          BY <4>5, <5>3
        <5> HIDE DEF Ok
        <5> QED BY <3>1, <5>4
      <4>6. CASE ~(p + m(k) <= lb)
        <5>1. e.sz = 0
          BY <4>3, <4>4, <4>6, InvalidTyped
        <5>2. v[k].i = 0
          BY <3>3, <3>4, <5>1, InvalidTyped
        <5>3. Ok(v[k], k)
          BY <4>6, <5>2
        <5> HIDE DEF Ok
        <5> QED BY <3>1, <5>3
      <4> QED BY <4>5, <4>6
    <3>6. CASE ~(p + m(k - 1) <= lb)
      <4>1. u.i = 0
        BY <3>1, <3>6 DEF u
      <4>2. v[k].i = 0
        BY <3>3, <3>4, <4>1, InvalidTyped
      <4>3. ~(p + m(k) <= lb)
        BY <1>1, <3>2, <3>6
      <4>4. Ok(v[k], k)
        BY <4>2, <4>3
      <4> HIDE DEF Ok
      <4> QED BY <3>1, <4>4
    <3> QED BY <3>5, <3>6
  <2>5. 0..n \subseteq S
    <3> HIDE DEF S
    <3> QED BY <2>3, <2>4, UpTo
  <2>6. Ok(last, n)
    <3>1. n \in 0..n
      OBVIOUS
    <3>2. Ok(v[n], n)
      <4> HIDE DEF Ok
      <4> QED BY <2>5, <3>1
    <3> QED BY <2>2, <3>2
  <2> QED BY <2>6 DEF last, m, lb, p, z, Strided
<1> QED BY <1>4, <1>5

\* What comes of validating an array's count, its elements and what pads them.
Elements(b, at, g, total, last) ==
    LET first == Align(at + 4, g)
    IN  IF first + total <= Len(b)
          THEN last.at = first + total /\ last.i # 0 /\ last.sz = (first - at) + total
          ELSE last.i = 0
Padded(b, at, g, total, last, rest) ==
    LET end == Align(Align(at + 4, g) + total, g)
    IN  /\ at + 4 <= end
        /\ CanAlign(b, at + 4, g) /\ last.i # 0 /\ CanAlign(b, last.at, g) <=> end <= Len(b)
        /\ end <= Len(b) => /\ [ValidateReadAlign(last, g) EXCEPT !.i = rest] = At(end, rest, end - at)
                            /\ last.at = Align(at + 4, g) + total

LEMMA ValidPadded ==
    ASSUME NEW b \in Seq(Byte), NEW at \in Nat, NEW g \in Grains, g >= 4, NEW total \in Nat, NEW last, NEW rest,
           Elements(b, at, g, total, last)
    PROVE  Padded(b, at, g, total, last, rest)
<1> DEFINE first == Align(at + 4, g)
           end == Align(first + total, g)
           lb == Len(b)
<1>1. first \in Nat /\ at + 4 <= first /\ lb \in Nat
  <2>1. at + 4 \in Nat
    OBVIOUS
  <2> QED BY <2>1, AlignProperty
<1>2. IF first + total <= lb THEN last.at = first + total /\ last.i # 0 /\ last.sz = (first - at) + total ELSE last.i = 0
  BY DEF Elements
<1>3. (CanAlign(b, at + 4, g) <=> first <= lb) /\ (last.at = first + total => (CanAlign(b, last.at, g) <=> end <= lb))
  BY DEF CanAlign
<1>7. first + total <= lb => ValidateReadAlign(last, g) = At(end, last.i, ((first - at) + total) + (end - (first + total)))
  <2> HIDE DEF first, lb
  <2>1. ValidateReadAlign(last, g) = At(Align(last.at, g), last.i, last.sz + (Align(last.at, g) - last.at))
    BY DEF ValidateReadAlign
  <2> QED BY <1>2, <2>1
<1> HIDE DEF first, lb
<1>4. end \in Nat /\ first + total <= end
  <2>1. first + total \in Nat
    BY <1>1
  <2> QED BY <2>1, AlignProperty
<1> HIDE DEF end
<1>5. CanAlign(b, at + 4, g) /\ last.i # 0 /\ CanAlign(b, last.at, g) <=> end <= lb
  <2>1. CASE first + total <= lb
    <3>1. first <= lb
      BY <1>1, <2>1
    <3> QED BY <1>2, <1>3, <2>1, <3>1
  <2>2. CASE ~(first + total <= lb)
    <3>1. ~(end <= lb)
      BY <1>1, <1>4, <2>2
    <3> QED BY <1>2, <2>2, <3>1
  <2> QED BY <2>1, <2>2
<1>6. ASSUME end <= lb
      PROVE  [ValidateReadAlign(last, g) EXCEPT !.i = rest] = At(end, rest, end - at) /\ last.at = first + total
  <2>1. first + total <= lb
    BY <1>1, <1>4, <1>6
  <2>2. ((first - at) + total) + (end - (first + total)) = end - at
    BY <1>1, <1>4
  <2> DEFINE w == ValidateReadAlign(last, g)
             z == end - at
  <2>3. w = At(end, last.i, z)
    BY <1>7, <2>1, <2>2
  <2> HIDE DEF w, z
  <2>4. [w EXCEPT !.i = rest] = At(end, rest, z)
    BY <2>3 DEF At
  <2> QED BY <1>2, <2>1, <2>4 DEF w, z
<1>8. at + 4 <= end
  BY <1>1, <1>4
<1> QED BY <1>5, <1>6, <1>8 DEF first, end, lb, Padded

\* Where a value ends, and whether it is one, as its bytes have it.
CountAt(b, at) == Count(Bytes(b, at, 4))
End(b, at, T) ==
    LET F == T.of
        g == elements_align(F, 1)
    IN  CASE T.depth = 0 /\ F.kind = "number" -> at + F.sz
          [] T.depth = 0 /\ F.kind # "number" -> Align((at + 4) + CountAt(b, at), 4)
          [] OTHER -> Align(Align(at + 4, g) + sizeof(F) * CountAt(b, at), g)
Sound(b, at, T) ==
    IF T.depth = 0 /\ T.of.kind = "number" THEN at % T.of.sz = 0 /\ End(b, at, T) <= Len(b)
    ELSE /\ at + 4 <= Len(b) /\ at % 4 = 0 /\ End(b, at, T) <= Len(b)
         /\ T.depth = 0 => b[(at + 4) + CountAt(b, at)] = 0
Validated(b, at, i, T) ==
    IF Sound(b, at, T) THEN At(End(b, at, T), i + Len(SignatureOf(T)), End(b, at, T) - at) ELSE Invalid

LEMMA FirstAligned ==
    ASSUME NEW at \in Nat, NEW i \in Nat, NEW g \in Grains, g >= 4
    PROVE  LET first == ValidateReadAlign(At(at + 4, i + 1, 4), g)
           IN  /\ first \in Validators /\ first.at = Align(at + 4, g) /\ first.i = i + 1
               /\ first.sz = Align(at + 4, g) - at
               /\ Align(at + 4, g) \in Nat /\ Align(at + 4, g) % g = 0
<1> DEFINE v == At(at + 4, i + 1, 4)
           a == Align(at + 4, g)
<1>1. at + 4 \in Nat /\ i + 1 \in Nat /\ 4 \in Nat
  OBVIOUS
<1>2. v \in Validators
  BY <1>1, AtTyped
<1>3. v.at = at + 4 /\ v.i = i + 1 /\ v.sz = 4
  BY AtFields
<1> HIDE DEF v
<1>4. /\ ValidateReadAlign(v, g) = At(Align(v.at, g), v.i, v.sz + Align(v.at, g) - v.at)
      /\ ValidateReadAlign(v, g) \in Validators
  BY <1>2, AlignTyped
<1>5. a \in Nat /\ a % g = 0
  BY <1>1, AlignProperty
<1>6. v.sz + Align(v.at, g) - v.at = a - at
  <2> HIDE DEF a
  <2>1. 4 + a - (at + 4) = a - at
    BY <1>5
  <2> QED BY <1>3, <2>1 DEF a
<1>7. ValidateReadAlign(v, g) = At(a, i + 1, a - at)
  BY <1>3, <1>4, <1>6
<1> HIDE DEF a
<1>8. ValidateReadAlign(v, g).at = a /\ ValidateReadAlign(v, g).i = i + 1 /\ ValidateReadAlign(v, g).sz = a - at
  BY <1>7, AtFields
<1> QED BY <1>4, <1>5, <1>8 DEF v, a

LEMMA ValidString ==
    ASSUME NEW b \in Seq(Byte), NEW sig, NEW i \in Nat, sig[i] = "s", NEW validate, NEW at \in Nat
    PROVE  LET n == CountAt(b, at)
               end == Align((at + 4) + n, 4)
           IN  ValidateArray(b, sig, at, i, validate) =
                   IF at + 4 <= Len(b) /\ at % 4 = 0 /\ end <= Len(b) /\ b[(at + 4) + n] = 0
                   THEN At(end, i + 1, end - at) ELSE Invalid
<1> DEFINE n == CountAt(b, at)
           end == Align((at + 4) + n, 4)
           first == ValidateReadAlign(At(at + 4, i + 1, 4), 4)
           last == IF Fits(b, first.at, n) THEN At(first.at + n, i + 1, first.sz + n) ELSE Invalid
           valid == /\ Fits(b, at, 4) /\ at % 4 = 0 /\ CanAlign(b, at + 4, 4)
                    /\ last.i # 0
                    /\ b[last.at] = 0
                    /\ CanAlign(b, last.at, 4)
           result == [ValidateReadAlign(last, 4) EXCEPT !.i = i + 1]
<1>1. Fits(b, at, 4) <=> at + 4 <= Len(b)
  BY DEF Fits
<1>2. Fits(b, at, 4) => n \in Nat
  BY CountType DEF CountAt
<1>3. Fits(b, at, 4) => ValidateArray(b, sig, at, i, validate) = IF valid THEN result ELSE Invalid
  <2> SUFFICES ASSUME Fits(b, at, 4) PROVE ValidateArray(b, sig, at, i, validate) = IF valid THEN result ELSE Invalid
    OBVIOUS
  <2> DEFINE nel == Count(Bytes(b, at, size_type))
             elast == CASE 1 = 0 -> ValidateElements(b, first, nel, validate)
                        [] 1 # 0 /\ ~Fits(b, first.at, 1 * nel) -> Invalid
                        [] OTHER -> At(first.at + 1 * nel, i + 1, first.sz + 1 * nel)
  <2>1. sig[i] # "a"
    OBVIOUS
  <2>2. ValidateArray(b, sig, at, i, validate) =
          IF /\ Fits(b, at, 4) /\ at % 4 = 0 /\ CanAlign(b, at + 4, 4)
             /\ elast.i # 0 /\ b[elast.at] = 0 /\ CanAlign(b, elast.at, 4)
          THEN [ValidateReadAlign(elast, 4) EXCEPT !.i = i + 1] ELSE Invalid
    BY <2>1 DEF ValidateArray
  <2>3. nel = n /\ 1 * nel = n
    <3>1. nel = n
      BY DEF CountAt, size_type
    <3> HIDE DEF nel, n
    <3> QED BY <1>2, <3>1
  <2> HIDE DEF nel, n, first
  <2>4. elast = last
    BY <2>3
  <2> HIDE DEF elast, last
  <2> QED BY <2>2, <2>4
<1>4. ~Fits(b, at, 4) => ValidateArray(b, sig, at, i, validate) = Invalid
  BY DEF ValidateArray
<1>5. /\ first.at = Align(at + 4, 4) /\ first.sz = Align(at + 4, 4) - at /\ first.i = i + 1 /\ Align(at + 4, 4) \in Nat
      /\ 4 \in Grains
  <2>1. 4 \in Grains /\ 4 >= 4
    BY DEF Grains
  <2> QED BY <2>1, FirstAligned
<1> HIDE DEF n, first
<1>6. ASSUME Fits(b, at, 4), at % 4 = 0
      PROVE  /\ valid <=> end <= Len(b) /\ b[(at + 4) + n] = 0
             /\ end <= Len(b) => result = At(end, i + 1, end - at)
  <2>1. Align(at + 4, 4) = at + 4 /\ n \in Nat /\ 4 >= 4
    <3>1. at + 4 \in Nat /\ (at + 4) % 4 = 0
      BY <1>6
    <3> QED BY <1>2, <1>5, <1>6, <3>1, AlignProperty
  <2>2. Elements(b, at, 4, n, last)
    <3>1. Fits(b, first.at, n) <=> at + 4 + n <= Len(b)
      BY <1>5, <2>1 DEF Fits
    <3>2. i + 1 # 0
      OBVIOUS
    <3> QED BY <1>5, <2>1, <3>1, <3>2, AtFields, InvalidTyped DEF Elements
  <2> HIDE DEF last
  <2>3. Padded(b, at, 4, n, last, i + 1)
    BY <1>5, <2>1, <2>2, ValidPadded
  <2> QED BY <1>6, <2>1, <2>3 DEF Padded
<1> HIDE DEF result, end
<1>8. ~(at % 4 = 0) => ~valid
  OBVIOUS
<1> HIDE DEF valid
<1> QED BY <1>1, <1>3, <1>4, <1>6, <1>8 DEF n, end

\* Where the validator finds the elements of a vector, and what comes after them.
ElementAt(b, sig, i, F, validate) ==
    \/ F.kind = "number" /\ sig[i] = Letter(F.sz)
    \/ /\ F.kind = "struct" /\ Enclosed(sig, i, F.members)
       /\ Strides(b, validate, i, sizeof(F), alignof(F), i + Len(F.members) + 1)

LEMMA ValidVector ==
    ASSUME NEW b \in Seq(Byte), NEW sig, WellFormed(sig), NEW validate, Typed(sig, validate),
           NEW i \in 1..Len(sig), sig[i] = "a", NEW F \in Flats, ElementAt(b, sig, i + 1, F, validate), NEW at \in Nat
    PROVE  LET g == elements_align(F, 1)
               end == Align(Align(at + 4, g) + sizeof(F) * CountAt(b, at), g)
           IN  ValidateArray(b, sig, at, i, validate) =
                   IF at + 4 <= Len(b) /\ at % 4 = 0 /\ end <= Len(b)
                   THEN At(end, i + 1 + Len(FlatSignature(F)), end - at) ELSE Invalid
<1> DEFINE n == CountAt(b, at)
           g == elements_align(F, 1)
           s == sizeof(F)
           total == s * n
           end == Align(Align(at + 4, g) + total, g)
           first == ValidateReadAlign(At(at + 4, i + 1, 4), g)
           elsz == SigelementSize(sig[i + 1])
           last == CASE elsz = 0 -> ValidateElements(b, first, n, validate)
                     [] elsz # 0 /\ ~Fits(b, first.at, elsz * n) -> Invalid
                     [] OTHER -> At(first.at + elsz * n, i + 1, first.sz + elsz * n)
           rest == i + 1 + Len(FlatSignature(F))
           valid == Fits(b, at, 4) /\ at % 4 = 0 /\ CanAlign(b, at + 4, g) /\ last.i # 0 /\ CanAlign(b, last.at, g)
           result == [ValidateReadAlign(last, g) EXCEPT !.i = rest]
<1>1. Fits(b, at, 4) <=> at + 4 <= Len(b)
  BY DEF Fits
<1>2. Fits(b, at, 4) => n \in Nat
  BY CountType DEF CountAt
<1>3. is_trivially_copyable(F) /\ s \in Nat \ {0} /\ s % alignof(F) = 0 /\ alignof(F) \in Widths
  <2>1. is_trivially_copyable(F)
    BY DEF ElementAt, is_trivially_copyable
  <2> QED BY <2>1, SizeOf, AlignOf
<1>4. i \in Nat /\ i + 1 \in 1..Len(sig) /\ Len(sig) \in Nat
  BY DEF WellFormed
<1>5. g \in Grains /\ g >= 4 /\ alignof(F) <= g
  <2>1. g \in {4, 8, 16} /\ g \in Grains /\ g = IF alignof(F) <= size_type THEN size_type ELSE alignof(F)
    BY <1>3, ElementsAlign
  <2> HIDE DEF g
  <2> QED BY <1>3, <2>1 DEF size_type, Widths
<1>6. SigelementAlignment(sig, i + 1) = alignof(F) /\ Greatest({SigelementAlignment(sig, i + 1), 4}) = g
  <2>1. CASE F.kind = "number"
    <3>1. sig[i + 1] = Letter(F.sz) /\ F.sz \in Widths
      BY <2>1, FlatType DEF ElementAt
    <3>2. SigelementAlignment(sig, i + 1) = F.sz
      BY <1>4, <3>1, AlignmentLetter
    <3>3. alignof(F) = F.sz
      BY <2>1 DEF alignof
    <3>4. g = Greatest({alignof(F), 4})
      BY <2>1 DEF elements_align, stream_align, size_type
    <3> QED BY <3>2, <3>3, <3>4
  <2>2. CASE F.kind # "number"
    <3>1. F.kind = "struct" /\ Enclosed(sig, i + 1, F.members)
      BY <2>2 DEF ElementAt
    <3>2. SigelementAlignment(sig, i + 1) = alignof(F)
      BY <1>4, <3>1, AlignmentStruct
    <3>3. g = Greatest({alignof(F), 4})
      BY <3>1 DEF elements_align, stream_align, size_type
    <3> QED BY <3>2, <3>3
  <2> QED BY <2>1, <2>2
<1>7. SkipOneSigelement(sig, i + 1) = rest
  <2>1. CASE F.kind = "number"
    <3>1. sig[i + 1] = Letter(F.sz) /\ F.sz \in Widths
      BY <2>1, FlatType DEF ElementAt
    <3>2. sig[i + 1] \notin {"(", ")"}
      BY <3>1, LetterOf DEF Numerals
    <3>3. SkipOneSigelement(sig, i + 1) = i + 1 + 1
      BY <1>4, <3>2, SkipLetter
    <3>4. Len(FlatSignature(F)) = 1
      BY <2>1, FlatSignatureOf
    <3> QED BY <3>3, <3>4
  <2>2. CASE F.kind # "number"
    <3>1. F.kind = "struct" /\ Enclosed(sig, i + 1, F.members)
      BY <2>2 DEF ElementAt
    <3>2. F.members \in Seq(Widths)
      BY <3>1, FlatType
    <3>3. SkipOneSigelement(sig, i + 1) = i + 1 + Len(F.members) + 2
      BY <1>4, <3>1, <3>2, SkipStruct
    <3>4. Len(FlatSignature(F)) = Len(F.members) + 2
      BY <3>1, FlatSignatureOf
    <3>5. Len(F.members) \in Nat
      BY <3>2
    <3> DEFINE m == Len(F.members)
               f == Len(FlatSignature(F))
    <3> HIDE DEF m, f
    <3>6. m \in Nat /\ f = m + 2
      BY <3>4, <3>5 DEF m, f
    <3>7. i + 1 + m + 2 = i + 1 + f
      BY <1>4, <3>6
    <3> QED BY <3>3, <3>7 DEF m, f
  <2> QED BY <2>1, <2>2
<1>8. ValidateArray(b, sig, at, i, validate) = IF valid THEN result ELSE Invalid
  <2> DEFINE nel == Count(Bytes(b, at, size_type))
             elal == Greatest({SigelementAlignment(sig, i + 1), 4})
             skip == SkipOneSigelement(sig, i + 1)
             afirst == ValidateReadAlign(At(at + 4, i + 1, 4), elal)
             elast == CASE elsz = 0 -> ValidateElements(b, afirst, nel, validate)
                        [] elsz # 0 /\ ~Fits(b, afirst.at, elsz * nel) -> Invalid
                        [] OTHER -> At(afirst.at + elsz * nel, i + 1, afirst.sz + elsz * nel)
  <2>1. ValidateArray(b, sig, at, i, validate) =
          IF /\ Fits(b, at, 4) /\ at % 4 = 0 /\ CanAlign(b, at + 4, elal)
             /\ elast.i # 0 /\ CanAlign(b, elast.at, elal)
          THEN [ValidateReadAlign(elast, elal) EXCEPT !.i = skip] ELSE Invalid
    BY DEF ValidateArray
  <2>2. nel = n
    BY DEF CountAt, size_type
  <2>3. elal = g
    BY <1>6
  <2> HIDE DEF nel, elal, n, g
  <2>4. elast = last
    BY <2>2, <2>3
  <2> HIDE DEF elast, last, skip, rest
  <2> QED BY <1>7, <2>1, <2>3, <2>4 DEF skip
<1>9. /\ first \in Validators /\ first.at = Align(at + 4, g) /\ first.i = i + 1
      /\ first.sz = Align(at + 4, g) - at
      /\ Align(at + 4, g) \in Nat /\ Align(at + 4, g) % g = 0
  <2> HIDE DEF g
  <2> QED BY <1>4, <1>5, FirstAligned
<1>10. ASSUME Fits(b, at, 4) PROVE (total \in Nat /\ Elements(b, at, g, total, last)) \/ (~valid /\ ~(end <= Len(b)))
  <2>1. n \in Nat
    BY <1>2, <1>10
  <2> HIDE DEF n, first, g, s
  <2>2. total \in Nat
    <3>1. \A j, k \in Nat : j * k \in Nat
      OBVIOUS
    <3> QED BY <1>3, <2>1, <3>1
  <2>3. CASE F.kind = "number"
    <3>1. elsz = s /\ s # 0
      <4>1. sig[i + 1] = Letter(F.sz) /\ F.sz \in Widths
        BY <2>3, FlatType DEF ElementAt
      <4>2. s = F.sz
        BY <2>3 DEF sizeof, s
      <4> QED BY <1>3, <4>1, <4>2, LetterOf
    <3> HIDE DEF elsz
    <3>2. last = IF Fits(b, first.at, total) THEN At(first.at + total, i + 1, first.sz + total) ELSE Invalid
      BY <3>1
    <3> HIDE DEF last, total
    <3>3. Fits(b, first.at, total) <=> Align(at + 4, g) + total <= Len(b)
      BY <1>9 DEF Fits
    <3>4. i + 1 # 0
      BY <1>4
    <3>5. Elements(b, at, g, total, last)
      BY <1>9, <3>2, <3>3, <3>4, AtFields, InvalidTyped DEF Elements
    <3> QED BY <2>2, <3>5 DEF total
  <2>4. CASE F.kind # "number"
    <3>1. F.kind = "struct" /\ Enclosed(sig, i + 1, F.members)
          /\ Strides(b, validate, i + 1, s, alignof(F), i + 1 + Len(F.members) + 1)
      BY <2>4 DEF ElementAt, s
    <3>2. elsz = 0
      BY <3>1, SizeOfLetter DEF Enclosed
    <3> HIDE DEF elsz
    <3>3. last = ValidateElements(b, first, n, validate)
      BY <3>2
    <3> HIDE DEF last
    <3>4. CASE first.at <= Len(b)
      <4> DEFINE al == alignof(F)
                 c == i + 1 + Len(F.members) + 1
      <4>1. al \in Grains /\ s % al = 0 /\ first.at % al = 0
        <5>1. al \in Grains
          BY <1>3 DEF Widths, Grains
        <5> HIDE DEF al
        <5> QED BY <1>3, <1>5, <1>9, <5>1, AlignedFiner DEF al
      <4>2. c \in Nat \ {0}
        <5>1. Len(F.members) \in Nat
          BY <3>1, FlatType
        <5> DEFINE m == Len(F.members)
        <5> HIDE DEF m
        <5>2. m \in Nat
          BY <5>1 DEF m
        <5>3. i + 1 + m + 1 \in Nat \ {0}
          BY <1>4, <5>2
        <5> QED BY <5>3 DEF m
      <4> HIDE DEF al, c
      <4>3. Strides(b, validate, first.i, s, al, c)
        BY <1>9, <3>1 DEF al, c
      <4>4. first.i \in 1..Len(sig)
        BY <1>4, <1>9
      <4>5. Strided(b, first, s, n, ValidateElements(b, first, n, validate))
        BY <1>3, <1>9, <2>1, <3>4, <4>1, <4>2, <4>3, <4>4, ValidElements
      <4> HIDE DEF total
      <4>6. Elements(b, at, g, total, last)
        BY <1>9, <3>3, <4>5 DEF Elements, Strided, total
      <4> QED BY <2>2, <4>6 DEF total
    <3>5. CASE ~(first.at <= Len(b))
      <4>1. ~CanAlign(b, at + 4, g)
        BY <1>9, <3>5 DEF CanAlign
      <4> DEFINE p == Align(at + 4, g)
      <4> HIDE DEF p, total
      <4>2. p + total \in Nat /\ p \in Nat
        BY <1>9, <2>2 DEF p, total
      <4>3. p + total <= Align(p + total, g) /\ Align(p + total, g) \in Nat
        BY <1>5, <4>2, AlignProperty
      <4>4. ~(Align(p + total, g) <= Len(b))
        <5>1. ~(p <= Len(b)) /\ total \in Nat /\ Len(b) \in Nat
          BY <1>9, <2>2, <3>5 DEF p, total
        <5> QED BY <4>2, <4>3, <5>1
      <4> QED BY <4>1, <4>4 DEF p
    <3> QED BY <3>4, <3>5
  <2> QED BY <2>3, <2>4
<1>11. ASSUME Fits(b, at, 4), at % 4 = 0
       PROVE  (valid <=> end <= Len(b)) /\ (end <= Len(b) => result = At(end, rest, end - at))
  <2> HIDE DEF g, last, rest, total
  <2>1. CASE total \in Nat /\ Elements(b, at, g, total, last)
    <3>1. Padded(b, at, g, total, last, rest)
      BY <1>5, <2>1, ValidPadded
    <3> QED BY <1>11, <3>1 DEF Padded
  <2>2. CASE ~valid /\ ~(end <= Len(b))
    BY <2>2
  <2> QED BY <1>10, <1>11, <2>1, <2>2
<1>12. valid => Fits(b, at, 4) /\ at % 4 = 0
  OBVIOUS
<1> HIDE DEF result, end, valid, rest
<1>13. ValidateArray(b, sig, at, i, validate) = IF at + 4 <= Len(b) /\ at % 4 = 0 /\ end <= Len(b) THEN At(end, rest, end - at) ELSE Invalid
  BY <1>1, <1>8, <1>11, <1>12
<1> QED BY <1>13 DEF end, rest

\* The signature of T at i.
Lies(sig, i, T) ==
    LET part == SignatureOf(T)
    IN  i + Len(part) <= Len(sig) + 1 /\ \A j \in 1..Len(part) : sig[i + (j - 1)] = part[j]
LiesAs(sig, i, T) ==
    LET F == T.of
    IN  /\ F \in Flats /\ i \in 1..Len(sig) /\ T.depth \in {0, 1}
        /\ T.depth = 1 => F.kind # "string"
        /\ Len(SignatureOf(T)) = T.depth + Len(FlatSignature(F)) /\ Len(FlatSignature(F)) \in Nat
        /\ T.depth = 0 => Len(FlatSignature(F)) = 1
        /\ T.depth = 0 /\ F.kind = "number" => sig[i] = Letter(F.sz)
        /\ T.depth = 0 /\ F.kind # "number" => sig[i] = "s" /\ F.kind = "string"
        /\ T.depth = 1 => sig[i] = "a" /\ i + 1 \in 1..Len(sig)
        /\ T.depth = 1 /\ F.kind = "number" => sig[i + 1] = Letter(F.sz)
        /\ T.depth = 1 /\ F.kind # "number" => F.kind = "struct" /\ Packed(F) /\ Enclosed(sig, i + 1, F.members) /\ Len(sig) >= 4

LEMMA FollowedParts ==
    ASSUME NEW T \in Types, Followed(T), NEW sig, NEW i \in Nat \ {0}, Len(sig) \in Nat, Lies(sig, i, T)
    PROVE  LiesAs(sig, i, T)
<1> DEFINE F == T.of
           flat == FlatSignature(F)
           part == SignatureOf(T)
           l == Len(flat)
<1>1. F \in Flats /\ T.depth \in {0, 1} /\ (T.depth = 1 => F.kind # "string" /\ (F.kind # "number" => F.kind = "struct" /\ Packed(F)))
      /\ (T.depth = 0 => F.kind \in {"number", "string"})
  BY DEF Followed, Types
<1>2. /\ Len(part) = T.depth + l
      /\ \A k \in 1..T.depth : part[k] = "a"
      /\ \A k \in 1..l : part[T.depth + k] = flat[k]
  BY SignatureOfType
<1>3. l \in Nat \ {0}
  BY <1>1, FlatSignatureOf
<1>4. i + (T.depth + l) <= Len(sig) + 1 /\ \A j \in 1..T.depth + l : sig[i + (j - 1)] = part[j]
  BY <1>2 DEF Lies
<1>5. /\ F.kind = "number" => l = 1 /\ flat[1] = Letter(F.sz)
      /\ F.kind = "string" => l = 1 /\ flat[1] = "s"
  BY <1>1, FlatSignatureOf
<1>6. F.kind = "struct" => /\ l = Len(F.members) + 2 /\ Len(F.members) \in Nat \ {0}
                           /\ flat[1] = "(" /\ flat[Len(F.members) + 2] = ")"
                           /\ \A k \in 1..Len(F.members) : flat[k + 1] = Letter(F.members[k])
  <2> SUFFICES ASSUME F.kind = "struct"
               PROVE  /\ l = Len(F.members) + 2 /\ Len(F.members) \in Nat \ {0}
                      /\ flat[1] = "(" /\ flat[Len(F.members) + 2] = ")"
                      /\ \A k \in 1..Len(F.members) : flat[k + 1] = Letter(F.members[k])
    OBVIOUS
  <2>1. F.members \in Seq(Widths) /\ Len(F.members) >= 1
    BY <1>1, FlatType
  <2>2. Len(F.members) \in Nat \ {0}
    <3> DEFINE m == F.members
    <3> HIDE DEF m
    <3>1. m \in Seq(Widths) /\ Len(m) >= 1
      BY <2>1 DEF m
    <3>2. Len(m) \in Nat \ {0}
      BY <3>1
    <3> QED BY <3>2 DEF m
  <2> QED BY <1>1, <2>2, FlatSignatureOf
<1> HIDE DEF F, flat, part, l
<1>7. i \in 1..Len(sig)
  BY <1>1, <1>3, <1>4
<1>8. CASE T.depth = 0
  <2>1. sig[i] = flat[1]
    <3>1. 1 \in 1..T.depth + l /\ 1 \in 1..l /\ i + (1 - 1) = i /\ T.depth + 1 = 1
      BY <1>3, <1>8
    <3>2. sig[i + (1 - 1)] = part[1] /\ part[T.depth + 1] = flat[1]
      BY <1>2, <1>4, <3>1
    <3> QED BY <3>1, <3>2
  <2>2. F.kind \in {"number", "string"}
    BY <1>1, <1>8
  <2> QED BY <1>1, <1>2, <1>3, <1>5, <1>7, <1>8, <2>1, <2>2 DEF F, flat, part, l, LiesAs
<1>9. CASE T.depth = 1
  <2>1. sig[i] = "a" /\ i + 1 \in 1..Len(sig)
    <3>1. 1 \in 1..T.depth + l /\ 1 \in 1..T.depth /\ i + (1 - 1) = i /\ i + 1 \in 1..Len(sig)
      BY <1>3, <1>4, <1>9
    <3>2. sig[i + (1 - 1)] = part[1] /\ part[1] = "a"
      BY <1>2, <1>4, <3>1
    <3> QED BY <3>1, <3>2
  <2>2. ASSUME NEW k \in 1..l PROVE sig[i + k] = flat[k]
    <3>1. k + 1 \in 1..T.depth + l /\ i + ((k + 1) - 1) = i + k /\ T.depth + k = k + 1
      BY <1>3, <1>9
    <3>2. sig[i + ((k + 1) - 1)] = part[k + 1] /\ part[T.depth + k] = flat[k]
      BY <1>2, <1>4, <3>1
    <3> QED BY <3>1, <3>2
  <2>3. 1 \in 1..l
    BY <1>3
  <2>4. F.kind = "number" => sig[i + 1] = Letter(F.sz)
    BY <1>5, <2>2, <2>3
  <2>5. F.kind # "number" => F.kind = "struct" /\ Packed(F) /\ Enclosed(sig, i + 1, F.members) /\ Len(sig) >= 4
    <3> SUFFICES ASSUME F.kind # "number"
                 PROVE  F.kind = "struct" /\ Packed(F) /\ Enclosed(sig, i + 1, F.members) /\ Len(sig) >= 4
      OBVIOUS
    <3>1. F.kind = "struct" /\ Packed(F)
      BY <1>1, <1>9
    <3> DEFINE m == F.members
               n == Len(m)
    <3>2. l = n + 2 /\ n \in Nat \ {0} /\ flat[1] = "(" /\ flat[n + 2] = ")" /\ \A k \in 1..n : flat[k + 1] = Letter(m[k])
      BY <1>6, <3>1
    <3> HIDE DEF m, n
    <3>3. /\ n + 2 \in 1..l /\ 1 \in 1..l
          /\ \A k \in 1..n : k + 1 \in 1..l /\ i + (k + 1) = i + 1 + k
          /\ i + (n + 2) = i + 1 + n + 1 /\ i + 1 + n + 1 <= Len(sig) /\ Len(sig) >= 4
      BY <1>4, <1>9, <3>2
    <3>4. sig[i + 1] = "(" /\ sig[i + 1 + n + 1] = ")"
      <4>1. sig[i + 1] = flat[1]
        BY <2>2, <3>3
      <4>2. sig[i + (n + 2)] = flat[n + 2]
        BY <2>2, <3>3
      <4> QED BY <3>2, <3>3, <4>1, <4>2
    <3>5. \A k \in 1..n : sig[i + 1 + k] = Letter(m[k])
      <4> TAKE k \in 1..n
      <4>1. sig[i + (k + 1)] = flat[k + 1]
        BY <2>2, <3>3
      <4> QED BY <3>2, <3>3, <4>1
    <3> QED BY <3>1, <3>3, <3>4, <3>5 DEF Enclosed, m, n
  <2> QED BY <1>1, <1>2, <1>3, <1>7, <1>9, <2>1, <2>4, <2>5 DEF F, flat, part, l, LiesAs
<1> QED BY <1>1, <1>8, <1>9

LEMMA ValidatorAs ==
    ASSUME NEW b \in Seq(Byte), NEW sig, WellFormed(sig), NEW d \in 1..Len(sig), NEW at \in Nat, NEW i \in 1..Len(sig)
    PROVE  ValidatesAs(b, sig, Validator(b, sig)[d - 1], at, i, Validator(b, sig)[d][<<at, i>>])
<1> DEFINE f == Validator(b, sig)
<1>1. Validating(b, sig, Len(sig), f) /\ Len(sig) \in Nat
  BY SigelementOf
<1> HIDE DEF f
<1>2. d \in Nat \ {0} /\ d \in 0..Len(sig) /\ sig[i] \in Chars
  BY <1>1 DEF WellFormed
<1>3. f[d] = ValidateStep(b, sig, d, f[d - 1])
  BY <1>1, <1>2 DEF Validating
<1>4. ValidatesAs(b, sig, f[d - 1], at, i, ValidateStep(b, sig, d, f[d - 1])[<<at, i>>])
  BY <1>2, ValidateSteps
<1> QED BY <1>3, <1>4 DEF f

\* The elements of a vector of structs, where they are validated within.
LEMMA StructStrides ==
    ASSUME NEW b \in Seq(Byte), NEW sig, WellFormed(sig), Len(sig) >= 3, NEW F \in Flats, F.kind = "struct", Packed(F),
           NEW i \in 1..Len(sig), Enclosed(sig, i, F.members)
    PROVE  Strides(b, Validator(b, sig)[Len(sig) - 1], i, sizeof(F), alignof(F), i + Len(F.members) + 1)
<1> DEFINE f == Validator(b, sig)
           l == Len(sig)
<1>1. l \in Nat /\ \A d \in 0..l : Typed(sig, f[d])
  BY SigelementOf
<1>2. l - 1 \in 1..l /\ (l - 1) - 1 \in 1..l /\ (l - 1) - 1 \in 0..l
  BY <1>1
<1>3. ASSUME NEW d \in 1..l, NEW at \in Nat, NEW j \in 1..l
      PROVE  ValidatesAs(b, sig, f[d - 1], at, j, f[d][<<at, j>>])
  BY ValidatorAs
<1> HIDE DEF f, l
<1> DEFINE g == f[(l - 1) - 1]
<1>4. ValidatesNumbers(b, sig, g)
  <2>1. ASSUME NEW at \in Nat, NEW j \in 1..l, sig[j] \in Numerals
        PROVE  g[<<at, j>>] = ValidateNumber(b, sig, at, j)
    <3>1. ValidatesAs(b, sig, f[((l - 1) - 1) - 1], at, j, g[<<at, j>>])
      BY <1>2, <1>3
    <3> HIDE DEF g
    <3> QED BY <2>1, <3>1 DEF ValidatesAs
  <2> HIDE DEF g
  <2> QED BY <2>1 DEF ValidatesNumbers, l
<1>5. ASSUME NEW p \in Nat, p % alignof(F) = 0
      PROVE  f[l - 1][<<p, i>>] = IF p + sizeof(F) <= Len(b) THEN At(p + sizeof(F), i + Len(F.members) + 1, sizeof(F)) ELSE Invalid
  <2>1. i \in 1..l /\ sig[i] = "("
    BY DEF Enclosed, l
  <2>2. ValidatesAs(b, sig, g, p, i, f[l - 1][<<p, i>>])
    BY <1>2, <1>3, <2>1
  <2>3. Typed(sig, g)
    BY <1>1, <1>2
  <2> HIDE DEF g
  <2>4. f[l - 1][<<p, i>>] = ValidateStruct(b, sig, p, i, g)
    BY <2>1, <2>2 DEF ValidatesAs
  <2>5. ValidateStruct(b, sig, p, i, g) =
          IF p + sizeof(F) <= Len(b) THEN At(p + sizeof(F), i + Len(F.members) + 1, sizeof(F)) ELSE Invalid
    BY <1>4, <1>5, <2>3, ValidStruct
  <2> QED BY <2>4, <2>5
<1> QED BY <1>5 DEF Strides, f, l

LEMMA ValidFollowed ==
    ASSUME NEW b \in Seq(Byte), NEW sig, WellFormed(sig), NEW T \in Types, Followed(T),
           NEW i \in Nat \ {0}, Lies(sig, i, T), NEW at \in Nat
    PROVE  ValidateSigelement(b, sig)[<<at, i>>] = Validated(b, at, i, T)
<1> DEFINE F == T.of
           l == Len(sig)
           g == Validator(b, sig)[l - 1]
           e == ValidateSigelement(b, sig)[<<at, i>>]
           part == SignatureOf(T)
<1>1. l \in Nat /\ WellFormed(sig)
  BY DEF WellFormed
<1>2. /\ F \in Flats /\ i \in 1..l /\ T.depth \in {0, 1}
      /\ T.depth = 1 => F.kind # "string"
      /\ Len(part) = T.depth + Len(FlatSignature(F)) /\ Len(FlatSignature(F)) \in Nat
      /\ T.depth = 0 => Len(FlatSignature(F)) = 1
      /\ T.depth = 0 /\ F.kind = "number" => sig[i] = Letter(F.sz)
      /\ T.depth = 0 /\ F.kind # "number" => sig[i] = "s" /\ F.kind = "string"
      /\ T.depth = 1 => sig[i] = "a" /\ i + 1 \in 1..l
      /\ T.depth = 1 /\ F.kind = "number" => sig[i + 1] = Letter(F.sz)
      /\ T.depth = 1 /\ F.kind # "number" => F.kind = "struct" /\ Packed(F) /\ Enclosed(sig, i + 1, F.members) /\ Len(sig) >= 4
  <2>1. Len(sig) \in Nat
    BY <1>1
  <2>2. LiesAs(sig, i, T)
    BY <2>1, FollowedParts
  <2> QED BY <2>2 DEF LiesAs
<1>3. ValidatesAs(b, sig, g, at, i, e) /\ Typed(sig, g)
  <2>1. l \in 1..l /\ l - 1 \in 0..l
    BY <1>1, <1>2
  <2>2. /\ ValidateSigelement(b, sig) = Validator(b, sig)[l]
        /\ \A d \in 0..l : Typed(sig, Validator(b, sig)[d])
    BY SigelementOf
  <2>3. ValidatesAs(b, sig, g, at, i, Validator(b, sig)[l][<<at, i>>])
    BY <1>2, <2>1, ValidatorAs
  <2> QED BY <2>1, <2>2, <2>3
<1> HIDE DEF F, e, part
<1>4. CASE T.depth = 0 /\ F.kind = "number"
  <2>1. sig[i] = Letter(F.sz) /\ F.sz \in Widths /\ F.sz \in Nat \ {0}
    BY <1>2, <1>4, FlatType DEF Widths
  <2>2. e = ValidateNumber(b, sig, at, i)
    BY <1>3, <2>1, LetterOf DEF ValidatesAs
  <2>3. e = IF at + F.sz <= Len(b) /\ at % F.sz = 0 THEN At(at + F.sz, i + 1, F.sz) ELSE Invalid
    BY <1>2, <2>1, <2>2, ValidNumber
  <2>4. End(b, at, T) = at + F.sz /\ (Sound(b, at, T) <=> at + F.sz <= Len(b) /\ at % F.sz = 0)
    BY <1>4 DEF End, Sound, F
  <2>5. Len(part) = 1 /\ (at + F.sz) - at = F.sz
    BY <1>2, <1>4, <2>1
  <2> QED BY <2>3, <2>4, <2>5 DEF Validated, part, e
<1>5. CASE T.depth = 0 /\ F.kind # "number"
  <2> DEFINE n == CountAt(b, at)
             end == Align((at + 4) + n, 4)
  <2>1. sig[i] = "s" /\ i \in Nat /\ Len(part) = 1
    BY <1>2, <1>5
  <2>2. e = ValidateArray(b, sig, at, i, g)
    BY <1>3, <2>1 DEF ValidatesAs
  <2>3. ValidateArray(b, sig, at, i, g) =
           IF at + 4 <= Len(b) /\ at % 4 = 0 /\ end <= Len(b) /\ b[(at + 4) + n] = 0 THEN At(end, i + 1, end - at) ELSE Invalid
    <3> HIDE DEF g
    <3> QED BY <2>1, ValidString
  <2>4. End(b, at, T) = end /\ (Sound(b, at, T) <=> at + 4 <= Len(b) /\ at % 4 = 0 /\ end <= Len(b) /\ b[(at + 4) + n] = 0)
    BY <1>5 DEF End, Sound, F
  <2> HIDE DEF end, n, g
  <2> QED BY <2>1, <2>2, <2>3, <2>4 DEF Validated, part, e
<1>6. CASE T.depth = 1
  <2> DEFINE n == CountAt(b, at)
             al == elements_align(F, 1)
             end == Align(Align(at + 4, al) + sizeof(F) * n, al)
             rest == i + 1 + Len(FlatSignature(F))
  <2>1. sig[i] = "a" /\ i + 1 \in 1..l /\ F \in Flats /\ F.kind \in {"number", "struct"}
    BY <1>2, <1>6, FlatType
  <2>2. ElementAt(b, sig, i + 1, F, g)
    <3>1. CASE F.kind = "number"
      BY <1>2, <1>6, <3>1 DEF ElementAt
    <3>2. CASE F.kind # "number"
      <4>1. F.kind = "struct" /\ Packed(F) /\ Enclosed(sig, i + 1, F.members) /\ Len(sig) >= 3
        BY <1>1, <1>2, <1>6, <3>2
      <4>2. Strides(b, g, i + 1, sizeof(F), alignof(F), i + 1 + Len(F.members) + 1)
        BY <2>1, <4>1, StructStrides
      <4> HIDE DEF g
      <4> QED BY <4>1, <4>2 DEF ElementAt
    <3> QED BY <3>1, <3>2
  <2>3. e = ValidateArray(b, sig, at, i, g)
    BY <1>3, <2>1 DEF ValidatesAs
  <2>4. ValidateArray(b, sig, at, i, g) =
          IF at + 4 <= Len(b) /\ at % 4 = 0 /\ end <= Len(b) THEN At(end, rest, end - at) ELSE Invalid
    <3> HIDE DEF g
    <3> QED BY <1>2, <1>3, <2>1, <2>2, ValidVector
  <2>5. rest = i + Len(part)
    <3> DEFINE f == Len(FlatSignature(F))
    <3> HIDE DEF f
    <3>1. Len(part) = 1 + f /\ f \in Nat
      BY <1>2, <1>6 DEF f
    <3>2. i + 1 + f = i + (1 + f)
      BY <3>1
    <3> QED BY <3>1, <3>2 DEF f
  <2>6. End(b, at, T) = end /\ (Sound(b, at, T) <=> at + 4 <= Len(b) /\ at % 4 = 0 /\ end <= Len(b))
    BY <1>6 DEF End, Sound, F
  <2> HIDE DEF end, rest, g
  <2> QED BY <2>3, <2>4, <2>5, <2>6 DEF Validated, part, e
<1> QED BY <1>2, <1>4, <1>5, <1>6

-----------------------------------------------------------------------------
(* The reader ends where the validator does *)

LEMMA FollowedKind ==
    ASSUME NEW T \in Types, Followed(T)
    PROVE  /\ T.of \in Flats
           /\ \/ T.depth = 0 /\ T.of.kind = "number" /\ is_trivially_copyable(T.of)
              \/ T.depth = 0 /\ T.of.kind = "string"
              \/ T.depth = 1 /\ is_trivially_copyable(T.of)
BY DEF Followed, Types, is_trivially_copyable

LEMMA ElementsGrain ==
    ASSUME NEW F \in Flats, is_trivially_copyable(F)
    PROVE  LET g == elements_align(F, 1)
           IN  /\ g \in Grains /\ g \in {4, 8}
               /\ alignof(F) <= size_type => g = 4
               /\ alignof(F) > size_type => g = 8 /\ sizeof(F) % g = 0
               /\ sizeof(F) \in Nat \ {0} /\ alignof(F) \in Widths
<1> DEFINE g == elements_align(F, 1)
           a == alignof(F)
           s == sizeof(F)
<1>1. a \in Widths /\ s \in Nat \ {0} /\ s % a = 0
  BY AlignOf, SizeOf
<1>2. g = IF a <= size_type THEN size_type ELSE a
  BY ElementsAlign
<1> HIDE DEF g, a, s
<1>3. CASE a <= size_type
  BY <1>1, <1>2, <1>3 DEF size_type, Grains, Widths, g, a, s
<1>4. CASE ~(a <= size_type)
  <2>1. a = 8 /\ g = 8
    BY <1>1, <1>2, <1>4 DEF size_type, Widths
  <2>2. g \in Grains /\ g \in {4, 8} /\ a > size_type /\ s % g = 0
    BY <1>1, <2>1 DEF size_type, Grains
  <2> QED BY <1>1, <1>4, <2>1, <2>2 DEF g, a, s
<1> QED BY <1>3, <1>4

LEMMA SoundEnd ==
    ASSUME NEW b \in Seq(Byte), NEW T \in Types, Followed(T), NEW at \in Nat, Sound(b, at, T)
    PROVE  /\ End(b, at, T) \in Nat /\ at + 1 <= End(b, at, T) /\ End(b, at, T) <= Len(b)
           /\ ~(T.depth = 0 /\ T.of.kind = "number") => CountAt(b, at) \in Nat /\ at + 4 <= End(b, at, T) /\ at % 4 = 0
<1> DEFINE F == T.of
           n == CountAt(b, at)
           end == End(b, at, T)
<1>1. F \in Flats
  BY FollowedKind
<1>2. CASE T.depth = 0 /\ F.kind = "number"
  <2>1. F.sz \in Nat \ {0}
    BY <1>1, <1>2, FlatType DEF Widths
  <2>2. end = at + F.sz /\ end <= Len(b)
    BY <1>2 DEF End, Sound
  <2> QED BY <1>2, <2>1, <2>2
<1>3. CASE ~(T.depth = 0 /\ F.kind = "number")
  <2>1. at + 4 <= Len(b) /\ at % 4 = 0 /\ end <= Len(b)
    BY <1>3 DEF Sound
  <2>2. n \in Nat
    <3>1. Fits(b, at, 4)
      BY <2>1 DEF Fits
    <3> QED BY <3>1, CountType DEF CountAt
  <2>3. end \in Nat /\ at + 4 <= end
    <3>1. CASE T.depth = 0
      <4>1. end = Align((at + 4) + n, 4)
        BY <1>3, <3>1 DEF End
      <4> HIDE DEF n, end
      <4>2. (at + 4) + n \in Nat /\ 4 \in Grains
        BY <2>2 DEF Grains
      <4>3. end \in Nat /\ (at + 4) + n <= end
        BY <4>1, <4>2, AlignProperty
      <4> QED BY <2>2, <4>3
    <3>2. CASE T.depth # 0
      <4> DEFINE g == elements_align(F, 1)
                 total == sizeof(F) * n
                 first == Align(at + 4, g)
      <4>1. is_trivially_copyable(F)
        BY <3>2, FollowedKind
      <4>2. g \in Grains /\ sizeof(F) \in Nat
        BY <1>1, <4>1, ElementsGrain
      <4>3. end = Align(first + total, g)
        BY <3>2 DEF End
      <4>4. total \in Nat
        <5> DEFINE s == sizeof(F)
        <5>1. s \in Nat /\ n \in Nat
          BY <2>2, <4>2
        <5> HIDE DEF s, n
        <5>2. s * n \in Nat
          BY <5>1
        <5> QED BY <5>2 DEF s
      <4> HIDE DEF g, total, end
      <4>5. at + 4 \in Nat
        OBVIOUS
      <4>6. first \in Nat /\ at + 4 <= first
        BY <4>2, <4>5, AlignProperty
      <4> HIDE DEF first
      <4>7. first + total \in Nat
        BY <4>4, <4>6
      <4>8. end \in Nat /\ first + total <= end
        BY <4>2, <4>3, <4>7, AlignProperty
      <4> QED BY <4>4, <4>6, <4>8
    <3> QED BY <3>1, <3>2
  <2> HIDE DEF n, end
  <2>4. at + 1 <= end
    BY <2>3
  <2> QED BY <1>3, <2>1, <2>2, <2>3, <2>4 DEF n, end
<1> QED BY <1>2, <1>3

LEMMA ReadFollowedAs ==
    ASSUME NEW b, NEW T \in Types, Followed(T), NEW at \in Nat
    PROVE  Read(b, at, T) = IF T.depth = 0 THEN ReadFlat(b, at, T.of) ELSE ReadCopied(b, at, T.of)
<1> DEFINE r == CHOOSE f : Reading(b, T.of, T.depth, f)
           m == T.depth
<1>1. m \in Nat /\ m \in {0, 1} /\ (m = 1 => is_trivially_copyable(T.of))
  BY FollowedKind
<1>2. Reading(b, T.of, m, r)
  BY <1>1, ReadingExists
<1>3. Read(b, at, T) = r[m][at]
  BY DEF Read, Reading, ReadStep
<1> HIDE DEF r, m
<1>4. r[m] = ReadStep(b, T.of, m, r[m - 1])
  BY <1>1, <1>2 DEF Reading
<1>5. Read(b, at, T) = ReadValue(b, T.of, m, r[m - 1], at)
  BY <1>3, <1>4, ReadSteps
<1> QED BY <1>1, <1>5 DEF ReadValue, m

\* Reading t, which is b cut off, ends where validating b does.
LEMMA ReadFollowed ==
    ASSUME NEW b \in Seq(Byte), NEW T \in Types, Followed(T), NEW at \in Nat, Sound(b, at, T),
           NEW t \in Seq(Byte), Begins(t, b), End(b, at, T) <= Len(t)
    PROVE  Read(t, at, T).at = End(b, at, T)
<1> DEFINE F == T.of
           n == CountAt(b, at)
           end == End(b, at, T)
           s == sizeof(F)
           count == ReadNumber(t, at, size_type)
<1>1. F \in Flats /\ end \in Nat /\ Len(t) \in Nat
  BY FollowedKind, SoundEnd
<1>2. CASE T.depth = 0 /\ F.kind = "number"
  <2>1. end = at + F.sz /\ sizeof(F) = F.sz
    BY <1>2 DEF End, sizeof
  <2>2. Fits(t, at, sizeof(F))
    BY <2>1 DEF Fits
  <2>3. ReadFlat(t, at, F) = Cursor(at + sizeof(F), ValueAt(t, at, F))
    BY <1>2, <2>2 DEF ReadFlat
  <2> QED BY <1>2, <2>1, <2>3, ReadFollowedAs, CursorOf
<1>3. CASE ~(T.depth = 0 /\ F.kind = "number")
  <2>1. n \in Nat /\ at + 4 <= end /\ at % 4 = 0
    BY <1>3, SoundEnd
  <2>2. at + 4 <= Len(t)
    <3> HIDE DEF end
    <3>1. end <= Len(t)
      BY DEF end
    <3> QED BY <1>1, <2>1, <3>1
  <2>3. Bytes(t, at, 4) = Bytes(b, at, 4)
    <3>1. \A k \in 1..4 : at + k \in 1..Len(t)
      BY <1>1, <2>2
    <3>2. \A k \in 1..4 : t[at + k] = b[at + k]
      BY <3>1 DEF Begins
    <3> QED BY <3>2 DEF Bytes
  <2>4. count.at = at + 4 /\ Count(count.v) = n
    <3>1. ReadNumber(t, at, size_type) = Cursor(at + 4, Bytes(t, at, 4))
      BY <2>2 DEF ReadNumber, Fits, size_type
    <3> QED BY <2>3, <3>1, CursorOf DEF CountAt
  <2> HIDE DEF n, count
  \* A block of n elements of z bytes that ends within t.
  <2>5. ASSUME NEW z \in Nat, (at + 4) + Align(n * z, 4) <= Len(t)
        PROVE  ReadBlock(t, at, z).at = (at + 4) + Align(n * z, 4)
    <3> DEFINE sz == Count(count.v) * z
    <3>1. ReadBlock(t, at, z) = IF Fits(t, count.at, Align(sz, size_type))
                                  THEN Cursor(count.at + Align(sz, size_type), Bytes(t, count.at, sz)) ELSE Misread
      BY DEF ReadBlock, count
    <3>2. sz = n * z
      BY <2>4
    <3> HIDE DEF sz
    <3>3. Fits(t, at + 4, Align(sz, 4))
      BY <2>5, <3>2 DEF Fits
    <3> QED BY <2>4, <3>1, <3>2, <3>3, CursorOf DEF size_type
  <2>6. CASE T.depth = 0
    <3>1. F.kind = "string" /\ end = Align((at + 4) + n, 4) /\ n * 1 = n
      BY <1>3, <2>1, <2>6, FollowedKind DEF End, n
    <3> HIDE DEF end
    <3>2. end = (at + 4) + Align(n, 4) /\ end <= Len(t)
      <4>1. at + 4 \in Nat /\ (at + 4) % 4 = 0
        BY <2>1
      <4>2. Align((at + 4) + n, 4) = (at + 4) + Align(n, 4)
        BY <2>1, <4>1, AlignAfter
      <4> QED BY <3>1, <4>2 DEF end
    <3>3. ReadBlock(t, at, 1).at = (at + 4) + Align(n * 1, 4)
      BY <2>5, <3>1, <3>2
    <3>4. ReadFlat(t, at, F).at = ReadBlock(t, at, 1).at
      BY <3>1, CursorOf DEF ReadFlat, ReadString
    <3> QED BY <2>6, <3>1, <3>2, <3>3, <3>4, ReadFollowedAs DEF end
  <2>7. CASE T.depth # 0
    <3> DEFINE g == elements_align(F, 1)
               first == Align(at + 4, g)
               total == s * n
    <3>1. is_trivially_copyable(F)
      BY <2>7, FollowedKind
    <3>2. /\ g \in Grains /\ g \in {4, 8}
          /\ alignof(F) <= size_type => g = 4
          /\ alignof(F) > size_type => g = 8 /\ s % g = 0
          /\ s \in Nat \ {0} /\ alignof(F) \in Widths
      BY <1>1, <3>1, ElementsGrain
    <3>3. end = Align(first + total, g)
      BY <2>7 DEF End, n
    <3>4. Read(t, at, T) = ReadCopied(t, at, F)
      BY <2>7, ReadFollowedAs
    <3> DEFINE block == ReadBlock(t, at, s)
               af == Align(count.at, g)
               m == Count(count.v)
    <3>5. ReadCopied(t, at, F) =
            CASE alignof(F) <= size_type -> Cursor(block.at, ValuesAt(block.v, 0, F, Len(block.v) \div s))
              [] alignof(F) > size_type /\ count.at >= 0 /\ (m = 0 \/ Fits(t, af, m * s)) ->
                    Cursor(af + m * s, ValuesAt(t, af, F, m))
              [] OTHER -> Misread
      BY DEF ReadCopied, count
    <3>6. alignof(F) \in Nat /\ (alignof(F) > size_type <=> ~(alignof(F) <= size_type))
      BY <3>2 DEF Widths, size_type
    <3>7. total \in Nat /\ n * s = total
      <4> HIDE DEF s
      <4>1. \A j, k \in Nat : j * k \in Nat /\ j * k = k * j
        OBVIOUS
      <4> QED BY <2>1, <3>2, <4>1
    <3>8. at + 4 \in Nat /\ (at + 4) % 4 = 0
      BY <2>1
    <3> HIDE DEF total, g, s
    <3>9. CASE alignof(F) <= size_type
      <4>1. first = at + 4 /\ g = 4
        BY <3>2, <3>8, <3>9, AlignProperty DEF Grains
      <4>2. end = (at + 4) + Align(total, 4)
        <5>1. Align((at + 4) + total, 4) = (at + 4) + Align(total, 4)
          BY <3>7, <3>8, AlignAfter
        <5> HIDE DEF end, first
        <5> QED BY <3>3, <4>1, <5>1
      <4>3. (at + 4) + Align(n * s, 4) <= Len(t)
        BY <3>7, <4>2
      <4>4. block.at = (at + 4) + Align(n * s, 4)
        BY <2>5, <3>2, <4>3
      <4> HIDE DEF end, block
      <4>5. ReadCopied(t, at, F) = Cursor(block.at, ValuesAt(block.v, 0, F, Len(block.v) \div s))
        BY <3>5, <3>6, <3>9
      <4> QED BY <3>4, <3>7, <4>2, <4>4, <4>5, CursorOf DEF end
    <3>10. CASE ~(alignof(F) <= size_type)
      <4>1. g = 8 /\ s % g = 0
        BY <3>2, <3>6, <3>10
      <4>2. first \in Nat /\ first % g = 0
        BY <3>2, <3>8, AlignProperty
      <4>3. total % g = 0
        <5>1. n \in 0..n
          BY <2>1
        <5>2. (s * n) % g = 0
          BY <2>1, <3>2, <4>1, <5>1, ProductAligned
        <5> QED BY <5>2 DEF total
      <4>4. end = first + total
        <5> HIDE DEF end, first
        <5>1. first + total \in Nat
          BY <3>7, <4>2
        <5>2. (first + total) % g = 0
          BY <3>2, <3>7, <4>2, <4>3, AlignedSum
        <5> QED BY <3>2, <3>3, <5>1, <5>2, AlignProperty
      <4>5. af = first /\ m * s = total /\ count.at >= 0
        BY <2>4, <3>7
      <4>6. Fits(t, first, total)
        BY <4>2, <4>4 DEF Fits
      <4> HIDE DEF end, first, af, m
      <4>7. ReadCopied(t, at, F) = Cursor(first + total, ValuesAt(t, af, F, m))
        BY <3>5, <3>6, <3>10, <4>5, <4>6
      <4> QED BY <3>4, <4>4, <4>7, CursorOf DEF end
    <3> QED BY <3>9, <3>10
  <2> QED BY <2>6, <2>7
<1> QED BY <1>2, <1>3

\* The place that the validator asks an argument to begin at.
Grounded(T, at) == at % (IF T.depth = 0 /\ T.of.kind = "number" THEN T.of.sz ELSE size_type) = 0

LEMMA WriteFollowedAs ==
    ASSUME NEW T \in Types, Followed(T), NEW out \in Seq(Byte), NEW v \in Values(T.of, T.depth)
    PROVE  Write(out, T, v) = IF T.depth = 0 THEN WriteFlat(out, T.of, v) ELSE WriteCopied(out, T.of, v)
<1> DEFINE m == T.depth
           f == Writer(T)
<1>1. m \in Nat /\ m \in {0, 1} /\ (m = 1 => is_trivially_copyable(T.of))
  BY FollowedKind
<1>2. Writing(T.of, m, f) /\ Write(out, T, v) = f[m][<<out, v>>]
  BY WriteOf
<1>3. v \in Values(T.of, m)
  OBVIOUS
<1> HIDE DEF m, f
<1>4. f[m] = WriteStep(T.of, m, f[m - 1])
  BY <1>1, <1>2 DEF Writing
<1>5. Write(out, T, v) = WriteValue(T.of, m, f[m - 1], out, v)
  BY <1>1, <1>2, <1>3, <1>4, ValueSteps
<1> QED BY <1>1, <1>5 DEF WriteValue, m

\* The count that a message begins with after out.
LEMMA CountAtWritten ==
    ASSUME NEW n \in Counts, NEW out \in Seq(Byte), NEW b \in Seq(Byte), Begins(out \o CountBytes(n), b)
    PROVE  CountAt(b, Len(out)) = n /\ Len(out) + 4 <= Len(b)
<1>1. ReadNumber(b, Len(out), size_type).at = Len(out) + 4 /\ Count(ReadNumber(b, Len(out), size_type).v) = n /\ Len(out) + 4 <= Len(b)
  BY CountRead
<1>2. ReadNumber(b, Len(out), size_type) = Cursor(Len(out) + 4, Bytes(b, Len(out), 4))
  BY <1>1 DEF ReadNumber, Fits, size_type
<1> QED BY <1>1, <1>2, CursorOf DEF CountAt

LEMMA StringEnds ==
    ASSUME NEW v \in Seq(Byte), Len(v) <= Largest, NEW out \in Seq(Byte), NEW b \in Seq(Byte),
           Begins(WriteBlock(out, Len(Terminated(v)), Terminated(v)), b)
    PROVE  LET n == Len(Terminated(v))
           IN  /\ CountAt(b, Len(out)) = n /\ Len(out) + 4 <= Len(b) /\ b[(Len(out) + 4) + n] = 0
               /\ Len(WriteBlock(out, n, Terminated(v))) = Align((Len(out) + 4) + n, 4)
<1> DEFINE tv == Terminated(v)
           n == Len(tv)
           c == CountBytes(n)
           w == WriteBlock(out, n, tv)
<1>1. tv \in Seq(Byte) /\ n \in Counts /\ n \in Nat
  BY TerminatedType DEF Counts
<1>2. /\ w \in Seq(Byte) /\ Begins(out \o c \o tv, w) /\ Begins(out \o c, w) /\ out \o c \o tv \in Seq(Byte)
      /\ Len(w) = SizeBlock(Len(out), n)
  BY <1>1, WriteBlockType
<1>3. c \in Seq(Byte) /\ Len(c) = 4 /\ out \o c \in Seq(Byte) /\ Len(out \o c) = Len(out) + 4
  BY <1>1, CountBytesType, CountWritten
<1>4. Begins(out \o c, b) /\ Begins((out \o c) \o tv, b)
  BY <1>1, <1>2, <1>3, BeginsTransitive
<1>5. CountAt(b, Len(out)) = n /\ Len(out) + 4 <= Len(b)
  BY <1>1, <1>4, CountAtWritten
<1>6. Len(w) = Align((Len(out) + 4) + n, 4)
  BY <1>2 DEF SizeBlock, size_type
<1>7. b[(Len(out) + 4) + n] = 0
  <2>1. CASE v = <<>>
    <3>1. n = 0 /\ c[4] = 0
      <4>1. n = 0
        BY <2>1 DEF Terminated
      <4>2. CountBytes(0)[4] = 0
        BY DEF CountBytes
      <4> QED BY <4>1, <4>2
    <3>2. b[Len(out) + 4] = c[4]
      <4> HIDE DEF c
      <4>1. \A k \in 1..Len(c) : b[Len(out) + k] = c[k]
        BY <1>3, <1>4, Within
      <4>2. 4 \in 1..Len(c)
        BY <1>3
      <4> QED BY <4>1, <4>2
    <3> QED BY <3>1, <3>2
  <2>2. CASE v # <<>>
    <3>1. tv = Append(v, 0)
      BY <2>2 DEF Terminated
    <3>2. tv[n] = 0 /\ n \in 1..n
      BY <3>1
    <3>3. b[Len(out \o c) + n] = tv[n]
      <4> DEFINE oc == out \o c
      <4> HIDE DEF tv, c, oc, n
      <4>1. oc \in Seq(Byte) /\ tv \in Seq(Byte) /\ Begins(oc \o tv, b)
        BY <1>1, <1>3, <1>4 DEF oc
      <4>2. \A k \in 1..Len(tv) : b[Len(oc) + k] = tv[k]
        BY <4>1, Within
      <4> QED BY <3>2, <4>2 DEF oc, n
    <3> QED BY <1>3, <3>2, <3>3
  <2> QED BY <2>1, <2>2
<1> QED BY <1>5, <1>6, <1>7

LEMMA VectorEnds ==
    ASSUME NEW F \in Flats, is_trivially_copyable(F), NEW out \in Seq(Byte), Len(out) % 4 = 0,
           NEW n \in Counts, NEW v \in [1..n -> FlatValues(F)],
           NEW b \in Seq(Byte), Begins(WriteCopied(out, F, v), b)
    PROVE  LET g == elements_align(F, 1)
           IN  /\ CountAt(b, Len(out)) = n /\ Len(out) + 4 <= Len(b)
               /\ Len(WriteCopied(out, F, v)) = Align(Align(Len(out) + 4, g) + sizeof(F) * n, g)
<1> DEFINE g == elements_align(F, 1)
           s == sizeof(F)
           x == Contents(F, v)
           at == Len(out)
           w == WriteCopied(out, F, v)
<1>1. /\ g \in Grains /\ g \in {4, 8}
      /\ alignof(F) <= size_type => g = 4
      /\ alignof(F) > size_type => g = 8 /\ s % g = 0
      /\ s \in Nat \ {0} /\ alignof(F) \in Widths
  BY ElementsGrain
<1>2. n \in Nat /\ Len(v) = n /\ at \in Nat
  BY DEF Counts
<1>3. x \in Seq(Byte) /\ Len(x) = s * n /\ s * n \in Nat
  BY <1>2, ContentsType
<1>4. out \o CountBytes(n) \in Seq(Byte)
  BY CountWritten
<1> HIDE DEF s, g, x
<1>5. CASE alignof(F) <= size_type
  <2>1. w = WriteBlock(out, n, x)
    BY <1>2, <1>5 DEF WriteCopied, x
  <2>2. w \in Seq(Byte) /\ Begins(out \o CountBytes(n), w) /\ Len(w) = SizeBlock(at, s * n)
    BY <1>3, <2>1, WriteBlockType
  <2>3. CountAt(b, at) = n /\ at + 4 <= Len(b)
    BY <1>4, <2>2, BeginsTransitive, CountAtWritten
  <2>4. g = 4 /\ Align(at + 4, g) = at + 4
    <3>1. g = 4 /\ at + 4 \in Nat /\ (at + 4) % 4 = 0
      BY <1>1, <1>2, <1>5
    <3> QED BY <1>1, <3>1, AlignProperty
  <2>5. Len(w) = Align((at + 4) + s * n, 4)
    BY <2>2 DEF SizeBlock, size_type
  <2> HIDE DEF w, at
  <2>6. Len(w) = Align(Align(at + 4, g) + s * n, g)
    BY <2>4, <2>5
  <2> QED BY <2>3, <2>6 DEF w, at, s, g
<1>6. CASE ~(alignof(F) <= size_type)
  <2> DEFINE c == WriteCount(out, F, 1, n)
  <2>1. w = c \o Zeros(Len(x))
    BY <1>2, <1>6 DEF WriteCopied, WriteElements, x
  <2>2. /\ c \in Seq(Byte) /\ Begins(out \o CountBytes(n), c) /\ Len(c) = SizeCount(at, F, 1)
        /\ Len(c) % g = 0
    BY WriteCountType DEF g
  <2>3. Zeros(Len(x)) \in Seq(Byte) /\ Len(Zeros(Len(x))) = s * n
    BY <1>3, ZerosType
  <2> HIDE DEF c
  <2>4. w \in Seq(Byte) /\ Len(w) = Len(c) + s * n /\ Begins(c, w)
    <3> DEFINE z == Zeros(Len(x))
    <3> HIDE DEF z
    <3>1. z \in Seq(Byte) /\ Len(z) = s * n
      BY <2>3 DEF z
    <3>2. c \o z \in Seq(Byte) /\ Len(c \o z) = Len(c) + Len(z) /\ Begins(c, c \o z)
      BY <2>2, <3>1, BeginsJoined
    <3>3. w = c \o z
      BY <2>1 DEF z
    <3> HIDE DEF w
    <3> QED BY <3>1, <3>2, <3>3
  <2>5. Begins(out \o CountBytes(n), b)
    <3>1. Begins(out \o CountBytes(n), w)
      BY <1>4, <2>2, <2>4, BeginsTransitive
    <3> QED BY <1>4, <2>4, <3>1, BeginsTransitive
  <2>6. CountAt(b, at) = n /\ at + 4 <= Len(b)
    BY <2>5, CountAtWritten
  <2>7. Len(c) = Align(at + 4, g)
    BY <2>2 DEF SizeCount, size_type, g
  <2>8. g = 8 /\ s % g = 0
    <3>1. alignof(F) > size_type
      BY <1>1, <1>6 DEF Widths, size_type
    <3> QED BY <1>1, <3>1
  <2>9. (s * n) % g = 0
    <3>1. n \in 0..n
      BY <1>2
    <3> QED BY <1>1, <1>2, <2>8, <3>1, ProductAligned
  <2> HIDE DEF w, at
  <2>10. Len(c) \in Nat /\ Len(c) + s * n \in Nat
    BY <1>3, <2>2
  <2>11. (Len(c) + s * n) % g = 0
    BY <1>1, <1>3, <2>2, <2>9, <2>10, AlignedSum
  <2>12. Align(Len(c) + s * n, g) = Len(c) + s * n
    BY <1>1, <2>10, <2>11, AlignProperty
  <2>13. Len(w) = Align(Align(at + 4, g) + s * n, g)
    BY <2>4, <2>7, <2>12
  <2> QED BY <2>6, <2>13 DEF w, at, s, g
<1> QED BY <1>5, <1>6

\* What a proxy wrote at a place where it may be is sound, and ends where the
\* proxy ended it.
LEMMA WrittenSound ==
    ASSUME NEW T \in Types, Followed(T), NEW out \in Seq(Byte), Grounded(T, Len(out)),
           NEW v \in Values(T.of, T.depth), NEW b \in Seq(Byte), Begins(Write(out, T, v), b)
    PROVE  Sound(b, Len(out), T) /\ End(b, Len(out), T) = Len(Write(out, T, v))
<1> DEFINE F == T.of
           w == Write(out, T, v)
           at == Len(out)
<1>1. F \in Flats /\ w \in Seq(Byte) /\ Len(w) = SizeWith(at, T, v) /\ Len(w) <= Len(b)
  BY FollowedKind, WroteOne DEF Wrote, Begins
<1>2. CASE T.depth = 0 /\ F.kind = "number"
  <2>1. Values(F, T.depth) = FlatValues(F) /\ is_trivially_copyable(F) /\ sizeof(F) = F.sz
    BY <1>2, ValuesOf DEF is_trivially_copyable, sizeof
  <2>2. InMemory(F, v) \in Seq(Byte) /\ Len(InMemory(F, v)) = F.sz
    BY <1>1, <2>1, InMemoryType
  <2>3. w = out \o InMemory(F, v)
    BY <1>2, WriteFollowedAs DEF WriteFlat
  <2>4. Len(w) = at + F.sz
    BY <2>2, <2>3, BeginsJoined, ZenonT(30)
  <2>5. End(b, at, T) = at + F.sz
    BY <1>2 DEF End
  <2>6. at % F.sz = 0
    BY <1>2 DEF Grounded
  <2> QED BY <1>1, <1>2, <2>4, <2>5, <2>6 DEF Sound
<1>3. CASE T.depth = 0 /\ F.kind # "number"
  <2>1. F.kind = "string" /\ v \in FlatValues(F)
    BY <1>3, FollowedKind, ValuesOf
  <2>2. v \in Seq(Byte) /\ Len(v) <= Largest
    BY <1>1, <2>1, FlatValueType
  <2> DEFINE n == Len(Terminated(v))
  <2>3. w = WriteBlock(out, n, Terminated(v))
    BY <1>3, <2>1, WriteFollowedAs DEF WriteFlat
  <2>4. CountAt(b, at) = n /\ at + 4 <= Len(b) /\ b[(at + 4) + n] = 0 /\ Len(w) = Align((at + 4) + n, 4)
    <3> HIDE DEF w
    <3>1. Begins(WriteBlock(out, Len(Terminated(v)), Terminated(v)), b)
      BY <2>3 DEF w
    <3> QED BY <2>2, <2>3, <3>1, StringEnds
  <2>5. End(b, at, T) = Align((at + 4) + CountAt(b, at), 4) /\ at % 4 = 0
    BY <1>3 DEF End, Grounded, size_type
  <2> HIDE DEF n, w
  <2>6. End(b, at, T) = Len(w)
    BY <2>4, <2>5
  <2> QED BY <1>1, <1>3, <2>4, <2>5, <2>6 DEF Sound, w
<1>4. CASE T.depth # 0
  <2>1. is_trivially_copyable(F) /\ T.depth = 1
    BY <1>4, FollowedKind DEF Followed
  <2> DEFINE n == Len(v)
  <2>2. n \in Counts /\ v \in [1..n -> FlatValues(F)]
    <3>1. v \in Values(F, 1) /\ Values(F, 0) = FlatValues(F)
      BY <2>1, ValuesOf
    <3> DEFINE one == 1
    <3>2. one \in Nat \ {0} /\ one - 1 = 0 /\ v \in Values(F, one)
      BY <3>1
    <3> HIDE DEF one, F
    <3>3. Len(v) \in Counts /\ v \in [1..Len(v) -> Values(F, one - 1)]
      BY <3>2, VectorType
    <3> QED BY <3>1, <3>2, <3>3 DEF F
  <2>3. w = WriteCopied(out, F, v)
    BY <1>4, WriteFollowedAs
  <2>4. at % 4 = 0
    BY <1>4 DEF Grounded, size_type
  <2> DEFINE g == elements_align(F, 1)
             e == Align(Align(at + 4, g) + sizeof(F) * n, g)
  <2>5. CountAt(b, at) = n /\ at + 4 <= Len(b) /\ Len(w) = e
    <3> HIDE DEF w, n
    <3>1. Begins(WriteCopied(out, F, v), b)
      BY <2>3 DEF w
    <3> QED BY <1>1, <2>1, <2>2, <2>3, <2>4, <3>1, VectorEnds
  <2>6. End(b, at, T) = Align(Align(at + 4, g) + sizeof(F) * CountAt(b, at), g)
    BY <1>4 DEF End
  <2> HIDE DEF w, n
  <2>7. End(b, at, T) = Len(w)
    BY <2>5, <2>6
  <2> QED BY <1>1, <1>4, <2>4, <2>5, <2>7 DEF Sound, w
<1> QED BY <1>2, <1>3, <1>4

-----------------------------------------------------------------------------
(* A whole message *)

\* The cursors of a reader, whatever it reads.
ReadingArgs(b, types, m, c) == c = [k \in 0..m |-> IF k = 0 THEN Cursor(0, <<>>) ELSE ReadArg(b, c[k - 1], types[k])]

LEMMA ReadingArgsExist ==
    ASSUME NEW b, NEW types, NEW m \in Nat
    PROVE  \E c : ReadingArgs(b, types, m, c)
<1> DEFINE S == {l \in 0..m : \E c : ReadingArgs(b, types, l, c)}
<1>1. 0 \in S
  <2> DEFINE c == [k \in 0..0 |-> Cursor(0, <<>>)]
  <2>1. c = [k \in 0..0 |-> IF k = 0 THEN Cursor(0, <<>>) ELSE ReadArg(b, c[k - 1], types[k])]
    <3>1. \A k \in 0..0 : k = 0
      OBVIOUS
    <3> QED BY <3>1
  <2> HIDE DEF c
  <2>2. ReadingArgs(b, types, 0, c)
    BY <2>1 DEF ReadingArgs
  <2> QED BY <2>2
<1>2. ASSUME NEW l \in 1..m, l - 1 \in S PROVE l \in S
  <2>1. PICK c : ReadingArgs(b, types, l - 1, c)
    BY <1>2
  <2> DEFINE g == [k \in 0..l |-> IF k = l THEN ReadArg(b, c[l - 1], types[l]) ELSE c[k]]
  <2>2. ASSUME NEW k \in 0..l PROVE g[k] = IF k = 0 THEN Cursor(0, <<>>) ELSE ReadArg(b, g[k - 1], types[k])
    <3>1. CASE k = l
      <4>1. l - 1 \in 0..l /\ l - 1 # l /\ k # 0
        BY <3>1
      <4> QED BY <3>1, <4>1
    <3>2. CASE k # l /\ k = 0
      <4>1. g[k] = c[k] /\ k \in 0..l - 1
        BY <3>2
      <4>2. c[k] = Cursor(0, <<>>)
        BY <2>1, <3>2, <4>1 DEF ReadingArgs
      <4> HIDE DEF g
      <4> QED BY <3>2, <4>1, <4>2
    <3>3. CASE k # l /\ k # 0
      <4>1. k \in 0..l - 1 /\ k - 1 \in 0..l /\ k - 1 # l
        BY <3>3
      <4>2. g[k] = c[k] /\ g[k - 1] = c[k - 1]
        BY <3>3, <4>1
      <4>3. c[k] = ReadArg(b, c[k - 1], types[k])
        BY <2>1, <3>3, <4>1 DEF ReadingArgs
      <4> HIDE DEF g
      <4> QED BY <3>3, <4>2, <4>3
    <3> QED BY <3>1, <3>2, <3>3
  <2>3. g = [k \in 0..l |-> g[k]]
    OBVIOUS
  <2> HIDE DEF g
  <2>4. ReadingArgs(b, types, l, g)
    BY <2>2, <2>3 DEF ReadingArgs
  <2> QED BY <2>4
<1>3. m \in S
  <2> HIDE DEF S
  <2>1. 0..m \subseteq S
    BY <1>1, <1>2, UpTo
  <2> QED BY <2>1
<1> QED BY <1>3

LEMMA ReadingsOf ==
    ASSUME NEW b, NEW types, Len(types) \in Nat
    PROVE  LET c == Readings(b, types)
           IN  /\ c[0] = Cursor(0, <<>>) /\ ReadArgs(b, types) = c[Len(types)]
               /\ \A k \in 1..Len(types) : c[k] = ReadArg(b, c[k - 1], types[k])
<1> DEFINE n == Len(types)
           c == CHOOSE f : ReadingArgs(b, types, n, f)
<1>1. Readings(b, types) = c
  BY DEF Readings, ReadingArgs
<1>2. ReadingArgs(b, types, n, c)
  BY ReadingArgsExist
<1> HIDE DEF c
<1>3. \A k \in 0..n : c[k] = IF k = 0 THEN Cursor(0, <<>>) ELSE ReadArg(b, c[k - 1], types[k])
  BY <1>2 DEF ReadingArgs
<1> HIDE DEF n
<1>4. n \in Nat
  BY DEF n
<1>5. 0 \in 0..n /\ \A k \in 1..n : k \in 0..n /\ k # 0
  BY <1>4
<1>6. c[0] = Cursor(0, <<>>) /\ \A k \in 1..n : c[k] = ReadArg(b, c[k - 1], types[k])
  BY <1>3, <1>5
<1> QED BY <1>1, <1>6 DEF ReadArgs, n

\* Where the signature of the argument after the first k begins.
From(types, k) == Len(Signatures(types)[k]) + 1

LEMMA FromOf ==
    ASSUME NEW types \in Seq(Types)
    PROVE  LET n == Len(types)
               l == Len(Signature(types))
           IN  /\ n \in Nat /\ l \in Nat /\ WellFormed(Signature(types)) /\ n <= l
               /\ From(types, 0) = 1 /\ From(types, n) = l + 1
               /\ \A k \in 1..n : /\ types[k] \in Types
                                  /\ From(types, k - 1) \in 1..l
                                  /\ From(types, k) = From(types, k - 1) + Len(SignatureOf(types[k]))
                                  /\ Lies(Signature(types), From(types, k - 1), types[k])
               /\ \A k \in 0..n : From(types, k) \in Nat \ {0} /\ k < From(types, k)
<1> DEFINE n == Len(types)
           sig == Signature(types)
           l == Len(sig)
           G == Signatures(types)
           f(k) == From(types, k)
<1>1. /\ n \in Nat /\ G \in [0..n -> Seq(Chars)] /\ G[0] = <<>> /\ sig = G[n]
      /\ \A k \in 1..n : types[k] \in Types
      /\ \A k \in 0..n : WellFormed(G[k])
  BY SignaturesOf
<1>2. ASSUME NEW k \in 1..n
      PROVE  LET part == SignatureOf(types[k])
             IN  /\ Len(part) \in Nat \ {0} /\ Len(G[k - 1]) \in Nat
                 /\ Len(G[k]) = Len(G[k - 1]) + Len(part) /\ Len(G[k - 1]) + Len(part) <= l
                 /\ \A j \in 1..Len(part) : sig[Len(G[k - 1]) + j] = part[j]
  BY <1>1, <1>2, SignatureParts, SignatureOfType
<1> HIDE DEF G, sig, n
<1>3. n \in 0..n /\ 0 \in 0..n /\ WellFormed(sig) /\ sig \in Seq(Chars)
  BY <1>1
<1>4. l \in Nat
  BY <1>3
<1> HIDE DEF l
<1>5. f(0) = 1 /\ f(n) = l + 1
  BY <1>1 DEF From, G, l
<1>6. ASSUME NEW k \in 1..n
      PROVE  /\ f(k - 1) \in 1..l /\ f(k) = f(k - 1) + Len(SignatureOf(types[k])) /\ Len(SignatureOf(types[k])) \in Nat \ {0}
             /\ Lies(sig, f(k - 1), types[k])
  <2> DEFINE part == SignatureOf(types[k])
             p == Len(part)
             from == Len(G[k - 1])
  <2>1. /\ p \in Nat \ {0} /\ from \in Nat /\ Len(G[k]) = from + p /\ from + p <= l
        /\ \A j \in 1..p : sig[from + j] = part[j]
    BY <1>2
  <2>2. f(k - 1) = from + 1 /\ f(k) = Len(G[k]) + 1
    BY DEF From, G
  <2> HIDE DEF part, p, from, f
  <2>3. f(k - 1) \in 1..l /\ f(k) = f(k - 1) + p /\ f(k - 1) + p <= l + 1
    BY <1>4, <2>1, <2>2
  <2>4. \A j \in 1..p : sig[f(k - 1) + (j - 1)] = part[j]
    <3>1. \A j \in 1..p : f(k - 1) + (j - 1) = from + j
      BY <2>1, <2>2
    <3> QED BY <2>1, <3>1
  <2>5. Lies(sig, f(k - 1), types[k])
    BY <2>3, <2>4 DEF Lies, part, p, l
  <2> QED BY <2>1, <2>3, <2>5 DEF part, p
<1> DEFINE S == {k \in 0..n : f(k) \in Nat /\ k < f(k)}
<1>7. 0 \in S
  BY <1>3, <1>5
<1>8. ASSUME NEW k \in 1..n, k - 1 \in S PROVE k \in S
  <2> HIDE DEF f
  <2>1. k \in 0..n /\ k \in Nat /\ f(k - 1) \in Nat /\ k - 1 < f(k - 1)
    BY <1>1, <1>8
  <2>2. f(k) = f(k - 1) + Len(SignatureOf(types[k])) /\ Len(SignatureOf(types[k])) \in Nat \ {0}
    BY <1>6
  <2>3. f(k) \in Nat /\ k < f(k)
    BY <2>1, <2>2
  <2> QED BY <2>1, <2>3
<1>9. 0..n \subseteq S
  <2> HIDE DEF S
  <2> QED BY <1>1, <1>7, <1>8, UpTo
<1> HIDE DEF f
<1>10. \A k \in 0..n : f(k) \in Nat /\ k < f(k)
  BY <1>9
<1>11. n <= l
  <2>1. n < f(n)
    BY <1>3, <1>10
  <2> QED BY <1>1, <1>4, <1>5, <2>1
<1>12. \A k \in 0..n : f(k) # 0
  BY <1>10
<1> QED BY <1>1, <1>3, <1>4, <1>5, <1>6, <1>10, <1>11, <1>12 DEF f, n, sig, l

\* The validator after one more argument.
After(b, types, p, k) ==
    LET T == types[k]
    IN  IF p.i # 0 /\ Sound(b, p.at, T) THEN At(End(b, p.at, T), From(types, k), End(b, p.at, T)) ELSE Invalid
\* Where the validator is after each of the arguments.
Validations(b, types, v) ==
    /\ v[0] = At(0, 1, 0)
    /\ \A k \in 1..Len(types) : v[k] = After(b, types, v[k - 1], k)
    /\ \A k \in 0..Len(types) : /\ v[k] \in Validators
                                /\ v[k].i # 0 => v[k].i = From(types, k) /\ v[k].sz = v[k].at
                                /\ v[k].i = 0 => v[k].sz = 0
    /\ ValidateSignature(b, Signature(types)) = v[Len(types)].sz

\* An argument of a type that the validator follows, wherever it begins.
LEMMA ValidNext ==
    ASSUME NEW b \in Seq(Byte), NEW types \in Seq(Types), NEW k \in 1..Len(types), Followed(types[k]),
           NEW p \in Validators, p.i = From(types, k - 1), p.sz = p.at
    PROVE  LET q == After(b, types, p, k)
           IN  /\ ValidateNext(p, p.i, ValidateSigelement(b, Signature(types))) = q
               /\ q = Invalid \/ (q \in Validators /\ q.i = From(types, k) /\ q.sz = q.at)
<1> DEFINE T == types[k]
           sig == Signature(types)
           i == From(types, k - 1)
           at == p.at
           end == End(b, at, T)
           e == ValidateSigelement(b, sig)[<<at, i>>]
<1>1. /\ WellFormed(sig) /\ T \in Types /\ i \in 1..Len(sig) /\ Lies(sig, i, T)
      /\ From(types, k) = i + Len(SignatureOf(T)) /\ i \in Nat \ {0}
  <2>1. Len(sig) \in Nat
    BY FromOf
  <2>2. WellFormed(sig) /\ T \in Types /\ i \in 1..Len(sig) /\ Lies(sig, i, T) /\ From(types, k) = i + Len(SignatureOf(T))
    BY FromOf
  <2> HIDE DEF i
  <2> QED BY <2>1, <2>2
<1>2. From(types, k) \in Nat \ {0}
  <2>1. Len(SignatureOf(T)) \in Nat
    BY <1>1, SignatureOfType
  <2> HIDE DEF i, T
  <2> QED BY <1>1, <2>1
<1>3. at \in Nat /\ p.sz = at
  BY ValidatorFields
<1> HIDE DEF i, sig, T
<1>4. Followed(T)
  BY DEF T
<1>5. e = Validated(b, at, i, T)
  BY <1>1, <1>3, <1>4, ValidFollowed
<1>6. ValidateNext(p, p.i, ValidateSigelement(b, sig)) = IF e.sz = 0 THEN Invalid ELSE At(e.at, e.i, at + e.sz)
  <2>1. p.i = i /\ p.i # 0
    BY <1>1 DEF i
  <2> QED BY <1>3, <2>1 DEF ValidateNext
<1>7. CASE Sound(b, at, T)
  <2>1. end \in Nat /\ at + 1 <= end
    BY <1>1, <1>3, <1>4, <1>7, SoundEnd
  <2>2. e = At(end, i + Len(SignatureOf(T)), end - at)
    BY <1>5, <1>7 DEF Validated
  <2> HIDE DEF end, e, at
  <2>3. e.at = end /\ e.i = From(types, k) /\ e.sz = end - at
    BY <1>1, <2>2, AtFields
  <2>4. e.sz # 0 /\ at + e.sz = end
    BY <1>3, <2>1, <2>3
  <2>5. After(b, types, p, k) = At(end, From(types, k), end)
    <3>1. p.i # 0
      BY <1>1 DEF i
    <3> QED BY <1>7, <3>1 DEF After, T, end, at
  <2> HIDE DEF T
  <2>6. At(end, From(types, k), end) \in Validators
    BY <1>2, <2>1, AtTyped
  <2> QED BY <1>6, <2>3, <2>4, <2>5, <2>6, AtFields DEF e, sig
<1>8. CASE ~Sound(b, at, T)
  <2>1. e = Invalid
    BY <1>5, <1>8 DEF Validated
  <2>2. After(b, types, p, k) = Invalid
    BY <1>8 DEF After, T
  <2> HIDE DEF e
  <2> QED BY <1>6, <2>1, <2>2, InvalidTyped DEF sig
<1> QED BY <1>7, <1>8

LEMMA ValidationsExist ==
    ASSUME NEW b \in Seq(Byte), NEW types \in Seq(Types), \A k \in 1..Len(types) : Followed(types[k])
    PROVE  \E v : Validations(b, types, v)
<1> DEFINE n == Len(types)
           sig == Signature(types)
           l == Len(sig)
           validate == ValidateSigelement(b, sig)
           from(k) == From(types, k)
           next(p) == ValidateNext(p, p.i, validate)
           Right(k, p) == /\ p.i # 0 => p.i = from(k) /\ p.sz = p.at
                          /\ p.i = 0 => p = Invalid
<1>1. n \in Nat /\ l \in Nat /\ WellFormed(sig) /\ n <= l
  BY FromOf
<1>2. from(0) = 1 /\ from(n) = l + 1 /\ \A k \in 1..n : from(k - 1) \in 1..l /\ from(k) # 0
  <2>1. \A k \in 1..n : k \in 0..n
    BY <1>1
  <2> QED BY <2>1, FromOf
<1>3. PICK v \in [0..l -> Validators] :
          /\ v[0] = At(0, 1, 0)
          /\ \A k \in 1..l : v[k] = (IF v[k - 1].i \in 1..l THEN next(v[k - 1]) ELSE v[k - 1])
          /\ ValidateSignature(b, sig) = v[l].sz
  BY <1>1, SigelementOf, SignatureChain
<1>4. ASSUME NEW k \in 1..n, NEW p \in Validators, p.i = from(k - 1), p.sz = p.at
      PROVE  /\ next(p) = After(b, types, p, k)
             /\ next(p) = Invalid \/ (next(p).i = from(k) /\ next(p).sz = next(p).at)
  BY <1>4, ValidNext
<1> HIDE DEF next, from, l, n
<1>5. ASSUME NEW k \in 1..n, NEW p \in Validators, p.i = 0
      PROVE  After(b, types, p, k) = Invalid
  BY <1>5 DEF After
<1> DEFINE S == {k \in 0..n : Right(k, v[k])}
<1>6. 0 \in S
  <2>1. v[0].i = 1 /\ v[0].sz = v[0].at /\ 0 \in 0..n
    BY <1>1, <1>3, AtFields
  <2> QED BY <1>2, <2>1
<1>7. ASSUME NEW k \in 1..n, Right(k - 1, v[k - 1])
      PROVE  v[k] = After(b, types, v[k - 1], k) /\ Right(k, v[k])
  <2> DEFINE p == v[k - 1]
  <2>1. k \in 1..l /\ k - 1 \in 0..l
    BY <1>1
  <2>2. p \in Validators /\ v[k] = IF p.i \in 1..l THEN next(p) ELSE p
    BY <1>3, <2>1
  <2>3. Right(k - 1, p)
    BY <1>7
  <2> HIDE DEF p
  <2>4. CASE p.i = 0
    <3>1. p = Invalid /\ v[k] = p
      BY <1>1, <2>2, <2>3, <2>4
    <3>2. After(b, types, p, k) = Invalid
      BY <1>5, <2>2, <2>4
    <3> QED BY <3>1, <3>2, InvalidTyped DEF p
  <2>5. CASE p.i # 0
    <3>1. p.i = from(k - 1) /\ p.sz = p.at
      BY <2>3, <2>5
    <3>2. v[k] = next(p)
      BY <1>2, <2>2, <3>1
    <3>3. next(p) = After(b, types, p, k) /\ (next(p) = Invalid \/ (next(p).i = from(k) /\ next(p).sz = next(p).at))
      BY <1>4, <2>2, <3>1
    <3>4. from(k) # 0
      BY <1>1, <1>2
    <3> QED BY <3>2, <3>3, <3>4, InvalidTyped DEF p
  <2> QED BY <2>4, <2>5
<1> HIDE DEF Right
<1>8. ASSUME NEW k \in 1..n, k - 1 \in S PROVE k \in S
  <2>1. k \in 0..n
    BY <1>1
  <2> QED BY <1>7, <1>8, <2>1
<1>9. 0..n \subseteq S
  <2> HIDE DEF S
  <2> QED BY <1>1, <1>6, <1>8, UpTo
<1>10. \A k \in 0..n : Right(k, v[k])
  BY <1>9
\* What is left of the steps does nothing.
<1> DEFINE R == {k \in 0..l - n : v[n + k] = v[n]}
<1>11. 0 \in R
  BY <1>1
<1>12. ASSUME NEW k \in 1..l - n, k - 1 \in R PROVE k \in R
  <2>1. n + k \in 1..l /\ (n + k) - 1 = n + (k - 1) /\ k \in 0..l - n /\ n \in 0..n
    BY <1>1
  <2>2. v[(n + k) - 1] = v[n]
    BY <1>12, <2>1
  <2>3. v[n].i \notin 1..l
    <3>1. Right(n, v[n])
      BY <1>10, <2>1
    <3>2. v[n].i = 0 \/ v[n].i = l + 1
      BY <1>2, <3>1 DEF Right
    <3> QED BY <1>1, <3>2
  <2>4. v[n + k] = v[n]
    BY <1>3, <2>1, <2>2, <2>3
  <2> QED BY <2>1, <2>4
<1>13. v[l] = v[n]
  <2> HIDE DEF R
  <2>1. l - n \in Nat
    BY <1>1
  <2>2. 0..l - n \subseteq R
    BY <1>11, <1>12, <2>1, UpTo
  <2>3. l - n \in R /\ n + (l - n) = l
    BY <1>1, <2>1, <2>2
  <2> QED BY <2>3 DEF R
<1>14. \A k \in 1..n : v[k] = After(b, types, v[k - 1], k)
  <2>1. \A k \in 1..n : k - 1 \in 0..n
    BY <1>1
  <2> QED BY <1>7, <1>10, <2>1
<1>15. \A k \in 0..n : /\ v[k] \in Validators
                       /\ v[k].i # 0 => v[k].i = from(k) /\ v[k].sz = v[k].at
                       /\ v[k].i = 0 => v[k].sz = 0
  <2>1. \A k \in 0..n : k \in 0..l
    BY <1>1
  <2> QED BY <1>3, <1>10, <2>1, InvalidTyped DEF Right
<1>16. Validations(b, types, v)
  BY <1>3, <1>13, <1>14, <1>15 DEF Validations, n, l, from
<1> QED BY <1>16

\* An accepted body, cut to the size that was validated, is read to its end.
LEMMA AcceptedIsRead ==
    ASSUME NEW b \in Seq(Byte), NEW types \in Seq(Types), \A k \in 1..Len(types) : Followed(types[k]),
           ValidateSignature(b, Signature(types)) # 0,
           NEW t \in Seq(Byte), Begins(t, b), Len(t) = ValidateSignature(b, Signature(types))
    PROVE  ReadArgs(t, types).at = Len(t)
<1> DEFINE n == Len(types)
           l == Len(t)
           c == Readings(t, types)
<1>1. n \in Nat /\ l \in Nat /\ \A k \in 1..n : types[k] \in Types
  BY FromOf
<1>2. PICK v : Validations(b, types, v)
  BY ValidationsExist
<1>3. /\ v[0] = At(0, 1, 0) /\ v[n].sz = l
      /\ \A k \in 1..n : v[k] = After(b, types, v[k - 1], k)
      /\ \A k \in 0..n : /\ v[k] \in Validators /\ v[k].at \in Nat
                         /\ v[k].i # 0 => v[k].sz = v[k].at
                         /\ v[k].i = 0 => v[k].sz = 0
  BY <1>2, ValidatorFields DEF Validations
<1>4. c[0] = Cursor(0, <<>>) /\ ReadArgs(t, types) = c[n] /\ \A k \in 1..n : c[k] = ReadArg(t, c[k - 1], types[k])
  BY <1>1, ReadingsOf
<1>5. l # 0
  OBVIOUS
<1> HIDE DEF n, l, c
<1> DEFINE S == {k \in 0..n : v[k].i # 0 /\ v[k].at <= l => c[k].at = v[k].at}
<1>6. 0 \in S
  BY <1>1, <1>3, <1>4, AtFields, CursorOf
<1>7. ASSUME NEW k \in 1..n, k - 1 \in S PROVE k \in S
  <2> DEFINE T == types[k]
             p == v[k - 1]
             end == End(b, p.at, T)
  <2>1. k \in 0..n /\ k - 1 \in 0..n /\ T \in Types /\ Followed(T) /\ p.at \in Nat
    BY <1>1, <1>3 DEF n
  <2>2. v[k] = After(b, types, p, k)
    BY <1>3
  <2>3. p.i # 0 /\ p.at <= l => c[k - 1].at = p.at
    BY <1>7
  <2>4. c[k] = ReadArg(t, c[k - 1], T)
    BY <1>4
  <2>5. ASSUME v[k].i # 0, v[k].at <= l PROVE c[k].at = v[k].at
    <3>1. p.i # 0 /\ Sound(b, p.at, T) /\ v[k] = At(end, From(types, k), end)
      BY <2>2, <2>5, InvalidTyped DEF After
    <3>2. end \in Nat /\ p.at + 1 <= end
      BY <2>1, <3>1, SoundEnd
    <3>3. v[k].at = end
      BY <3>1, AtFields
    <3>4. p.at <= l /\ end <= Len(t)
      <4> HIDE DEF end, p
      <4> QED BY <1>1, <2>1, <2>5, <3>2, <3>3 DEF l
    <3>5. c[k - 1].at = p.at
      BY <2>3, <3>1, <3>4
    <3>6. Read(t, p.at, T).at = end
      BY <2>1, <3>1, <3>4, ReadFollowed
    <3> HIDE DEF end, p, T
    <3>7. ReadArg(t, c[k - 1], T) = Cursor(Read(t, p.at, T).at, Append(c[k - 1].v, Read(t, p.at, T).v))
      BY <2>1, <3>2, <3>5, <3>6 DEF ReadArg
    <3> QED BY <2>4, <3>3, <3>6, <3>7, CursorOf
  <2> QED BY <2>1, <2>5
<1>8. n \in S
  <2> HIDE DEF S
  <2>1. 0..n \subseteq S
    BY <1>1, <1>6, <1>7, UpTo
  <2> QED BY <1>1, <2>1
<1>9. v[n].i # 0 /\ v[n].at = l
  <2>1. n \in 0..n
    BY <1>1
  <2> QED BY <1>3, <1>5, <2>1
<1>10. c[n].at = l
  BY <1>1, <1>8, <1>9
<1> QED BY <1>4, <1>10 DEF l

\* Where each argument may be, for the validator.
ArgumentsGrounded(types, values) ==
    \A k \in 1..Len(types) : Grounded(types[k], Len(Written(types, values)[k - 1]))

\* The validator goes through what a proxy wrote as the proxy did, whatever
\* follows it.
LEMMA WrittenIsValid ==
    ASSUME NEW types \in Seq(Types), NEW values \in Arguments(types),
           \A k \in 1..Len(types) : Followed(types[k]), ArgumentsGrounded(types, values),
           NEW b \in Seq(Byte), Begins(WriteArgs(types, values), b)
    PROVE  ValidateSignature(b, Signature(types)) = Len(WriteArgs(types, values))
<1> DEFINE n == Len(types)
           W == Written(types, values)
<1>1. n \in Nat /\ \A k \in 1..n : types[k] \in Types /\ values[k] \in Values(types[k].of, types[k].depth)
  BY ArgumentsType
<1>2. W \in [0..n -> Seq(Byte)] /\ W[0] = <<>> /\ \A k \in 1..n : W[k] = Write(W[k - 1], types[k], values[k])
  BY WrittenOf
<1>3. WriteArgs(types, values) = W[n] /\ \A k \in 0..n : Begins(W[k], W[n])
  BY WrittenBegins DEF WriteArgs
<1>4. \A k \in 1..n : Grounded(types[k], Len(W[k - 1])) /\ Followed(types[k])
  BY DEF ArgumentsGrounded
<1>5. PICK v : Validations(b, types, v)
  BY ValidationsExist
<1>6. /\ v[0] = At(0, 1, 0) /\ ValidateSignature(b, Signature(types)) = v[n].sz
      /\ \A k \in 1..n : v[k] = After(b, types, v[k - 1], k)
  BY <1>5 DEF Validations
<1>7. \A k \in 1..n : From(types, k) # 0
  <2>1. \A k \in 1..n : k \in 0..n
    BY <1>1
  <2> QED BY <2>1, FromOf
<1> HIDE DEF W, n
<1>8. \A k \in 0..n : W[k] \in Seq(Byte) /\ Begins(W[k], b)
  <2>1. \A k \in 0..n : W[k] \in Seq(Byte)
    BY <1>2
  <2>2. n \in 0..n
    BY <1>1
  <2> QED BY <1>3, <2>1, <2>2, BeginsTransitive
<1> DEFINE S == {k \in 0..n : v[k].i # 0 /\ v[k].at = Len(W[k]) /\ v[k].sz = Len(W[k])}
<1>9. 0 \in S
  <2>1. Len(W[0]) = 0 /\ 0 \in 0..n
    BY <1>1, <1>2
  <2> QED BY <1>6, <2>1, AtFields
<1>10. ASSUME NEW k \in 1..n, k - 1 \in S PROVE k \in S
  <2> DEFINE T == types[k]
             out == W[k - 1]
             p == v[k - 1]
             end == End(b, Len(out), T)
  <2>1. k \in 0..n /\ k - 1 \in 0..n
    BY <1>1
  <2>2. p.i # 0 /\ p.at = Len(out)
    BY <1>10
  <2>3. out \in Seq(Byte) /\ W[k] = Write(out, T, values[k]) /\ Begins(Write(out, T, values[k]), b)
    BY <1>2, <1>8, <2>1
  <2>4. T \in Types /\ values[k] \in Values(T.of, T.depth) /\ Grounded(T, Len(out)) /\ Followed(T)
    BY <1>1, <1>4
  <2> HIDE DEF out, T
  <2>5. Sound(b, Len(out), T) /\ end = Len(W[k])
    BY <2>3, <2>4, WrittenSound
  <2>6. v[k] = At(end, From(types, k), end)
    BY <1>6, <2>2, <2>5 DEF After, T
  <2>7. v[k].i # 0 /\ v[k].at = Len(W[k]) /\ v[k].sz = Len(W[k])
    <3> HIDE DEF end
    <3> QED BY <1>7, <2>5, <2>6, AtFields
  <2> QED BY <2>1, <2>7
<1>11. n \in S
  <2> HIDE DEF S
  <2>1. 0..n \subseteq S
    BY <1>1, <1>9, <1>10, UpTo
  <2> QED BY <1>1, <2>1
<1> QED BY <1>3, <1>6, <1>11

-----------------------------------------------------------------------------
(* A call *)

\* The bodies that a message on its way between processes may have.
Outgoing == IF route = "foreign" THEN Foreign ELSE {Aligned(WriteArgs(method, args), Body)}
Called == method \in Methods /\ (route # "foreign" => args \in Arguments(method))
AsWritten ==
    /\ route = "local" /\ body = WriteArgs(method, args) /\ size = variadic_stream_size(method, args)
AsValidated(b) == size = ValidateSignature(b, Signature(method))

\* What each stage knows of the body: that it is what the proxy wrote, or came
\* from a body that was on its way between processes, and what the validator made
\* of that.
Fresh == route = "local" /\ method = <<>> /\ size = 0 /\ body = <<>>
OnTheWay == route \in {"exported", "foreign"} /\ size \in Nat /\ body \in Outgoing
NotAccepted == OnTheWay /\ AsValidated(body) /\ Align(size, Body) # Len(body)
Trimmed ==
    /\ route \in {"exported", "foreign"}
    /\ \E b \in Outgoing : AsValidated(b) /\ Align(size, Body) = Len(b) /\ body = SubSeq(b, 1, size)
MarshalInv ==
    /\ stage \in {"new", "sent", "exported", "refused", "delivered", "read"}
    /\ stage = "new" => Fresh
    /\ stage # "new" => Called
    /\ stage = "sent" => AsWritten
    /\ stage = "exported" => OnTheWay
    /\ stage = "refused" => NotAccepted
    /\ stage \in {"delivered", "read"} => AsWritten \/ Trimmed
    /\ stage = "read" => got = ReadArgs(body, method)

LEMMA WrittenArgs ==
    ASSUME NEW types \in Seq(Types), NEW values \in Arguments(types)
    PROVE  /\ WriteArgs(types, values) \in Seq(Byte)
           /\ variadic_stream_size(types, values) = Len(WriteArgs(types, values))
<1>1. Len(types) \in Nat
  BY ArgumentsType
<1>2. Len(types) \in 0..Len(types)
  BY <1>1
<1>3. Written(types, values)[Len(types)] \in Seq(Byte)
  BY <1>2, WrittenOf
<1>4. Sizes(types, values)[Len(types)] = Len(Written(types, values)[Len(types)])
  BY <1>2, SizesOf
<1> QED BY <1>3, <1>4 DEF WriteArgs, variadic_stream_size

LEMMA OutgoingType ==
    ASSUME Called, NEW b \in Outgoing
    PROVE  /\ b \in Seq(Byte) /\ Len(b) \in Nat /\ Len(b) % Body = 0
           /\ method \in Seq(Types) /\ ValidateSignature(b, Signature(method)) \in Nat
<1>1. method \in Seq(Types)
  BY MethodAssumption DEF Called
<1>2. b \in Seq(Byte) /\ Len(b) % 8 = 0
  <2>1. CASE route = "foreign"
    BY <2>1, ByteAssumption DEF Outgoing
  <2>2. CASE route # "foreign"
    <3> DEFINE w == WriteArgs(method, args)
    <3>1. w \in Seq(Byte)
      BY <1>1, <2>2, WrittenArgs DEF Called
    <3>2. b = Aligned(w, 8)
      BY <2>2 DEF Outgoing, Body
    <3> HIDE DEF w
    <3>3. 8 \in Grains
      BY DEF Grains
    <3>4. b \in Seq(Byte) /\ Len(b) = Align(Len(w), 8)
      BY <3>1, <3>2, <3>3, AlignedType
    <3>5. Len(w) \in Nat
      BY <3>1
    <3> QED BY <3>3, <3>4, <3>5, AlignProperty
  <2> QED BY <2>1, <2>2
<1>3. ValidateSignature(b, Signature(method)) \in Nat
  BY <1>1, <1>2, FromOf, SignatureTyped
<1> QED BY <1>1, <1>2, <1>3 DEF Body

\* What is left of a body that was accepted.
LEMMA TrimmedType ==
    ASSUME NEW b \in Seq(Byte), NEW n \in Nat, Align(n, Body) = Len(b)
    PROVE  /\ SubSeq(b, 1, n) \in Seq(Byte) /\ Len(SubSeq(b, 1, n)) = n /\ Begins(SubSeq(b, 1, n), b)
<1>1. n <= Len(b)
  BY AlignProperty DEF Body, Grains
<1> QED BY <1>1 DEF Begins

\* The arguments of a call lie where the validator and the reader ask them to.
LEMMA PlacedArguments ==
    ASSUME NEW types \in Seq(Types), method = types, args \in Arguments(types), Placed
    PROVE  ArgumentsGrounded(types, args) /\ ArgumentsAligned(types, args)
<1>1. Len(types) \in Nat /\ DOMAIN types = 1..Len(types) /\ DOMAIN args = 1..Len(types)
  BY ArgumentsType
<1>2. ASSUME NEW k \in 1..Len(types)
      PROVE  Grounded(types[k], Len(Written(types, args)[k - 1])) /\ ArgumentAligned(types[k], Len(Written(types, args)[k - 1]))
  <2>1. k - 1 \in 0..Len(types)
    BY <1>1
  <2>2. Offset(k) = Len(Written(types, args)[k - 1])
    BY <2>1, SizesOf DEF Offset
  <2>3. Grounded(types[k], Offset(k))
    BY <1>1 DEF Placed, Grounded
  <2>4. ArgumentAligned(types[k], Offset(k))
    <3>1. CASE types[k].depth = 0 /\ types[k].of.kind = "number"
      BY <3>1 DEF ArgumentAligned
    <3>2. CASE ~(types[k].depth = 0 /\ types[k].of.kind = "number")
      BY <2>3, <3>2 DEF ArgumentAligned, Grounded, size_type
    <3> QED BY <3>1, <3>2
  <2> QED BY <2>2, <2>3, <2>4
<1> QED BY <1>2 DEF ArgumentsGrounded, ArgumentsAligned

LEMMA MarshalInductive == MarshalInv /\ [Next]_vars => MarshalInv'
<1> SUFFICES ASSUME MarshalInv, [Next]_vars PROVE MarshalInv'
  OBVIOUS
<1>1. CASE Send
  BY <1>1 DEF Send, MarshalInv, Fresh, Called, AsWritten
<1>2. CASE PeerSends
  <2>1. route' = "foreign" /\ stage' = "exported" /\ method' \in Methods /\ body' \in Foreign /\ size' = 0
    BY <1>2 DEF PeerSends, MarshalInv, Fresh
  <2> QED BY <2>1 DEF MarshalInv, Called, OnTheWay, Outgoing
<1>3. CASE Deliver
  BY <1>3 DEF Deliver, MarshalInv, Called, AsWritten
<1>4. CASE Export
  <2>1. AsWritten /\ Called /\ stage' = "exported" /\ route' = "exported" /\ method' = method /\ args' = args /\ size' = size
        /\ body' = Aligned(body, Body)
    BY <1>4 DEF Export, MarshalInv
  <2>2. args \in Arguments(method) /\ method \in Seq(Types)
    BY <2>1, MethodAssumption DEF Called, AsWritten
  <2>3. size \in Nat
    <3>1. WriteArgs(method, args) \in Seq(Byte) /\ size = Len(WriteArgs(method, args))
      BY <2>1, <2>2, WrittenArgs DEF AsWritten
    <3> QED BY <3>1
  <2>4. body' \in Outgoing' /\ Called'
    BY <2>1, <2>2 DEF Outgoing, Called, AsWritten
  <2> QED BY <2>1, <2>3, <2>4 DEF MarshalInv, OnTheWay
<1>5. CASE Accept
  <2> DEFINE vsz == ValidateSignature(body, Signature(method))
             valid == Align(vsz, Body) = Len(body)
  <2>1. /\ OnTheWay /\ Called /\ stage' = IF valid THEN "delivered" ELSE "refused"
        /\ size' = vsz /\ body' = IF valid THEN SubSeq(body, 1, vsz) ELSE body
        /\ route' = route /\ method' = method /\ args' = args
    BY <1>5 DEF Accept, MarshalInv
  <2>2. body \in Outgoing /\ vsz \in Nat /\ Called' /\ Outgoing' = Outgoing
    BY <2>1, OutgoingType DEF OnTheWay, Called, Outgoing
  <2> HIDE DEF vsz
  <2>3. CASE valid
    <3>1. stage' = "delivered" /\ body' = SubSeq(body, 1, vsz)
      BY <2>1, <2>3
    <3>2. Trimmed'
      <4>1. route' \in {"exported", "foreign"}
        BY <2>1 DEF OnTheWay
      <4>2. \E b \in Outgoing' : size' = ValidateSignature(b, Signature(method')) /\ Align(size', Body) = Len(b) /\ body' = SubSeq(b, 1, size')
        <5>1. size' = ValidateSignature(body, Signature(method')) /\ Align(size', Body) = Len(body) /\ body' = SubSeq(body, 1, size')
          BY <2>1, <2>3, <3>1 DEF vsz
        <5> QED BY <2>2, <5>1
      <4> QED BY <4>1, <4>2 DEF Trimmed, AsValidated
    <3> QED BY <2>2, <3>1, <3>2 DEF MarshalInv
  <2>4. CASE ~valid
    <3>1. stage' = "refused" /\ body' = body
      BY <2>1, <2>4
    <3>2. OnTheWay'
      BY <2>1, <2>2, <3>1 DEF OnTheWay
    <3>3. NotAccepted'
      BY <2>1, <2>4, <3>1, <3>2 DEF NotAccepted, AsValidated, vsz
    <3> QED BY <2>2, <3>1, <3>3 DEF MarshalInv
  <2> QED BY <2>3, <2>4
<1>6. CASE Unmarshal
  <2>1. /\ stage = "delivered" /\ stage' = "read" /\ got' = ReadArgs(body, method)
        /\ route' = route /\ method' = method /\ args' = args /\ size' = size /\ body' = body
    BY <1>6 DEF Unmarshal
  <2>2. Called /\ (AsWritten \/ Trimmed)
    BY <2>1 DEF MarshalInv
  <2>3. Called' /\ (AsWritten' \/ Trimmed')
    BY <2>1, <2>2 DEF Called, AsWritten, Trimmed, AsValidated, Outgoing
  <2> QED BY <2>1, <2>3 DEF MarshalInv
<1>7. CASE UNCHANGED vars
  BY <1>7 DEF vars, MarshalInv, Fresh, Called, AsWritten, OnTheWay, NotAccepted, Trimmed, AsValidated, Outgoing
<1> QED BY <1>1, <1>2, <1>3, <1>4, <1>5, <1>6, <1>7 DEF Next

LEMMA MarshalInvariant == Spec => []MarshalInv
<1>1. Init => MarshalInv
  BY DEF Init, MarshalInv, Fresh
<1> QED BY <1>1, MarshalInductive, PTL DEF Spec

\* What was accepted, and what is known of it.
LEMMA TrimmedOf ==
    ASSUME Called, Trimmed
    PROVE  \E b \in Outgoing : /\ b \in Seq(Byte) /\ size = ValidateSignature(b, Signature(method)) /\ size \in Nat
                               /\ body \in Seq(Byte) /\ Len(body) = size /\ Begins(body, b)
                               /\ body = SubSeq(b, 1, size)
<1>1. PICK b \in Outgoing : AsValidated(b) /\ Align(size, Body) = Len(b) /\ body = SubSeq(b, 1, size)
  BY DEF Trimmed
<1>2. b \in Seq(Byte) /\ size = ValidateSignature(b, Signature(method)) /\ size \in Nat
  BY <1>1, OutgoingType DEF AsValidated
<1>3. body \in Seq(Byte) /\ Len(body) = size /\ Begins(body, b)
  BY <1>1, <1>2, TrimmedType
<1> QED BY <1>1, <1>2, <1>3


\* Every variable keeps its type, and a body on its way between processes is
\* padded to the grain that Msg's constructor gives it.
THEOREM MarshalTypesHold == Spec => []TypeOK
<1>1. MarshalInv => TypeOK
  <2> SUFFICES ASSUME MarshalInv PROVE TypeOK
    OBVIOUS
  <2>1. CASE stage = "new"
    BY <2>1 DEF MarshalInv, Fresh, TypeOK
  <2>2. CASE stage # "new"
    <3>1. Called /\ method \in Seq(Types)
      BY <2>2, MethodAssumption DEF MarshalInv, Called
    <3>2. CASE AsWritten
      <4>1. WriteArgs(method, args) \in Seq(Byte) /\ size = Len(WriteArgs(method, args))
        BY <3>1, <3>2, WrittenArgs DEF Called, AsWritten
      <4>2. body \in Seq(Byte) /\ size \in Nat /\ route = "local"
        BY <3>2, <4>1 DEF AsWritten
      <4>3. stage \notin {"exported", "refused"}
        BY <4>2 DEF MarshalInv, OnTheWay, NotAccepted
      <4> QED BY <3>1, <4>2, <4>3 DEF TypeOK, MarshalInv, Called, Byte
    <3>3. CASE OnTheWay
      <4>1. body \in Seq(Byte) /\ Len(body) % Body = 0
        BY <3>1, <3>3, OutgoingType DEF OnTheWay
      <4> QED BY <3>1, <3>3, <4>1 DEF TypeOK, MarshalInv, Called, OnTheWay, Byte
    <3>4. CASE Trimmed /\ stage \in {"delivered", "read"}
      <4>1. body \in Seq(Byte) /\ size \in Nat
        BY <3>1, <3>4, TrimmedOf
      <4> QED BY <3>1, <3>4, <4>1 DEF TypeOK, MarshalInv, Called, Trimmed, Byte
    <3> QED BY <2>2, <3>2, <3>3, <3>4 DEF MarshalInv, NotAccepted
  <2> QED BY <2>1, <2>2
<1> QED BY <1>1, MarshalInvariant, PTL

\* For every type and value, to any depth, sstream adds up what ostream writes:
\* CommitMsg's first assertion holds.
THEOREM SizesAreRight == Spec => []SizedRight
<1>1. MarshalInv => SizedRight
  <2> SUFFICES ASSUME MarshalInv, stage = "sent" PROVE Len(body) = size
    BY DEF SizedRight
  <2>1. Called /\ AsWritten /\ method \in Seq(Types)
    BY MethodAssumption DEF MarshalInv, Called
  <2> QED BY <2>1, WrittenArgs DEF Called, AsWritten
<1> QED BY <1>1, MarshalInvariant, PTL

\* A message that a proxy wrote, of types the validator follows, is not refused by
\* the process it is exported to.
THEOREM WrittenIsAccepted == Spec => []Accepted
<1>1. MarshalInv => Accepted
  <2> SUFFICES ASSUME MarshalInv, stage = "refused", route = "exported", Placed,
                      \A k \in DOMAIN method : Followed(method[k])
               PROVE  FALSE
    BY DEF Accepted
  <2> DEFINE w == WriteArgs(method, args)
  <2>1. Called /\ NotAccepted /\ method \in Seq(Types) /\ args \in Arguments(method)
    BY MethodAssumption DEF MarshalInv, Called
  <2>2. w \in Seq(Byte) /\ body = Aligned(w, Body)
    BY <2>1, WrittenArgs DEF NotAccepted, OnTheWay, Outgoing
  <2>3. body \in Seq(Byte) /\ Begins(w, body) /\ Len(body) = Align(Len(w), Body)
    <3> HIDE DEF w
    <3> QED BY <2>2, AlignedType DEF Body, Grains
  <2>4. ArgumentsGrounded(method, args)
    BY <2>1, PlacedArguments
  <2>5. DOMAIN method = 1..Len(method)
    BY <2>1, ArgumentsType
  <2>6. size = Len(w)
    BY <2>1, <2>3, <2>4, <2>5, WrittenIsValid DEF NotAccepted, AsValidated
  <2> HIDE DEF w
  <2> QED BY <2>1, <2>3, <2>6 DEF NotAccepted
<1> QED BY <1>1, MarshalInvariant, PTL

\* The body that was read is what the proxy wrote.
LEMMA ReadIsWritten ==
    ASSUME Called, AsWritten \/ Trimmed, route # "foreign", Placed,
           route = "exported" => \A k \in DOMAIN method : Followed(method[k])
    PROVE  body = WriteArgs(method, args)
<1> DEFINE w == WriteArgs(method, args)
<1>1. CASE AsWritten
  BY <1>1 DEF AsWritten
<1>2. CASE Trimmed
  <2>1. method \in Seq(Types) /\ args \in Arguments(method) /\ route = "exported"
    BY <1>2, MethodAssumption DEF Called, Trimmed
  <2>2. PICK b \in Outgoing : b \in Seq(Byte) /\ size = ValidateSignature(b, Signature(method)) /\ body = SubSeq(b, 1, size)
    BY <1>2, TrimmedOf
  <2>3. w \in Seq(Byte) /\ b = Aligned(w, Body)
    BY <2>1, <2>2, WrittenArgs DEF Outgoing
  <2>4. Begins(w, b)
    <3> HIDE DEF w
    <3> QED BY <2>3, AlignedType DEF Body, Grains
  <2>5. DOMAIN method = 1..Len(method) /\ ArgumentsGrounded(method, args)
    BY <2>1, ArgumentsType, PlacedArguments
  <2>6. size = Len(w)
    BY <2>1, <2>2, <2>4, <2>5, WrittenIsValid
  <2> HIDE DEF w
  <2>7. SubSeq(b, 1, Len(w)) = w
    BY <2>2, <2>3, <2>4 DEF Begins
  <2> QED BY <2>2, <2>6, <2>7 DEF w
<1> QED BY <1>1, <1>2

\* The receiver reads the arguments that were sent, in the same process or in
\* another, to the end of the body.
LEMMA ReadAsSent ==
    ASSUME Called, AsWritten \/ Trimmed, route # "foreign", Placed,
           route = "exported" => \A k \in DOMAIN method : Followed(method[k])
    PROVE  LET all == ReadArgs(body, method)
           IN  /\ all.at = Len(body)
               /\ \A k \in DOMAIN method : Wide(method[k]) \/ (k \in DOMAIN all.v /\ all.v[k] = args[k])
<1> DEFINE w == WriteArgs(method, args)
           all == ReadArgs(body, method)
<1>1. method \in Seq(Types) /\ args \in Arguments(method)
  BY MethodAssumption DEF Called
<1>2. w \in Seq(Byte) /\ body = w /\ ArgumentsAligned(method, args) /\ DOMAIN method = 1..Len(method)
  BY <1>1, WrittenArgs, ReadIsWritten, PlacedArguments, ArgumentsType
<1>3. /\ all.at = Len(w) /\ DOMAIN all.v = 1..Len(method)
      /\ \A k \in 1..Len(method) : Kept(method[k].of, method[k].depth) => all.v[k] = args[k]
  <2>1. body \in Seq(Byte) /\ Begins(w, body)
    BY <1>2, BeginsSelf
  <2> QED BY <1>1, <1>2, <2>1, ReadAll
<1>4. ASSUME NEW k \in 1..Len(method), ~Wide(method[k]) PROVE Kept(method[k].of, method[k].depth)
  <2>1. method[k] \in Types /\ method[k].of \in Flats /\ method[k].depth \in Nat
    BY <1>1, ArgumentsType
  <2> DEFINE F == method[k].of
             d == method[k].depth
  <2>2. ~(d > 0 /\ is_trivially_copyable(F) /\ alignof(F) > size_type)
    BY <1>4 DEF Wide
  <2>3. is_trivially_copyable(F) => (alignof(F) > size_type \/ alignof(F) <= size_type)
    BY <2>1, AlignOf DEF Widths, size_type
  <2>4. d = 0 \/ d > 0
    BY <2>1
  <2> QED BY <2>2, <2>3, <2>4 DEF Kept
<1> HIDE DEF all, w
<1> QED BY <1>2, <1>3, <1>4 DEF all

\* The receiver reads the arguments that were sent, in the same process or, of
\* types the validator follows, in another.
THEOREM ArgumentsAreRead == Spec => []ReadBack
<1>1. MarshalInv => ReadBack
  <2> SUFFICES ASSUME MarshalInv, stage = "read", route # "foreign", Placed,
                      route = "exported" => \A k \in DOMAIN method : Followed(method[k])
               PROVE  \A k \in DOMAIN method : Wide(method[k]) \/ (k \in DOMAIN got.v /\ got.v[k] = args[k])
    BY DEF ReadBack
  <2>1. Called /\ (AsWritten \/ Trimmed) /\ got = ReadArgs(body, method)
    BY DEF MarshalInv
  <2> QED BY <2>1, ReadAsSent
<1> QED BY <1>1, MarshalInvariant, PTL

\* Whoever wrote a body, reading the arguments of types the validator follows
\* from it ends where it ends, if it was accepted and not as empty, or if it came
\* from the same process with its arguments lying aligned.
THEOREM BodiesAreReadToTheEnd == Spec => []ReadToEnd
<1>1. MarshalInv => ReadToEnd
  <2> SUFFICES ASSUME MarshalInv, stage = "read", size # 0, route = "local" => Placed,
                      \A k \in DOMAIN method : Followed(method[k])
               PROVE  got.at = Len(body)
    BY DEF ReadToEnd
  <2>1. Called /\ (AsWritten \/ Trimmed) /\ got = ReadArgs(body, method) /\ method \in Seq(Types)
    BY MethodAssumption DEF MarshalInv, Called
  <2>2. CASE AsWritten
    <3>1. route = "local" /\ Placed
      BY <2>2 DEF AsWritten
    <3> QED BY <2>1, <3>1, ReadAsSent
  <2>3. CASE Trimmed
    <3>1. PICK b \in Outgoing : /\ b \in Seq(Byte) /\ size = ValidateSignature(b, Signature(method))
                                /\ body \in Seq(Byte) /\ Len(body) = size /\ Begins(body, b)
      BY <2>1, <2>3, TrimmedOf
    <3>2. \A k \in 1..Len(method) : Followed(method[k])
      BY <2>1
    <3> QED BY <2>1, <3>1, <3>2, AcceptedIsRead
  <2> QED BY <2>1, <2>2, <2>3
<1> QED BY <1>1, MarshalInvariant, PTL

=============================================================================
