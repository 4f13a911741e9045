-------------------------- MODULE KeyManagerProofs --------------------------
(***************************************************************************)
(* Proofs about the dictionary.                                            *)
(***************************************************************************)
EXTENDS KeyManager, SequenceLemmas, FiniteSetTheorems

(***************************************************************************)
(* Texts, by position.                                                     *)
(***************************************************************************)

Begins(s, t) == Len(s) <= Len(t) /\ \A i \in 1 .. Len(s) : s[i] = t[i]

LEMMA FunctionIsSeq ==
  ASSUME NEW S, NEW n \in Nat, NEW f \in [1 .. n -> S]
  PROVE  f \in Seq(S) /\ Len(f) = n
OBVIOUS

LEMMA TextType ==
  ASSUME NEW s \in Text
  PROVE  /\ Len(s) \in Nat /\ DOMAIN s = 1 .. Len(s)
         /\ \A i \in 1 .. Len(s) : s[i] \in Letters
         /\ s = <<>> <=> Len(s) = 0
BY DEF Text

LEMMA TextsEqual ==
  ASSUME NEW s \in Text, NEW t \in Text, Len(s) = Len(t), \A i \in 1 .. Len(s) : s[i] = t[i]
  PROVE  s = t
BY DEF Text

LEMMA TextConcat ==
  ASSUME NEW a \in Text, NEW b \in Text
  PROVE  /\ a \o b \in Text
         /\ Len(a \o b) = Len(a) + Len(b)
         /\ \A i \in 1 .. Len(a) : (a \o b)[i] = a[i]
         /\ \A i \in 1 .. Len(b) : (a \o b)[Len(a) + i] = b[i]
BY DEF Text

LEMMA FromText ==
  ASSUME NEW s \in Text, NEW i \in 1 .. (Len(s) + 1)
  PROVE  /\ From(s, i) \in Text
         /\ Len(From(s, i)) = Len(s) + 1 - i
         /\ \A j \in 1 .. (Len(s) + 1 - i) : From(s, i)[j] = s[i + j - 1]
BY DEF Text, From

LEMMA InitialText ==
  ASSUME NEW s \in Text, NEW k \in 0 .. Len(s)
  PROVE  /\ SubSeq(s, 1, k) \in Text
         /\ Len(SubSeq(s, 1, k)) = k
         /\ \A j \in 1 .. k : SubSeq(s, 1, k)[j] = s[j]
BY DEF Text

LEMMA PrefixByPosition ==
  ASSUME NEW s \in Text, NEW t \in Text
  PROVE  IsPrefix(s, t) <=> Begins(s, t)
<1>1. Len(s) \in Nat /\ Len(t) \in Nat
  BY TextType
<1>2. CASE Len(s) <= Len(t)
  <2>1. PICK a, b : a = SubSeq(s, 1, Len(s)) /\ b = SubSeq(t, 1, Len(s))
    OBVIOUS
  <2>2. Len(s) \in 0 .. Len(s) /\ Len(s) \in 0 .. Len(t)
    BY <1>1, <1>2
  <2>3. /\ a \in Text /\ Len(a) = Len(s) /\ \A j \in 1 .. Len(s) : a[j] = s[j]
        /\ b \in Text /\ Len(b) = Len(s) /\ \A j \in 1 .. Len(s) : b[j] = t[j]
    BY <2>1, <2>2, InitialText
  <2>4. a = b <=> \A j \in 1 .. Len(s) : s[j] = t[j]
    BY <2>3, TextsEqual
  <2>5. QED
    BY <1>2, <2>1, <2>4 DEF IsPrefix, Begins
<1>3. CASE ~ (Len(s) <= Len(t))
  BY <1>3 DEF IsPrefix, Begins
<1>4. QED
  BY <1>2, <1>3

LEMMA BeginsOrder ==
  ASSUME NEW s \in Text, NEW t \in Text
  PROVE  /\ Begins(s, s)
         /\ Begins(s, t) /\ Len(t) <= Len(s) => s = t
         /\ \A u \in Text : Begins(s, t) /\ Begins(t, u) => Begins(s, u)
         /\ \A u \in Text : Begins(s, u) /\ Begins(t, u) /\ Len(s) <= Len(t) => Begins(s, t)
<1>1. Len(s) \in Nat /\ Len(t) \in Nat
  BY TextType
<1>2. Begins(s, s)
  BY <1>1 DEF Begins
<1>3. Begins(s, t) /\ Len(t) <= Len(s) => s = t
  BY <1>1, TextsEqual DEF Begins
<1>4. ASSUME NEW u \in Text
      PROVE  /\ Begins(s, t) /\ Begins(t, u) => Begins(s, u)
             /\ Begins(s, u) /\ Begins(t, u) /\ Len(s) <= Len(t) => Begins(s, t)
  <2>1. Len(u) \in Nat
    BY TextType
  <2>2. Len(s) <= Len(t) => \A i \in 1 .. Len(s) : i \in 1 .. Len(t)
    BY <1>1
  <2>3. QED
    BY <1>1, <2>1, <2>2 DEF Begins
<1>5. QED
  BY <1>2, <1>3, <1>4

LEMMA BeginsConcat ==
  ASSUME NEW p \in Text, NEW a \in Text, NEW b \in Text
  PROVE  /\ Begins(p, p \o a)
         /\ Begins(p \o a, p \o b) <=> Begins(a, b)
<1>1. Len(p) \in Nat /\ Len(a) \in Nat /\ Len(b) \in Nat
  BY TextType
<1>2. PICK x, y : x = p \o a /\ y = p \o b
  OBVIOUS
<1>3. /\ Len(x) = Len(p) + Len(a) /\ \A i \in 1 .. Len(p) : x[i] = p[i]
      /\ \A i \in 1 .. Len(a) : x[Len(p) + i] = a[i]
      /\ Len(y) = Len(p) + Len(b) /\ \A i \in 1 .. Len(p) : y[i] = p[i]
      /\ \A i \in 1 .. Len(b) : y[Len(p) + i] = b[i]
  BY <1>2, TextConcat
<1>4. Begins(p, x)
  BY <1>1, <1>3 DEF Begins
<1>5. ASSUME Begins(x, y)
      PROVE  Begins(a, b)
  <2>1. Len(a) <= Len(b)
    BY <1>1, <1>3, <1>5 DEF Begins
  <2>2. ASSUME NEW i \in 1 .. Len(a)
        PROVE  a[i] = b[i]
    <3>1. Len(p) + i \in 1 .. Len(x) /\ i \in 1 .. Len(b)
      BY <1>1, <1>3, <2>1
    <3>2. x[Len(p) + i] = y[Len(p) + i]
      BY <1>5, <3>1 DEF Begins
    <3>3. QED
      BY <1>3, <3>1, <3>2
  <2>3. QED
    BY <2>1, <2>2 DEF Begins
<1>6. ASSUME Begins(a, b)
      PROVE  Begins(x, y)
  <2>1. Len(x) <= Len(y) /\ Len(a) <= Len(b)
    BY <1>1, <1>3, <1>6 DEF Begins
  <2>2. ASSUME NEW i \in 1 .. Len(x)
        PROVE  x[i] = y[i]
    <3>1. CASE i <= Len(p)
      BY <1>1, <1>3, <3>1
    <3>2. CASE ~ (i <= Len(p))
      <4>1. PICK j : j = i - Len(p)
        OBVIOUS
      <4>2. j \in 1 .. Len(a) /\ j \in 1 .. Len(b) /\ i = Len(p) + j
        BY <1>1, <1>3, <2>1, <3>2, <4>1
      <4>3. a[j] = b[j]
        BY <1>6, <4>2 DEF Begins
      <4>4. QED
        BY <1>3, <4>2, <4>3
    <3>3. QED
      BY <3>1, <3>2
  <2>3. QED
    BY <2>1, <2>2 DEF Begins
<1>7. QED
  BY <1>2, <1>4, <1>5, <1>6

LEMMA ConcatAssociates ==
  ASSUME NEW a \in Text, NEW b \in Text, NEW c \in Text
  PROVE  (a \o b) \o c = a \o (b \o c)
BY DEF Text

\* A text is what one of its beginnings is followed by.
LEMMA SplitText ==
  ASSUME NEW s \in Text, NEW k \in 0 .. Len(s)
  PROVE  s = SubSeq(s, 1, k) \o From(s, k + 1)
<1>1. Len(s) \in Nat
  BY TextType
<1>2. PICK a, b, c : a = SubSeq(s, 1, k) /\ b = From(s, k + 1) /\ c = a \o b
  OBVIOUS
<1>3. /\ a \in Text /\ Len(a) = k /\ \A j \in 1 .. k : a[j] = s[j]
  BY <1>2, InitialText
<1>4. k + 1 \in 1 .. (Len(s) + 1) /\ Len(s) + 1 - (k + 1) = Len(s) - k
  BY <1>1
<1>5. /\ b \in Text /\ Len(b) = Len(s) - k /\ \A j \in 1 .. (Len(s) - k) : b[j] = s[k + 1 + j - 1]
  BY <1>2, <1>4, FromText
<1>6. /\ c \in Text /\ Len(c) = Len(s) /\ \A i \in 1 .. k : c[i] = a[i]
      /\ \A i \in 1 .. (Len(s) - k) : c[k + i] = b[i]
  <2>1. /\ c \in Text /\ Len(c) = Len(a) + Len(b) /\ \A i \in 1 .. Len(a) : c[i] = a[i]
        /\ \A i \in 1 .. Len(b) : c[Len(a) + i] = b[i]
    BY <1>2, <1>3, <1>5, TextConcat
  <2>2. k \in Nat /\ Len(a) = k /\ Len(b) = Len(s) - k /\ k + (Len(s) - k) = Len(s)
    BY <1>1, <1>3, <1>5
  <2>3. QED
    BY <2>1, <2>2
<1>7. ASSUME NEW i \in 1 .. Len(s)
      PROVE  s[i] = c[i]
  <2>1. CASE i <= k
    BY <1>3, <1>6, <2>1
  <2>2. CASE ~ (i <= k)
    <3>1. PICK j : j = i - k
      OBVIOUS
    <3>2. j \in 1 .. (Len(s) - k) /\ i = k + j /\ k + 1 + j - 1 = i
      BY <1>1, <2>2, <3>1
    <3>3. QED
      BY <1>5, <1>6, <3>2
  <2>3. QED
    BY <2>1, <2>2
<1>8. s = c
  BY <1>6, <1>7, TextsEqual
<1>9. QED
  BY <1>2, <1>8

\* A text that begins another leaves the rest of it over.
LEMMA RestOfText ==
  ASSUME NEW a \in Text, NEW s \in Text, Begins(a, s)
  PROVE  /\ From(s, Len(a) + 1) \in Text
         /\ s = a \o From(s, Len(a) + 1)
         /\ Len(From(s, Len(a) + 1)) = Len(s) - Len(a)
         /\ Len(a) < Len(s) => From(s, Len(a) + 1)[1] = s[Len(a) + 1]
<1>1. Len(a) \in Nat /\ Len(s) \in Nat /\ Len(a) <= Len(s)
  BY TextType DEF Begins
<1>2. Len(a) + 1 \in 1 .. (Len(s) + 1) /\ Len(a) \in 0 .. Len(s) /\ Len(s) + 1 - (Len(a) + 1) = Len(s) - Len(a)
  BY <1>1
<1>3. /\ From(s, Len(a) + 1) \in Text
      /\ Len(From(s, Len(a) + 1)) = Len(s) - Len(a)
      /\ \A j \in 1 .. (Len(s) - Len(a)) : From(s, Len(a) + 1)[j] = s[Len(a) + 1 + j - 1]
  BY <1>2, FromText
<1>4. a = SubSeq(s, 1, Len(a))
  <2>1. PICK b : b = SubSeq(s, 1, Len(a))
    OBVIOUS
  <2>2. b \in Text /\ Len(b) = Len(a) /\ \A j \in 1 .. Len(a) : b[j] = s[j]
    BY <1>2, <2>1, InitialText
  <2>3. a = b
    BY <2>2, TextsEqual DEF Begins
  <2>4. QED
    BY <2>1, <2>3
<1>5. s = a \o From(s, Len(a) + 1)
  BY <1>2, <1>4, SplitText
<1>6. Len(a) < Len(s) => From(s, Len(a) + 1)[1] = s[Len(a) + 1]
  BY <1>1, <1>3
<1>7. QED
  BY <1>3, <1>5, <1>6

\* How far two texts have everything in common.
LEMMA CommonLength ==
  ASSUME NEW a \in Text, NEW b \in Text
  PROVE  LET k == Len(LongestCommonPrefix({a, b}))
         IN  /\ k \in 0 .. Len(a) /\ k \in 0 .. Len(b)
             /\ \A i \in 1 .. k : a[i] = b[i]
             /\ k = Len(a) \/ k = Len(b) \/ a[k + 1] # b[k + 1]
<1> DEFINE C == CommonPrefixes({a, b})
           U == {l \in Nat : l >= Len(a) \/ l >= Len(b) \/ a[l + 1] # b[l + 1]}
<1>1. Len(a) \in Nat /\ Len(b) \in Nat
  BY TextType
<1>2. ASSUME NEW q
      PROVE  q \in C <=> q \in Text /\ Begins(q, a) /\ Begins(q, b)
  <2>1. ASSUME q \in C
        PROVE  q \in Text /\ Begins(q, a) /\ Begins(q, b)
    <3>1. IsPrefix(q, a) /\ IsPrefix(q, b) /\ \E s \in {a, b} : q \in Prefixes(s)
      BY <2>1 DEF CommonPrefixes
    <3>2. q \in Text
      BY <3>1, InitialText DEF Prefixes
    <3>3. QED
      BY <3>1, <3>2, PrefixByPosition
  <2>2. ASSUME q \in Text, Begins(q, a), Begins(q, b)
        PROVE  q \in C
    <3>1. IsPrefix(q, a) /\ IsPrefix(q, b)
      BY <2>2, PrefixByPosition
    <3>2. Len(q) \in 0 .. Len(a)
      BY <1>1, <2>2, TextType DEF Begins
    <3>3. PICK p : p = SubSeq(a, 1, Len(q))
      OBVIOUS
    <3>4. p \in Text /\ Len(p) = Len(q) /\ \A j \in 1 .. Len(q) : p[j] = a[j]
      BY <3>2, <3>3, InitialText
    <3>5. q = p
      BY <2>2, <3>4, TextsEqual DEF Begins
    <3>6. q \in Prefixes(a)
      BY <3>2, <3>3, <3>5 DEF Prefixes
    <3>7. QED
      BY <3>1, <3>6 DEF CommonPrefixes
  <2>3. QED
    BY <2>1, <2>2
<1>3. PICK m \in U : \A l \in U : m <= l
  <2>1. Len(a) \in U /\ U \in SUBSET Nat
    BY <1>1
  <2>2. QED
    BY <2>1, LeastIndex
<1>4. m \in Nat /\ (m >= Len(a) \/ m >= Len(b) \/ a[m + 1] # b[m + 1])
  OBVIOUS
<1>5. m <= Len(a) /\ m <= Len(b)
  <2>1. Len(a) \in U /\ Len(b) \in U
    BY <1>1
  <2>2. QED
    BY <1>3, <2>1
<1>6. ASSUME NEW i \in 1 .. m
      PROVE  a[i] = b[i]
  <2>1. i - 1 \in Nat /\ ~ (m <= i - 1) /\ i - 1 + 1 = i
    BY <1>4
  <2>2. i - 1 \notin U
    BY <1>3, <2>1
  <2>3. QED
    BY <2>1, <2>2
<1> HIDE DEF U
<1>7. PICK p : p = SubSeq(a, 1, m)
  OBVIOUS
<1>8. p \in Text /\ Len(p) = m /\ \A j \in 1 .. m : p[j] = a[j]
  BY <1>1, <1>4, <1>5, <1>7, InitialText
<1>9. p \in C
  <2>1. Begins(p, a) /\ Begins(p, b)
    BY <1>5, <1>6, <1>8 DEF Begins
  <2>2. QED
    BY <1>2, <1>8, <2>1
<1>10. ASSUME NEW q \in C
       PROVE  Len(q) \in Nat /\ Len(q) <= m
  <2>1. q \in Text /\ Begins(q, a) /\ Begins(q, b)
    BY <1>2
  <2>2. Len(q) \in Nat
    BY <2>1, TextType
  <2>3. ASSUME Len(q) > m
        PROVE  FALSE
    <3>1. m + 1 \in 1 .. Len(q) /\ m < Len(a) /\ m < Len(b)
      BY <1>1, <1>4, <2>1, <2>2, <2>3 DEF Begins
    <3>2. q[m + 1] = a[m + 1] /\ q[m + 1] = b[m + 1]
      BY <2>1, <3>1 DEF Begins
    <3>3. QED
      BY <1>1, <1>4, <3>1, <3>2
  <2>4. QED
    BY <1>4, <2>2, <2>3
<1> HIDE DEF C
<1>11. PICK longest : longest = LongestCommonPrefix({a, b})
  OBVIOUS
<1>12. longest = CHOOSE x \in C : \A y \in C : Len(y) <= Len(x)
  BY <1>11 DEF LongestCommonPrefix, C
<1>13. longest \in C /\ \A y \in C : Len(y) <= Len(longest)
  <2>1. \E x \in C : \A y \in C : Len(y) <= Len(x)
    BY <1>8, <1>9, <1>10
  <2>2. QED
    BY <1>12, <2>1
<1>14. Len(longest) = m
  <2>1. Len(longest) \in Nat /\ Len(longest) <= m /\ m <= Len(longest)
    BY <1>8, <1>9, <1>10, <1>13
  <2>2. QED
    BY <1>4, <2>1
<1>15. /\ m \in 0 .. Len(a) /\ m \in 0 .. Len(b)
       /\ m = Len(a) \/ m = Len(b) \/ a[m + 1] # b[m + 1]
  BY <1>1, <1>4, <1>5
<1>16. QED
  BY <1>6, <1>11, <1>14, <1>15
------------------------------------------------------------------------------
(***************************************************************************)
(* The trie.  path[n] is what a node spells, 0 stands for the top.         *)
(***************************************************************************)

NodeSet(N, L) == [uri : Text \ {<<>>}, next : Seq(1 .. N), prev : 0 .. N, leaf : 0 .. L]

Kids(roots, nds, m) == IF m = 0 THEN roots ELSE nds[m].next

Shaped(roots, nds, L) ==
  /\ L \in Nat
  /\ nds \in Seq(NodeSet(Len(nds), L))
  /\ roots \in Seq(1 .. Len(nds))

\* Every node has the fragments above it before its own.
Spelled(nds, path) ==
  /\ path \in [0 .. Len(nds) -> Text]
  /\ path[0] = <<>>
  /\ \A n \in 1 .. Len(nds) : path[n] = path[nds[n].prev] \o nds[n].uri

\* Parents and children agree.
Linked(roots, nds) ==
  /\ \A m \in 0 .. Len(nds) : \A i \in DOMAIN Kids(roots, nds, m) :
       nds[Kids(roots, nds, m)[i]].prev = m
  /\ \A m \in 0 .. Len(nds) : \A i, j \in DOMAIN Kids(roots, nds, m) :
       Kids(roots, nds, m)[i] = Kids(roots, nds, m)[j] => i = j
  /\ \A n \in 1 .. Len(nds) :
       \E i \in DOMAIN Kids(roots, nds, nds[n].prev) : Kids(roots, nds, nds[n].prev)[i] = n

\* Siblings differ in their first character.
Apart(nds) ==
  \A c, d \in 1 .. Len(nds) : nds[c].prev = nds[d].prev /\ nds[c].uri[1] = nds[d].uri[1] => c = d

LEMMA NodeType ==
  ASSUME NEW roots, NEW nds, NEW L, Shaped(roots, nds, L)
  PROVE  /\ Len(nds) \in Nat /\ DOMAIN nds = 1 .. Len(nds)
         /\ \A n \in 1 .. Len(nds) :
              /\ nds[n] \in NodeSet(Len(nds), L)
              /\ nds[n].uri \in Text /\ Len(nds[n].uri) \in Nat /\ Len(nds[n].uri) > 0
              /\ nds[n].next \in Seq(1 .. Len(nds))
              /\ nds[n].prev \in 0 .. Len(nds)
              /\ nds[n].leaf \in 0 .. L
         /\ \A m \in 0 .. Len(nds) :
              /\ Kids(roots, nds, m) \in Seq(1 .. Len(nds))
              /\ Len(Kids(roots, nds, m)) \in Nat
              /\ DOMAIN Kids(roots, nds, m) = 1 .. Len(Kids(roots, nds, m))
              /\ \A i \in DOMAIN Kids(roots, nds, m) : Kids(roots, nds, m)[i] \in 1 .. Len(nds)
<1>1. nds \in Seq(NodeSet(Len(nds), L)) /\ roots \in Seq(1 .. Len(nds))
  BY DEF Shaped
<1>2. Len(nds) \in Nat /\ DOMAIN nds = 1 .. Len(nds)
  BY <1>1
<1>3. ASSUME NEW n \in 1 .. Len(nds)
      PROVE  /\ nds[n] \in NodeSet(Len(nds), L)
             /\ nds[n].uri \in Text /\ Len(nds[n].uri) \in Nat /\ Len(nds[n].uri) > 0
             /\ nds[n].next \in Seq(1 .. Len(nds))
             /\ nds[n].prev \in 0 .. Len(nds)
             /\ nds[n].leaf \in 0 .. L
  <2>1. nds[n] \in NodeSet(Len(nds), L)
    BY <1>1, <1>2
  <2>2. /\ nds[n].uri \in Text /\ nds[n].uri # <<>>
        /\ nds[n].next \in Seq(1 .. Len(nds))
        /\ nds[n].prev \in 0 .. Len(nds)
        /\ nds[n].leaf \in 0 .. L
    BY <2>1 DEF NodeSet
  <2>3. Len(nds[n].uri) \in Nat /\ Len(nds[n].uri) > 0
    BY <2>2, TextType
  <2>4. QED
    BY <2>1, <2>2, <2>3
<1>4. ASSUME NEW m \in 0 .. Len(nds)
      PROVE  /\ Kids(roots, nds, m) \in Seq(1 .. Len(nds))
             /\ Len(Kids(roots, nds, m)) \in Nat
             /\ DOMAIN Kids(roots, nds, m) = 1 .. Len(Kids(roots, nds, m))
             /\ \A i \in DOMAIN Kids(roots, nds, m) : Kids(roots, nds, m)[i] \in 1 .. Len(nds)
  <2>1. PICK k : k = Kids(roots, nds, m)
    OBVIOUS
  <2>2. m # 0 => m \in 1 .. Len(nds)
    BY <1>2
  <2>3. k \in Seq(1 .. Len(nds))
    BY <1>1, <1>3, <2>1, <2>2 DEF Kids
  <2>4. QED
    BY <2>1, <2>3
<1>5. QED
  BY <1>2, <1>3, <1>4

\* How many characters lead to a node, its own included.
Depth(path, n) == Len(path[n])

LEMMA PathType ==
  ASSUME NEW roots, NEW nds, NEW L, NEW path, Shaped(roots, nds, L), Spelled(nds, path)
  PROVE  /\ \A m \in 0 .. Len(nds) : path[m] \in Text /\ Depth(path, m) \in Nat
         /\ Depth(path, 0) = 0
         /\ \A n \in 1 .. Len(nds) :
              /\ Begins(path[nds[n].prev], path[n])
              /\ Depth(path, nds[n].prev) < Depth(path, n)
<1>1. ASSUME NEW m \in 0 .. Len(nds)
      PROVE  path[m] \in Text /\ Depth(path, m) \in Nat
  <2>1. path[m] \in Text
    BY DEF Spelled
  <2>2. QED
    BY <2>1, TextType DEF Depth
<1>2. Depth(path, 0) = 0
  BY DEF Spelled, Depth
<1>3. ASSUME NEW n \in 1 .. Len(nds)
      PROVE  /\ Begins(path[nds[n].prev], path[n])
             /\ Depth(path, nds[n].prev) < Depth(path, n)
  <2>1. PICK p, u, s : p = path[nds[n].prev] /\ u = nds[n].uri /\ s = path[n]
    OBVIOUS
  <2>2. u \in Text /\ Len(u) \in Nat /\ Len(u) > 0 /\ nds[n].prev \in 0 .. Len(nds)
    BY <2>1, NodeType
  <2>3. p \in Text /\ s = p \o u
    BY <1>1, <2>1, <2>2 DEF Spelled
  <2>4. Begins(p, s) /\ Len(s) = Len(p) + Len(u) /\ Len(p) \in Nat
    BY <2>2, <2>3, BeginsConcat, TextConcat, TextType
  <2>5. Len(p) < Len(s)
    BY <2>2, <2>4
  <2>6. QED
    BY <2>1, <2>4, <2>5 DEF Depth
<1>4. QED
  BY <1>1, <1>2, <1>3

\* The first character of a fragment, in what begins as the node spells.
LEMMA PathLetter ==
  ASSUME NEW roots, NEW nds, NEW L, NEW path, Shaped(roots, nds, L), Spelled(nds, path),
         NEW n \in 1 .. Len(nds), NEW s \in Text, Begins(path[n], s)
  PROVE  /\ s[Depth(path, nds[n].prev) + 1] = nds[n].uri[1]
         /\ Depth(path, nds[n].prev) < Len(s)
<1>1. PICK p, u, t : p = path[nds[n].prev] /\ u = nds[n].uri /\ t = path[n]
  OBVIOUS
<1>2. u \in Text /\ Len(u) \in Nat /\ Len(u) > 0 /\ nds[n].prev \in 0 .. Len(nds)
  BY <1>1, NodeType
<1>3. p \in Text /\ t = p \o u
  BY <1>1, <1>2 DEF Spelled
<1>4. /\ Len(p) \in Nat /\ Len(t) = Len(p) + Len(u)
      /\ \A i \in 1 .. Len(u) : t[Len(p) + i] = u[i]
  BY <1>2, <1>3, TextConcat, TextType
<1>5. 1 \in 1 .. Len(u) /\ Len(p) + 1 \in 1 .. Len(t)
  BY <1>2, <1>4
<1>6. t[Len(p) + 1] = u[1]
  BY <1>4, <1>5
<1>7. Len(t) <= Len(s) /\ t[Len(p) + 1] = s[Len(p) + 1] /\ Len(s) \in Nat
  BY <1>1, <1>5, TextType DEF Begins
<1>8. Len(p) < Len(s)
  BY <1>2, <1>4, <1>7
<1>9. QED
  BY <1>1, <1>6, <1>7, <1>8 DEF Depth

\* Two nodes on the way to one text, by depth.
LEMMA PathsOrder ==
  ASSUME NEW nds, NEW path, Spelled(nds, path), NEW a \in 0 .. Len(nds), NEW b \in 0 .. Len(nds)
  PROVE  /\ Begins(path[a], path[a])
         /\ Begins(path[a], path[b]) => Depth(path, a) <= Depth(path, b)
         /\ Begins(path[a], path[b]) /\ Depth(path, b) <= Depth(path, a) => path[a] = path[b]
         /\ \A s \in Text : Begins(path[a], path[b]) /\ Begins(path[b], s) => Begins(path[a], s)
         /\ \A s \in Text : Begins(path[a], s) /\ Begins(path[b], s) /\ Depth(path, a) <= Depth(path, b)
                             => Begins(path[a], path[b])
<1>1. PICK x, y : x = path[a] /\ y = path[b]
  OBVIOUS
<1>2. x \in Text /\ y \in Text
  BY <1>1 DEF Spelled
<1>3. /\ Begins(x, x)
      /\ Begins(x, y) => Len(x) <= Len(y)
      /\ Begins(x, y) /\ Len(y) <= Len(x) => x = y
      /\ \A s \in Text : Begins(x, y) /\ Begins(y, s) => Begins(x, s)
      /\ \A s \in Text : Begins(x, s) /\ Begins(y, s) /\ Len(x) <= Len(y) => Begins(x, y)
  <2>1. Begins(x, y) => Len(x) <= Len(y)
    BY DEF Begins
  <2>2. QED
    BY <1>2, <2>1, BeginsOrder
<1>4. QED
  BY <1>1, <1>3 DEF Depth

\* Two children of one node that begin the same text are one.
LEMMA SiblingsPart ==
  ASSUME NEW roots, NEW nds, NEW L, NEW path, Shaped(roots, nds, L), Spelled(nds, path),
         Apart(nds), NEW c \in 1 .. Len(nds), NEW d \in 1 .. Len(nds), nds[c].prev = nds[d].prev,
         NEW s \in Text, Begins(path[c], s), Begins(path[d], s)
  PROVE  c = d
<1>1. s[Depth(path, nds[c].prev) + 1] = nds[c].uri[1]
  BY PathLetter
<1>2. s[Depth(path, nds[d].prev) + 1] = nds[d].uri[1]
  BY PathLetter
<1>3. QED
  BY <1>1, <1>2 DEF Apart

\* Below a node whose path begins that of another is a child on the way.
Leads(nds, path, a, m) ==
  Begins(path[a], path[m]) =>
    a = m \/ \E c \in 1 .. Len(nds) : nds[c].prev = a /\ Begins(path[c], path[m])

LEMMA LeadsStep ==
  ASSUME NEW roots, NEW nds, NEW L, NEW path, Shaped(roots, nds, L), Spelled(nds, path),
         Apart(nds), NEW a \in 0 .. Len(nds), NEW m \in 0 .. Len(nds),
         \A b, n \in 0 .. Len(nds) :
           Depth(path, b) + Depth(path, n) < Depth(path, a) + Depth(path, m) => Leads(nds, path, b, n)
  PROVE  Leads(nds, path, a, m)
<1> SUFFICES ASSUME Begins(path[a], path[m]), a # m
             PROVE  \E c \in 1 .. Len(nds) : nds[c].prev = a /\ Begins(path[c], path[m])
  BY DEF Leads
<1> DEFINE N == Len(nds)
           D(n) == Depth(path, n)
<1>1. N \in Nat /\ \A n \in 1 .. N : nds[n].prev \in 0 .. N /\ n \in 0 .. N
  BY NodeType
<1>2. /\ \A n \in 0 .. N : path[n] \in Text /\ D(n) \in Nat
      /\ D(0) = 0
      /\ \A n \in 1 .. N : Begins(path[nds[n].prev], path[n]) /\ D(nds[n].prev) < D(n)
  BY PathType
<1>3. D(a) <= D(m)
  BY PathsOrder
<1>4. \A n \in 1 .. N : D(n) > 0
  <2>1. ASSUME NEW n \in 1 .. N
        PROVE  D(n) > 0
    <3>1. nds[n].prev \in 0 .. N /\ n \in 0 .. N
      BY <1>1
    <3>2. D(nds[n].prev) \in Nat /\ D(n) \in Nat /\ D(nds[n].prev) < D(n)
      BY <1>2, <3>1
    <3> HIDE DEF D
    <3>3. QED
      BY <3>2
  <2>2. QED
    BY <2>1
<1>5. \A n \in 0 .. N : n # 0 => n \in 1 .. N
  BY <1>1
<1>6. m # 0
  <2>1. SUFFICES ASSUME m = 0 PROVE FALSE
    OBVIOUS
  <2>2. D(a) \in Nat /\ D(a) <= 0
    BY <1>2, <1>3, <2>1
  <2>3. a \in 1 .. N
    BY <1>5, <2>1
  <2>4. D(a) > 0
    BY <1>4, <2>3
  <2> HIDE DEF D
  <2>5. QED
    BY <2>2, <2>4
<1>7. PICK p : p = nds[m].prev
  OBVIOUS
<1>8. m \in 1 .. N
  BY <1>5, <1>6
<1>9. /\ p \in 0 .. N /\ Begins(path[p], path[m])
      /\ D(p) \in Nat /\ D(m) \in Nat /\ D(a) \in Nat /\ D(p) < D(m)
      /\ path[p] \in Text /\ path[m] \in Text /\ path[a] \in Text
  BY <1>1, <1>2, <1>7, <1>8
<1>10. \A b, n \in 0 .. N : D(b) + D(n) < D(a) + D(m) => Leads(nds, path, b, n)
  OBVIOUS
<1> HIDE DEF D
<1>11. CASE D(a) <= D(p)
  <2>1. Begins(path[a], path[p])
    BY <1>9, <1>11, PathsOrder DEF D
  <2>2. D(a) + D(p) < D(a) + D(m)
    BY <1>9
  <2>3. Leads(nds, path, a, p)
    BY <1>9, <1>10, <2>2
  <2>4. CASE a = p
    BY <1>7, <1>8, <2>4, PathsOrder
  <2>5. CASE a # p
    <3>1. PICK c \in 1 .. N : nds[c].prev = a /\ Begins(path[c], path[p])
      BY <2>1, <2>3, <2>5 DEF Leads
    <3>2. Begins(path[c], path[m])
      BY <1>1, <1>9, <3>1, PathsOrder
    <3>3. QED
      BY <3>1, <3>2
  <2>6. QED
    BY <2>4, <2>5
<1>12. CASE ~ (D(a) <= D(p))
  <2>1. Begins(path[p], path[a]) /\ p # a
    <3>1. D(p) <= D(a)
      BY <1>9, <1>12
    <3>2. Begins(path[p], path[a])
      BY <1>9, <3>1, PathsOrder DEF D
    <3>3. p # a
      BY <1>9, <1>12
    <3>4. QED
      BY <3>2, <3>3
  <2>2. D(p) + D(a) < D(a) + D(m)
    BY <1>9
  <2>3. Leads(nds, path, p, a)
    BY <1>9, <1>10, <2>2
  <2>4. PICK c \in 1 .. N : nds[c].prev = p /\ Begins(path[c], path[a])
    BY <2>1, <2>3 DEF Leads
  <2>5. Begins(path[c], path[m]) /\ Begins(path[m], path[m])
    BY <1>1, <1>9, <2>4, PathsOrder
  <2>6. c = m
    BY <1>7, <1>8, <1>9, <2>4, <2>5, SiblingsPart
  <2>7. path[a] = path[m]
    <3>1. Begins(path[m], path[a])
      BY <2>4, <2>6
    <3>2. QED
      BY <1>3, <1>9, <3>1, PathsOrder DEF D
  <2>8. a \in 1 .. N
    <3>1. D(a) # 0
      BY <1>9, <1>12
    <3>2. a # 0
      BY <1>2, <3>1 DEF D
    <3>3. QED
      BY <1>5, <3>2
  <2>9. PICK q : q = nds[a].prev
    OBVIOUS
  <2>10. /\ q \in 0 .. N /\ path[q] \in Text /\ D(q) \in Nat
         /\ Begins(path[q], path[a]) /\ D(q) < D(a) /\ D(a) = D(m)
    <3>1. q \in 0 .. N /\ Begins(path[q], path[a]) /\ D(q) < D(a)
      BY <1>1, <1>2, <2>8, <2>9 DEF D
    <3>2. path[q] \in Text /\ D(q) \in Nat
      BY <1>2, <3>1 DEF D
    <3>3. D(a) = D(m)
      BY <2>7 DEF D, Depth
    <3>4. QED
      BY <3>1, <3>2, <3>3
  <2>11. CASE p = q
    <3>1. nds[a].prev = nds[m].prev /\ Begins(path[a], path[m])
      BY <1>7, <2>9, <2>11
    <3>2. a = m
      BY <1>8, <1>9, <2>5, <2>8, <3>1, SiblingsPart
    <3>3. QED
      BY <3>2
  <2>12. CASE p # q /\ D(p) <= D(q)
    <3>1. Begins(path[p], path[q])
      BY <1>9, <2>7, <2>10, <2>12, PathsOrder DEF D
    <3>2. D(p) + D(q) < D(a) + D(m)
      BY <1>9, <2>10
    <3>3. Leads(nds, path, p, q)
      BY <1>9, <1>10, <2>10, <3>2
    <3>4. PICK d \in 1 .. N : nds[d].prev = p /\ Begins(path[d], path[q])
      BY <2>12, <3>1, <3>3 DEF Leads
    <3>5. Begins(path[d], path[m]) /\ D(d) <= D(q)
      BY <1>1, <1>9, <2>7, <2>10, <3>4, PathsOrder DEF D
    <3>6. d = m
      BY <1>7, <1>8, <1>9, <2>5, <3>4, <3>5, SiblingsPart
    <3>7. QED
      BY <1>9, <2>10, <3>5, <3>6
  <2>13. CASE ~ (D(p) <= D(q))
    <3>1. D(q) <= D(p) /\ p # q
      BY <1>9, <2>10, <2>13
    <3>2. Begins(path[q], path[p])
      BY <1>9, <2>7, <2>10, <3>1, PathsOrder DEF D
    <3>3. D(q) + D(p) < D(a) + D(m)
      BY <1>9, <2>10
    <3>4. Leads(nds, path, q, p)
      BY <1>9, <1>10, <2>10, <3>3
    <3>5. PICK d \in 1 .. N : nds[d].prev = q /\ Begins(path[d], path[p])
      BY <3>1, <3>2, <3>4 DEF Leads
    <3>6. Begins(path[d], path[m]) /\ D(d) <= D(p)
      BY <1>1, <1>9, <3>5, PathsOrder DEF D
    <3>7. Begins(path[a], path[m])
      OBVIOUS
    <3>8. d = a
      BY <1>9, <2>8, <2>9, <3>5, <3>6, <3>7, SiblingsPart
    <3>9. QED
      BY <1>9, <1>12, <3>6, <3>8
  <2>14. QED
    BY <2>11, <2>12, <2>13
<1>13. QED
  BY <1>11, <1>12

LEMMA PathsLead ==
  ASSUME NEW roots, NEW nds, NEW L, NEW path, Shaped(roots, nds, L), Spelled(nds, path),
         Apart(nds), NEW a \in 0 .. Len(nds), NEW m \in 0 .. Len(nds)
  PROVE  Leads(nds, path, a, m)
<1> DEFINE I == 0 .. Len(nds)
           Bad == {k \in Nat : \E b, n \in I :
                     k = Depth(path, b) + Depth(path, n) /\ ~ Leads(nds, path, b, n)}
<1> SUFFICES ASSUME ~ Leads(nds, path, a, m) PROVE FALSE
  OBVIOUS
<1>1. \A n \in I : Depth(path, n) \in Nat
  BY PathType
<1>2. a \in I /\ m \in I
  OBVIOUS
<1> HIDE DEF I
<1>3. Depth(path, a) + Depth(path, m) \in Bad
  BY <1>1, <1>2
<1>4. PICK k \in Bad : \A i \in Bad : k <= i
  BY <1>3, LeastIndex
<1>5. PICK b, n \in I : k = Depth(path, b) + Depth(path, n) /\ ~ Leads(nds, path, b, n)
  OBVIOUS
<1>6. ASSUME NEW c \in I, NEW d \in I,
             Depth(path, c) + Depth(path, d) < Depth(path, b) + Depth(path, n)
      PROVE  Leads(nds, path, c, d)
  <2>1. /\ Depth(path, c) \in Nat /\ Depth(path, d) \in Nat
        /\ Depth(path, b) \in Nat /\ Depth(path, n) \in Nat
    BY <1>1, <1>5
  <2>2. ~ (k <= Depth(path, c) + Depth(path, d)) /\ Depth(path, c) + Depth(path, d) \in Nat
    BY <1>5, <1>6, <2>1
  <2>3. Depth(path, c) + Depth(path, d) \notin Bad
    BY <1>4, <2>2
  <2>4. QED
    BY <2>2, <2>3
<1>7. Leads(nds, path, b, n)
  BY <1>5, <1>6, LeadsStep DEF I
<1>8. QED
  BY <1>5, <1>7

\* Hence no two nodes spell the same.
LEMMA PathsDiffer ==
  ASSUME NEW roots, NEW nds, NEW L, NEW path, Shaped(roots, nds, L), Spelled(nds, path),
         Apart(nds), NEW a \in 0 .. Len(nds), NEW m \in 0 .. Len(nds), path[a] = path[m]
  PROVE  a = m
<1> SUFFICES ASSUME a # m PROVE FALSE
  OBVIOUS
<1>1. Begins(path[a], path[m])
  BY PathsOrder
<1>2. PICK c \in 1 .. Len(nds) : nds[c].prev = a /\ Begins(path[c], path[m])
  BY <1>1, PathsLead DEF Leads
<1>3. c \in 0 .. Len(nds)
  BY NodeType
<1>4. Depth(path, a) < Depth(path, c) /\ Depth(path, a) \in Nat /\ Depth(path, c) \in Nat
  BY <1>2, <1>3, PathType
<1>5. Depth(path, c) <= Depth(path, m) /\ Depth(path, m) = Depth(path, a)
  BY <1>2, <1>3, PathsOrder DEF Depth
<1>6. QED
  BY <1>4, <1>5
------------------------------------------------------------------------------
(***************************************************************************)
(* What the trie has to do with the words: the leaves and the words added  *)
(* so far are the same, and every node is on the way to one of them.       *)
(***************************************************************************)

Handed(nds, L, path, H) ==
  /\ H \in [AllWords -> SUBSET (1 .. L)]
  /\ \A n \in 1 .. Len(nds) : \E w \in AllWords : H[w] # {} /\ Begins(path[n], w)
  /\ \A n \in 1 .. Len(nds) : nds[n].leaf # 0 => path[n] \in AllWords /\ H[path[n]] = {nds[n].leaf}
  /\ \A w \in AllWords : H[w] # {} => \E n \in 1 .. Len(nds) : nds[n].leaf # 0 /\ path[n] = w
  /\ \A l \in 1 .. L : \E n \in 1 .. Len(nds) : nds[n].leaf = l
  /\ \A c, d \in 1 .. Len(nds) : nds[c].leaf # 0 /\ nds[c].leaf = nds[d].leaf => c = d

IsTrie(roots, nds, L, path, H) ==
  /\ Shaped(roots, nds, L)
  /\ Spelled(nds, path)
  /\ Linked(roots, nds)
  /\ Apart(nds)
  /\ Handed(nds, L, path, H)

\* One node more, without children, below m.
Grown(roots, nds, m, rest, l, roots2, nds2) ==
  /\ Len(nds2) = Len(nds) + 1
  /\ \A n \in 1 .. Len(nds) :
       nds2[n].uri = nds[n].uri /\ nds2[n].prev = nds[n].prev /\ nds2[n].leaf = nds[n].leaf
  /\ nds2[Len(nds) + 1].uri = rest
  /\ nds2[Len(nds) + 1].prev = m
  /\ nds2[Len(nds) + 1].leaf = l
  /\ \A x \in 0 .. Len(nds) :
       Kids(roots2, nds2, x) = IF x = m THEN Append(Kids(roots, nds, x), Len(nds) + 1)
                                        ELSE Kids(roots, nds, x)
  /\ Kids(roots2, nds2, Len(nds) + 1) = <<>>

LEMMA GrownLinked ==
  ASSUME NEW roots, NEW nds, NEW L, Shaped(roots, nds, L), Linked(roots, nds),
         NEW m \in 0 .. Len(nds), NEW rest, NEW l, NEW roots2, NEW nds2,
         Grown(roots, nds, m, rest, l, roots2, nds2)
  PROVE  Linked(roots2, nds2)
<1> DEFINE N == Len(nds)
           K(x) == Kids(roots, nds, x)
           K2(x) == Kids(roots2, nds2, x)
           prev(n) == nds[n].prev
           prev2(n) == nds2[n].prev
<1>1. /\ N \in Nat /\ Len(nds2) = N + 1
      /\ \A n \in 1 .. N : prev2(n) = prev(n)
      /\ prev2(N + 1) = m
      /\ \A x \in 0 .. N : K2(x) = IF x = m THEN Append(K(x), N + 1) ELSE K(x)
      /\ K2(N + 1) = <<>>
  BY NodeType DEF Grown
<1>2. /\ \A x \in 0 .. N : K(x) \in Seq(1 .. N) /\ Len(K(x)) \in Nat /\ DOMAIN K(x) = 1 .. Len(K(x))
      /\ \A x \in 0 .. N : \A i \in DOMAIN K(x) : K(x)[i] \in 1 .. N
      /\ \A n \in 1 .. N : prev(n) \in 0 .. N
  BY NodeType
<1>3. /\ \A x \in 0 .. N : \A i \in DOMAIN K(x) : prev(K(x)[i]) = x
      /\ \A x \in 0 .. N : \A i, j \in DOMAIN K(x) : K(x)[i] = K(x)[j] => i = j
      /\ \A n \in 1 .. N : \E i \in DOMAIN K(prev(n)) : K(prev(n))[i] = n
  BY DEF Linked
<1> HIDE DEF K, K2, prev, prev2, N
<1>4. ASSUME NEW x \in 0 .. N
      PROVE  /\ DOMAIN K(x) = 1 .. Len(K(x)) /\ Len(K(x)) \in Nat
             /\ x # m => K2(x) = K(x)
             /\ x = m => /\ DOMAIN K2(x) = 1 .. (Len(K(x)) + 1)
                         /\ \A i \in DOMAIN K(x) : K2(x)[i] = K(x)[i] /\ i \in DOMAIN K2(x)
                         /\ K2(x)[Len(K(x)) + 1] = N + 1
                         /\ \A i \in DOMAIN K2(x) : i \in DOMAIN K(x) \/ i = Len(K(x)) + 1
  <2>1. PICK k : k = K(x)
    OBVIOUS
  <2>2. k \in Seq(1 .. N) /\ Len(k) \in Nat /\ DOMAIN k = 1 .. Len(k)
    BY <1>2, <2>1
  <2>3. PICK k2 : k2 = Append(k, N + 1)
    OBVIOUS
  <2>4. /\ DOMAIN k2 = 1 .. (Len(k) + 1)
        /\ \A i \in 1 .. Len(k) : k2[i] = k[i]
        /\ k2[Len(k) + 1] = N + 1
    BY <1>1, <2>2, <2>3
  <2>5. /\ \A i \in DOMAIN k : k2[i] = k[i] /\ i \in DOMAIN k2
        /\ \A i \in DOMAIN k2 : i \in DOMAIN k \/ i = Len(k) + 1
    BY <2>2, <2>4
  <2>6. K2(x) = IF x = m THEN k2 ELSE k
    BY <1>1, <2>1, <2>3
  <2>7. QED
    BY <2>1, <2>2, <2>4, <2>5, <2>6
<1>5. \A x \in 0 .. (N + 1) : x \in 0 .. N \/ x = N + 1
  BY <1>1
<1>6. \A n \in 1 .. (N + 1) : n \in 1 .. N \/ n = N + 1
  BY <1>1
<1>7. ASSUME NEW x \in 0 .. (N + 1), NEW i \in DOMAIN K2(x)
      PROVE  prev2(K2(x)[i]) = x
  <2>1. x \in 0 .. N
    BY <1>1, <1>5, <1>7
  <2>2. CASE x # m
    BY <1>1, <1>2, <1>3, <1>4, <2>1, <2>2
  <2>3. CASE x = m /\ i \in DOMAIN K(x)
    BY <1>1, <1>2, <1>3, <1>4, <2>1, <2>3
  <2>4. CASE x = m /\ i = Len(K(x)) + 1
    BY <1>1, <1>4, <2>1, <2>4
  <2>5. QED
    BY <1>4, <2>1, <2>2, <2>3, <2>4
<1>8. ASSUME NEW x \in 0 .. (N + 1), NEW i \in DOMAIN K2(x), NEW j \in DOMAIN K2(x), K2(x)[i] = K2(x)[j]
      PROVE  i = j
  <2>1. x \in 0 .. N
    BY <1>1, <1>5, <1>8
  <2>2. CASE x # m
    BY <1>3, <1>4, <1>8, <2>1, <2>2
  <2>3. CASE x = m
    <3>1. \A h \in DOMAIN K(x) : K2(x)[h] # N + 1
      BY <1>1, <1>2, <1>4, <2>1, <2>3
    <3>2. CASE i \in DOMAIN K(x) /\ j \in DOMAIN K(x)
      BY <1>3, <1>4, <1>8, <2>1, <2>3, <3>2
    <3>3. QED
      BY <1>4, <1>8, <2>1, <2>3, <3>1, <3>2
  <2>4. QED
    BY <2>2, <2>3
<1>9. ASSUME NEW n \in 1 .. (N + 1)
      PROVE  \E i \in DOMAIN K2(prev2(n)) : K2(prev2(n))[i] = n
  <2>1. CASE n \in 1 .. N
    <3>1. prev2(n) = prev(n) /\ prev(n) \in 0 .. N
      BY <1>1, <1>2, <2>1
    <3>2. PICK i \in DOMAIN K(prev(n)) : K(prev(n))[i] = n
      BY <1>3, <2>1
    <3>3. QED
      BY <1>4, <3>1, <3>2
  <2>2. CASE n = N + 1
    <3>1. prev2(n) = m /\ m \in 0 .. N
      BY <1>1, <2>2 DEF N
    <3>2. Len(K(m)) + 1 \in DOMAIN K2(m) /\ K2(m)[Len(K(m)) + 1] = N + 1
      BY <1>4, <3>1
    <3>3. QED
      BY <2>2, <3>1, <3>2
  <2>3. QED
    BY <1>6, <2>1, <2>2
<1>10. QED
  BY <1>1, <1>7, <1>8, <1>9 DEF Linked, K2, prev2

LEMMA GrowTrie ==
  ASSUME NEW roots, NEW nds, NEW L, NEW path, NEW H, IsTrie(roots, nds, L, path, H),
         NEW m \in 0 .. Len(nds), NEW rest \in Text \ {<<>>}, NEW w \in AllWords,
         w = path[m] \o rest, H[w] = {},
         \A c \in 1 .. Len(nds) : nds[c].prev = m => nds[c].uri[1] # rest[1],
         NEW roots2, NEW nds2, Grown(roots, nds, m, rest, L + 1, roots2, nds2),
         Shaped(roots2, nds2, L + 1)
  PROVE  \E path2 : IsTrie(roots2, nds2, L + 1, path2, [H EXCEPT ![w] = {L + 1}])
<1> DEFINE N == Len(nds)
           path2 == [n \in 0 .. (N + 1) |-> IF n = N + 1 THEN w ELSE path[n]]
           H2 == [H EXCEPT ![w] = {L + 1}]
<1>1. /\ Shaped(roots, nds, L) /\ Spelled(nds, path) /\ Linked(roots, nds) /\ Apart(nds)
      /\ Handed(nds, L, path, H)
  BY DEF IsTrie
<1>2. /\ N \in Nat /\ L \in Nat
      /\ \A n \in 1 .. N : nds[n].prev \in 0 .. N /\ nds[n].leaf \in 0 .. L
  BY <1>1, NodeType DEF Shaped
<1>3. /\ Len(nds2) = N + 1
      /\ \A n \in 1 .. N :
           nds2[n].uri = nds[n].uri /\ nds2[n].prev = nds[n].prev /\ nds2[n].leaf = nds[n].leaf
      /\ nds2[N + 1].uri = rest /\ nds2[N + 1].prev = m /\ nds2[N + 1].leaf = L + 1
  BY DEF Grown
<1>4. w \in Text /\ AllWords \subseteq Text
  BY WordsAssumption
<1>5. /\ path \in [0 .. N -> Text] /\ path[0] = <<>>
      /\ \A n \in 1 .. N : path[n] = path[nds[n].prev] \o nds[n].uri
  BY <1>1 DEF Spelled
<1>6. /\ H \in [AllWords -> SUBSET (1 .. L)]
      /\ \A n \in 1 .. N : \E v \in AllWords : H[v] # {} /\ Begins(path[n], v)
      /\ \A n \in 1 .. N : nds[n].leaf # 0 => path[n] \in AllWords /\ H[path[n]] = {nds[n].leaf}
      /\ \A v \in AllWords : H[v] # {} => \E n \in 1 .. N : nds[n].leaf # 0 /\ path[n] = v
      /\ \A l \in 1 .. L : \E n \in 1 .. N : nds[n].leaf = l
      /\ \A c, d \in 1 .. N : nds[c].leaf # 0 /\ nds[c].leaf = nds[d].leaf => c = d
  BY <1>1 DEF Handed
<1>7. m \in 0 .. N
  OBVIOUS
<1> HIDE DEF N
<1>8. \A n \in 1 .. (N + 1) : n \in 1 .. N \/ n = N + 1
  BY <1>2
<1>9. /\ N + 1 \notin 0 .. N /\ N + 1 \notin 1 .. N /\ 0 \in 0 .. N /\ N + 1 \in 1 .. (N + 1)
      /\ \A n \in 1 .. N : n \in 1 .. (N + 1) /\ n \in 0 .. N
      /\ \A n \in 0 .. N : n \in 0 .. (N + 1)
  BY <1>2
<1>10. path2[N + 1] = w /\ \A n \in 0 .. N : path2[n] = path[n]
  BY <1>2, <1>9
<1>11. Spelled(nds2, path2)
  <2>1. path2 \in [0 .. (N + 1) -> Text]
    BY <1>2, <1>4, <1>5
  <2> HIDE DEF path2
  <2>2. path2[0] = <<>>
    BY <1>5, <1>9, <1>10
  <2>3. ASSUME NEW n \in 1 .. (N + 1)
        PROVE  path2[n] = path2[nds2[n].prev] \o nds2[n].uri
    <3>1. CASE n \in 1 .. N
      <4>1. path[n] = path[nds[n].prev] \o nds[n].uri /\ nds[n].prev \in 0 .. N
        BY <1>2, <1>5, <3>1
      <4>2. path2[n] = path[n] /\ path2[nds[n].prev] = path[nds[n].prev]
        BY <1>9, <1>10, <3>1, <4>1
      <4>3. nds2[n].prev = nds[n].prev /\ nds2[n].uri = nds[n].uri
        BY <1>3, <3>1
      <4>4. QED
        BY <4>1, <4>2, <4>3
    <3>2. CASE n = N + 1
      BY <1>3, <1>7, <1>10, <3>2
    <3>3. QED
      BY <1>8, <3>1, <3>2
  <2>4. QED
    BY <1>3, <2>1, <2>2, <2>3 DEF Spelled
<1>12. Linked(roots2, nds2)
  BY <1>1, GrownLinked
<1>13. Apart(nds2)
  <2>1. ASSUME NEW c \in 1 .. (N + 1), NEW d \in 1 .. (N + 1), nds2[c].prev = nds2[d].prev,
               nds2[c].uri[1] = nds2[d].uri[1]
        PROVE  c = d
    <3>1. CASE c \in 1 .. N /\ d \in 1 .. N
      BY <1>1, <1>3, <2>1, <3>1 DEF Apart, N
    <3>2. CASE c = N + 1 /\ d \in 1 .. N
      BY <1>3, <2>1, <3>2 DEF N
    <3>3. CASE d = N + 1 /\ c \in 1 .. N
      BY <1>3, <2>1, <3>3 DEF N
    <3>4. QED
      BY <1>8, <3>1, <3>2, <3>3
  <2>2. QED
    BY <1>3, <2>1 DEF Apart
<1> HIDE DEF path2
<1>14. Handed(nds2, L + 1, path2, H2)
  <2>1. H2[w] = {L + 1} /\ \A v \in AllWords : v # w => H2[v] = H[v]
    BY <1>6
  <2>2. H2 \in [AllWords -> SUBSET (1 .. (L + 1))]
    <3>1. \A l \in 1 .. L : l \in 1 .. (L + 1)
      BY <1>2
    <3>2. L + 1 \in 1 .. (L + 1)
      BY <1>2
    <3>3. \A v \in AllWords : H[v] \subseteq 1 .. (L + 1)
      BY <1>6, <3>1
    <3>4. \A v \in AllWords : H2[v] \subseteq 1 .. (L + 1)
      BY <2>1, <3>2, <3>3
    <3>5. DOMAIN H2 = AllWords /\ H2 = [v \in AllWords |-> H2[v]]
      BY <1>6
    <3> HIDE DEF H2
    <3>6. QED
      BY <3>4, <3>5
  <2> HIDE DEF H2
  <2>3. ASSUME NEW n \in 1 .. (N + 1)
        PROVE  \E v \in AllWords : H2[v] # {} /\ Begins(path2[n], v)
    <3>1. CASE n \in 1 .. N
      BY <1>6, <1>9, <1>10, <2>1, <3>1
    <3>2. CASE n = N + 1
      <4>1. Begins(w, w)
        BY <1>4, BeginsOrder
      <4>2. QED
        BY <1>10, <2>1, <3>2, <4>1
    <3>3. QED
      BY <1>8, <3>1, <3>2
  <2>4. ASSUME NEW n \in 1 .. (N + 1), nds2[n].leaf # 0
        PROVE  path2[n] \in AllWords /\ H2[path2[n]] = {nds2[n].leaf}
    <3>1. CASE n \in 1 .. N
      <4>1. nds[n].leaf # 0 /\ path2[n] = path[n] /\ nds2[n].leaf = nds[n].leaf
        BY <1>3, <1>9, <1>10, <2>4, <3>1
      <4>2. path[n] \in AllWords /\ H[path[n]] = {nds[n].leaf}
        BY <1>6, <3>1, <4>1
      <4>3. path[n] # w
        BY <4>2
      <4>4. QED
        BY <2>1, <4>1, <4>2, <4>3
    <3>2. CASE n = N + 1
      BY <1>3, <1>10, <2>1, <3>2
    <3>3. QED
      BY <1>8, <3>1, <3>2
  <2>5. ASSUME NEW v \in AllWords, H2[v] # {}
        PROVE  \E n \in 1 .. (N + 1) : nds2[n].leaf # 0 /\ path2[n] = v
    <3>1. CASE v = w
      <4>1. nds2[N + 1].leaf # 0 /\ path2[N + 1] = v
        BY <1>2, <1>3, <1>10, <3>1
      <4>2. QED
        BY <1>9, <4>1
    <3>2. CASE v # w
      <4>1. PICK n \in 1 .. N : nds[n].leaf # 0 /\ path[n] = v
        BY <1>6, <2>1, <2>5, <3>2
      <4>2. nds2[n].leaf # 0 /\ path2[n] = v /\ n \in 1 .. (N + 1)
        BY <1>3, <1>9, <1>10, <4>1
      <4>3. QED
        BY <4>2
    <3>3. QED
      BY <3>1, <3>2
  <2>6. ASSUME NEW l \in 1 .. (L + 1)
        PROVE  \E n \in 1 .. (N + 1) : nds2[n].leaf = l
    <3>1. l \in 1 .. L \/ l = L + 1
      BY <1>2
    <3>2. CASE l \in 1 .. L
      <4>1. PICK n \in 1 .. N : nds[n].leaf = l
        BY <1>6, <3>2
      <4>2. nds2[n].leaf = l /\ n \in 1 .. (N + 1)
        BY <1>3, <1>9, <4>1
      <4>3. QED
        BY <4>2
    <3>3. CASE l = L + 1
      BY <1>3, <1>9, <3>3
    <3>4. QED
      BY <3>1, <3>2, <3>3
  <2>7. ASSUME NEW c \in 1 .. (N + 1), NEW d \in 1 .. (N + 1),
               nds2[c].leaf # 0, nds2[c].leaf = nds2[d].leaf
        PROVE  c = d
    <3>1. \A n \in 1 .. N : nds2[n].leaf # L + 1
      BY <1>2, <1>3
    <3>2. CASE c \in 1 .. N /\ d \in 1 .. N
      <4>1. nds2[c].leaf = nds[c].leaf /\ nds2[d].leaf = nds[d].leaf
        BY <1>3, <3>2
      <4>2. nds[c].leaf # 0 /\ nds[c].leaf = nds[d].leaf
        BY <2>7, <4>1
      <4>3. QED
        BY <1>6, <3>2, <4>2
    <3>3. QED
      BY <1>3, <1>8, <2>7, <3>1, <3>2
  <2>8. QED
    BY <1>3, <2>2, <2>3, <2>4, <2>5, <2>6, <2>7 DEF Handed
<1>15. IsTrie(roots2, nds2, L + 1, path2, H2)
  BY <1>11, <1>12, <1>13, <1>14 DEF IsTrie
<1>16. QED
  BY <1>15
------------------------------------------------------------------------------
(***************************************************************************)
(* A fragment in two.                                                      *)
(***************************************************************************)

\* Node b keeps k characters of its fragment; a new node below it takes the
\* others, its leaf and its children.
Broken(roots, nds, b, k, roots2, nds2) ==
  /\ Len(nds2) = Len(nds) + 1
  /\ \A n \in 1 .. Len(nds) : n # b =>
       /\ nds2[n].uri = nds[n].uri
       /\ nds2[n].leaf = nds[n].leaf
       /\ nds2[n].prev = IF nds[n].prev = b THEN Len(nds) + 1 ELSE nds[n].prev
  /\ nds2[b].uri = SubSeq(nds[b].uri, 1, k)
  /\ nds2[b].leaf = 0
  /\ nds2[b].prev = nds[b].prev
  /\ nds2[Len(nds) + 1].uri = From(nds[b].uri, k + 1)
  /\ nds2[Len(nds) + 1].leaf = nds[b].leaf
  /\ nds2[Len(nds) + 1].prev = b
  /\ \A x \in 0 .. Len(nds) : x # b => Kids(roots2, nds2, x) = Kids(roots, nds, x)
  /\ Kids(roots2, nds2, b) = <<Len(nds) + 1>>
  /\ Kids(roots2, nds2, Len(nds) + 1) = Kids(roots, nds, b)

LEMMA BrokenLinked ==
  ASSUME NEW roots, NEW nds, NEW L, Shaped(roots, nds, L), Linked(roots, nds),
         NEW b \in 1 .. Len(nds), nds[b].prev # b, NEW k, NEW roots2, NEW nds2,
         Broken(roots, nds, b, k, roots2, nds2)
  PROVE  Linked(roots2, nds2)
<1> DEFINE N == Len(nds)
           K(x) == Kids(roots, nds, x)
           K2(x) == Kids(roots2, nds2, x)
           prev(n) == nds[n].prev
           prev2(n) == nds2[n].prev
<1>1. /\ N \in Nat /\ Len(nds2) = N + 1
      /\ \A n \in 1 .. N : n # b => prev2(n) = IF prev(n) = b THEN N + 1 ELSE prev(n)
      /\ prev2(b) = prev(b)
      /\ prev2(N + 1) = b
      /\ \A x \in 0 .. N : x # b => K2(x) = K(x)
      /\ K2(b) = <<N + 1>>
      /\ K2(N + 1) = K(b)
  BY NodeType DEF Broken
<1>2. /\ \A x \in 0 .. N : \A i \in DOMAIN K(x) : K(x)[i] \in 1 .. N
      /\ \A n \in 1 .. N : prev(n) \in 0 .. N
  BY NodeType
<1>3. /\ \A x \in 0 .. N : \A i \in DOMAIN K(x) : prev(K(x)[i]) = x
      /\ \A x \in 0 .. N : \A i, j \in DOMAIN K(x) : K(x)[i] = K(x)[j] => i = j
      /\ \A n \in 1 .. N : \E i \in DOMAIN K(prev(n)) : K(prev(n))[i] = n
  BY DEF Linked
<1>4. b \in 1 .. N /\ prev(b) # b
  OBVIOUS
<1> HIDE DEF K, K2, prev, prev2, N
<1>5. /\ \A x \in 0 .. (N + 1) : x \in 0 .. N \/ x = N + 1
      /\ \A n \in 1 .. (N + 1) : n \in 1 .. N \/ n = N + 1
      /\ N + 1 \notin 0 .. N /\ b \in 0 .. N
  BY <1>1, <1>4
<1>6. DOMAIN K2(b) = {1} /\ K2(b)[1] = N + 1
  BY <1>1
<1>7. ASSUME NEW x \in 0 .. (N + 1), NEW i \in DOMAIN K2(x)
      PROVE  prev2(K2(x)[i]) = x
  <2>1. CASE x = N + 1
    <3>1. i \in DOMAIN K(b) /\ K2(x)[i] = K(b)[i]
      BY <1>1, <1>7, <2>1
    <3>2. K(b)[i] \in 1 .. N /\ prev(K(b)[i]) = b
      BY <1>2, <1>3, <1>5, <3>1
    <3>3. K(b)[i] # b
      BY <1>4, <3>2
    <3>4. QED
      BY <1>1, <2>1, <3>1, <3>2, <3>3
  <2>2. CASE x = b
    BY <1>1, <1>6, <1>7, <2>2
  <2>3. CASE x \in 0 .. N /\ x # b
    <3>1. i \in DOMAIN K(x) /\ K2(x)[i] = K(x)[i]
      BY <1>1, <1>7, <2>3
    <3>2. K(x)[i] \in 1 .. N /\ prev(K(x)[i]) = x
      BY <1>2, <1>3, <2>3, <3>1
    <3>3. prev2(K(x)[i]) = x
      BY <1>1, <2>3, <3>2
    <3>4. QED
      BY <3>1, <3>3
  <2>4. QED
    BY <1>5, <2>1, <2>2, <2>3
<1>8. ASSUME NEW x \in 0 .. (N + 1), NEW i \in DOMAIN K2(x), NEW j \in DOMAIN K2(x), K2(x)[i] = K2(x)[j]
      PROVE  i = j
  <2>1. CASE x = N + 1
    BY <1>1, <1>3, <1>5, <1>8, <2>1
  <2>2. CASE x = b
    BY <1>6, <1>8, <2>2
  <2>3. CASE x \in 0 .. N /\ x # b
    BY <1>1, <1>3, <1>8, <2>3
  <2>4. QED
    BY <1>5, <2>1, <2>2, <2>3
<1>9. ASSUME NEW n \in 1 .. (N + 1)
      PROVE  \E i \in DOMAIN K2(prev2(n)) : K2(prev2(n))[i] = n
  <2>1. CASE n \in 1 .. N
    <3>1. PICK i \in DOMAIN K(prev(n)) : K(prev(n))[i] = n
      BY <1>3, <2>1
    <3>2. prev(n) \in 0 .. N
      BY <1>2, <2>1
    <3>3. K2(prev2(n)) = K(prev(n))
      <4>1. CASE n = b
        BY <1>1, <1>4, <3>2, <4>1
      <4>2. CASE n # b /\ prev(n) = b
        BY <1>1, <2>1, <4>2
      <4>3. CASE n # b /\ prev(n) # b
        <5>1. prev2(n) = prev(n)
          BY <1>1, <2>1, <4>3
        <5>2. QED
          BY <1>1, <3>2, <4>3, <5>1
      <4>4. QED
        BY <4>1, <4>2, <4>3
    <3>4. QED
      BY <3>1, <3>3
  <2>2. CASE n = N + 1
    <3>1. prev2(n) = b /\ 1 \in DOMAIN K2(b)
      BY <1>1, <1>6, <2>2
    <3>2. QED
      BY <1>6, <2>2, <3>1
  <2>3. QED
    BY <1>5, <2>1, <2>2
<1>10. QED
  BY <1>1, <1>7, <1>8, <1>9 DEF Linked, K2, prev2

BrokenTrie(roots2, nds2, L, H, b, upper) ==
  \E path2 : IsTrie(roots2, nds2, L, path2, H) /\ path2[b] = upper

LEMMA BreakTrie ==
  ASSUME NEW roots, NEW nds, NEW L, NEW path, NEW H, IsTrie(roots, nds, L, path, H),
         NEW b \in 1 .. Len(nds), NEW k \in 1 .. (Len(nds[b].uri) - 1),
         NEW roots2, NEW nds2, Broken(roots, nds, b, k, roots2, nds2), Shaped(roots2, nds2, L)
  PROVE  BrokenTrie(roots2, nds2, L, H, b, path[nds[b].prev] \o SubSeq(nds[b].uri, 1, k))
<1> DEFINE N == Len(nds)
           upper == path[nds[b].prev] \o SubSeq(nds[b].uri, 1, k)
           path2 == [n \in 0 .. (N + 1) |-> IF n = N + 1 THEN path[b] ELSE IF n = b THEN upper ELSE path[n]]
<1>1. /\ Shaped(roots, nds, L) /\ Spelled(nds, path) /\ Linked(roots, nds) /\ Apart(nds)
      /\ Handed(nds, L, path, H)
  BY DEF IsTrie
<1>2. /\ N \in Nat
      /\ \A n \in 1 .. N : nds[n].prev \in 0 .. N /\ nds[n].leaf \in 0 .. L
      /\ nds[b].uri \in Text /\ Len(nds[b].uri) \in Nat
  BY <1>1, NodeType DEF Shaped
<1>3. /\ Len(nds2) = N + 1
      /\ \A n \in 1 .. N : n # b =>
           /\ nds2[n].uri = nds[n].uri /\ nds2[n].leaf = nds[n].leaf
           /\ nds2[n].prev = IF nds[n].prev = b THEN N + 1 ELSE nds[n].prev
      /\ nds2[b].uri = SubSeq(nds[b].uri, 1, k) /\ nds2[b].leaf = 0 /\ nds2[b].prev = nds[b].prev
      /\ nds2[N + 1].uri = From(nds[b].uri, k + 1) /\ nds2[N + 1].leaf = nds[b].leaf /\ nds2[N + 1].prev = b
  BY DEF Broken
<1>4. AllWords \subseteq Text
  BY WordsAssumption
<1>5. /\ path \in [0 .. N -> Text] /\ path[0] = <<>>
      /\ \A n \in 1 .. N : path[n] = path[nds[n].prev] \o nds[n].uri
  BY <1>1 DEF Spelled
<1>6. /\ H \in [AllWords -> SUBSET (1 .. L)]
      /\ \A n \in 1 .. N : \E v \in AllWords : H[v] # {} /\ Begins(path[n], v)
      /\ \A n \in 1 .. N : nds[n].leaf # 0 => path[n] \in AllWords /\ H[path[n]] = {nds[n].leaf}
      /\ \A v \in AllWords : H[v] # {} => \E n \in 1 .. N : nds[n].leaf # 0 /\ path[n] = v
      /\ \A l \in 1 .. L : \E n \in 1 .. N : nds[n].leaf = l
      /\ \A c, d \in 1 .. N : nds[c].leaf # 0 /\ nds[c].leaf = nds[d].leaf => c = d
  BY <1>1 DEF Handed
<1>7. b \in 1 .. N /\ b \in 0 .. N /\ nds[b].prev \in 0 .. N
  BY <1>2
<1>8. nds[b].prev # b
  <2>1. Depth(path, nds[b].prev) < Depth(path, b) /\ Depth(path, b) \in Nat
    BY <1>1, <1>7, PathType
  <2>2. QED
    BY <2>1
<1>9. PICK uri : uri = nds[b].uri
  OBVIOUS
<1>10. /\ uri \in Text /\ k \in 0 .. Len(uri) /\ k + 1 \in 1 .. (Len(uri) + 1)
       /\ SubSeq(uri, 1, k) \in Text /\ From(uri, k + 1) \in Text
       /\ uri = SubSeq(uri, 1, k) \o From(uri, k + 1)
       /\ SubSeq(uri, 1, k)[1] = uri[1]
  <2>1. uri \in Text /\ k \in 0 .. Len(uri) /\ k + 1 \in 1 .. (Len(uri) + 1) /\ 1 \in 1 .. k
    BY <1>2, <1>9
  <2>2. SubSeq(uri, 1, k) \in Text /\ SubSeq(uri, 1, k)[1] = uri[1]
    BY <2>1, InitialText
  <2>3. From(uri, k + 1) \in Text
    BY <2>1, FromText
  <2>4. uri = SubSeq(uri, 1, k) \o From(uri, k + 1)
    BY <2>1, SplitText
  <2>5. QED
    BY <2>1, <2>2, <2>3, <2>4
<1>11. /\ upper \in Text
       /\ path[b] = upper \o From(uri, k + 1)
       /\ Begins(upper, path[b])
  <2>1. PICK p : p = path[nds[b].prev]
    OBVIOUS
  <2>2. p \in Text /\ upper = p \o SubSeq(uri, 1, k) /\ path[b] = p \o uri
    BY <1>5, <1>7, <1>9, <2>1
  <2>3. upper \in Text
    BY <1>10, <2>2, TextConcat
  <2>4. path[b] = upper \o From(uri, k + 1)
    <3>1. PICK x, y : x = SubSeq(uri, 1, k) /\ y = From(uri, k + 1)
      OBVIOUS
    <3>2. x \in Text /\ y \in Text /\ uri = x \o y
      BY <1>10, <3>1
    <3>3. (p \o x) \o y = p \o (x \o y)
      BY <2>2, <3>2, ConcatAssociates
    <3> HIDE DEF upper
    <3>4. path[b] = (p \o x) \o y
      BY <2>2, <3>2, <3>3
    <3>5. QED
      BY <2>2, <3>1, <3>4
  <2>5. QED
    BY <1>10, <2>3, <2>4, BeginsConcat
<1> HIDE DEF N, upper
<1>12. /\ \A n \in 1 .. (N + 1) : n \in 1 .. N \/ n = N + 1
       /\ N + 1 \notin 0 .. N /\ N + 1 \notin 1 .. N /\ 0 \in 0 .. N /\ N + 1 \in 1 .. (N + 1)
       /\ \A n \in 1 .. N : n \in 1 .. (N + 1) /\ n \in 0 .. N
       /\ \A n \in 0 .. N : n \in 0 .. (N + 1)
       /\ b # 0 /\ b # N + 1
  BY <1>2, <1>7
<1>13. /\ path2[N + 1] = path[b] /\ path2[b] = upper
       /\ \A n \in 0 .. N : n # b => path2[n] = path[n]
  BY <1>2, <1>7, <1>12
<1>14. path2 \in [0 .. (N + 1) -> Text]
  <2>1. \A n \in 0 .. N : path[n] \in Text
    BY <1>5
  <2>2. \A n \in 0 .. (N + 1) : n \in 0 .. N \/ n = N + 1
    BY <1>2
  <2>3. path[b] \in Text
    BY <1>7, <2>1
  <2>4. QED
    BY <1>11, <2>1, <2>2, <2>3
<1> HIDE DEF path2
<1>15. Spelled(nds2, path2)
  <2>1. path2[0] = <<>>
    BY <1>5, <1>12, <1>13
  <2>2. ASSUME NEW n \in 1 .. (N + 1)
        PROVE  path2[n] = path2[nds2[n].prev] \o nds2[n].uri
    <3>1. CASE n = N + 1
      BY <1>3, <1>9, <1>11, <1>13, <3>1
    <3>2. CASE n = b
      <4>1. path2[nds[b].prev] = path[nds[b].prev]
        BY <1>7, <1>8, <1>13
      <4>2. QED
        BY <1>3, <1>13, <3>2, <4>1 DEF upper
    <3>3. CASE n \in 1 .. N /\ n # b
      <4>1. path[n] = path[nds[n].prev] \o nds[n].uri /\ nds[n].prev \in 0 .. N
        BY <1>2, <1>5, <3>3
      <4>2. path2[n] = path[n] /\ nds2[n].uri = nds[n].uri
        BY <1>3, <1>12, <1>13, <3>3
      <4>3. path2[nds2[n].prev] = path[nds[n].prev]
        BY <1>3, <1>13, <3>3, <4>1
      <4>4. QED
        BY <4>1, <4>2, <4>3
    <3>4. QED
      BY <1>12, <3>1, <3>2, <3>3
  <2>3. QED
    BY <1>3, <1>14, <2>1, <2>2 DEF Spelled
<1>16. Linked(roots2, nds2)
  BY <1>1, <1>8, BrokenLinked
<1>17. Apart(nds2)
  <2>1. \A n \in 1 .. N : nds2[n].uri[1] = nds[n].uri[1]
    BY <1>3, <1>9, <1>10
  <2>2. \A n \in 1 .. N : nds2[n].prev # b
    BY <1>3, <1>7, <1>8, <1>12
  <2>3. ASSUME NEW c \in 1 .. N, NEW d \in 1 .. N, nds2[c].prev = nds2[d].prev
        PROVE  nds[c].prev = nds[d].prev
    <3>1. \A n \in 1 .. N : nds2[n].prev = N + 1 <=> nds[n].prev = b
      BY <1>2, <1>3, <1>7, <1>8, <1>12
    <3>2. \A n \in 1 .. N : nds[n].prev # b => nds2[n].prev = nds[n].prev
      BY <1>3
    <3>3. QED
      BY <2>3, <3>1, <3>2
  <2>4. ASSUME NEW c \in 1 .. (N + 1), NEW d \in 1 .. (N + 1), nds2[c].prev = nds2[d].prev,
               nds2[c].uri[1] = nds2[d].uri[1]
        PROVE  c = d
    <3>1. CASE c \in 1 .. N /\ d \in 1 .. N
      <4>1. nds[c].prev = nds[d].prev /\ nds[c].uri[1] = nds[d].uri[1]
        BY <2>1, <2>3, <2>4, <3>1
      <4>2. QED
        BY <1>1, <3>1, <4>1 DEF Apart, N
    <3>2. CASE c = N + 1 \/ d = N + 1
      BY <1>3, <1>12, <2>2, <2>4, <3>2
    <3>3. QED
      BY <1>12, <3>1, <3>2
  <2>5. QED
    BY <1>3, <2>4 DEF Apart
<1>18. Handed(nds2, L, path2, H)
  <2>1. ASSUME NEW n \in 1 .. (N + 1)
        PROVE  \E v \in AllWords : H[v] # {} /\ Begins(path2[n], v)
    <3>1. PICK m \in 1 .. N : Begins(path2[n], path[m])
      <4>1. CASE n = b
        BY <1>7, <1>11, <1>13, <4>1
      <4>2. CASE n = N + 1
        BY <1>1, <1>7, <1>13, <4>2, PathsOrder
      <4>3. CASE n \in 1 .. N /\ n # b
        <5>1. path2[n] = path[n] /\ n \in 0 .. Len(nds)
          BY <1>12, <1>13, <4>3 DEF N
        <5>2. Begins(path[n], path[n])
          BY <1>1, <5>1, PathsOrder
        <5>3. QED
          BY <4>3, <5>1, <5>2
      <4>4. QED
        BY <1>12, <4>1, <4>2, <4>3
    <3>2. PICK v \in AllWords : H[v] # {} /\ Begins(path[m], v)
      BY <1>6
    <3>3. path2[n] \in Text /\ path[m] \in Text /\ v \in Text
      BY <1>4, <1>5, <1>12, <1>14
    <3>4. Begins(path2[n], v)
      BY <3>1, <3>2, <3>3, BeginsOrder
    <3>5. QED
      BY <3>2, <3>4
  <2>2. ASSUME NEW n \in 1 .. (N + 1), nds2[n].leaf # 0
        PROVE  path2[n] \in AllWords /\ H[path2[n]] = {nds2[n].leaf}
    <3>1. n # b
      BY <1>3, <2>2
    <3>2. CASE n = N + 1
      BY <1>3, <1>6, <1>7, <1>13, <2>2, <3>2
    <3>3. CASE n \in 1 .. N
      <4>1. path2[n] = path[n] /\ nds2[n].leaf = nds[n].leaf
        BY <1>3, <1>12, <1>13, <3>1, <3>3
      <4>2. QED
        BY <1>6, <2>2, <3>3, <4>1
    <3>4. QED
      BY <1>12, <3>2, <3>3
  <2>3. ASSUME NEW n \in 1 .. N
        PROVE  \E c \in 1 .. (N + 1) : nds2[c].leaf = nds[n].leaf /\ path2[c] = path[n]
    <3>1. CASE n = b
      BY <1>3, <1>12, <1>13, <3>1
    <3>2. CASE n # b
      BY <1>3, <1>12, <1>13, <3>2
    <3>3. QED
      BY <3>1, <3>2
  <2>4. ASSUME NEW v \in AllWords, H[v] # {}
        PROVE  \E n \in 1 .. (N + 1) : nds2[n].leaf # 0 /\ path2[n] = v
    <3>1. PICK n \in 1 .. N : nds[n].leaf # 0 /\ path[n] = v
      BY <1>6, <2>4
    <3>2. QED
      BY <2>3, <3>1
  <2>5. ASSUME NEW l \in 1 .. L
        PROVE  \E n \in 1 .. (N + 1) : nds2[n].leaf = l
    <3>1. PICK n \in 1 .. N : nds[n].leaf = l
      BY <1>6
    <3>2. QED
      BY <2>3, <3>1
  <2>6. ASSUME NEW c \in 1 .. (N + 1), NEW d \in 1 .. (N + 1),
               nds2[c].leaf # 0, nds2[c].leaf = nds2[d].leaf
        PROVE  c = d
    <3> DEFINE old(n) == IF n = N + 1 THEN b ELSE n
    <3>1. \A n \in 1 .. (N + 1) : nds2[n].leaf # 0 =>
            n # b /\ old(n) \in 1 .. N /\ nds2[n].leaf = nds[old(n)].leaf
      <4>1. ASSUME NEW n \in 1 .. (N + 1), nds2[n].leaf # 0
            PROVE  n # b /\ old(n) \in 1 .. N /\ nds2[n].leaf = nds[old(n)].leaf
        <5>1. n # b
          BY <1>3, <4>1
        <5>2. CASE n = N + 1
          BY <1>3, <1>7, <5>1, <5>2
        <5>3. CASE n # N + 1
          BY <1>3, <1>12, <5>1, <5>3
        <5>4. QED
          BY <5>1, <5>2, <5>3
      <4>2. QED
        BY <4>1
    <3> HIDE DEF old
    <3>2. nds[old(c)].leaf # 0 /\ nds[old(c)].leaf = nds[old(d)].leaf /\ old(c) \in 1 .. N /\ old(d) \in 1 .. N
      BY <2>6, <3>1
    <3>3. old(c) = old(d) /\ c # b /\ d # b
      BY <1>6, <2>6, <3>1, <3>2
    <3>4. QED
      BY <1>12, <3>3 DEF old
  <2>7. H \in [AllWords -> SUBSET (1 .. L)] /\ Len(nds2) = N + 1
    BY <1>3, <1>6
  <2>8. QED
    BY <2>1, <2>2, <2>4, <2>5, <2>6, <2>7 DEF Handed
<1>19. IsTrie(roots2, nds2, L, path2, H)
  BY <1>15, <1>16, <1>17, <1>18 DEF IsTrie
<1>20. QED
  BY <1>13, <1>19 DEF upper, BrokenTrie
------------------------------------------------------------------------------
(***************************************************************************)
(* The walks go down, and the trie is of bounded depth.                    *)
(***************************************************************************)

LEMMA DepthBounded ==
  ASSUME NEW path, NEW N \in Nat, \A n \in 0 .. N : Depth(path, n) \in Nat
  PROVE  \E M \in Nat : \A n \in 0 .. N : Depth(path, n) <= M
<1> DEFINE Bounded(k) == \E M \in Nat : \A n \in 0 .. k : Depth(path, n) <= M
           Bad == {k \in 0 .. N : ~ Bounded(k)}
<1> SUFFICES ASSUME Bad # {} PROVE FALSE
  <2>1. N \in 0 .. N
    OBVIOUS
  <2>2. QED
    BY <2>1
<1>1. Bad \in SUBSET Nat
  OBVIOUS
<1>2. PICK k \in Bad : \A j \in Bad : k <= j
  BY <1>1, LeastIndex
<1>3. k \in 0 .. N /\ ~ Bounded(k)
  OBVIOUS
<1>4. CASE k = 0
  <2>1. \A n \in 0 .. k : n = 0
    BY <1>4
  <2>2. Depth(path, 0) \in Nat /\ Depth(path, 0) <= Depth(path, 0)
    OBVIOUS
  <2>3. QED
    BY <1>3, <2>1, <2>2
<1>5. CASE k # 0
  <2>1. k - 1 \in 0 .. N /\ ~ (k <= k - 1)
    BY <1>3, <1>5
  <2>2. Bounded(k - 1)
    BY <1>2, <2>1
  <2>3. PICK M \in Nat : \A n \in 0 .. (k - 1) : Depth(path, n) <= M
    BY <2>2
  <2>4. PICK d \in Nat : d = Depth(path, k)
    BY <1>3
  <2>5. \A n \in 0 .. k : n \in 0 .. (k - 1) \/ n = k
    BY <1>3
  <2>6. \A n \in 0 .. k : n \in 0 .. N
    BY <1>3
  <2>7. ASSUME NEW n \in 0 .. k
        PROVE  Depth(path, n) <= M + d
    <3>1. Depth(path, n) \in Nat /\ (Depth(path, n) <= M \/ Depth(path, n) = d)
      BY <2>3, <2>4, <2>5, <2>6
    <3>2. QED
      BY <3>1
  <2>8. M + d \in Nat
    OBVIOUS
  <2>9. Bounded(k)
    BY <2>7, <2>8
  <2>10. QED
    BY <1>3, <2>9
<1>6. QED
  BY <1>4, <1>5

\* The room left below a node: less for its children.
Lowers(mu, nds) ==
  /\ mu \in [1 .. Len(nds) -> Nat]
  /\ \A c \in 1 .. Len(nds) : nds[c].prev # 0 => mu[c] < mu[nds[c].prev]

LEMMA TrieLowers ==
  ASSUME NEW roots, NEW nds, NEW L, NEW path, Shaped(roots, nds, L), Spelled(nds, path)
  PROVE  \E mu : Lowers(mu, nds)
<1> DEFINE N == Len(nds)
           D(n) == Depth(path, n)
<1>1. N \in Nat /\ \A n \in 1 .. N : nds[n].prev \in 0 .. N /\ n \in 0 .. N
  BY NodeType
<1>2. /\ \A n \in 0 .. N : D(n) \in Nat
      /\ \A n \in 1 .. N : D(nds[n].prev) < D(n)
  BY PathType
<1>3. PICK M \in Nat : \A n \in 0 .. N : D(n) <= M
  BY <1>1, <1>2, DepthBounded
<1> HIDE DEF D, N
<1> DEFINE mu == [n \in 1 .. N |-> M - D(n)]
<1>4. mu \in [1 .. N -> Nat]
  <2>1. ASSUME NEW n \in 1 .. N
        PROVE  M - D(n) \in Nat
    <3>1. D(n) \in Nat /\ D(n) <= M
      BY <1>1, <1>2, <1>3
    <3>2. QED
      BY <3>1
  <2>2. QED
    BY <2>1
<1>5. ASSUME NEW c \in 1 .. N, nds[c].prev # 0
      PROVE  mu[c] < mu[nds[c].prev]
  <2>1. PICK p : p = nds[c].prev
    OBVIOUS
  <2>2. p \in 1 .. N /\ p \in 0 .. N /\ c \in 0 .. N
    BY <1>1, <1>5, <2>1
  <2>3. D(p) \in Nat /\ D(c) \in Nat /\ D(p) < D(c)
    BY <1>2, <2>1, <2>2
  <2>4. mu[c] = M - D(c) /\ mu[p] = M - D(p)
    BY <2>2
  <2>5. QED
    BY <2>1, <2>3, <2>4
<1>6. Lowers(mu, nds)
  BY <1>4, <1>5 DEF Lowers, N
<1>7. QED
  BY <1>6

\* The trie of a state.
Trie(path) == IsTrie(uri_id, nodes, Len(leafId), path, handed)

LEMMA TrieParts ==
  ASSUME NEW path, Trie(path)
  PROVE  /\ Shaped(uri_id, nodes, Len(leafId)) /\ Spelled(nodes, path)
         /\ Linked(uri_id, nodes) /\ Apart(nodes) /\ Handed(nodes, Len(leafId), path, handed)
BY DEF Trie, IsTrie

\* A walk that at each node asks only the children has one result.
Asking(I, V, Body) ==
  /\ I = 1 .. Len(nodes)
  /\ \E v0 : v0 \in V
  /\ Body \in [[I -> V] -> [I -> V]]
  /\ \A f, g \in [I -> V] : \A n \in I :
       (\A c \in I : nodes[c].prev = n => f[c] = g[c]) => Body[f][n] = Body[g][n]

LEMMA TrieRecursion ==
  ASSUME NEW path, Trie(path), NEW I, NEW V, NEW Body, Asking(I, V, Body)
  PROVE  HasSolution(I, V, Body)
<1>1. PICK mu : Lowers(mu, nodes)
  BY TrieParts, TrieLowers
<1>2. /\ mu \in [I -> Nat]
      /\ \A c \in I : nodes[c].prev # 0 => mu[c] < mu[nodes[c].prev]
      /\ 0 \notin I
  BY <1>1 DEF Lowers, Asking
<1>3. DependsBelow(Body, I, V, mu)
  <2>1. ASSUME NEW f \in [I -> V], NEW g \in [I -> V], NEW n \in I,
               \A m \in I : mu[m] < mu[n] => f[m] = g[m]
        PROVE  Body[f][n] = Body[g][n]
    <3>1. ASSUME NEW c \in I, nodes[c].prev = n
          PROVE  f[c] = g[c]
      BY <1>2, <2>1, <3>1
    <3>2. QED
      BY <3>1, Zenon DEF Asking
  <2>2. QED
    BY <2>1, Zenon DEF DependsBelow
<1>4. Recursive(I, V, mu, Body)
  BY <1>2, <1>3, Zenon DEF Recursive, Asking
<1>5. QED
  BY <1>4, RecursionByMeasure

\* Taker finds the only child that can take a text, or there is none.
Takes(m, c, part) == nodes[c].prev = m /\ nodes[c].uri[1] = part[1]

LEMMA TakerFinds ==
  ASSUME NEW path, Trie(path), NEW m \in 0 .. Len(nodes), NEW part
  PROVE  LET t == Taker(Kids(uri_id, nodes, m), part)
         IN  \/ t = 0 /\ \A c \in 1 .. Len(nodes) : ~ Takes(m, c, part)
             \/ t \in 1 .. Len(nodes) /\ Takes(m, t, part)
<1> DEFINE N == Len(nodes)
           ns == Kids(uri_id, nodes, m)
           hits == {i \in DOMAIN ns : nodes[ns[i]].uri # <<>> /\ nodes[ns[i]].uri[1] = part[1]}
<1>1. /\ N \in Nat /\ ns \in Seq(1 .. N) /\ Len(ns) \in Nat /\ DOMAIN ns = 1 .. Len(ns)
      /\ \A i \in DOMAIN ns : ns[i] \in 1 .. N
      /\ \A n \in 1 .. N : nodes[n].uri # <<>>
  <2>1. /\ N \in Nat /\ \A n \in 1 .. N : nodes[n] \in NodeSet(N, Len(leafId))
        /\ ns \in Seq(1 .. N) /\ Len(ns) \in Nat /\ DOMAIN ns = 1 .. Len(ns)
        /\ \A i \in DOMAIN ns : ns[i] \in 1 .. N
    BY TrieParts, NodeType
  <2>2. QED
    BY <2>1 DEF NodeSet
<1>2. /\ \A i \in DOMAIN ns : nodes[ns[i]].prev = m
      /\ \A n \in 1 .. N : \E i \in DOMAIN Kids(uri_id, nodes, nodes[n].prev) :
           Kids(uri_id, nodes, nodes[n].prev)[i] = n
  BY TrieParts DEF Linked
<1> HIDE DEF N, ns
<1>3. Taker(ns, part) = IF hits = {} THEN 0 ELSE ns[Min(hits)]
  BY DEF Taker
<1>4. CASE hits = {}
  <2>1. ASSUME NEW c \in 1 .. N, Takes(m, c, part)
        PROVE  FALSE
    <3>1. nodes[c].prev = m /\ nodes[c].uri[1] = part[1]
      BY <2>1 DEF Takes
    <3>2. PICK i \in DOMAIN ns : ns[i] = c
      BY <1>2, <3>1 DEF ns
    <3>3. i \in hits
      BY <1>1, <3>1, <3>2
    <3>4. QED
      BY <1>4, <3>3
  <2>2. QED
    BY <1>3, <1>4, <2>1 DEF ns, N
<1>5. CASE hits # {}
  <2>1. hits \in SUBSET Nat
    BY <1>1
  <2>2. \E i \in hits : \A j \in hits : i <= j
    BY <1>5, <2>1, LeastIndex
  <2>3. Min(hits) \in hits
    <3> HIDE DEF hits
    <3>1. QED
      BY <2>2 DEF Min
  <2>4. /\ Min(hits) \in DOMAIN ns /\ nodes[ns[Min(hits)]].uri[1] = part[1]
    BY <2>3
  <2>5. ns[Min(hits)] \in 1 .. N /\ Takes(m, ns[Min(hits)], part)
    BY <1>1, <1>2, <2>4 DEF Takes
  <2>6. QED
    BY <1>3, <1>5, <2>5 DEF ns, N
<1>6. QED
  BY <1>4, <1>5
------------------------------------------------------------------------------
(***************************************************************************)
(* FindAdd.                                                                *)
(***************************************************************************)

FindStep(f, n, part) ==
  LET uri == nodes[n].uri
      k == Len(LongestCommonPrefix({uri, part}))
      child == Taker(nodes[n].next, From(part, k + 1))
  IN  IF k = Len(part)
        THEN [node |-> n, keep |-> 0, rest |-> part]
        ELSE IF k = Len(uri) /\ child # 0
               THEN f[child][From(part, k + 1)]
               ELSE [node |-> n, keep |-> k, rest |-> From(part, k + 1)]

Finds(f) == f = [n \in DOMAIN nodes |-> [part \in Text |-> FindStep(f, n, part)]]

\* What a step is made of.
LEMMA FindParts ==
  ASSUME NEW path, Trie(path), NEW n \in 1 .. Len(nodes), NEW part \in Text
  PROVE  LET uri == nodes[n].uri
             k == Len(LongestCommonPrefix({uri, part}))
             rest == From(part, k + 1)
             child == Taker(nodes[n].next, rest)
         IN  /\ k \in 0 .. Len(uri) /\ k \in 0 .. Len(part)
             /\ \A i \in 1 .. k : uri[i] = part[i]
             /\ k = Len(uri) \/ k = Len(part) \/ uri[k + 1] # part[k + 1]
             /\ rest \in Text /\ Len(rest) = Len(part) - k
             /\ k # Len(part) => rest[1] = part[k + 1]
             /\ \/ child = 0 /\ \A c \in 1 .. Len(nodes) : ~ Takes(n, c, rest)
                \/ child \in 1 .. Len(nodes) /\ Takes(n, child, rest)
<1> DEFINE uri == nodes[n].uri
           k == Len(LongestCommonPrefix({uri, part}))
           rest == From(part, k + 1)
<1>1. uri \in Text /\ Len(uri) \in Nat /\ n # 0 /\ n \in 0 .. Len(nodes)
  BY TrieParts, NodeType
<1>2. Len(part) \in Nat
  BY TextType
<1>3. /\ k \in 0 .. Len(uri) /\ k \in 0 .. Len(part)
      /\ \A i \in 1 .. k : uri[i] = part[i]
      /\ k = Len(uri) \/ k = Len(part) \/ uri[k + 1] # part[k + 1]
  BY <1>1, CommonLength
<1> HIDE DEF k
<1>4. k + 1 \in 1 .. (Len(part) + 1) /\ Len(part) + 1 - (k + 1) = Len(part) - k
  BY <1>2, <1>3
<1>5. /\ rest \in Text /\ Len(rest) = Len(part) - k
      /\ \A j \in 1 .. (Len(part) - k) : rest[j] = part[k + 1 + j - 1]
  BY <1>4, FromText
<1>6. k # Len(part) => rest[1] = part[k + 1]
  <2>1. k # Len(part) => 1 \in 1 .. (Len(part) - k) /\ k + 1 + 1 - 1 = k + 1
    BY <1>2, <1>3
  <2>2. QED
    BY <1>5, <2>1
<1>7. Kids(uri_id, nodes, n) = nodes[n].next
  BY <1>1 DEF Kids
<1>8. LET child == Taker(nodes[n].next, rest)
      IN  \/ child = 0 /\ \A c \in 1 .. Len(nodes) : ~ Takes(n, c, rest)
          \/ child \in 1 .. Len(nodes) /\ Takes(n, child, rest)
  BY <1>1, <1>7, TakerFinds
<1>9. QED
  BY <1>3, <1>5, <1>6, <1>8 DEF k

LEMMA FindAddIs ==
  ASSUME NEW path, Trie(path)
  PROVE  \A n \in 1 .. Len(nodes) : \A part \in Text : FindAdd[n][part] = FindStep(FindAdd, n, part)
<1>1. PICK R, V, I : /\ R = [node : Nat, keep : Nat, rest : Text]
                     /\ V = [Text -> R]
                     /\ I = 1 .. Len(nodes)
  OBVIOUS
<1>2. DOMAIN nodes = I /\ \A n \in I : n \in Nat
  BY <1>1, TrieParts, NodeType
<1> DEFINE Walk(f, n) == [part \in Text |-> FindStep(f, n, part)]
           Body == [f \in [I -> V] |-> [n \in I |-> Walk(f, n)]]
<1>3. ASSUME NEW n \in I, NEW part \in Text
      PROVE  \/ \E c \in I, r \in Text : nodes[c].prev = n /\ \A f : FindStep(f, n, part) = f[c][r]
             \/ \E r \in R : \A f : FindStep(f, n, part) = r
  <2> DEFINE uri == nodes[n].uri
             k == Len(LongestCommonPrefix({uri, part}))
             rest == From(part, k + 1)
             child == Taker(nodes[n].next, rest)
  <2>1. k \in 0 .. Len(part) /\ rest \in Text /\ (child = 0 \/ (child \in I /\ nodes[child].prev = n))
    <3>1. n \in 1 .. Len(nodes)
      BY <1>1
    <3>2. /\ k \in 0 .. Len(part) /\ rest \in Text
          /\ child = 0 \/ (child \in 1 .. Len(nodes) /\ Takes(n, child, rest))
      BY <3>1, FindParts
    <3> HIDE DEF k, rest, child, uri
    <3>3. QED
      BY <1>1, <3>2 DEF Takes
  <2>2. k \in Nat /\ n \in Nat /\ 0 \in Nat
    BY <1>2, <2>1
  <2>3. \A g : FindStep(g, n, part) = IF k = Len(part)
                                 THEN [node |-> n, keep |-> 0, rest |-> part]
                                 ELSE IF k = Len(uri) /\ child # 0 THEN g[child][rest]
                                        ELSE [node |-> n, keep |-> k, rest |-> rest]
    BY Zenon DEF FindStep
  <2> HIDE DEF k, rest, child, uri
  <2>4. /\ [node |-> n, keep |-> 0, rest |-> part] \in R
        /\ [node |-> n, keep |-> k, rest |-> rest] \in R
    BY <1>1, <2>1, <2>2
  <2>5. CASE k = Len(part)
    <3>1. \A g : FindStep(g, n, part) = [node |-> n, keep |-> 0, rest |-> part]
      BY <2>3, <2>5, Zenon
    <3>2. QED
      BY <2>4, <3>1
  <2>6. CASE k # Len(part) /\ k = Len(uri) /\ child # 0
    <3>1. \A g : FindStep(g, n, part) = g[child][rest]
      BY <2>3, <2>6, Zenon
    <3>2. QED
      BY <2>1, <2>6, <3>1
  <2>7. CASE k # Len(part) /\ ~ (k = Len(uri) /\ child # 0)
    <3>1. \A g : FindStep(g, n, part) = [node |-> n, keep |-> k, rest |-> rest]
      BY <2>3, <2>7, Zenon
    <3>2. QED
      BY <2>4, <3>1
  <2>8. QED
    BY <2>5, <2>6, <2>7
<1>4. ASSUME NEW f \in [I -> V], NEW n \in I, NEW part \in Text
      PROVE  FindStep(f, n, part) \in R
  <2>1. CASE \E c \in I, r \in Text : nodes[c].prev = n /\ \A g : FindStep(g, n, part) = g[c][r]
    <3>1. PICK c \in I, r \in Text : \A g : FindStep(g, n, part) = g[c][r]
      BY <2>1
    <3>2. FindStep(f, n, part) = f[c][r]
      BY <3>1
    <3>3. f[c] \in [Text -> R]
      BY <1>1
    <3>4. QED
      BY <3>2, <3>3
  <2>2. QED
    BY <1>3, <2>1
<1>5. \A f \in [I -> V] : \A n \in I : Walk(f, n) \in V
  BY <1>1, <1>4
<1>6. ASSUME NEW f \in [I -> V], NEW g \in [I -> V], NEW n \in I,
             \A c \in I : nodes[c].prev = n => f[c] = g[c]
      PROVE  Walk(f, n) = Walk(g, n)
  <2>1. ASSUME NEW part \in Text
        PROVE  FindStep(f, n, part) = FindStep(g, n, part)
    <3>1. CASE \E c \in I, r \in Text : nodes[c].prev = n /\ \A h : FindStep(h, n, part) = h[c][r]
      <4>1. PICK c \in I, r \in Text : nodes[c].prev = n /\ \A h : FindStep(h, n, part) = h[c][r]
        BY <3>1
      <4>2. f[c] = g[c]
        BY <1>6, <4>1
      <4>3. FindStep(f, n, part) = f[c][r] /\ FindStep(g, n, part) = g[c][r]
        BY <4>1
      <4>4. QED
        BY <4>2, <4>3
    <3>2. CASE \E r \in R : \A h : FindStep(h, n, part) = r
      BY <3>2
    <3>3. QED
      BY <1>3, <3>1, <3>2
  <2>2. QED
    BY <2>1
<1> HIDE DEF Walk
<1>7. /\ Body \in [[I -> V] -> [I -> V]]
      /\ \A f \in [I -> V] : Body[f] = [n \in I |-> Walk(f, n)]
  BY <1>5
<1>8. \A f, g \in [I -> V] : \A n \in I :
        (\A c \in I : nodes[c].prev = n => f[c] = g[c]) => Body[f][n] = Body[g][n]
  BY <1>6, <1>7
<1> HIDE DEF Body
<1>9. \E v0 : v0 \in V
  <2>1. <<>> \in Text
    BY DEF Text
  <2>2. [node |-> 0, keep |-> 0, rest |-> <<>>] \in R
    BY <1>1, <2>1
  <2>3. [part \in Text |-> [node |-> 0, keep |-> 0, rest |-> <<>>]] \in V
    BY <1>1, <2>2
  <2>4. QED
    BY <2>3
<1>10. PICK f \in [I -> V] : f = Body[f]
  <2>1. Asking(I, V, Body)
    BY <1>1, <1>7, <1>8, <1>9, Zenon DEF Asking
  <2>2. HasSolution(I, V, Body)
    BY <2>1, TrieRecursion
  <2>3. QED
    BY <2>2 DEF HasSolution
<1>11. f = [n \in I |-> Walk(f, n)]
  BY <1>7, <1>10
<1>12. Finds(f)
  BY <1>2, <1>11, Zenon DEF Finds, Walk
<1>13. FindAdd = CHOOSE g : Finds(g)
  BY DEF FindAdd, Finds, FindStep
<1>14. Finds(FindAdd)
  BY <1>12, <1>13, Zenon
<1>15. FindAdd = [n \in I |-> Walk(FindAdd, n)]
  BY <1>2, <1>14, Zenon DEF Finds, Walk
<1>16. ASSUME NEW n \in I, NEW part \in Text
       PROVE  FindAdd[n][part] = FindStep(FindAdd, n, part)
  <2>1. FindAdd[n] = Walk(FindAdd, n)
    BY <1>15
  <2>2. Walk(FindAdd, n)[part] = FindStep(FindAdd, n, part)
    BY DEF Walk
  <2>3. QED
    BY <2>1, <2>2
<1>17. QED
  BY <1>1, <1>16

\* What FindAdd leaves to Add: the word ends within the fragment it got to, or
\* keep characters of the fragment are the word's and none of what follows.
Found(path, full, x) ==
  /\ x.node \in 1 .. Len(nodes)
  /\ x.rest \in Text
  /\ \/ /\ x.keep = 0
        /\ full = path[nodes[x.node].prev] \o x.rest
        /\ Begins(x.rest, nodes[x.node].uri)
     \/ /\ x.keep \in 1 .. Len(nodes[x.node].uri)
        /\ x.rest # <<>>
        /\ full = (path[nodes[x.node].prev] \o SubSeq(nodes[x.node].uri, 1, x.keep)) \o x.rest
        /\ x.keep < Len(nodes[x.node].uri) => nodes[x.node].uri[x.keep + 1] # x.rest[1]
        /\ x.keep = Len(nodes[x.node].uri) => \A c \in 1 .. Len(nodes) : ~ Takes(x.node, c, x.rest)

LEMMA FindAddFinds ==
  ASSUME NEW path, Trie(path), NEW n0 \in 1 .. Len(nodes), NEW part0 \in Text,
         part0 # <<>>, nodes[n0].uri[1] = part0[1]
  PROVE  Found(path, path[nodes[n0].prev] \o part0, FindAdd[n0][part0])
<1> DEFINE Good(n, part) == Found(path, path[nodes[n].prev] \o part, FindAdd[n][part])
           Starts(n, part) == part # <<>> /\ nodes[n].uri[1] = part[1]
           Bad == {k \in Nat : \E n \in 1 .. Len(nodes), part \in Text :
                     k = Len(part) /\ Starts(n, part) /\ ~ Good(n, part)}
<1> SUFFICES ASSUME ~ Good(n0, part0) PROVE FALSE
  OBVIOUS
<1> HIDE DEF Good
<1>1. \A s \in Text : Len(s) \in Nat /\ (s = <<>> <=> Len(s) = 0)
  BY TextType
<1>2. Len(part0) \in Bad
  BY <1>1
<1>3. PICK b \in Bad : \A i \in Bad : b <= i
  BY <1>2, LeastIndex
<1>4. PICK n \in 1 .. Len(nodes), part \in Text : b = Len(part) /\ Starts(n, part) /\ ~ Good(n, part)
  OBVIOUS
<1>5. ASSUME NEW c \in 1 .. Len(nodes), NEW s \in Text, Len(s) < Len(part), Starts(c, s)
      PROVE  Good(c, s)
  <2>1. Len(s) \in Nat /\ Len(part) \in Nat /\ ~ (b <= Len(s))
    BY <1>1, <1>4, <1>5
  <2>2. Len(s) \notin Bad
    BY <1>3, <2>1
  <2>3. QED
    BY <1>5, <2>1, <2>2
<1> HIDE DEF Bad
<1> DEFINE k0 == Len(LongestCommonPrefix({nodes[n].uri, part}))
           rest0 == From(part, k0 + 1)
           child0 == Taker(nodes[n].next, rest0)
<1>6. /\ k0 \in 0 .. Len(nodes[n].uri) /\ k0 \in 0 .. Len(part)
      /\ \A i \in 1 .. k0 : nodes[n].uri[i] = part[i]
      /\ k0 = Len(nodes[n].uri) \/ k0 = Len(part) \/ nodes[n].uri[k0 + 1] # part[k0 + 1]
      /\ rest0 \in Text /\ Len(rest0) = Len(part) - k0
      /\ k0 # Len(part) => rest0[1] = part[k0 + 1]
      /\ \/ child0 = 0 /\ \A c \in 1 .. Len(nodes) : ~ Takes(n, c, rest0)
         \/ child0 \in 1 .. Len(nodes) /\ Takes(n, child0, rest0)
  BY FindParts
<1>7. FindAdd[n][part] = IF k0 = Len(part)
                           THEN [node |-> n, keep |-> 0, rest |-> part]
                           ELSE IF k0 = Len(nodes[n].uri) /\ child0 # 0 THEN FindAdd[child0][rest0]
                                  ELSE [node |-> n, keep |-> k0, rest |-> rest0]
  <2>1. FindAdd[n][part] = FindStep(FindAdd, n, part)
    BY FindAddIs
  <2>2. QED
    BY <2>1, Zenon DEF FindStep
<1>8. PICK uri, k, rest, child, p : /\ uri = nodes[n].uri /\ k = k0 /\ rest = rest0 /\ child = child0
                                    /\ p = path[nodes[n].prev]
  OBVIOUS
<1>9. rest = From(part, k + 1)
  BY <1>8
<1> HIDE DEF k0, rest0, child0
<1>10. /\ uri \in Text /\ Len(uri) \in Nat /\ Len(uri) > 0
       /\ p \in Text /\ path[n] = p \o uri
  <2>1. nodes[n].uri \in Text /\ Len(nodes[n].uri) > 0 /\ nodes[n].prev \in 0 .. Len(nodes)
    BY TrieParts, NodeType
  <2>2. path[nodes[n].prev] \in Text /\ path[n] = path[nodes[n].prev] \o nodes[n].uri
    BY <2>1, TrieParts DEF Spelled
  <2>3. QED
    BY <1>1, <1>8, <2>1, <2>2
<1>11. /\ k \in 1 .. Len(uri) /\ k \in 0 .. Len(uri) /\ k \in 0 .. Len(part) /\ Len(part) \in Nat /\ Len(part) > 0
       /\ rest \in Text /\ Len(rest) = Len(part) - k /\ Len(rest) \in Nat /\ Len(rest) < Len(part)
       /\ k # Len(part) => rest # <<>> /\ rest[1] = part[k + 1]
       /\ \A i \in 1 .. k : uri[i] = part[i]
       /\ k = Len(uri) \/ k = Len(part) \/ uri[k + 1] # part[k + 1]
       /\ \/ child = 0 /\ \A c \in 1 .. Len(nodes) : ~ Takes(n, c, rest)
          \/ child \in 1 .. Len(nodes) /\ Takes(n, child, rest)
  <2>1. /\ k \in 0 .. Len(uri) /\ k \in 0 .. Len(part)
        /\ \A i \in 1 .. k : uri[i] = part[i]
        /\ k = Len(uri) \/ k = Len(part) \/ uri[k + 1] # part[k + 1]
        /\ rest \in Text /\ Len(rest) = Len(part) - k
        /\ k # Len(part) => rest[1] = part[k + 1]
        /\ \/ child = 0 /\ \A c \in 1 .. Len(nodes) : ~ Takes(n, c, rest)
           \/ child \in 1 .. Len(nodes) /\ Takes(n, child, rest)
    BY <1>6, <1>8
  <2>2. Len(part) \in Nat /\ Len(part) > 0 /\ part[1] = uri[1]
    BY <1>1, <1>4, <1>8
  <2>3. k # 0
    <3>1. ASSUME k = 0 PROVE FALSE
      <4>1. k + 1 = 1 /\ k # Len(uri) /\ k # Len(part)
        BY <1>10, <2>2, <3>1
      <4>2. QED
        BY <2>1, <2>2, <4>1
    <3>2. QED
      BY <3>1
  <2>4. k \in 1 .. Len(uri) /\ Len(rest) < Len(part) /\ Len(rest) \in Nat
    BY <1>1, <2>1, <2>2, <2>3
  <2>5. k # Len(part) => rest # <<>>
    <3>1. k # Len(part) => Len(rest) # 0
      BY <2>1, <2>2
    <3>2. QED
      BY <1>1, <2>1, <3>1
  <2>6. QED
    BY <2>1, <2>2, <2>4, <2>5
<1>12. part = SubSeq(uri, 1, k) \o rest /\ SubSeq(uri, 1, k) \in Text
  <2>1. part = SubSeq(part, 1, k) \o rest
    BY <1>9, <1>11, SplitText
  <2>2. /\ SubSeq(part, 1, k) \in Text /\ Len(SubSeq(part, 1, k)) = k
        /\ \A i \in 1 .. k : SubSeq(part, 1, k)[i] = part[i]
    BY <1>11, InitialText
  <2>3. /\ SubSeq(uri, 1, k) \in Text /\ Len(SubSeq(uri, 1, k)) = k
        /\ \A i \in 1 .. k : SubSeq(uri, 1, k)[i] = uri[i]
    BY <1>10, <1>11, InitialText
  <2>4. SubSeq(part, 1, k) = SubSeq(uri, 1, k)
    <3>1. PICK x, y : x = SubSeq(part, 1, k) /\ y = SubSeq(uri, 1, k)
      OBVIOUS
    <3>2. x \in Text /\ y \in Text /\ Len(x) = Len(y) /\ \A i \in 1 .. Len(x) : x[i] = y[i]
      BY <1>11, <2>2, <2>3, <3>1
    <3>3. QED
      BY <3>1, <3>2, TextsEqual
  <2>5. QED
    BY <2>1, <2>3, <2>4
<1>13. p \o part = (p \o SubSeq(uri, 1, k)) \o rest
  <2>1. PICK x : x = SubSeq(uri, 1, k)
    OBVIOUS
  <2>2. x \in Text /\ part = x \o rest
    BY <1>12, <2>1
  <2>3. (p \o x) \o rest = p \o (x \o rest)
    BY <1>10, <1>11, <2>2, ConcatAssociates
  <2>4. QED
    BY <2>1, <2>2, <2>3
<1>14. CASE k = Len(part)
  <2>1. FindAdd[n][part] = [node |-> n, keep |-> 0, rest |-> part]
    BY <1>7, <1>8, <1>14
  <2>2. Begins(part, uri)
    BY <1>11, <1>14 DEF Begins
  <2>3. Found(path, p \o part, [node |-> n, keep |-> 0, rest |-> part])
    BY <1>8, <2>2 DEF Found
  <2>4. QED
    BY <1>4, <1>8, <2>1, <2>3 DEF Good
<1>15. CASE k # Len(part) /\ k = Len(uri) /\ child # 0
  <2>1. FindAdd[n][part] = FindAdd[child][rest]
    BY <1>7, <1>8, <1>15
  <2>2. child \in 1 .. Len(nodes) /\ nodes[child].prev = n /\ nodes[child].uri[1] = rest[1]
    BY <1>11, <1>15 DEF Takes
  <2>3. Good(child, rest)
    BY <1>5, <1>11, <1>15, <2>2
  <2>4. SubSeq(uri, 1, k) = uri
    <3>1. /\ SubSeq(uri, 1, k) \in Text /\ Len(SubSeq(uri, 1, k)) = k
          /\ \A i \in 1 .. k : SubSeq(uri, 1, k)[i] = uri[i]
      BY <1>10, <1>11, InitialText
    <3>2. QED
      BY <1>10, <1>15, <3>1, TextsEqual
  <2>5. path[n] \o rest = p \o part
    BY <1>10, <1>13, <2>4
  <2>6. QED
    BY <1>4, <1>8, <2>1, <2>2, <2>3, <2>5 DEF Good
<1>16. CASE k # Len(part) /\ ~ (k = Len(uri) /\ child # 0)
  <2>1. FindAdd[n][part] = [node |-> n, keep |-> k, rest |-> rest]
    BY <1>7, <1>8, <1>16, Zenon
  <2>2. k < Len(uri) => uri[k + 1] # rest[1]
    BY <1>11, <1>16
  <2>3. k = Len(uri) => \A c \in 1 .. Len(nodes) : ~ Takes(n, c, rest)
    BY <1>11, <1>16
  <2>4. PICK x : x = [node |-> n, keep |-> k, rest |-> rest]
    OBVIOUS
  <2>5. x.node = n /\ x.keep = k /\ x.rest = rest
    BY <2>4
  <2>6. Found(path, p \o part, x)
    BY <1>8, <1>11, <1>13, <1>16, <2>2, <2>3, <2>5 DEF Found
  <2>7. QED
    BY <1>4, <1>8, <2>1, <2>4, <2>6 DEF Good
<1>17. QED
  BY <1>14, <1>15, <1>16
------------------------------------------------------------------------------
(***************************************************************************)
(* Add.                                                                    *)
(***************************************************************************)

\* No word is the beginning of another: what holds of words that end in a
\* character they contain nowhere else, as URIs in angle brackets do.
PrefixFree == \A v, w \in AllWords : IsPrefix(v, w) => v = w

LEMMA AppendedNode ==
  ASSUME NEW N \in Nat, NEW S, NEW f \in [1 .. N -> S], NEW a \in S
  PROVE  /\ Append(f, a) \in Seq(S) /\ Len(Append(f, a)) = N + 1
         /\ \A i \in 1 .. N : Append(f, a)[i] = f[i]
         /\ Append(f, a)[N + 1] = a
<1>1. f \in Seq(S) /\ Len(f) = N
  BY FunctionIsSeq
<1>2. QED
  BY <1>1

LEMMA NodeSetGrows ==
  ASSUME NEW N \in Nat, NEW L \in Nat, NEW x \in NodeSet(N, L)
  PROVE  x \in NodeSet(N + 1, L) /\ x \in NodeSet(N + 1, L + 1) /\ x \in NodeSet(N, L + 1)
<1>1. PICK M, K : M = N + 1 /\ K = L + 1
  OBVIOUS
<1>2. (\A i \in 0 .. N : i \in 0 .. M) /\ (\A i \in 0 .. L : i \in 0 .. K) /\ (\A i \in 1 .. N : i \in 1 .. M)
  BY <1>1
<1>3. Seq(1 .. N) \subseteq Seq(1 .. M)
  BY <1>1
<1>4. x \in NodeSet(M, L) /\ x \in NodeSet(M, K) /\ x \in NodeSet(N, K)
  BY <1>2, <1>3 DEF NodeSet
<1>5. QED
  BY <1>1, <1>4

\* A word continues a node's text where no child does.
Ends(nds, path, m, rest, w) ==
  /\ rest \in Text \ {<<>>}
  /\ w = path[m] \o rest
  /\ \A c \in 1 .. Len(nds) : nds[c].prev = m => nds[c].uri[1] # rest[1]

\* Such a word was not added so far.
LEMMA NotHanded ==
  ASSUME NEW roots, NEW nds, NEW L, NEW path, NEW H, IsTrie(roots, nds, L, path, H),
         NEW m \in 0 .. Len(nds), NEW rest, NEW w \in AllWords, Ends(nds, path, m, rest, w)
  PROVE  H[w] = {}
<1>0. /\ rest \in Text \ {<<>>} /\ w = path[m] \o rest
      /\ \A c \in 1 .. Len(nds) : nds[c].prev = m => nds[c].uri[1] # rest[1]
  BY DEF Ends
<1> SUFFICES ASSUME H[w] # {} PROVE FALSE
  OBVIOUS
<1>1. /\ Shaped(roots, nds, L) /\ Spelled(nds, path) /\ Apart(nds) /\ Handed(nds, L, path, H)
  BY DEF IsTrie
<1>2. PICK n \in 1 .. Len(nds) : path[n] = w
  BY <1>1 DEF Handed
<1>3. n \in 0 .. Len(nds)
  BY <1>1, NodeType
<1>4. PICK s : s = path[m]
  OBVIOUS
<1>5. s \in Text /\ Len(s) \in Nat /\ Len(rest) \in Nat /\ Len(rest) > 0 /\ rest \in Text
  <2>1. s \in Text
    BY <1>1, <1>4 DEF Spelled
  <2>2. QED
    BY <1>0, <2>1, TextType
<1>6. /\ w \in Text /\ Begins(s, w) /\ Len(w) = Len(s) + Len(rest) /\ w[Len(s) + 1] = rest[1]
  <2>1. 1 \in 1 .. Len(rest)
    BY <1>5
  <2>2. QED
    BY <1>0, <1>4, <1>5, <2>1, BeginsConcat, TextConcat
<1>7. m # n
  BY <1>2, <1>4, <1>5, <1>6
<1>8. Leads(nds, path, m, n)
  BY <1>1, <1>3, PathsLead
<1>9. PICK c \in 1 .. Len(nds) : nds[c].prev = m /\ Begins(path[c], w)
  BY <1>2, <1>4, <1>6, <1>7, <1>8 DEF Leads
<1>10. w[Depth(path, nds[c].prev) + 1] = nds[c].uri[1]
  <2>1. ASSUME NEW t \in Text, Begins(path[c], t)
        PROVE  t[Depth(path, nds[c].prev) + 1] = nds[c].uri[1]
    <3>1. Shaped(roots, nds, L) /\ Spelled(nds, path)
      BY <1>1
    <3>2. QED
      BY <2>1, <3>1, PathLetter
  <2>2. QED
    BY <1>6, <1>9, <2>1
<1>11. QED
  BY <1>0, <1>4, <1>6, <1>9, <1>10 DEF Depth

\* A new root.
LEMMA AddRootGrows ==
  ASSUME NEW path, Trie(path), leafId \in Seq(Nat), NEW w \in Text \ {<<>>}, AddRoot(w)
  PROVE  /\ Grown(uri_id, nodes, 0, w, Len(leafId) + 1, uri_id', nodes')
         /\ Shaped(uri_id', nodes', Len(leafId) + 1)
<1>1. PICK N, L, a : N = Len(nodes) /\ L = Len(leafId) /\ a = Node(w, <<>>, 0, L + 1)
  OBVIOUS
<1>2. /\ N \in Nat /\ L \in Nat /\ DOMAIN nodes = 1 .. N
      /\ \A n \in 1 .. N : nodes[n] \in NodeSet(N, L)
      /\ nodes \in Seq(NodeSet(N, L)) /\ uri_id \in Seq(1 .. N)
  BY <1>1, TrieParts, NodeType DEF Shaped
<1>3. nodes' = Append(nodes, a) /\ uri_id' = Append(uri_id, N + 1)
  BY <1>1 DEF AddRoot, NewNode, NewLeaf
<1>4. a.uri = w /\ a.next = <<>> /\ a.prev = 0 /\ a.leaf = L + 1
  BY <1>1 DEF Node
<1>5. a \in NodeSet(N + 1, L + 1)
  <2>1. PICK M, K : M = N + 1 /\ K = L + 1
    OBVIOUS
  <2>2. M \in Nat /\ K \in Nat /\ 0 \in 0 .. M /\ K \in 0 .. K /\ <<>> \in Seq(1 .. M)
    BY <1>2, <2>1
  <2>3. a \in NodeSet(M, K)
    BY <1>1, <2>1, <2>2 DEF Node, NodeSet
  <2>4. QED
    BY <2>1, <2>3
<1>6. /\ nodes' \in Seq(NodeSet(N + 1, L + 1)) /\ Len(nodes') = N + 1
      /\ \A n \in 1 .. N : nodes'[n] = nodes[n]
      /\ nodes'[N + 1] = a
  <2>1. PICK S : S = NodeSet(N + 1, L + 1)
    OBVIOUS
  <2>2. \A n \in 1 .. N : nodes[n] \in S
    BY <1>2, <2>1, NodeSetGrows
  <2>3. nodes \in [1 .. N -> S] /\ a \in S
    BY <1>2, <1>5, <2>1, <2>2
  <2>4. /\ Append(nodes, a) \in Seq(S) /\ Len(Append(nodes, a)) = N + 1
        /\ \A i \in 1 .. N : Append(nodes, a)[i] = nodes[i]
        /\ Append(nodes, a)[N + 1] = a
    <3>1. N \in Nat
      BY <1>2
    <3>2. PICK f : f = nodes
      OBVIOUS
    <3>3. f \in [1 .. N -> S]
      BY <2>3, <3>2
    <3>4. /\ Append(f, a) \in Seq(S) /\ Len(Append(f, a)) = N + 1
          /\ \A i \in 1 .. N : Append(f, a)[i] = f[i]
          /\ Append(f, a)[N + 1] = a
      BY <2>3, <3>1, <3>3, AppendedNode
    <3>5. QED
      BY <3>2, <3>4
  <2>5. QED
    BY <1>3, <2>1, <2>4
<1>7. uri_id' \in Seq(1 .. (N + 1))
  <2>1. PICK M : M = N + 1
    OBVIOUS
  <2>2. Seq(1 .. N) \subseteq Seq(1 .. M) /\ M \in 1 .. M
    BY <1>2, <2>1
  <2>3. QED
    BY <1>2, <1>3, <2>1, <2>2
<1>8. Shaped(uri_id', nodes', L + 1)
  BY <1>2, <1>6, <1>7 DEF Shaped
<1>9. Grown(uri_id, nodes, 0, w, L + 1, uri_id', nodes')
  <2>1. \A x \in 0 .. N : Kids(uri_id', nodes', x) = IF x = 0 THEN Append(Kids(uri_id, nodes, x), N + 1)
                                                            ELSE Kids(uri_id, nodes, x)
    <3>1. \A x \in 0 .. N : x # 0 => x \in 1 .. N
      BY <1>2
    <3>2. QED
      BY <1>3, <1>6, <3>1 DEF Kids
  <2>2. Kids(uri_id', nodes', N + 1) = <<>>
    <3>1. N + 1 # 0
      BY <1>2
    <3>2. QED
      BY <1>4, <1>6, <3>1 DEF Kids
  <2>3. QED
    BY <1>1, <1>4, <1>6, <2>1, <2>2 DEF Grown
<1>10. QED
  BY <1>1, <1>8, <1>9

\* A further child.
LEMMA AddChildGrows ==
  ASSUME NEW path, Trie(path), leafId \in Seq(Nat), NEW q \in 1 .. Len(nodes),
         NEW rest \in Text \ {<<>>}, AddChild(q, rest)
  PROVE  /\ Grown(uri_id, nodes, q, rest, Len(leafId) + 1, uri_id', nodes')
         /\ Shaped(uri_id', nodes', Len(leafId) + 1)
<1>1. PICK N, L, a, b, f : /\ N = Len(nodes) /\ L = Len(leafId) /\ a = Node(rest, <<>>, q, L + 1)
                           /\ b = [nodes[q] EXCEPT !.next = Append(nodes[q].next, N + 1)]
                           /\ f = [nodes EXCEPT ![q].next = Append(@, N + 1)]
  OBVIOUS
<1>2. /\ N \in Nat /\ L \in Nat /\ DOMAIN nodes = 1 .. N /\ q \in 1 .. N
      /\ \A n \in 1 .. N : nodes[n] \in NodeSet(N, L)
      /\ nodes \in Seq(NodeSet(N, L)) /\ uri_id \in Seq(1 .. N)
      /\ nodes[q].next \in Seq(1 .. N)
  BY <1>1, TrieParts, NodeType DEF Shaped
<1>3. nodes' = Append(f, a) /\ uri_id' = uri_id
  BY <1>1 DEF AddChild, NewNode, NewLeaf
<1>4. a.uri = rest /\ a.next = <<>> /\ a.prev = q /\ a.leaf = L + 1
  BY <1>1 DEF Node
<1>5. PICK M, K : M = N + 1 /\ K = L + 1
  OBVIOUS
<1>6. /\ M \in Nat /\ K \in Nat /\ q \in 0 .. M /\ K \in 0 .. K /\ M \in 1 .. M
      /\ <<>> \in Seq(1 .. M) /\ Seq(1 .. N) \subseteq Seq(1 .. M)
  BY <1>2, <1>5
<1>7. a \in NodeSet(M, K)
  BY <1>1, <1>5, <1>6 DEF Node, NodeSet
<1>8. \A n \in 1 .. N : nodes[n] \in NodeSet(M, K)
  BY <1>2, <1>5, NodeSetGrows
<1>9. /\ b.uri = nodes[q].uri /\ b.next = Append(nodes[q].next, M)
      /\ b.prev = nodes[q].prev /\ b.leaf = nodes[q].leaf /\ b \in NodeSet(M, K)
  <2>1. nodes[q] \in NodeSet(M, K)
    BY <1>2, <1>8
  <2>2. Append(nodes[q].next, M) \in Seq(1 .. M)
    BY <1>2, <1>6
  <2>3. QED
    BY <1>1, <1>5, <2>1, <2>2 DEF NodeSet
<1>10. f = [n \in 1 .. N |-> IF n = q THEN b ELSE nodes[n]]
  BY <1>1, <1>2
<1>11. f \in [1 .. N -> NodeSet(M, K)]
  BY <1>8, <1>9, <1>10
<1>12. /\ nodes' \in Seq(NodeSet(M, K)) /\ Len(nodes') = M
       /\ \A n \in 1 .. N : nodes'[n] = f[n]
       /\ nodes'[M] = a
  <2>1. PICK S : S = NodeSet(M, K)
    OBVIOUS
  <2>2. f \in [1 .. N -> S] /\ a \in S
    BY <1>7, <1>11, <2>1
  <2>3. /\ Append(f, a) \in Seq(S) /\ Len(Append(f, a)) = N + 1
        /\ \A i \in 1 .. N : Append(f, a)[i] = f[i]
        /\ Append(f, a)[N + 1] = a
    <3>1. N \in Nat
      BY <1>2
    <3>2. f \in Seq(S) /\ Len(f) = N
      BY <2>2, <3>1, FunctionIsSeq
    <3>3. QED
      BY <2>2, <3>1, <3>2
  <2>4. QED
    BY <1>3, <1>5, <2>1, <2>3
<1>13. Shaped(uri_id', nodes', K)
  BY <1>2, <1>3, <1>6, <1>12 DEF Shaped
<1>14. Grown(uri_id, nodes, q, rest, K, uri_id', nodes')
  <2>1. ASSUME NEW n \in 1 .. N
        PROVE  /\ nodes'[n].uri = nodes[n].uri /\ nodes'[n].prev = nodes[n].prev
               /\ nodes'[n].leaf = nodes[n].leaf
               /\ nodes'[n].next = IF n = q THEN Append(nodes[n].next, M) ELSE nodes[n].next
    BY <1>9, <1>10, <1>12
  <2>2. \A x \in 0 .. N : Kids(uri_id', nodes', x) = IF x = q THEN Append(Kids(uri_id, nodes, x), M)
                                                            ELSE Kids(uri_id, nodes, x)
    <3>1. \A x \in 0 .. N : x # 0 => x \in 1 .. N
      BY <1>2
    <3>2. q # 0
      BY <1>2
    <3>3. QED
      BY <1>3, <2>1, <3>1, <3>2 DEF Kids
  <2>3. Kids(uri_id', nodes', M) = <<>>
    <3>1. M # 0
      BY <1>2, <1>5
    <3>2. QED
      BY <1>4, <1>12, <3>1 DEF Kids
  <2>4. QED
    BY <1>1, <1>4, <1>5, <1>12, <2>1, <2>2, <2>3 DEF Grown
<1>15. QED
  BY <1>1, <1>5, <1>13, <1>14

\* Split in two steps: the node is broken, then it grows the word's child.
Lower(q, keep) == Node(From(nodes[q].uri, keep + 1), nodes[q].next, q, nodes[q].leaf)

Upper(q, keep, next) == Node(SubSeq(nodes[q].uri, 1, keep), next, nodes[q].prev, 0)

Moved(q, upper) ==
  [i \in 1 .. Len(nodes) |->
     IF i = q THEN upper
     ELSE IF nodes[i].prev = q THEN [nodes[i] EXCEPT !.prev = Len(nodes) + 1] ELSE nodes[i]]

Middle(q, keep) == Append(Moved(q, Upper(q, keep, <<Len(nodes) + 1>>)), Lower(q, keep))

\* What of the nodes is where after the first step, and after both.
Fit(N, S) == \A n \in 1 .. N : nodes[n] \in S /\ [nodes[n] EXCEPT !.prev = N + 1] \in S

IsMoved(f, q, N, S, upper) ==
  /\ f \in Seq(S) /\ Len(f) = N
  /\ f[q] = upper
  /\ \A n \in 1 .. N : n # q =>
       /\ f[n].uri = nodes[n].uri /\ f[n].next = nodes[n].next /\ f[n].leaf = nodes[n].leaf
       /\ f[n].prev = IF nodes[n].prev = q THEN N + 1 ELSE nodes[n].prev

LEMMA MovedNodes ==
  ASSUME NEW path, Trie(path), NEW q \in 1 .. Len(nodes), NEW N, N = Len(nodes),
         NEW S, Fit(N, S), NEW upper \in S
  PROVE  IsMoved(Moved(q, upper), q, N, S, upper)
<1>1. PICK f : f = Moved(q, upper)
  OBVIOUS
<1>2. /\ N \in Nat /\ q \in 1 .. N
      /\ \A n \in 1 .. N : nodes[n] \in NodeSet(N, Len(leafId))
  BY TrieParts, NodeType
<1>3. f = [n \in 1 .. N |-> IF n = q THEN upper
                            ELSE IF nodes[n].prev = q THEN [nodes[n] EXCEPT !.prev = N + 1] ELSE nodes[n]]
  BY <1>1 DEF Moved
<1>4. f \in [1 .. N -> S]
  BY <1>3 DEF Fit
<1>5. f \in Seq(S) /\ Len(f) = N
  BY <1>2, <1>4, FunctionIsSeq
<1>6. ASSUME NEW n \in 1 .. N, n # q
      PROVE  /\ f[n].uri = nodes[n].uri /\ f[n].next = nodes[n].next /\ f[n].leaf = nodes[n].leaf
             /\ f[n].prev = IF nodes[n].prev = q THEN N + 1 ELSE nodes[n].prev
  <2>1. nodes[n] \in NodeSet(N, Len(leafId))
    BY <1>2
  <2>2. PICK x : x = nodes[n]
    OBVIOUS
  <2>3. PICK y : y = [x EXCEPT !.prev = N + 1]
    OBVIOUS
  <2>4. y.uri = x.uri /\ y.next = x.next /\ y.leaf = x.leaf /\ y.prev = N + 1
    BY <2>1, <2>2, <2>3 DEF NodeSet
  <2>5. f[n] = IF x.prev = q THEN y ELSE x
    BY <1>3, <1>6, <2>2, <2>3
  <2>6. QED
    BY <2>2, <2>4, <2>5
<1>7. f[q] = upper
  BY <1>2, <1>3
<1>8. QED
  BY <1>1, <1>5, <1>6, <1>7 DEF IsMoved

LEMMA SplitNodes ==
  ASSUME NEW path, Trie(path), leafId \in Seq(Nat), NEW q \in 1 .. Len(nodes),
         NEW keep \in 1 .. (Len(nodes[q].uri) - 1), NEW rest \in Text \ {<<>>}
  PROVE  LET N == Len(nodes)
             L == Len(leafId)
         IN  /\ \A n \in 1 .. N : nodes[n] \in NodeSet(N + 1, L) /\ [nodes[n] EXCEPT !.prev = N + 1] \in NodeSet(N + 1, L)
             /\ \A n \in 1 .. N : nodes[n] \in NodeSet(N + 2, L + 1) /\ [nodes[n] EXCEPT !.prev = N + 1] \in NodeSet(N + 2, L + 1)
             /\ Upper(q, keep, <<N + 1>>) \in NodeSet(N + 1, L)
             /\ Upper(q, keep, <<N + 1, N + 2>>) \in NodeSet(N + 2, L + 1)
             /\ Lower(q, keep) \in NodeSet(N + 1, L)
             /\ Lower(q, keep) \in NodeSet(N + 2, L + 1)
             /\ Node(rest, <<>>, q, L + 1) \in NodeSet(N + 2, L + 1)
<1>1. PICK N, L, M, K, Z : N = Len(nodes) /\ L = Len(leafId) /\ M = N + 1 /\ K = N + 2 /\ Z = L + 1
  OBVIOUS
<1>2. /\ N \in Nat /\ L \in Nat /\ q \in 1 .. N
      /\ \A n \in 1 .. N : nodes[n] \in NodeSet(N, L)
      /\ nodes[q].uri \in Text /\ Len(nodes[q].uri) \in Nat
  BY <1>1, TrieParts, NodeType DEF Shaped
<1>3. /\ M \in Nat /\ K \in Nat /\ Z \in Nat
      /\ \A i \in 0 .. N : i \in 0 .. M /\ i \in 0 .. K
      /\ \A i \in 0 .. L : i \in 0 .. Z
      /\ Seq(1 .. N) \subseteq Seq(1 .. M) /\ Seq(1 .. N) \subseteq Seq(1 .. K)
      /\ M \in 0 .. M /\ M \in 0 .. K /\ Z \in 0 .. Z /\ 0 \in 0 .. L /\ 0 \in 0 .. Z
      /\ <<M>> \in Seq(1 .. M) /\ <<M, K>> \in Seq(1 .. K) /\ <<>> \in Seq(1 .. K)
      /\ q \in 0 .. M /\ q \in 0 .. K
  <2>1. M = N + 1 /\ K = N + 2 /\ Z = L + 1 /\ N \in Nat /\ L \in Nat /\ q \in 1 .. N
    BY <1>1, <1>2
  <2>2. M \in 1 .. M /\ M \in 1 .. K /\ K \in 1 .. K
    BY <2>1
  <2>3. Seq(1 .. N) \subseteq Seq(1 .. M)
    BY <2>1
  <2>4. Seq(1 .. N) \subseteq Seq(1 .. K)
    BY <2>1
  <2>5. <<M>> \in Seq(1 .. M) /\ <<M, K>> \in Seq(1 .. K)
    BY <2>2
  <2>6. QED
    BY <2>1, <2>3, <2>4, <2>5
<1>4. ASSUME NEW n \in 1 .. N
      PROVE  /\ nodes[n] \in NodeSet(M, L) /\ [nodes[n] EXCEPT !.prev = M] \in NodeSet(M, L)
             /\ nodes[n] \in NodeSet(K, Z) /\ [nodes[n] EXCEPT !.prev = M] \in NodeSet(K, Z)
  <2>1. nodes[n] \in NodeSet(N, L)
    BY <1>2
  <2>2. QED
    BY <1>3, <2>1 DEF NodeSet
<1>5. /\ SubSeq(nodes[q].uri, 1, keep) \in Text \ {<<>>}
      /\ From(nodes[q].uri, keep + 1) \in Text \ {<<>>}
  <2>1. PICK u : u = nodes[q].uri
    OBVIOUS
  <2>2. /\ u \in Text /\ Len(u) \in Nat /\ keep \in 0 .. Len(u) /\ keep + 1 \in 1 .. (Len(u) + 1)
        /\ Len(u) + 1 - (keep + 1) > 0 /\ keep > 0
    <3>1. PICK m : m = Len(u)
      OBVIOUS
    <3>2. u \in Text /\ m \in Nat /\ keep \in 1 .. (m - 1)
      BY <1>2, <2>1, <3>1
    <3>3. keep \in 0 .. m /\ keep + 1 \in 1 .. (m + 1) /\ m + 1 - (keep + 1) > 0 /\ keep > 0
      BY <3>2
    <3>4. QED
      BY <3>1, <3>2, <3>3
  <2>3. SubSeq(u, 1, keep) \in Text /\ Len(SubSeq(u, 1, keep)) = keep
    BY <2>2, InitialText
  <2>4. From(u, keep + 1) \in Text /\ Len(From(u, keep + 1)) = Len(u) + 1 - (keep + 1)
    BY <2>2, FromText
  <2>5. SubSeq(u, 1, keep) # <<>>
    BY <2>2, <2>3, TextType
  <2>6. From(u, keep + 1) # <<>>
    BY <2>2, <2>4, TextType
  <2>7. QED
    BY <2>1, <2>3, <2>4, <2>5, <2>6
<1>6. /\ Upper(q, keep, <<M>>) \in NodeSet(M, L)
      /\ Upper(q, keep, <<M, K>>) \in NodeSet(K, Z)
      /\ Lower(q, keep) \in NodeSet(M, L)
      /\ Lower(q, keep) \in NodeSet(K, Z)
  <2>1. /\ nodes[q].prev \in 0 .. N /\ nodes[q].leaf \in 0 .. L /\ nodes[q].next \in Seq(1 .. N)
    BY <1>2 DEF NodeSet
  <2>2. PICK u, v : u = SubSeq(nodes[q].uri, 1, keep) /\ v = From(nodes[q].uri, keep + 1)
    OBVIOUS
  <2>3. u \in Text \ {<<>>} /\ v \in Text \ {<<>>}
    BY <1>5, <2>2
  <2>4. \A next : Upper(q, keep, next) = [uri |-> u, next |-> next, prev |-> nodes[q].prev, leaf |-> 0]
    BY <2>2 DEF Upper, Node
  <2>5. Lower(q, keep) = [uri |-> v, next |-> nodes[q].next, prev |-> q, leaf |-> nodes[q].leaf]
    BY <2>2 DEF Lower, Node
  <2>6. \A x \in Seq(1 .. M) : Upper(q, keep, x) \in NodeSet(M, L)
    BY <1>3, <2>1, <2>3, <2>4 DEF NodeSet
  <2>7. \A x \in Seq(1 .. K) : Upper(q, keep, x) \in NodeSet(K, Z)
    BY <1>3, <2>1, <2>3, <2>4 DEF NodeSet
  <2>8. Lower(q, keep) \in NodeSet(M, L)
    BY <1>3, <2>1, <2>3, <2>5 DEF NodeSet
  <2>9. Lower(q, keep) \in NodeSet(K, Z)
    BY <1>3, <2>1, <2>3, <2>5 DEF NodeSet
  <2>10. QED
    BY <1>3, <2>6, <2>7, <2>8, <2>9
<1>7. Node(rest, <<>>, q, Z) \in NodeSet(K, Z)
  BY <1>3 DEF Node, NodeSet
<1>8. QED
  BY <1>1, <1>4, <1>6, <1>7

LEMMA SplitBreaks ==
  ASSUME NEW path, Trie(path), leafId \in Seq(Nat), NEW q \in 1 .. Len(nodes),
         NEW keep \in 1 .. (Len(nodes[q].uri) - 1)
  PROVE  /\ Broken(uri_id, nodes, q, keep, uri_id, Middle(q, keep))
         /\ Shaped(uri_id, Middle(q, keep), Len(leafId))
<1>1. PICK N, L, M, up, low, f, mid : /\ N = Len(nodes) /\ L = Len(leafId) /\ M = N + 1
                                      /\ up = Upper(q, keep, <<M>>) /\ low = Lower(q, keep)
                                      /\ f = Moved(q, up) /\ mid = Append(f, low)
  OBVIOUS
<1>2. N \in Nat /\ L \in Nat /\ q \in 1 .. N /\ uri_id \in Seq(1 .. N)
  BY <1>1, TrieParts, NodeType DEF Shaped
<1>3. PICK rest : rest \in Text \ {<<>>}
  <2>1. nodes[q].uri \in Text /\ nodes[q].uri # <<>>
    BY TrieParts, NodeType, TextType
  <2>2. QED
    BY <2>1
<1>4. /\ \A n \in 1 .. N : nodes[n] \in NodeSet(M, L) /\ [nodes[n] EXCEPT !.prev = M] \in NodeSet(M, L)
      /\ up \in NodeSet(M, L) /\ low \in NodeSet(M, L)
  BY <1>1, <1>3, SplitNodes
<1>5. PICK S : S = NodeSet(M, L)
  OBVIOUS
<1>6. /\ f \in Seq(S) /\ Len(f) = N /\ f[q] = up
      /\ \A n \in 1 .. N : n # q =>
              /\ f[n].uri = nodes[n].uri /\ f[n].next = nodes[n].next
              /\ f[n].leaf = nodes[n].leaf
              /\ f[n].prev = IF nodes[n].prev = q THEN M ELSE nodes[n].prev
  <2>1. \A n \in 1 .. N : nodes[n] \in S /\ [nodes[n] EXCEPT !.prev = N + 1] \in S
    BY <1>1, <1>4, <1>5
  <2>2. up \in S
    BY <1>4, <1>5
  <2>3. IsMoved(Moved(q, up), q, N, S, up)
    <3>1. N = Len(nodes) /\ Fit(N, S)
      BY <1>1, <2>1 DEF Fit
    <3>2. QED
      BY <2>2, <3>1, MovedNodes
  <2>4. QED
    BY <1>1, <2>3 DEF IsMoved
<1>7. /\ mid \in Seq(S) /\ Len(mid) = M /\ mid[M] = low /\ \A n \in 1 .. N : mid[n] = f[n]
  BY <1>1, <1>2, <1>4, <1>5, <1>6
<1>8. Shaped(uri_id, mid, L)
  <2>1. Seq(1 .. N) \subseteq Seq(1 .. M)
    BY <1>1, <1>2
  <2>2. QED
    BY <1>2, <1>5, <1>7, <2>1 DEF Shaped
<1>9. /\ up.uri = SubSeq(nodes[q].uri, 1, keep) /\ up.next = <<M>> /\ up.prev = nodes[q].prev /\ up.leaf = 0
      /\ low.uri = From(nodes[q].uri, keep + 1) /\ low.next = nodes[q].next /\ low.prev = q
      /\ low.leaf = nodes[q].leaf
  BY <1>1 DEF Upper, Lower, Node
<1>10. /\ \A x \in 0 .. N : x # q => Kids(uri_id, mid, x) = Kids(uri_id, nodes, x)
       /\ Kids(uri_id, mid, q) = <<M>>
       /\ Kids(uri_id, mid, M) = Kids(uri_id, nodes, q)
  <2>1. (\A x \in 0 .. N : x # 0 => x \in 1 .. N) /\ q # 0 /\ M # 0
    BY <1>1, <1>2
  <2>2. QED
    BY <1>2, <1>6, <1>7, <1>9, <2>1 DEF Kids
<1>11. Broken(uri_id, nodes, q, keep, uri_id, mid)
  <2>1. \A n \in 1 .. N : n # q =>
          /\ mid[n].uri = nodes[n].uri /\ mid[n].leaf = nodes[n].leaf
          /\ mid[n].prev = IF nodes[n].prev = q THEN M ELSE nodes[n].prev
    BY <1>6, <1>7
  <2>2. mid[q] = up /\ mid[M] = low
    BY <1>2, <1>6, <1>7
  <2>3. QED
    BY <1>1, <1>7, <1>9, <1>10, <2>1, <2>2 DEF Broken
<1>12. mid = Middle(q, keep)
  BY <1>1 DEF Middle
<1>13. QED
  BY <1>1, <1>8, <1>11, <1>12

LEMMA PairConcat ==
  ASSUME NEW S, NEW a \in Seq(S), NEW b \in Seq(S)
  PROVE  /\ a \o b \in Seq(S) /\ Len(a \o b) = Len(a) + Len(b)
         /\ \A n \in 1 .. Len(a) : (a \o b)[n] = a[n]
         /\ \A n \in 1 .. Len(b) : (a \o b)[Len(a) + n] = b[n]
OBVIOUS

LEMMA AppendPosition ==
  ASSUME NEW S, NEW a \in Seq(S), NEW x \in S
  PROVE  /\ Append(a, x) \in Seq(S)
         /\ Len(Append(a, x)) = Len(a) + 1 /\ Append(a, x)[Len(a) + 1] = x
         /\ \A n \in 1 .. Len(a) : Append(a, x)[n] = a[n]
OBVIOUS

LEMMA OneAndOne ==
  ASSUME NEW a, NEW b
  PROVE  Append(<<a>>, b) = <<a, b>>
<1>1. PICK S : S = {a, b}
  OBVIOUS
<1>2. <<a>> \in Seq(S) /\ b \in S /\ Len(<<a>>) = 1 /\ <<a>>[1] = a
  BY <1>1
<1>3. PICK x, y : x = Append(<<a>>, b) /\ y = <<a, b>>
  OBVIOUS
<1>4. x \in Seq(S) /\ Len(x) = 2 /\ x[1] = a /\ x[2] = b
  BY <1>2, <1>3
<1>5. y \in Seq(S) /\ Len(y) = 2 /\ y[1] = a /\ y[2] = b
  BY <1>1, <1>3
<1>6. \A i \in 1 .. 2 : x[i] = y[i]
  BY <1>4, <1>5
<1>7. x = y
  BY <1>4, <1>5, <1>6
<1>8. QED
  BY <1>3, <1>7

LEMMA ChildrenOf ==
  ASSUME NEW path, Trie(path), NEW q \in 1 .. Len(nodes), NEW i \in 1 .. Len(nodes)
  PROVE  i \in Range(nodes[q].next) <=> nodes[i].prev = q
<1>1. q \in 0 .. Len(nodes) /\ q # 0
  BY TrieParts, NodeType
<1>2. Kids(uri_id, nodes, q) = nodes[q].next
  BY <1>1 DEF Kids
<1>3. \A j \in DOMAIN nodes[q].next : nodes[nodes[q].next[j]].prev = q
  BY <1>1, <1>2, TrieParts DEF Linked
<1>4. ASSUME nodes[i].prev = q
      PROVE  \E j \in DOMAIN nodes[q].next : nodes[q].next[j] = i
  BY <1>2, <1>4, TrieParts DEF Linked
<1>5. QED
  BY <1>3, <1>4 DEF Range

LEMMA SplitGrows ==
  ASSUME NEW path, Trie(path), leafId \in Seq(Nat), NEW q \in 1 .. Len(nodes),
         NEW keep \in 1 .. (Len(nodes[q].uri) - 1), NEW rest \in Text \ {<<>>}, Split(q, keep, rest)
  PROVE  /\ Grown(uri_id, Middle(q, keep), q, rest, Len(leafId) + 1, uri_id', nodes')
         /\ Shaped(uri_id', nodes', Len(leafId) + 1)
<1>1. PICK N, L, M, K, Z, up, up1, low, new, f, g, mid :
        /\ N = Len(nodes) /\ L = Len(leafId) /\ M = N + 1 /\ K = N + 2 /\ Z = L + 1
        /\ up1 = Upper(q, keep, <<M>>) /\ up = Upper(q, keep, <<M, K>>)
        /\ low = Lower(q, keep) /\ new = Node(rest, <<>>, q, Z)
        /\ f = Moved(q, up1) /\ g = Moved(q, up) /\ mid = Append(f, low)
  OBVIOUS
<1>2. N \in Nat /\ L \in Nat /\ q \in 1 .. N /\ uri_id \in Seq(1 .. N) /\ DOMAIN nodes = 1 .. N
  BY <1>1, TrieParts, NodeType DEF Shaped
<1>3. /\ Fit(N, NodeSet(M, L)) /\ Fit(N, NodeSet(K, Z))
      /\ up1 \in NodeSet(M, L) /\ low \in NodeSet(M, L)
      /\ up \in NodeSet(K, Z) /\ low \in NodeSet(K, Z) /\ new \in NodeSet(K, Z)
  BY <1>1, SplitNodes DEF Fit
<1>4. PICK S, T : S = NodeSet(M, L) /\ T = NodeSet(K, Z)
  OBVIOUS
<1>5. IsMoved(f, q, N, S, up1) /\ IsMoved(g, q, N, T, up)
  <2>1. N = Len(nodes) /\ Fit(N, S) /\ Fit(N, T) /\ up1 \in S /\ up \in T
    BY <1>1, <1>3, <1>4
  <2>2. IsMoved(Moved(q, up1), q, N, S, up1)
    BY <2>1, MovedNodes
  <2>3. IsMoved(Moved(q, up), q, N, T, up)
    BY <2>1, MovedNodes
  <2>4. QED
    BY <1>1, <2>2, <2>3
<1>6. nodes' = g \o <<low, new>> /\ uri_id' = uri_id
  <2>1. /\ nodes' = [i \in DOMAIN nodes |->
                     IF i = q
                       THEN Node(SubSeq(nodes[q].uri, 1, keep), <<NewNode, NewNode + 1>>, nodes[q].prev, 0)
                       ELSE IF i \in Range(nodes[q].next)
                              THEN [nodes[i] EXCEPT !.prev = NewNode]
                              ELSE nodes[i]]
                  \o <<Node(From(nodes[q].uri, keep + 1), nodes[q].next, q, nodes[q].leaf),
                       Node(rest, <<>>, q, NewLeaf)>>
        /\ uri_id' = uri_id
    BY Zenon DEF Split
  <2>2. NewNode = M /\ NewNode + 1 = K /\ NewLeaf = Z
    BY <1>1, <1>2 DEF NewNode, NewLeaf
  <2>3. /\ up = Node(SubSeq(nodes[q].uri, 1, keep), <<M, K>>, nodes[q].prev, 0)
        /\ low = Node(From(nodes[q].uri, keep + 1), nodes[q].next, q, nodes[q].leaf)
    BY <1>1 DEF Upper, Lower
  <2>4. g = [i \in 1 .. N |-> IF i = q THEN up
                              ELSE IF nodes[i].prev = q THEN [nodes[i] EXCEPT !.prev = M] ELSE nodes[i]]
    BY <1>1 DEF Moved
  <2>5. \A i \in 1 .. N : i \in Range(nodes[q].next) <=> nodes[i].prev = q
    BY <1>1, ChildrenOf
  <2>6. nodes' = [i \in 1 .. N |-> IF i = q THEN up
                       ELSE IF i \in Range(nodes[q].next) THEN [nodes[i] EXCEPT !.prev = M] ELSE nodes[i]]
                  \o <<low, new>>
    BY <1>1, <1>2, <2>1, <2>2, <2>3, Zenon
  <2>7. [i \in 1 .. N |-> IF i = q THEN up
                       ELSE IF i \in Range(nodes[q].next) THEN [nodes[i] EXCEPT !.prev = M] ELSE nodes[i]] = g
    BY <2>4, <2>5, Zenon
  <2>8. QED
    BY <2>1, <2>6, <2>7
<1>7. /\ nodes' \in Seq(T) /\ Len(nodes') = K
      /\ \A n \in 1 .. N : nodes'[n] = g[n]
      /\ nodes'[M] = low /\ nodes'[K] = new
  <2>1. g \in Seq(T) /\ Len(g) = N /\ low \in T /\ new \in T
    BY <1>3, <1>4, <1>5 DEF IsMoved
  <2>2. PICK two : two = <<low, new>>
    OBVIOUS
  <2>3. two \in Seq(T) /\ Len(two) = 2 /\ two[1] = low /\ two[2] = new
    BY <2>1, <2>2
  <2>4. /\ g \o two \in Seq(T) /\ Len(g \o two) = N + 2
        /\ \A n \in 1 .. N : (g \o two)[n] = g[n]
        /\ \A n \in 1 .. 2 : (g \o two)[N + n] = two[n]
    <3>1. /\ g \o two \in Seq(T) /\ Len(g \o two) = Len(g) + Len(two)
          /\ \A n \in 1 .. Len(g) : (g \o two)[n] = g[n]
          /\ \A n \in 1 .. Len(two) : (g \o two)[Len(g) + n] = two[n]
      <4>1. g \in Seq(T) /\ two \in Seq(T)
        BY <2>1, <2>3
      <4>2. QED
        BY <4>1, PairConcat
    <3>2. QED
      BY <2>1, <2>3, <3>1
  <2>5. (g \o two)[M] = low /\ (g \o two)[K] = new
    <3>1. 1 \in 1 .. 2 /\ 2 \in 1 .. 2 /\ M = N + 1 /\ K = N + 2
      BY <1>1
    <3>2. QED
      BY <2>3, <2>4, <3>1
  <2>6. QED
    BY <1>1, <1>6, <2>2, <2>4, <2>5
<1>8. Shaped(uri_id', nodes', Z)
  <2>1. Seq(1 .. N) \subseteq Seq(1 .. K)
    BY <1>1, <1>2
  <2>2. Z \in Nat
    BY <1>1, <1>2
  <2>3. QED
    BY <1>2, <1>4, <1>6, <1>7, <2>1, <2>2 DEF Shaped
<1>9. /\ Len(mid) = M /\ mid[M] = low /\ \A n \in 1 .. N : mid[n] = f[n]
  <2>1. f \in Seq(S) /\ Len(f) = N /\ low \in S
    BY <1>3, <1>4, <1>5 DEF IsMoved
  <2>2. /\ Len(Append(f, low)) = Len(f) + 1 /\ Append(f, low)[Len(f) + 1] = low
        /\ \A n \in 1 .. Len(f) : Append(f, low)[n] = f[n]
    BY <2>1, AppendPosition
  <2>3. QED
    BY <1>1, <2>1, <2>2
<1>10. /\ up.uri = up1.uri /\ up.prev = up1.prev /\ up.leaf = up1.leaf
       /\ up.next = <<M, K>> /\ up1.next = <<M>>
       /\ new.uri = rest /\ new.next = <<>> /\ new.prev = q /\ new.leaf = Z
  BY <1>1 DEF Upper, Node
<1>11. ASSUME NEW n \in 1 .. M
       PROVE  /\ nodes'[n].uri = mid[n].uri /\ nodes'[n].prev = mid[n].prev /\ nodes'[n].leaf = mid[n].leaf
              /\ n # q => nodes'[n].next = mid[n].next
  <2>1. CASE n = M
    BY <1>7, <1>9, <2>1
  <2>2. CASE n \in 1 .. N /\ n # q
    BY <1>5, <1>7, <1>9, <2>2 DEF IsMoved
  <2>3. CASE n = q
    BY <1>2, <1>5, <1>7, <1>9, <1>10, <2>3 DEF IsMoved
  <2>4. n \in 1 .. N \/ n = M
    BY <1>1, <1>2
  <2>5. QED
    BY <2>1, <2>2, <2>3, <2>4
<1>12. mid[q].next = <<M>> /\ nodes'[q].next = <<M, K>>
  BY <1>2, <1>5, <1>7, <1>9, <1>10 DEF IsMoved
<1>13. /\ \A x \in 0 .. M : Kids(uri_id', nodes', x) = IF x = q THEN Append(Kids(uri_id, mid, x), K)
                                                              ELSE Kids(uri_id, mid, x)
       /\ Kids(uri_id', nodes', K) = <<>>
  <2>1. (\A x \in 0 .. M : x # 0 => x \in 1 .. M) /\ q # 0 /\ K # 0
    BY <1>1, <1>2
  <2>2. Append(<<M>>, K) = <<M, K>>
    BY OneAndOne
  <2>3. QED
    BY <1>6, <1>7, <1>10, <1>11, <1>12, <2>1, <2>2 DEF Kids
<1>14. K = M + 1
  BY <1>1, <1>2
<1>15. Grown(uri_id, mid, q, rest, Z, uri_id', nodes')
  BY <1>7, <1>9, <1>10, <1>11, <1>13, <1>14 DEF Grown
<1>16. mid = Middle(q, keep)
  BY <1>1 DEF Middle
<1>17. QED
  BY <1>1, <1>8, <1>15, <1>16

\* What an Add of a word does to the leaves: the word gets one, or has one.
NewWord(w) ==
  /\ handed[w] = {}
  /\ Added(w) = Len(leafId) + 1
  /\ leafId' = Append(leafId, 0)
  /\ handed' = [handed EXCEPT ![w] = {Len(leafId) + 1}]

KnownWord(w) == handed[w] = {Added(w)} /\ UNCHANGED <<trie, handed>>

TrieNext == \E path : IsTrie(uri_id', nodes', Len(leafId'), path, handed')

LEMMA WordsType ==
  ASSUME NEW w \in AllWords
  PROVE  w \in Text /\ w # <<>> /\ w \in Text \ {<<>>}
BY WordsAssumption

LEMMA NewLeafTrie ==
  ASSUME leafId \in Seq(Nat), NEW w \in AllWords, handed[w] = {}, DOMAIN handed = AllWords,
         Added(w) = Len(leafId) + 1, leafId' = Append(leafId, 0),
         handed' = [handed EXCEPT ![w] = @ \union {Added(w)}],
         NEW path2, IsTrie(uri_id', nodes', Len(leafId) + 1, path2, [handed EXCEPT ![w] = {Len(leafId) + 1}])
  PROVE  TrieNext /\ NewWord(w)
<1>1. handed' = [handed EXCEPT ![w] = {Len(leafId) + 1}]
  OBVIOUS
<1>2. Len(leafId') = Len(leafId) + 1
  OBVIOUS
<1>3. QED
  BY <1>1, <1>2 DEF TrieNext, NewWord

LEMMA AddWordRoot ==
  ASSUME NEW path, Trie(path), leafId \in Seq(Nat), NEW w \in AllWords,
         Taker(uri_id, w) = 0, AddWord(w)
  PROVE  TrieNext /\ NewWord(w)
<1>1. AddRoot(w) /\ Added(w) = Len(leafId) + 1
  BY DEF AddWord, Add, Added, NewLeaf
<1>2. w \in Text \ {<<>>} /\ 0 \in 0 .. Len(nodes) /\ Kids(uri_id, nodes, 0) = uri_id
  <2>1. Len(nodes) \in Nat
    BY TrieParts, NodeType
  <2>2. QED
    BY <2>1, WordsType DEF Kids
<1>3. \A c \in 1 .. Len(nodes) : nodes[c].prev = 0 => nodes[c].uri[1] # w[1]
  <2>1. \/ Taker(uri_id, w) = 0 /\ \A c \in 1 .. Len(nodes) : ~ Takes(0, c, w)
        \/ Taker(uri_id, w) \in 1 .. Len(nodes)
    BY <1>2, TakerFinds
  <2>2. QED
    BY <2>1 DEF Takes
<1>4. w = path[0] \o w
  <2>1. path[0] = <<>>
    BY TrieParts DEF Spelled
  <2>2. <<>> \o w = w
    BY <1>2 DEF Text
  <2>3. QED
    BY <2>1, <2>2
<1>5. IsTrie(uri_id, nodes, Len(leafId), path, handed)
  BY DEF Trie
<1>6. handed[w] = {}
  <2>1. Ends(nodes, path, 0, w, w) /\ 0 \in 0 .. Len(nodes)
    BY <1>2, <1>3, <1>4 DEF Ends
  <2>2. QED
    BY <1>5, <2>1, NotHanded
<1>7. /\ Grown(uri_id, nodes, 0, w, Len(leafId) + 1, uri_id', nodes')
      /\ Shaped(uri_id', nodes', Len(leafId) + 1)
  BY <1>1, <1>2, AddRootGrows
<1>8. \E path2 : IsTrie(uri_id', nodes', Len(leafId) + 1, path2, [handed EXCEPT ![w] = {Len(leafId) + 1}])
  BY <1>2, <1>3, <1>4, <1>5, <1>6, <1>7, GrowTrie
<1>9. /\ DOMAIN handed = AllWords
      /\ leafId' = Append(leafId, 0)
      /\ handed' = [handed EXCEPT ![w] = @ \union {Added(w)}]
  <2>1. handed \in [AllWords -> SUBSET (1 .. Len(leafId))]
    BY TrieParts DEF Handed
  <2>2. QED
    BY <1>1, <2>1 DEF AddWord, AddRoot
<1>10. QED
  BY <1>1, <1>6, <1>8, <1>9, NewLeafTrie

LEMMA AddWordFound ==
  ASSUME PrefixFree, NEW path, Trie(path), leafId \in Seq(Nat), NEW w \in AllWords,
         Taker(uri_id, w) # 0, AddWord(w)
  PROVE  \/ TrieNext /\ NewWord(w)
         \/ TrieNext /\ KnownWord(w)
<1>1. PICK t : t = Taker(uri_id, w)
  OBVIOUS
<1>2. /\ w \in Text /\ w # <<>> /\ w \in Text \ {<<>>}
      /\ Len(nodes) \in Nat /\ 0 \in 0 .. Len(nodes) /\ Kids(uri_id, nodes, 0) = uri_id
  <2>1. Len(nodes) \in Nat
    BY TrieParts, NodeType
  <2>2. QED
    BY <2>1, WordsType DEF Kids
<1>3. t \in 1 .. Len(nodes) /\ nodes[t].prev = 0 /\ nodes[t].uri[1] = w[1]
  <2>1. \/ Taker(uri_id, w) = 0
        \/ Taker(uri_id, w) \in 1 .. Len(nodes) /\ Takes(0, Taker(uri_id, w), w)
    BY <1>2, TakerFinds
  <2>2. QED
    BY <1>1, <2>1 DEF Takes
<1>4. w = path[0] \o w
  <2>1. path[0] = <<>>
    BY TrieParts DEF Spelled
  <2>2. <<>> \o w = w
    BY <1>2 DEF Text
  <2>3. QED
    BY <2>1, <2>2
<1>5. IsTrie(uri_id, nodes, Len(leafId), path, handed)
  BY DEF Trie
<1>6. PICK x : x = FindAdd[t][w]
  OBVIOUS
<1>7. At(w) = x
  BY <1>1, <1>6 DEF At
<1>8. Found(path, w, x)
  <2>1. Found(path, path[nodes[t].prev] \o w, FindAdd[t][w])
    BY <1>2, <1>3, FindAddFinds
  <2>2. QED
    BY <1>3, <1>4, <1>6, <2>1
<1>9. PICK q, keep, rest, uri, p : /\ q = x.node /\ keep = x.keep /\ rest = x.rest
                                   /\ uri = nodes[x.node].uri /\ p = path[nodes[x.node].prev]
  OBVIOUS
<1>10. /\ q \in 1 .. Len(nodes) /\ q \in 0 .. Len(nodes) /\ rest \in Text /\ uri = nodes[q].uri /\ p = path[nodes[q].prev]
       /\ uri \in Text /\ Len(uri) \in Nat /\ Len(uri) > 0 /\ p \in Text /\ path[q] \in Text
       /\ path[q] = p \o uri
       /\ nodes[q].leaf \in 0 .. Len(leafId)
  <2>1. q \in 1 .. Len(nodes) /\ rest \in Text /\ uri = nodes[q].uri /\ p = path[nodes[q].prev]
    BY <1>8, <1>9 DEF Found
  <2>2. /\ uri \in Text /\ Len(uri) \in Nat /\ Len(uri) > 0 /\ nodes[q].prev \in 0 .. Len(nodes)
        /\ nodes[q].leaf \in 0 .. Len(leafId)
    BY <2>1, TrieParts, NodeType
  <2>3. q \in 0 .. Len(nodes)
    BY <1>2, <2>1
  <2>4. /\ path \in [0 .. Len(nodes) -> Text]
        /\ \A n \in 1 .. Len(nodes) : path[n] = path[nodes[n].prev] \o nodes[n].uri
    BY TrieParts DEF Spelled
  <2>5. QED
    BY <2>1, <2>2, <2>3, <2>4
<1>11. \/ keep = 0 /\ w = p \o rest /\ Begins(rest, uri)
       \/ /\ keep \in 1 .. Len(uri)
          /\ rest # <<>>
          /\ w = (p \o SubSeq(uri, 1, keep)) \o rest
          /\ keep < Len(uri) => uri[keep + 1] # rest[1]
          /\ keep = Len(uri) => \A c \in 1 .. Len(nodes) : ~ Takes(q, c, rest)
  BY <1>8, <1>9 DEF Found
<1>12. PICK part1 : part1 = From(uri, keep + 1)
  OBVIOUS
<1>13. /\ Added(w) = IF part1 = rest /\ nodes[q].leaf # 0 THEN nodes[q].leaf ELSE Len(leafId) + 1
       /\ part1 = rest => AddHere(q)
       /\ part1 # rest /\ part1 = <<>> => AddChild(q, rest)
       /\ part1 # rest /\ part1 # <<>> => Split(q, keep, rest)
  <2>1. Added(w) = IF part1 = rest /\ nodes[q].leaf # 0 THEN nodes[q].leaf ELSE Len(leafId) + 1
    BY <1>7, <1>9, <1>12 DEF Added, NewLeaf
  <2>2. Add(w)
    BY DEF AddWord
  <2>3. IF part1 = rest THEN AddHere(q) ELSE IF part1 = <<>> THEN AddChild(q, rest) ELSE Split(q, keep, rest)
    BY <1>7, <1>9, <1>12, <2>2, Zenon DEF Add
  <2>4. QED
    BY <2>1, <2>3
<1>14. /\ handed \in [AllWords -> SUBSET (1 .. Len(leafId))]
       /\ handed' = [handed EXCEPT ![w] = @ \union {Added(w)}]
  BY TrieParts DEF Handed, AddWord
<1>15. CASE keep = 0 /\ w = p \o rest /\ Begins(rest, uri)
  <2>1. Begins(w, path[q])
    BY <1>10, <1>15, BeginsConcat
  <2>2. PICK v \in AllWords : handed[v] # {} /\ Begins(path[q], v)
    BY <1>10, TrieParts DEF Handed
  <2>3. v \in Text
    BY WordsType
  <2>4. Begins(w, v)
    BY <1>2, <1>10, <2>1, <2>2, <2>3, BeginsOrder
  <2>5. w = v
    BY <1>2, <2>3, <2>4, PrefixByPosition DEF PrefixFree
  <2>6. path[q] = w
    <3>1. Len(w) <= Len(path[q])
      BY <2>1 DEF Begins
    <3>2. Begins(path[q], w)
      BY <2>2, <2>5
    <3>3. QED
      BY <1>2, <1>10, <3>1, <3>2, BeginsOrder
  <2>7. rest = uri
    <3>1. Len(p \o rest) = Len(p) + Len(rest) /\ Len(p \o uri) = Len(p) + Len(uri)
      BY <1>10, TextConcat
    <3>2. Len(p) \in Nat /\ Len(rest) \in Nat
      BY <1>10, TextType
    <3>3. Len(uri) <= Len(rest)
      <4>1. Len(p) + Len(rest) = Len(p) + Len(uri) /\ Len(uri) \in Nat
        BY <1>10, <1>15, <2>6, <3>1
      <4>2. QED
        BY <3>2, <4>1
    <3>4. QED
      BY <1>10, <1>15, <3>3, BeginsOrder
  <2>8. part1 = rest
    <3>1. From(uri, 1) = uri
      <4>1. 1 \in 1 .. (Len(uri) + 1) /\ Len(uri) + 1 - 1 = Len(uri)
        BY <1>10
      <4>2. /\ From(uri, 1) \in Text /\ Len(From(uri, 1)) = Len(uri)
            /\ \A j \in 1 .. Len(uri) : From(uri, 1)[j] = uri[1 + j - 1]
        BY <1>10, <4>1, FromText
      <4>3. \A j \in 1 .. Len(uri) : 1 + j - 1 = j
        BY <1>10
      <4>4. PICK y : y = From(uri, 1)
        OBVIOUS
      <4>5. y \in Text /\ Len(y) = Len(uri) /\ \A j \in 1 .. Len(y) : y[j] = uri[j]
        BY <4>2, <4>3, <4>4
      <4>6. y = uri
        BY <1>10, <4>5, TextsEqual
      <4>7. QED
        BY <4>4, <4>6
    <3>2. QED
      BY <1>12, <1>15, <2>7, <3>1
  <2>9. nodes[q].leaf # 0
    <3>1. PICK n \in 1 .. Len(nodes) : nodes[n].leaf # 0 /\ path[n] = w
      BY <2>2, <2>5, TrieParts DEF Handed
    <3>2. n \in 0 .. Len(nodes) /\ path[n] = path[q]
      BY <1>2, <2>6, <3>1
    <3>3. n = q
      <4>1. Shaped(uri_id, nodes, Len(leafId)) /\ Spelled(nodes, path) /\ Apart(nodes)
        BY TrieParts
      <4>2. n \in 0 .. Len(nodes) /\ q \in 0 .. Len(nodes) /\ path[n] = path[q]
        BY <1>10, <3>2
      <4>3. QED
        BY <4>1, <4>2, PathsDiffer
    <3>4. QED
      BY <3>1, <3>3
  <2>10. Added(w) = nodes[q].leaf /\ UNCHANGED trie
    BY <1>13, <2>8, <2>9 DEF AddHere
  <2>11. handed[w] = {Added(w)}
    BY <1>10, <2>6, <2>9, <2>10, TrieParts DEF Handed
  <2>12. handed' = handed
    BY <1>14, <2>11
  <2>13. IsTrie(uri_id', nodes', Len(leafId'), path, handed')
    BY <1>5, <2>10, <2>12 DEF trie
  <2>14. QED
    BY <2>10, <2>11, <2>12, <2>13 DEF KnownWord, TrieNext
<1>16. CASE /\ keep \in 1 .. Len(uri)
            /\ rest # <<>>
            /\ w = (p \o SubSeq(uri, 1, keep)) \o rest
            /\ keep < Len(uri) => uri[keep + 1] # rest[1]
            /\ keep = Len(uri) => \A c \in 1 .. Len(nodes) : ~ Takes(q, c, rest)
  <2>1. /\ part1 \in Text /\ (part1 = <<>> <=> keep = Len(uri))
        /\ keep < Len(uri) => part1[1] = uri[keep + 1]
        /\ keep \in 0 .. Len(uri)
    <3>1. keep + 1 \in 1 .. (Len(uri) + 1) /\ keep \in 0 .. Len(uri) /\ Len(uri) + 1 - (keep + 1) = Len(uri) - keep
      <4>1. Len(uri) \in Nat /\ keep \in 1 .. Len(uri)
        BY <1>10, <1>16
      <4>2. QED
        BY <4>1
    <3>2. /\ part1 \in Text /\ Len(part1) = Len(uri) - keep
          /\ \A j \in 1 .. (Len(uri) - keep) : part1[j] = uri[keep + 1 + j - 1]
      BY <1>10, <1>12, <3>1, FromText
    <3>3. part1 = <<>> <=> keep = Len(uri)
      <4>1. part1 = <<>> <=> Len(part1) = 0
        BY <3>2, TextType
      <4>2. QED
        BY <1>10, <3>1, <3>2, <4>1
    <3>4. keep < Len(uri) => 1 \in 1 .. (Len(uri) - keep) /\ keep + 1 + 1 - 1 = keep + 1
      BY <1>10, <3>1
    <3>5. QED
      BY <3>1, <3>2, <3>3, <3>4
  <2>2. part1 # rest
    <3>1. keep < Len(uri) \/ keep = Len(uri)
      BY <1>10, <1>16
    <3>2. QED
      BY <1>16, <2>1, <3>1
  <2>3. Added(w) = Len(leafId) + 1 /\ rest \in Text \ {<<>>}
    BY <1>10, <1>13, <1>16, <2>2
  <2>4. CASE keep = Len(uri)
    <3>1. AddChild(q, rest)
      BY <1>13, <2>1, <2>2, <2>4
    <3>2. w = path[q] \o rest
      <4>1. /\ SubSeq(uri, 1, keep) \in Text /\ Len(SubSeq(uri, 1, keep)) = keep
            /\ \A i \in 1 .. keep : SubSeq(uri, 1, keep)[i] = uri[i]
        BY <1>10, <2>1, InitialText
      <4>2. SubSeq(uri, 1, keep) = uri
        BY <1>10, <2>4, <4>1, TextsEqual
      <4>3. QED
        BY <1>10, <1>16, <4>2
    <3>3. \A c \in 1 .. Len(nodes) : nodes[c].prev = q => nodes[c].uri[1] # rest[1]
      BY <1>16, <2>4 DEF Takes
    <3>4. handed[w] = {}
      <4>1. Ends(nodes, path, q, rest, w) /\ q \in 0 .. Len(nodes)
        BY <1>10, <2>3, <3>2, <3>3 DEF Ends
      <4>2. QED
        BY <1>5, <4>1, NotHanded
    <3>5. /\ Grown(uri_id, nodes, q, rest, Len(leafId) + 1, uri_id', nodes')
          /\ Shaped(uri_id', nodes', Len(leafId) + 1)
      BY <1>10, <2>3, <3>1, AddChildGrows
    <3>6. PICK path2 : IsTrie(uri_id', nodes', Len(leafId) + 1, path2, [handed EXCEPT ![w] = {Len(leafId) + 1}])
      BY <1>5, <1>10, <2>3, <3>2, <3>3, <3>4, <3>5, GrowTrie
    <3>7. leafId' = Append(leafId, 0) /\ DOMAIN handed = AllWords
      BY <1>14, <3>1 DEF AddChild
    <3>8. QED
      BY <1>14, <2>3, <3>4, <3>6, <3>7, NewLeafTrie
  <2>5. CASE keep # Len(uri)
    <3>1. Split(q, keep, rest)
      BY <1>13, <2>1, <2>2, <2>5
    <3>2. keep \in 1 .. (Len(nodes[q].uri) - 1) /\ keep < Len(uri)
      BY <1>10, <1>16, <2>5
    <3>3. PICK mid : mid = Middle(q, keep)
      OBVIOUS
    <3>4. /\ Broken(uri_id, nodes, q, keep, uri_id, mid)
          /\ Shaped(uri_id, mid, Len(leafId))
      BY <1>10, <3>2, <3>3, SplitBreaks
    <3>5. PICK path1 : /\ IsTrie(uri_id, mid, Len(leafId), path1, handed)
                       /\ path1[q] = path[nodes[q].prev] \o SubSeq(nodes[q].uri, 1, keep)
      <4>1. q \in 1 .. Len(nodes) /\ keep \in 1 .. (Len(nodes[q].uri) - 1)
        BY <1>10, <3>2
      <4>2. BrokenTrie(uri_id, mid, Len(leafId), handed, q, path[nodes[q].prev] \o SubSeq(nodes[q].uri, 1, keep))
        BY <1>5, <3>4, <4>1, BreakTrie
      <4>3. QED
        BY <4>2 DEF BrokenTrie
    <3>6. /\ Len(mid) = Len(nodes) + 1 /\ q \in 0 .. Len(mid)
          /\ w = path1[q] \o rest
      BY <1>2, <1>10, <1>16, <3>4, <3>5 DEF Broken
    <3>7. \A c \in 1 .. Len(mid) : mid[c].prev = q => mid[c].uri[1] # rest[1]
      <4>1. nodes[q].prev # q
        <5>1. Depth(path, nodes[q].prev) < Depth(path, q) /\ Depth(path, q) \in Nat
          BY <1>10, TrieParts, PathType
        <5>2. QED
          BY <5>1
      <4>2. ASSUME NEW c \in 1 .. Len(mid), mid[c].prev = q
            PROVE  mid[c].uri[1] # rest[1]
        <5>1. c \in 1 .. Len(nodes) \/ c = Len(nodes) + 1
          BY <1>2, <3>6
        <5>2. Len(nodes) + 1 # q
          BY <1>2, <1>10
        <5>3. c = Len(nodes) + 1
          BY <3>4, <4>1, <4>2, <5>1, <5>2 DEF Broken
        <5>4. mid[c].uri = part1
          BY <1>10, <1>12, <3>4, <5>3 DEF Broken
        <5>5. QED
          BY <1>16, <2>1, <3>2, <5>4
      <4>3. QED
        BY <4>2
    <3>8. handed[w] = {}
      <4>1. Ends(mid, path1, q, rest, w) /\ q \in 0 .. Len(mid)
        BY <2>3, <3>6, <3>7 DEF Ends
      <4>2. QED
        BY <3>5, <4>1, NotHanded
    <3>9. /\ Grown(uri_id, mid, q, rest, Len(leafId) + 1, uri_id', nodes')
          /\ Shaped(uri_id', nodes', Len(leafId) + 1)
      BY <1>10, <2>3, <3>1, <3>2, <3>3, SplitGrows
    <3>10. PICK path2 : IsTrie(uri_id', nodes', Len(leafId) + 1, path2, [handed EXCEPT ![w] = {Len(leafId) + 1}])
      BY <2>3, <3>5, <3>6, <3>7, <3>8, <3>9, GrowTrie
    <3>11. leafId' = Append(leafId, 0) /\ DOMAIN handed = AllWords
      BY <1>14, <3>1 DEF Split
    <3>12. QED
      BY <1>14, <2>3, <3>8, <3>10, <3>11, NewLeafTrie
  <2>6. QED
    BY <2>4, <2>5
<1>17. QED
  BY <1>11, <1>15, <1>16

LEMMA AddWordTrie ==
  ASSUME PrefixFree, NEW path, Trie(path), leafId \in Seq(Nat), NEW w \in AllWords, AddWord(w)
  PROVE  TrieNext /\ (NewWord(w) \/ KnownWord(w))
BY AddWordRoot, AddWordFound
------------------------------------------------------------------------------
(***************************************************************************)
(* Induction along the trie, and what GetUri spells.                       *)
(***************************************************************************)

\* A set of nodes that a node is in when its parent is, or has none.
LEMMA TrieDescent ==
  ASSUME NEW path, Trie(path), NEW S,
         \A n \in 1 .. Len(nodes) : nodes[n].prev = 0 \/ nodes[n].prev \in S => n \in S
  PROVE  \A n \in 1 .. Len(nodes) : n \in S
<1> DEFINE I == 1 .. Len(nodes)
           D(n) == Depth(path, n)
           Bad == {k \in Nat : \E n \in I : k = D(n) /\ n \notin S}
<1> SUFFICES ASSUME NEW n0 \in I, n0 \notin S PROVE FALSE
  OBVIOUS
<1>1. /\ \A n \in I : nodes[n].prev \in 0 .. Len(nodes) /\ D(n) \in Nat
      /\ \A n \in I : D(nodes[n].prev) < D(n) /\ D(nodes[n].prev) \in Nat
      /\ Len(nodes) \in Nat
  <2>1. /\ \A n \in I : nodes[n].prev \in 0 .. Len(nodes) /\ n \in 0 .. Len(nodes)
        /\ Len(nodes) \in Nat
    BY TrieParts, NodeType
  <2>2. /\ \A n \in 0 .. Len(nodes) : D(n) \in Nat
        /\ \A n \in I : D(nodes[n].prev) < D(n)
    BY TrieParts, PathType
  <2>3. QED
    BY <2>1, <2>2
<1> HIDE DEF D
<1>2. D(n0) \in Bad
  BY <1>1
<1>3. PICK k \in Bad : \A j \in Bad : k <= j
  BY <1>2, LeastIndex
<1>4. PICK n \in I : k = D(n) /\ n \notin S
  OBVIOUS
<1>5. nodes[n].prev # 0 /\ nodes[n].prev \notin S
  BY <1>4
<1>6. PICK m : m = nodes[n].prev
  OBVIOUS
<1>7. m \in I /\ D(m) \in Nat /\ D(m) < k
  BY <1>1, <1>4, <1>5, <1>6
<1>8. D(m) \in Bad
  BY <1>5, <1>6, <1>7
<1>9. QED
  BY <1>3, <1>7, <1>8

\* A set of nodes that a node is in when its children are.
LEMMA TrieClimb ==
  ASSUME NEW path, Trie(path), NEW S,
         \A n \in 1 .. Len(nodes) :
           (\A c \in 1 .. Len(nodes) : nodes[c].prev = n => c \in S) => n \in S
  PROVE  \A n \in 1 .. Len(nodes) : n \in S
<1> DEFINE I == 1 .. Len(nodes)
<1> SUFFICES ASSUME NEW n0 \in I, n0 \notin S PROVE FALSE
  OBVIOUS
<1>1. PICK mu : Lowers(mu, nodes)
  BY TrieParts, TrieLowers
<1>2. /\ mu \in [I -> Nat]
      /\ \A c \in I : nodes[c].prev # 0 => mu[c] < mu[nodes[c].prev]
      /\ 0 \notin I
  BY <1>1 DEF Lowers
<1> DEFINE Bad == {k \in Nat : \E n \in I : k = mu[n] /\ n \notin S}
<1>3. mu[n0] \in Bad
  BY <1>2
<1>4. PICK k \in Bad : \A j \in Bad : k <= j
  BY <1>3, LeastIndex
<1>5. PICK n \in I : k = mu[n] /\ n \notin S
  OBVIOUS
<1>6. PICK c \in I : nodes[c].prev = n /\ c \notin S
  BY <1>5
<1>7. mu[c] \in Nat /\ mu[c] < k /\ k \in Nat
  BY <1>2, <1>5, <1>6
<1>8. mu[c] \in Bad
  BY <1>6, <1>7
<1>9. k <= mu[c]
  <2> HIDE DEF Bad
  <2>1. QED
    BY <1>4, <1>8
<1>10. PICK j, h \in Nat : j = mu[c] /\ h = k
  BY <1>7
<1>11. j < h /\ h <= j
  BY <1>7, <1>9, <1>10
<1>12. QED
  BY <1>11

Spells(f) == f = [n \in DOMAIN nodes |-> IF nodes[n].prev = 0 THEN nodes[n].uri ELSE f[nodes[n].prev] \o nodes[n].uri]

\* GetUri gives back what leads to a node.
LEMMA SpellingIsPath ==
  ASSUME NEW path, Trie(path)
  PROVE  \A n \in 1 .. Len(nodes) : GetUri(n) = path[n]
<1> DEFINE I == 1 .. Len(nodes)
           f == [n \in I |-> path[n]]
<1>1. /\ DOMAIN nodes = I
      /\ \A n \in I : nodes[n].prev \in 0 .. Len(nodes) /\ nodes[n].uri \in Text
      /\ Len(nodes) \in Nat
  BY TrieParts, NodeType
<1>2. path[0] = <<>> /\ \A n \in I : path[n] = path[nodes[n].prev] \o nodes[n].uri
  BY TrieParts DEF Spelled
<1>3. \A n \in I : path[n] = IF nodes[n].prev = 0 THEN nodes[n].uri ELSE path[nodes[n].prev] \o nodes[n].uri
  <2>1. \A n \in I : <<>> \o nodes[n].uri = nodes[n].uri
    BY <1>1 DEF Text
  <2>2. QED
    BY <1>2, <2>1
<1>4. \A n \in I : nodes[n].prev # 0 => nodes[n].prev \in I
  BY <1>1
<1>5. Spells(f)
  BY <1>1, <1>3, <1>4 DEF Spells
<1>6. Spelling = CHOOSE g : Spells(g)
  BY DEF Spelling, Spells
<1>7. Spells(Spelling)
  BY <1>5, <1>6, Zenon
<1>8. \A n \in I : Spelling[n] = IF nodes[n].prev = 0 THEN nodes[n].uri ELSE Spelling[nodes[n].prev] \o nodes[n].uri
  BY <1>1, <1>7 DEF Spells
<1> DEFINE S == {n \in I : Spelling[n] = path[n]}
<1>9. ASSUME NEW n \in I, nodes[n].prev = 0 \/ nodes[n].prev \in S
      PROVE  n \in S
  BY <1>3, <1>8, <1>9
<1>10. \A n \in I : n \in S
  <2> HIDE DEF S
  <2>1. QED
    BY <1>9, TrieDescent
<1>11. QED
  BY <1>10 DEF GetUri
------------------------------------------------------------------------------
(***************************************************************************)
(* Get.                                                                    *)
(***************************************************************************)

LEMMA FirstIdType ==
  ASSUME NEW k \in Nat, NEW ids, DOMAIN ids = 1 .. k
  PROVE  /\ FirstId(ids) = 0 \/ \E i \in 1 .. k : FirstId(ids) = ids[i]
         /\ (\A i \in 1 .. k : ids[i] = 0) => FirstId(ids) = 0
         /\ \A i \in 1 .. k : (\A j \in 1 .. k : j # i => ids[j] = 0) => FirstId(ids) = ids[i]
<1> DEFINE hits == {i \in DOMAIN ids : ids[i] # 0}
<1>1. FirstId(ids) = IF hits = {} THEN 0 ELSE ids[Min(hits)]
  BY DEF FirstId
<1>2. ASSUME hits # {}
      PROVE  Min(hits) \in hits
  <2>1. hits \in SUBSET Nat
    OBVIOUS
  <2>2. \E i \in hits : \A j \in hits : i <= j
    BY <1>2, <2>1, LeastIndex
  <2> HIDE DEF hits
  <2>3. QED
    BY <2>2 DEF Min
<1>3. CASE hits = {}
  <2>1. \A i \in 1 .. k : ids[i] = 0
    BY <1>3
  <2>2. QED
    BY <1>1, <1>3, <2>1
<1>4. CASE hits # {}
  <2>1. PICK h : h = Min(hits)
    OBVIOUS
  <2>2. h \in 1 .. k /\ ids[h] # 0
    BY <1>2, <1>4, <2>1
  <2>3. FirstId(ids) = ids[h]
    BY <1>1, <1>4, <2>1
  <2>4. QED
    BY <2>2, <2>3
<1>5. QED
  BY <1>3, <1>4

GetStep(f, n, word) ==
  IF nodes[n].uri = <<>> \/ ~IsPrefix(nodes[n].uri, word)
    THEN 0
    ELSE IF nodes[n].uri = word
           THEN IF nodes[n].leaf = 0 THEN 0 ELSE leafId[nodes[n].leaf]
           ELSE FirstId([i \in DOMAIN nodes[n].next |->
                           f[nodes[n].next[i]][From(word, Len(nodes[n].uri) + 1)]])

Gets(f) == f = [n \in DOMAIN nodes |-> [word \in Text |-> GetStep(f, n, word)]]

LEMMA NodeGetIs ==
  ASSUME NEW path, Trie(path), leafId \in Seq(Nat)
  PROVE  \A n \in 1 .. Len(nodes) : \A word \in Text : NodeGet[n][word] = GetStep(NodeGet, n, word)
<1>1. PICK V, I : V = [Text -> Nat] /\ I = 1 .. Len(nodes)
  OBVIOUS
<1>2. /\ DOMAIN nodes = I /\ Len(nodes) \in Nat /\ 0 \notin I
      /\ \A n \in I : /\ nodes[n].uri \in Text /\ nodes[n].leaf \in 0 .. Len(leafId)
                      /\ Len(nodes[n].next) \in Nat
                      /\ DOMAIN nodes[n].next = 1 .. Len(nodes[n].next)
                      /\ \A i \in DOMAIN nodes[n].next : nodes[n].next[i] \in I /\ nodes[nodes[n].next[i]].prev = n
  <2>1. /\ DOMAIN nodes = I /\ Len(nodes) \in Nat
        /\ \A n \in I : nodes[n].uri \in Text /\ nodes[n].leaf \in 0 .. Len(leafId)
    BY <1>1, TrieParts, NodeType
  <2>2. \A n \in I : n \in 0 .. Len(nodes) /\ n # 0 /\ Kids(uri_id, nodes, n) = nodes[n].next
    BY <1>1, <2>1 DEF Kids
  <2>3. \A m \in 0 .. Len(nodes) :
              /\ Len(Kids(uri_id, nodes, m)) \in Nat
              /\ DOMAIN Kids(uri_id, nodes, m) = 1 .. Len(Kids(uri_id, nodes, m))
              /\ \A i \in DOMAIN Kids(uri_id, nodes, m) :
                   Kids(uri_id, nodes, m)[i] \in I /\ nodes[Kids(uri_id, nodes, m)[i]].prev = m
    BY <1>1, TrieParts, NodeType DEF Linked
  <2>4. 0 \notin I
    BY <1>1
  <2>5. \A n \in I : /\ Len(nodes[n].next) \in Nat
                      /\ DOMAIN nodes[n].next = 1 .. Len(nodes[n].next)
                      /\ \A i \in DOMAIN nodes[n].next : nodes[n].next[i] \in I /\ nodes[nodes[n].next[i]].prev = n
    BY <2>2, <2>3
  <2>6. QED
    BY <2>1, <2>4, <2>5
<1> DEFINE Walk(f, n) == [word \in Text |-> GetStep(f, n, word)]
           Body == [f \in [I -> V] |-> [n \in I |-> Walk(f, n)]]
           Below(f, n, word) == [i \in DOMAIN nodes[n].next |->
                           f[nodes[n].next[i]][From(word, Len(nodes[n].uri) + 1)]]
<1>3. ASSUME NEW n \in I, NEW word \in Text, IsPrefix(nodes[n].uri, word)
      PROVE  From(word, Len(nodes[n].uri) + 1) \in Text
  BY <1>2, <1>3, PrefixByPosition, RestOfText
<1>4. ASSUME NEW f \in [I -> V], NEW n \in I, NEW word \in Text
      PROVE  GetStep(f, n, word) \in Nat
  <2>1. \A l \in 0 .. Len(leafId) : l # 0 => leafId[l] \in Nat
    OBVIOUS
  <2>2. nodes[n].leaf # 0 => leafId[nodes[n].leaf] \in Nat
    BY <1>2, <2>1
  <2>3. ASSUME IsPrefix(nodes[n].uri, word)
        PROVE  FirstId(Below(f, n, word)) \in Nat
    <3>1. PICK r : r = From(word, Len(nodes[n].uri) + 1)
      OBVIOUS
    <3>2. r \in Text
      BY <1>3, <2>3, <3>1
    <3>3. PICK ids : ids = Below(f, n, word)
      OBVIOUS
    <3>4. DOMAIN ids = 1 .. Len(nodes[n].next)
      BY <1>2, <3>3
    <3>5. \A i \in 1 .. Len(nodes[n].next) : ids[i] = f[nodes[n].next[i]][r]
      BY <1>2, <3>1, <3>3
    <3>6. \A i \in 1 .. Len(nodes[n].next) : f[nodes[n].next[i]] \in V
      BY <1>2
    <3>7. \A i \in 1 .. Len(nodes[n].next) : ids[i] \in Nat
      BY <1>1, <3>2, <3>5, <3>6
    <3>8. Len(nodes[n].next) \in Nat
      BY <1>2
    <3>9. FirstId(ids) = 0 \/ \E i \in 1 .. Len(nodes[n].next) : FirstId(ids) = ids[i]
      BY <3>4, <3>8, FirstIdType
    <3> HIDE DEF Below
    <3>10. QED
      BY <3>3, <3>7, <3>9
  <2>4. GetStep(f, n, word) = IF nodes[n].uri = <<>> \/ ~IsPrefix(nodes[n].uri, word)
    THEN 0
    ELSE IF nodes[n].uri = word
           THEN IF nodes[n].leaf = 0 THEN 0 ELSE leafId[nodes[n].leaf]
           ELSE FirstId(Below(f, n, word))
    BY Zenon DEF GetStep
  <2> HIDE DEF Below
  <2>5. QED
    BY <2>2, <2>3, <2>4
<1>5. \A f \in [I -> V] : \A n \in I : Walk(f, n) \in V
  BY <1>1, <1>4
<1>6. ASSUME NEW f \in [I -> V], NEW g \in [I -> V], NEW n \in I,
             \A c \in I : nodes[c].prev = n => f[c] = g[c]
      PROVE  Walk(f, n) = Walk(g, n)
  <2>1. ASSUME NEW word \in Text
        PROVE  GetStep(f, n, word) = GetStep(g, n, word)
    <3>1. \A i \in DOMAIN nodes[n].next : f[nodes[n].next[i]] = g[nodes[n].next[i]]
      BY <1>2, <1>6
    <3>2. Below(f, n, word) = Below(g, n, word)
      BY <3>1
    <3>3. QED
      BY <3>2, Zenon DEF GetStep
  <2>2. QED
    BY <2>1
<1> HIDE DEF Walk
<1>7. /\ Body \in [[I -> V] -> [I -> V]]
      /\ \A f \in [I -> V] : Body[f] = [n \in I |-> Walk(f, n)]
  BY <1>5
<1>8. \A f, g \in [I -> V] : \A n \in I :
        (\A c \in I : nodes[c].prev = n => f[c] = g[c]) => Body[f][n] = Body[g][n]
  BY <1>6, <1>7
<1> HIDE DEF Body
<1>9. \E v0 : v0 \in V
  <2>1. [word \in Text |-> 0] \in V
    BY <1>1
  <2>2. QED
    BY <2>1
<1>10. PICK f \in [I -> V] : f = Body[f]
  <2>1. Asking(I, V, Body)
    BY <1>1, <1>7, <1>8, <1>9, Zenon DEF Asking
  <2>2. HasSolution(I, V, Body)
    BY <2>1, TrieRecursion
  <2>3. QED
    BY <2>2 DEF HasSolution
<1>11. f = [n \in I |-> Walk(f, n)]
  BY <1>7, <1>10
<1>12. Gets(f)
  BY <1>2, <1>11, Zenon DEF Gets, Walk
<1>13. NodeGet = CHOOSE g : Gets(g)
  BY DEF NodeGet, Gets, GetStep
<1>14. Gets(NodeGet)
  BY <1>12, <1>13, Zenon
<1>15. NodeGet = [n \in I |-> Walk(NodeGet, n)]
  BY <1>2, <1>14, Zenon DEF Gets, Walk
<1>16. ASSUME NEW n \in I, NEW word \in Text
       PROVE  NodeGet[n][word] = GetStep(NodeGet, n, word)
  <2>1. NodeGet[n] = Walk(NodeGet, n)
    BY <1>15
  <2>2. Walk(NodeGet, n)[word] = GetStep(NodeGet, n, word)
    BY DEF Walk
  <2>3. QED
    BY <2>1, <2>2
<1>17. QED
  BY <1>1, <1>16

\* The word below a node leads to a leaf, to another place, or to no leaf.
AnswersFor(path, n, full, id) ==
  /\ ~ Begins(path[n], full) => id = 0
  /\ \A m \in 1 .. Len(nodes) :
       Begins(path[n], full) /\ nodes[m].leaf # 0 /\ path[m] = full => id = leafId[nodes[m].leaf]
  /\ (\A m \in 1 .. Len(nodes) : nodes[m].leaf # 0 => path[m] # full) => id = 0

Answers(path, full, id) ==
  /\ \A m \in 1 .. Len(nodes) : nodes[m].leaf # 0 /\ path[m] = full => id = leafId[nodes[m].leaf]
  /\ (\A m \in 1 .. Len(nodes) : nodes[m].leaf # 0 => path[m] # full) => id = 0

AllAnswer(path, K, full, ids) ==
  DOMAIN ids = DOMAIN K /\ \A i \in DOMAIN K : AnswersFor(path, K[i], full, ids[i])

\* Among the children of a node no two can answer.
LEMMA AskChildren ==
  ASSUME NEW path, Trie(path), NEW m0 \in 0 .. Len(nodes), NEW full \in Text,
         Begins(path[m0], full), path[m0] # full, NEW ids,
         AllAnswer(path, Kids(uri_id, nodes, m0), full, ids)
  PROVE  Answers(path, full, FirstId(ids))
<1> DEFINE K == Kids(uri_id, nodes, m0)
<1>0. DOMAIN ids = DOMAIN K /\ \A i \in DOMAIN K : AnswersFor(path, K[i], full, ids[i])
  BY DEF AllAnswer
<1>1. /\ Len(K) \in Nat /\ DOMAIN K = 1 .. Len(K)
      /\ \A i \in DOMAIN K : K[i] \in 1 .. Len(nodes)
      /\ \A n \in 1 .. Len(nodes) : n \in 0 .. Len(nodes)
  BY TrieParts, NodeType
<1>2. /\ \A i \in DOMAIN K : nodes[K[i]].prev = m0
      /\ \A i, j \in DOMAIN K : K[i] = K[j] => i = j
      /\ \A c \in 1 .. Len(nodes) : nodes[c].prev = m0 => \E i \in DOMAIN K : K[i] = c
  BY TrieParts DEF Linked
<1> HIDE DEF K
<1>3. ASSUME NEW m \in 1 .. Len(nodes), nodes[m].leaf # 0, path[m] = full
      PROVE  FirstId(ids) = leafId[nodes[m].leaf]
  <2>1. m \in 0 .. Len(nodes)
    BY <1>1
  <2>2. Leads(nodes, path, m0, m)
    <3>1. Shaped(uri_id, nodes, Len(leafId)) /\ Spelled(nodes, path) /\ Apart(nodes)
      BY TrieParts
    <3>2. QED
      BY <2>1, <3>1, PathsLead
  <2>3. m0 # m
    BY <1>3
  <2>4. PICK c \in 1 .. Len(nodes) : nodes[c].prev = m0 /\ Begins(path[c], full)
    BY <1>3, <2>2, <2>3 DEF Leads
  <2>5. PICK i \in DOMAIN K : K[i] = c
    BY <1>2, <2>4
  <2>6. ids[i] = leafId[nodes[m].leaf]
    BY <1>0, <1>3, <2>4, <2>5 DEF AnswersFor
  <2>7. ASSUME NEW j \in DOMAIN K, j # i
        PROVE  ids[j] = 0
    <3>1. ASSUME Begins(path[K[j]], full)
          PROVE  FALSE
      <4>1. PICK d : d = K[j]
        OBVIOUS
      <4>2. d \in 1 .. Len(nodes) /\ nodes[d].prev = nodes[c].prev /\ Begins(path[d], full) /\ d # c
        BY <1>1, <1>2, <2>4, <2>5, <2>7, <3>1, <4>1
      <4>3. Shaped(uri_id, nodes, Len(leafId)) /\ Spelled(nodes, path) /\ Apart(nodes)
        BY TrieParts
      <4>4. d = c
        BY <2>4, <4>2, <4>3, SiblingsPart
      <4>5. QED
        BY <4>2, <4>4
    <3>2. QED
      BY <1>0, <2>7, <3>1 DEF AnswersFor
  <2>8. FirstId(ids) = ids[i]
    BY <1>0, <1>1, <2>7, FirstIdType
  <2>9. QED
    BY <2>6, <2>8
<1>4. ASSUME \A m \in 1 .. Len(nodes) : nodes[m].leaf # 0 => path[m] # full
      PROVE  FirstId(ids) = 0
  <2>1. \A i \in DOMAIN K : ids[i] = 0
    BY <1>0, <1>4 DEF AnswersFor
  <2>2. QED
    BY <1>0, <1>1, <2>1, FirstIdType
<1>5. QED
  BY <1>3, <1>4 DEF Answers

LEMMA NodeGetFinds ==
  ASSUME NEW path, Trie(path), leafId \in Seq(Nat)
  PROVE  \A n \in 1 .. Len(nodes) : \A word \in Text :
           AnswersFor(path, n, path[nodes[n].prev] \o word, NodeGet[n][word])
<1> DEFINE I == 1 .. Len(nodes)
           S == {n \in I : \A word \in Text : AnswersFor(path, n, path[nodes[n].prev] \o word, NodeGet[n][word])}
<1>1. ASSUME NEW n \in I, \A c \in I : nodes[c].prev = n => c \in S, NEW word \in Text
      PROVE  AnswersFor(path, n, path[nodes[n].prev] \o word, NodeGet[n][word])
  <2>1. PICK uri, p, full, id : /\ uri = nodes[n].uri /\ p = path[nodes[n].prev] /\ full = p \o word
                                /\ id = NodeGet[n][word]
    OBVIOUS
  <2>2. /\ uri \in Text /\ Len(uri) \in Nat /\ Len(uri) > 0 /\ uri # <<>>
        /\ p \in Text /\ path[n] \in Text /\ path[n] = p \o uri /\ full \in Text
        /\ n \in 0 .. Len(nodes) /\ n # 0
    <3>1. /\ uri \in Text /\ Len(uri) \in Nat /\ Len(uri) > 0 /\ nodes[n].prev \in 0 .. Len(nodes)
          /\ n \in 0 .. Len(nodes) /\ n # 0
      BY <2>1, TrieParts, NodeType
    <3>2. /\ path \in [0 .. Len(nodes) -> Text]
          /\ \A m \in 1 .. Len(nodes) : path[m] = path[nodes[m].prev] \o nodes[m].uri
      BY TrieParts DEF Spelled
    <3>3. p \in Text /\ path[n] \in Text /\ path[n] = p \o uri
      BY <2>1, <3>1, <3>2
    <3>4. full \in Text
      BY <2>1, <3>3, TextConcat
    <3>5. uri # <<>>
      BY <3>1, TextType
    <3>6. QED
      BY <3>1, <3>3, <3>4, <3>5
  <2>3. Begins(path[n], full) <=> IsPrefix(uri, word)
    <3>1. Begins(path[n], full) <=> Begins(uri, word)
      BY <2>1, <2>2, BeginsConcat
    <3>2. IsPrefix(uri, word) <=> Begins(uri, word)
      BY <2>2, PrefixByPosition
    <3>3. QED
      BY <3>1, <3>2
  <2>4. id = GetStep(NodeGet, n, word)
    BY <2>1, NodeGetIs
  <2>5. CASE ~ IsPrefix(uri, word)
    <3>1. id = 0
      BY <2>1, <2>4, <2>5 DEF GetStep
    <3>2. QED
      BY <2>1, <2>3, <2>5, <3>1 DEF AnswersFor
  <2>6. CASE uri = word /\ IsPrefix(uri, word)
    <3>1. id = IF nodes[n].leaf = 0 THEN 0 ELSE leafId[nodes[n].leaf]
      BY <2>1, <2>2, <2>4, <2>6 DEF GetStep
    <3>2. path[n] = full
      BY <2>1, <2>2, <2>6
    <3>3. ASSUME NEW m \in I, path[m] = full
          PROVE  m = n
      <4>1. m \in 0 .. Len(nodes) /\ path[m] = path[n]
        BY <3>2, <3>3, TrieParts, NodeType
      <4>2. Shaped(uri_id, nodes, Len(leafId)) /\ Spelled(nodes, path) /\ Apart(nodes)
        BY TrieParts
      <4>3. QED
        BY <2>2, <4>1, <4>2, PathsDiffer
    <3>4. QED
      BY <2>1, <2>3, <2>6, <3>1, <3>2, <3>3 DEF AnswersFor
  <2>7. CASE uri # word /\ IsPrefix(uri, word)
    <3>1. PICK next, rest, ids : /\ next = nodes[n].next /\ rest = From(word, Len(uri) + 1)
                                 /\ ids = [i \in DOMAIN next |-> NodeGet[next[i]][rest]]
      OBVIOUS
    <3>2. id = FirstId(ids)
      <4>1. GetStep(NodeGet, n, word) = IF uri = <<>> \/ ~IsPrefix(uri, word)
                THEN 0
                ELSE IF uri = word
                       THEN IF nodes[n].leaf = 0 THEN 0 ELSE leafId[nodes[n].leaf]
                       ELSE FirstId(ids)
        BY <2>1, <3>1, Zenon DEF GetStep
      <4>2. QED
        BY <2>2, <2>4, <2>7, <4>1
    <3>3. next = Kids(uri_id, nodes, n)
      BY <2>2, <3>1 DEF Kids
    <3>4. rest \in Text /\ word = uri \o rest
      BY <2>2, <2>7, <3>1, PrefixByPosition, RestOfText
    <3>5. full = path[n] \o rest
      <4>1. (p \o uri) \o rest = p \o (uri \o rest)
        BY <2>2, <3>4, ConcatAssociates
      <4>2. QED
        BY <2>1, <2>2, <3>4, <4>1
    <3>6. path[n] # full
      <4>1. ASSUME path[n] = full PROVE FALSE
        <5>1. Len(p \o uri) = Len(p) + Len(uri) /\ Len(p \o word) = Len(p) + Len(word)
          BY <2>2, TextConcat
        <5>2. Len(p) \in Nat /\ Len(word) \in Nat
          BY <2>2, TextType
        <5>3. Len(p) + Len(uri) = Len(p) + Len(word)
          BY <2>1, <2>2, <4>1, <5>1
        <5>4. Len(word) <= Len(uri)
          BY <2>2, <5>2, <5>3
        <5>5. Begins(uri, word)
          BY <2>2, <2>7, PrefixByPosition
        <5>6. QED
          BY <2>2, <2>7, <5>4, <5>5, BeginsOrder
      <4>2. QED
        BY <4>1
    <3>7. \A i \in DOMAIN next : AnswersFor(path, next[i], full, ids[i])
      <4>1. \A i \in DOMAIN next : next[i] \in I /\ nodes[next[i]].prev = n
        BY <2>2, <3>3, TrieParts, NodeType DEF Linked
      <4>2. ASSUME NEW i \in DOMAIN next
            PROVE  AnswersFor(path, next[i], full, ids[i])
        <5>1. next[i] \in S
          BY <1>1, <4>1
        <5>2. AnswersFor(path, next[i], path[n] \o rest, NodeGet[next[i]][rest])
          BY <3>4, <4>1, <5>1
        <5>3. QED
          BY <3>1, <3>5, <5>2
      <4>3. QED
        BY <4>2
    <3>8. DOMAIN ids = DOMAIN next /\ Begins(path[n], full)
      BY <2>3, <2>7, <3>1
    <3>9. Answers(path, full, FirstId(ids))
      <4>1. AllAnswer(path, Kids(uri_id, nodes, n), full, ids)
        BY <3>3, <3>7, <3>8 DEF AllAnswer
      <4>2. QED
        BY <2>2, <3>6, <3>8, <4>1, AskChildren
    <3>10. QED
      BY <2>1, <2>3, <2>7, <3>2, <3>9 DEF AnswersFor, Answers
  <2>8. QED
    BY <2>5, <2>6, <2>7
<1>2. \A n \in I : n \in S
  <2>1. ASSUME NEW n \in I, \A c \in I : nodes[c].prev = n => c \in S
        PROVE  n \in S
    BY <1>1, <2>1
  <2> HIDE DEF S
  <2>2. QED
    BY <2>1, TrieClimb
<1>3. QED
  BY <1>2

\* What KeyManager::Get returns.
LEMMA GetFinds ==
  ASSUME NEW path, Trie(path), leafId \in Seq(Nat), NEW w \in AllWords
  PROVE  /\ \A l \in handed[w] : Get(w) = leafId[l]
         /\ handed[w] = {} => Get(w) = 0
<1>1. PICK ids : ids = [i \in DOMAIN uri_id |-> NodeGet[uri_id[i]][w]]
  OBVIOUS
<1>2. Get(w) = FirstId(ids) /\ DOMAIN ids = DOMAIN uri_id
  BY <1>1 DEF Get
<1>3. /\ w \in Text /\ w # <<>> /\ 0 \in 0 .. Len(nodes) /\ uri_id = Kids(uri_id, nodes, 0)
      /\ path[0] = <<>>
  <2>1. Len(nodes) \in Nat
    BY TrieParts, NodeType
  <2>2. path[0] = <<>>
    BY TrieParts DEF Spelled
  <2>3. QED
    BY <2>1, <2>2, WordsType DEF Kids
<1>4. Begins(path[0], w) /\ path[0] # w /\ w = path[0] \o w
  <2>1. <<>> \o w = w
    BY <1>3 DEF Text
  <2>2. Begins(<<>>, w)
    BY <1>3, TextType DEF Begins
  <2>3. QED
    BY <1>3, <2>1, <2>2
<1>5. \A i \in DOMAIN uri_id : AnswersFor(path, uri_id[i], w, ids[i])
  <2>1. \A i \in DOMAIN uri_id : uri_id[i] \in 1 .. Len(nodes) /\ nodes[uri_id[i]].prev = 0
    BY <1>3, TrieParts, NodeType DEF Linked
  <2>2. ASSUME NEW i \in DOMAIN uri_id
        PROVE  AnswersFor(path, uri_id[i], w, ids[i])
    <3>1. AnswersFor(path, uri_id[i], path[0] \o w, NodeGet[uri_id[i]][w])
      BY <1>3, <2>1, NodeGetFinds
    <3>2. QED
      BY <1>1, <1>4, <3>1
  <2>3. QED
    BY <2>2
<1>6. Answers(path, w, FirstId(ids))
  <2>1. AllAnswer(path, Kids(uri_id, nodes, 0), w, ids)
    BY <1>2, <1>3, <1>5 DEF AllAnswer
  <2>2. QED
    BY <1>3, <1>4, <2>1, AskChildren
<1>7. /\ \A n \in 1 .. Len(nodes) : nodes[n].leaf # 0 => path[n] \in AllWords /\ handed[path[n]] = {nodes[n].leaf}
      /\ handed[w] # {} => \E n \in 1 .. Len(nodes) : nodes[n].leaf # 0 /\ path[n] = w
  <2>1. Handed(nodes, Len(leafId), path, handed)
    BY TrieParts
  <2>2. QED
    BY <2>1, Zenon DEF Handed
<1>8. ASSUME NEW l \in handed[w]
      PROVE  Get(w) = leafId[l]
  <2>1. PICK n \in 1 .. Len(nodes) : nodes[n].leaf # 0 /\ path[n] = w
    BY <1>7, <1>8
  <2>2. l = nodes[n].leaf
    BY <1>7, <1>8, <2>1
  <2>3. QED
    BY <1>2, <1>6, <2>1, <2>2 DEF Answers
<1>9. ASSUME handed[w] = {}
      PROVE  Get(w) = 0
  <2>1. \A m \in 1 .. Len(nodes) : nodes[m].leaf # 0 => path[m] # w
    BY <1>7, <1>9
  <2>2. QED
    BY <1>2, <1>6, <2>1 DEF Answers
<1>10. QED
  BY <1>8, <1>9
------------------------------------------------------------------------------
(***************************************************************************)
(* The leaves, in the order both MakeInverseIndex come to them.            *)
(***************************************************************************)

LEMMA OnceConcat ==
  ASSUME NEW S, NEW a \in Seq(S), NEW b \in Seq(S), IsInjective(a), IsInjective(b),
         \A x : ~ (x \in Range(a) /\ x \in Range(b))
  PROVE  IsInjective(a \o b)
<1>1. PICK c : c = a \o b
  OBVIOUS
<1>2. /\ DOMAIN c = 1 .. (Len(a) + Len(b))
      /\ Len(a) \in Nat /\ Len(b) \in Nat /\ DOMAIN a = 1 .. Len(a) /\ DOMAIN b = 1 .. Len(b)
      /\ \A i \in 1 .. Len(a) : c[i] = a[i]
      /\ \A i \in 1 .. Len(b) : c[Len(a) + i] = b[i]
  BY <1>1, ConcatByPosition
<1>3. \A i \in DOMAIN c : i \in DOMAIN a \/ (i - Len(a) \in DOMAIN b /\ Len(a) + (i - Len(a)) = i)
  BY <1>2
<1>4. \A i \in DOMAIN c : \/ i \in DOMAIN a /\ c[i] = a[i] /\ c[i] \in Range(a)
                          \/ i - Len(a) \in DOMAIN b /\ c[i] = b[i - Len(a)] /\ c[i] \in Range(b)
  <2>1. \A x \in DOMAIN a : a[x] \in Range(a)
    BY DEF Range
  <2>2. \A x \in DOMAIN b : b[x] \in Range(b)
    BY DEF Range
  <2>3. QED
    BY <1>2, <1>3, <2>1, <2>2
<1>5. ASSUME NEW i \in DOMAIN c, NEW j \in DOMAIN c, c[i] = c[j]
      PROVE  i = j
  <2>1. CASE i \in DOMAIN a /\ c[i] = a[i] /\ c[i] \in Range(a)
    <3>1. j \in DOMAIN a /\ c[j] = a[j]
      BY <1>4, <1>5, <2>1
    <3>2. QED
      BY <1>5, <2>1, <3>1 DEF IsInjective
  <2>2. CASE i - Len(a) \in DOMAIN b /\ c[i] = b[i - Len(a)] /\ c[i] \in Range(b)
    <3>1. j - Len(a) \in DOMAIN b /\ c[j] = b[j - Len(a)]
      BY <1>4, <1>5, <2>2
    <3>2. i - Len(a) = j - Len(a)
      BY <1>5, <2>2, <3>1 DEF IsInjective
    <3>3. QED
      BY <1>2, <3>2
  <2>3. QED
    BY <1>4, <2>1, <2>2
<1>6. QED
  BY <1>1, <1>5 DEF IsInjective

\* A concatenation of sequences that repeat nothing, and share nothing.
LEMMA FlattenOnce ==
  ASSUME NEW S, NEW seqs \in Seq(Seq(S)), \A i \in DOMAIN seqs : IsInjective(seqs[i]),
         \A i, j \in DOMAIN seqs : \A x : x \in Range(seqs[i]) /\ x \in Range(seqs[j]) => i = j
  PROVE  IsInjective(FlattenSeq(seqs))
<1> DEFINE n == Len(seqs)
<1>1. n \in Nat /\ DOMAIN seqs = 1 .. n /\ \A i \in 1 .. n : seqs[i] \in Seq(S)
  OBVIOUS
<1> HIDE DEF n
<1>2. CASE n = 0
  <2>1. seqs = <<>>
    BY <1>1, <1>2 DEF n
  <2>2. FlattenSeq(seqs) = <<>>
    BY <2>1 DEF FlattenSeq
  <2>3. QED
    BY <2>2 DEF IsInjective
<1>3. CASE n # 0
  <2>1. PICK f : Flattens(f, seqs, n)
    BY <1>1, FlatteningExists
  <2>2. FlattenSeq(seqs) = f[n]
    BY <1>1, <1>3, <2>1, FlattenByFunction DEF n
  <2>3. \A i \in 1 .. n : f[i] = IF i = 1 THEN seqs[i] ELSE f[i - 1] \o seqs[i]
    BY <2>1, Zenon DEF Flattens
  <2> DEFINE Right(k) == /\ f[k] \in Seq(S) /\ IsInjective(f[k])
                         /\ \A x : x \in Range(f[k]) <=> \E i \in 1 .. k : x \in Range(seqs[i])
  <2>4. ASSUME NEW k \in 1 .. n, \A j \in 1 .. n : j < k => Right(j)
        PROVE  Right(k)
    <3>1. PICK b : b = seqs[k]
      OBVIOUS
    <3>2. b \in Seq(S) /\ IsInjective(b)
      BY <1>1, <3>1
    <3>3. CASE k = 1
      <4>1. f[k] = b
        BY <2>3, <3>1, <3>3
      <4>2. \A i : i \in 1 .. k <=> i = k
        BY <3>3
      <4>3. \A x : (\E i \in 1 .. k : x \in Range(seqs[i])) <=> x \in Range(b)
        BY <3>1, <4>2
      <4>4. f[k] \in Seq(S) /\ IsInjective(f[k]) /\ Range(f[k]) = Range(b)
        BY <3>2, <4>1
      <4>5. QED
        BY <4>3, <4>4
    <3>4. CASE k # 1
      <4>1. PICK j, a : j = k - 1 /\ a = f[j]
        OBVIOUS
      <4>2. j \in 1 .. n /\ j < k /\ \A i : i \in 1 .. k <=> i \in 1 .. j \/ i = k
        BY <1>1, <3>4, <4>1
      <4>3. a \in Seq(S) /\ IsInjective(a) /\ \A x : x \in Range(a) <=> \E i \in 1 .. j : x \in Range(seqs[i])
        BY <2>4, <4>1, <4>2
      <4>4. f[k] = a \o b
        BY <2>3, <3>1, <3>4, <4>1
      <4>5. f[k] \in Seq(S) /\ \A x : x \in Range(f[k]) <=> x \in Range(a) \/ x \in Range(b)
        BY <3>2, <4>3, <4>4, RangeOfConcat
      <4>6. \A x : ~ (x \in Range(a) /\ x \in Range(b))
        <5>1. ASSUME NEW x, x \in Range(a), x \in Range(b)
              PROVE  FALSE
          <6>1. PICK i \in 1 .. j : x \in Range(seqs[i])
            BY <4>3, <5>1
          <6>2. i \in 1 .. n /\ i # k
            BY <1>1, <4>1, <4>2
          <6>3. QED
            BY <1>1, <3>1, <5>1, <6>1, <6>2
        <5>2. QED
          BY <5>1
      <4>7. IsInjective(f[k])
        BY <3>2, <4>3, <4>4, <4>6, OnceConcat
      <4>8. QED
        BY <3>1, <4>2, <4>3, <4>5, <4>7
    <3>5. QED
      BY <3>3, <3>4
  <2> DEFINE Bad == {k \in 1 .. n : ~ Right(k)}
  <2> HIDE DEF Right
  <2>5. Bad = {}
    <3>1. SUFFICES ASSUME Bad # {} PROVE FALSE
      OBVIOUS
    <3>2. Bad \in SUBSET Nat
      BY <1>1
    <3>3. PICK k \in Bad : \A j \in Bad : k <= j
      BY <3>1, <3>2, LeastIndex
    <3>4. k \in 1 .. n /\ ~ Right(k)
      OBVIOUS
    <3>5. \A j \in 1 .. n : j < k => Right(j)
      BY <1>1, <3>3, <3>4
    <3>6. QED
      BY <2>4, <3>4, <3>5
  <2>6. Right(n)
    BY <1>1, <1>3, <2>5
  <2>7. QED
    BY <2>2, <2>6 DEF Right
<1>4. QED
  BY <1>2, <1>3

OwnLeaf(n) == IF nodes[n].leaf = 0 THEN <<>> ELSE <<n>>

Below(f, ns) == [i \in DOMAIN ns |-> f[ns[i]]]

Leaves(f) == f = [n \in DOMAIN nodes |-> OwnLeaf(n) \o FlattenSeq(Below(f, nodes[n].next))]

LEMMA LeavesFromIs ==
  ASSUME NEW path, Trie(path)
  PROVE  \A n \in 1 .. Len(nodes) :
           LeavesFrom[n] = OwnLeaf(n) \o FlattenSeq(Below(LeavesFrom, nodes[n].next))
<1>1. PICK I, V : I = 1 .. Len(nodes) /\ V = Seq(I)
  OBVIOUS
<1>2. /\ DOMAIN nodes = I
      /\ \A n \in I : /\ Len(nodes[n].next) \in Nat
                      /\ DOMAIN nodes[n].next = 1 .. Len(nodes[n].next)
                      /\ \A i \in DOMAIN nodes[n].next : nodes[n].next[i] \in I /\ nodes[nodes[n].next[i]].prev = n
  <2>1. DOMAIN nodes = I /\ Len(nodes) \in Nat
    BY <1>1, TrieParts, NodeType
  <2>2. \A n \in I : n \in 0 .. Len(nodes) /\ n # 0 /\ Kids(uri_id, nodes, n) = nodes[n].next
    BY <1>1, <2>1 DEF Kids
  <2>3. \A m \in 0 .. Len(nodes) :
              /\ Len(Kids(uri_id, nodes, m)) \in Nat
              /\ DOMAIN Kids(uri_id, nodes, m) = 1 .. Len(Kids(uri_id, nodes, m))
              /\ \A i \in DOMAIN Kids(uri_id, nodes, m) :
                   Kids(uri_id, nodes, m)[i] \in I /\ nodes[Kids(uri_id, nodes, m)[i]].prev = m
    BY <1>1, TrieParts, NodeType DEF Linked
  <2>4. QED
    BY <2>1, <2>2, <2>3
<1> DEFINE Walk(f, n) == OwnLeaf(n) \o FlattenSeq(Below(f, nodes[n].next))
           Body == [f \in [I -> V] |-> [n \in I |-> Walk(f, n)]]
<1>3. ASSUME NEW f \in [I -> V], NEW n \in I
      PROVE  Walk(f, n) \in V
  <2>1. PICK seqs : seqs = Below(f, nodes[n].next)
    OBVIOUS
  <2>2. seqs \in [1 .. Len(nodes[n].next) -> V]
    BY <1>2, <2>1 DEF Below
  <2>3. seqs \in Seq(V)
    BY <1>2, <2>2, FunctionIsSeq
  <2>4. FlattenSeq(seqs) \in Seq(I)
    BY <1>1, <2>3, FlattenElements
  <2>5. OwnLeaf(n) \in Seq(I)
    BY DEF OwnLeaf
  <2>6. QED
    BY <1>1, <2>1, <2>4, <2>5
<1>4. ASSUME NEW f \in [I -> V], NEW g \in [I -> V], NEW n \in I,
             \A c \in I : nodes[c].prev = n => f[c] = g[c]
      PROVE  Walk(f, n) = Walk(g, n)
  <2>1. \A i \in DOMAIN nodes[n].next : f[nodes[n].next[i]] = g[nodes[n].next[i]]
    BY <1>2, <1>4
  <2>2. Below(f, nodes[n].next) = Below(g, nodes[n].next)
    BY <2>1 DEF Below
  <2>3. QED
    BY <2>2
<1> HIDE DEF Walk
<1>5. /\ Body \in [[I -> V] -> [I -> V]]
      /\ \A f \in [I -> V] : Body[f] = [n \in I |-> Walk(f, n)]
  BY <1>3
<1>6. \A f, g \in [I -> V] : \A n \in I :
        (\A c \in I : nodes[c].prev = n => f[c] = g[c]) => Body[f][n] = Body[g][n]
  BY <1>4, <1>5
<1> HIDE DEF Body
<1>7. \E v0 : v0 \in V
  <2>1. <<>> \in V
    BY <1>1
  <2>2. QED
    BY <2>1
<1>8. PICK f \in [I -> V] : f = Body[f]
  <2>1. Asking(I, V, Body)
    BY <1>1, <1>5, <1>6, <1>7, Zenon DEF Asking
  <2>2. HasSolution(I, V, Body)
    BY <2>1, TrieRecursion
  <2>3. QED
    BY <2>2 DEF HasSolution
<1>9. f = [n \in I |-> Walk(f, n)]
  BY <1>5, <1>8
<1>10. Leaves(f)
  BY <1>2, <1>9, Zenon DEF Leaves, Walk
<1>11. LeavesFrom = CHOOSE g : Leaves(g)
  BY DEF LeavesFrom, Leaves, OwnLeaf, Below
<1>12. Leaves(LeavesFrom)
  BY <1>10, <1>11, Zenon
<1>13. LeavesFrom = [n \in I |-> Walk(LeavesFrom, n)]
  BY <1>2, <1>12, Zenon DEF Leaves, Walk
<1>14. \A n \in I : LeavesFrom[n] = Walk(LeavesFrom, n)
  BY <1>13
<1>15. QED
  BY <1>1, <1>14 DEF Walk

\* The leaves from a node on: what its path begins, each once.
LeafList(path, n, s) ==
  /\ s \in Seq(1 .. Len(nodes))
  /\ IsInjective(s)
  /\ \A x \in 1 .. Len(nodes) : x \in Range(s) <=> nodes[x].leaf # 0 /\ Begins(path[n], path[x])

\* The leaves below it.
LowerList(path, m, s) ==
  /\ s \in Seq(1 .. Len(nodes))
  /\ IsInjective(s)
  /\ \A x \in 1 .. Len(nodes) :
       x \in Range(s) <=> nodes[x].leaf # 0 /\ Begins(path[m], path[x]) /\ x # m

ListsOfKids(path, m, seqs) ==
  /\ seqs \in Seq(Seq(1 .. Len(nodes)))
  /\ DOMAIN seqs = DOMAIN Kids(uri_id, nodes, m)
  /\ \A i \in DOMAIN seqs : LeafList(path, Kids(uri_id, nodes, m)[i], seqs[i])

LEMMA LeavesBelow ==
  ASSUME NEW path, Trie(path), NEW m \in 0 .. Len(nodes), NEW seqs, ListsOfKids(path, m, seqs)
  PROVE  LowerList(path, m, FlattenSeq(seqs))
<1> DEFINE K == Kids(uri_id, nodes, m)
           I == 1 .. Len(nodes)
<1>1. /\ seqs \in Seq(Seq(I)) /\ DOMAIN seqs = DOMAIN K
      /\ \A i \in DOMAIN seqs : LeafList(path, K[i], seqs[i])
  BY DEF ListsOfKids
<1>2. /\ \A i \in DOMAIN K : K[i] \in I
      /\ \A n \in I : n \in 0 .. Len(nodes)
  BY TrieParts, NodeType
<1>3. /\ \A i \in DOMAIN K : nodes[K[i]].prev = m
      /\ \A i, j \in DOMAIN K : K[i] = K[j] => i = j
      /\ \A c \in I : nodes[c].prev = m => \E i \in DOMAIN K : K[i] = c
  BY TrieParts DEF Linked
<1>4. Shaped(uri_id, nodes, Len(leafId)) /\ Spelled(nodes, path) /\ Apart(nodes)
  BY TrieParts
<1>5. \A n \in I : path[n] \in Text
  BY <1>2, <1>4, PathType
<1> HIDE DEF K
<1>6. ASSUME NEW i \in DOMAIN seqs
      PROVE  /\ IsInjective(seqs[i]) /\ seqs[i] \in Seq(I)
             /\ \A x \in I : x \in Range(seqs[i]) <=> nodes[x].leaf # 0 /\ Begins(path[K[i]], path[x])
  BY <1>1 DEF LeafList
<1>7. ASSUME NEW i \in DOMAIN seqs, NEW x, x \in Range(seqs[i])
      PROVE  x \in I
  BY <1>6, <1>7 DEF Range
<1>8. ASSUME NEW i \in DOMAIN seqs, NEW j \in DOMAIN seqs, NEW x, x \in Range(seqs[i]), x \in Range(seqs[j])
      PROVE  i = j
  <2>1. PICK c, d : c = K[i] /\ d = K[j]
    OBVIOUS
  <2>2. x \in I /\ path[x] \in Text
    BY <1>5, <1>7, <1>8
  <2>3. Begins(path[c], path[x]) /\ Begins(path[d], path[x])
    BY <1>6, <1>8, <2>1, <2>2
  <2>4. c \in I /\ d \in I /\ nodes[c].prev = nodes[d].prev
    BY <1>1, <1>2, <1>3, <2>1
  <2>5. c = d
    BY <1>4, <2>2, <2>3, <2>4, SiblingsPart
  <2>6. QED
    BY <1>1, <1>3, <2>1, <2>5
<1>9. IsInjective(FlattenSeq(seqs))
  <2>1. \A i \in DOMAIN seqs : IsInjective(seqs[i])
    BY <1>6
  <2>2. \A i, j \in DOMAIN seqs : \A x : x \in Range(seqs[i]) /\ x \in Range(seqs[j]) => i = j
    BY <1>8
  <2>3. QED
    BY <1>1, <2>1, <2>2, FlattenOnce
<1>10. /\ FlattenSeq(seqs) \in Seq(I)
       /\ \A x : x \in Range(FlattenSeq(seqs)) <=> \E i \in DOMAIN seqs : x \in Range(seqs[i])
  BY <1>1, FlattenElements
<1>11. ASSUME NEW x \in I
       PROVE  x \in Range(FlattenSeq(seqs)) <=> nodes[x].leaf # 0 /\ Begins(path[m], path[x]) /\ x # m
  <2>1. x \in 0 .. Len(nodes) /\ path[x] \in Text
    BY <1>2, <1>5
  <2>2. ASSUME nodes[x].leaf # 0, Begins(path[m], path[x]), x # m
        PROVE  \E i \in DOMAIN seqs : x \in Range(seqs[i])
    <3>1. Leads(nodes, path, m, x)
      BY <1>4, <2>1, PathsLead
    <3>2. PICK c \in I : nodes[c].prev = m /\ Begins(path[c], path[x])
      BY <2>2, <3>1 DEF Leads
    <3>3. PICK i \in DOMAIN K : K[i] = c
      BY <1>3, <3>2
    <3>4. i \in DOMAIN seqs
      BY <1>1, <3>3
    <3>5. x \in Range(seqs[i])
      BY <1>6, <2>2, <3>2, <3>3, <3>4
    <3>6. QED
      BY <3>4, <3>5
  <2>3. ASSUME NEW i \in DOMAIN seqs, x \in Range(seqs[i])
        PROVE  nodes[x].leaf # 0 /\ Begins(path[m], path[x]) /\ x # m
    <3>1. PICK c : c = K[i]
      OBVIOUS
    <3>2. nodes[x].leaf # 0 /\ Begins(path[c], path[x])
      BY <1>6, <2>3, <3>1
    <3>3. c \in I /\ nodes[c].prev = m /\ c \in 0 .. Len(nodes)
      BY <1>1, <1>2, <1>3, <3>1
    <3>4. Begins(path[m], path[c]) /\ Depth(path, m) < Depth(path, c) /\ Depth(path, m) \in Nat /\ Depth(path, c) \in Nat
      BY <1>2, <1>4, <3>3, PathType
    <3>5. Begins(path[m], path[x])
      BY <1>4, <2>1, <3>2, <3>3, <3>4, PathsOrder
    <3>6. Depth(path, c) <= Depth(path, x)
      BY <1>4, <2>1, <3>2, <3>3, PathsOrder
    <3>7. QED
      BY <3>2, <3>4, <3>5, <3>6
  <2>4. QED
    BY <1>10, <2>2, <2>3
<1>12. QED
  BY <1>9, <1>10, <1>11 DEF LowerList

LEMMA LeavesFromFinds ==
  ASSUME NEW path, Trie(path)
  PROVE  \A n \in 1 .. Len(nodes) : LeafList(path, n, LeavesFrom[n])
<1> DEFINE I == 1 .. Len(nodes)
           S == {n \in I : LeafList(path, n, LeavesFrom[n])}
<1>1. ASSUME NEW n \in I, \A c \in I : nodes[c].prev = n => c \in S
      PROVE  n \in S
  <2>1. PICK K, seqs : K = Kids(uri_id, nodes, n) /\ seqs = Below(LeavesFrom, K)
    OBVIOUS
  <2>2. /\ n \in 0 .. Len(nodes) /\ n # 0 /\ K = nodes[n].next
        /\ Len(K) \in Nat /\ DOMAIN K = 1 .. Len(K)
        /\ \A i \in DOMAIN K : K[i] \in I
    <3>1. n \in 0 .. Len(nodes) /\ n # 0
      BY TrieParts, NodeType
    <3>2. QED
      BY <2>1, <3>1, TrieParts, NodeType DEF Kids
  <2>3. \A i \in DOMAIN K : nodes[K[i]].prev = n
    BY <2>1, <2>2, TrieParts DEF Linked
  <2>4. \A i \in DOMAIN K : LeafList(path, K[i], LeavesFrom[K[i]])
    BY <1>1, <2>2, <2>3
  <2>5. DOMAIN seqs = DOMAIN K /\ \A i \in DOMAIN K : seqs[i] = LeavesFrom[K[i]]
    BY <2>1 DEF Below
  <2>6. \A i \in DOMAIN K : seqs[i] \in Seq(I)
    BY <2>4, <2>5 DEF LeafList
  <2>7. seqs \in [1 .. Len(K) -> Seq(I)]
    BY <2>1, <2>2, <2>5, <2>6 DEF Below
  <2>8. seqs \in Seq(Seq(I))
    BY <2>2, <2>7, FunctionIsSeq
  <2>9. ListsOfKids(path, n, seqs)
    BY <2>1, <2>4, <2>5, <2>8 DEF ListsOfKids
  <2>10. PICK s, own, t : s = FlattenSeq(seqs) /\ own = OwnLeaf(n) /\ t = LeavesFrom[n]
    OBVIOUS
  <2>11. LowerList(path, n, s)
    BY <2>2, <2>9, <2>10, LeavesBelow
  <2>12. t = own \o s
    BY <2>1, <2>2, <2>10, LeavesFromIs
  <2>13. /\ own \in Seq(I) /\ IsInjective(own)
         /\ \A x : x \in Range(own) <=> nodes[n].leaf # 0 /\ x = n
    <3>1. CASE nodes[n].leaf = 0
      <4>1. own = <<>>
        BY <2>10, <3>1 DEF OwnLeaf
      <4>2. QED
        BY <3>1, <4>1 DEF Range, IsInjective
    <3>2. CASE nodes[n].leaf # 0
      <4>1. own = <<n>>
        BY <2>10, <3>2 DEF OwnLeaf
      <4>2. own \in Seq(I) /\ DOMAIN own = {1} /\ own[1] = n
        BY <4>1
      <4>3. QED
        BY <3>2, <4>2 DEF Range, IsInjective
    <3>3. QED
      BY <3>1, <3>2
  <2>14. /\ s \in Seq(I) /\ IsInjective(s)
         /\ \A x \in I : x \in Range(s) <=> nodes[x].leaf # 0 /\ Begins(path[n], path[x]) /\ x # n
    BY <2>11 DEF LowerList
  <2>15. \A x : ~ (x \in Range(own) /\ x \in Range(s))
    BY <2>13, <2>14
  <2>16. IsInjective(t)
    BY <2>12, <2>13, <2>14, <2>15, OnceConcat
  <2>17. t \in Seq(I) /\ \A x : x \in Range(t) <=> x \in Range(own) \/ x \in Range(s)
    BY <2>12, <2>13, <2>14, RangeOfConcat
  <2>18. Begins(path[n], path[n])
    <3>1. Spelled(nodes, path)
      BY TrieParts
    <3>2. QED
      BY <2>2, <3>1, PathsOrder
  <2>19. \A x \in I : x \in Range(t) <=> nodes[x].leaf # 0 /\ Begins(path[n], path[x])
    BY <2>13, <2>14, <2>17, <2>18
  <2>20. QED
    BY <2>10, <2>16, <2>17, <2>19 DEF LeafList
<1>2. \A n \in I : n \in S
  <2> HIDE DEF S
  <2>1. QED
    BY <1>1, TrieClimb
<1>3. QED
  BY <1>2

\* Both MakeInverseIndex come to every leaf once.
LEMMA LeafNodesAll ==
  ASSUME NEW path, Trie(path)
  PROVE  /\ LeafNodes \in Seq(1 .. Len(nodes))
         /\ IsInjective(LeafNodes)
         /\ Range(LeafNodes) = {n \in 1 .. Len(nodes) : nodes[n].leaf # 0}
<1> DEFINE I == 1 .. Len(nodes)
<1>1. PICK K, seqs : K = Kids(uri_id, nodes, 0) /\ seqs = Below(LeavesFrom, K)
  OBVIOUS
<1>2. /\ 0 \in 0 .. Len(nodes) /\ K = uri_id
      /\ Len(K) \in Nat /\ DOMAIN K = 1 .. Len(K)
      /\ \A i \in DOMAIN K : K[i] \in I
  <2>1. 0 \in 0 .. Len(nodes)
    BY TrieParts, NodeType
  <2>2. QED
    BY <1>1, <2>1, TrieParts, NodeType DEF Kids
<1>3. \A i \in DOMAIN K : LeafList(path, K[i], LeavesFrom[K[i]])
  BY <1>2, LeavesFromFinds
<1>4. DOMAIN seqs = DOMAIN K /\ \A i \in DOMAIN K : seqs[i] = LeavesFrom[K[i]]
  BY <1>1 DEF Below
<1>5. \A i \in DOMAIN K : seqs[i] \in Seq(I)
  BY <1>3, <1>4 DEF LeafList
<1>6. seqs \in [1 .. Len(K) -> Seq(I)]
  BY <1>1, <1>2, <1>4, <1>5 DEF Below
<1>7. seqs \in Seq(Seq(I))
  BY <1>2, <1>6, FunctionIsSeq
<1>8. ListsOfKids(path, 0, seqs)
  BY <1>1, <1>3, <1>4, <1>7 DEF ListsOfKids
<1>9. PICK s : s = FlattenSeq(seqs)
  OBVIOUS
<1>10. LowerList(path, 0, s)
  BY <1>2, <1>8, <1>9, LeavesBelow
<1>11. LeafNodes = s
  BY <1>1, <1>2, <1>9 DEF LeafNodes, Below
<1>12. \A x \in I : Begins(path[0], path[x]) /\ x # 0
  <2>1. path[0] = <<>> /\ \A x \in I : path[x] \in Text
    <3>1. \A x \in I : x \in 0 .. Len(nodes)
      BY TrieParts, NodeType
    <3>2. QED
      BY <3>1, TrieParts, PathType DEF Spelled
  <2>2. ASSUME NEW t \in Text
        PROVE  Begins(<<>>, t)
    BY TextType DEF Begins
  <2>3. QED
    BY <2>1, <2>2
<1>13. /\ s \in Seq(I) /\ IsInjective(s)
       /\ \A x \in I : x \in Range(s) <=> nodes[x].leaf # 0
  BY <1>10, <1>12 DEF LowerList
<1>14. \A x \in Range(s) : x \in I
  BY <1>13 DEF Range
<1>15. Range(s) = {n \in I : nodes[n].leaf # 0}
  BY <1>13, <1>14
<1>16. QED
  BY <1>11, <1>13, <1>15

\* There are no more of them than words added.
LEMMA LeafNodesCount ==
  ASSUME NEW path, Trie(path), NEW W, IsFiniteSet(W), \A w \in AllWords : handed[w] # {} => w \in W
  PROVE  Len(LeafNodes) \in Nat /\ Len(LeafNodes) <= Cardinality(W)
<1>1. PICK s : s = LeafNodes
  OBVIOUS
<1>2. /\ s \in Seq(1 .. Len(nodes)) /\ IsInjective(s)
      /\ Range(s) = {n \in 1 .. Len(nodes) : nodes[n].leaf # 0}
  BY <1>1, LeafNodesAll
<1>3. PICK k : k = Len(s)
  OBVIOUS
<1>4. k \in Nat /\ DOMAIN s = 1 .. k /\ \A i \in 1 .. k : s[i] \in 1 .. Len(nodes) /\ nodes[s[i]].leaf # 0
  <2>1. k \in Nat /\ DOMAIN s = 1 .. k
    BY <1>2, <1>3
  <2>2. \A i \in 1 .. k : s[i] \in Range(s)
    BY <2>1 DEF Range
  <2>3. QED
    BY <1>2, <2>1, <2>2
<1>5. PICK f : f = [i \in 1 .. k |-> path[s[i]]]
  OBVIOUS
<1>6. \A i \in 1 .. k : path[s[i]] \in W
  <2>1. \A i \in 1 .. k : path[s[i]] \in AllWords /\ handed[path[s[i]]] # {}
    <3>1. Handed(nodes, Len(leafId), path, handed)
      BY TrieParts
    <3>2. \A n \in 1 .. Len(nodes) : nodes[n].leaf # 0 => path[n] \in AllWords /\ handed[path[n]] = {nodes[n].leaf}
      BY <3>1, Zenon DEF Handed
    <3>3. \A n \in 1 .. Len(nodes) : nodes[n].leaf # 0 => path[n] \in AllWords /\ handed[path[n]] # {}
      BY <3>2
    <3>4. QED
      BY <1>4, <3>3
  <2>2. QED
    BY <2>1
<1>7. f \in [1 .. k -> W]
  BY <1>5, <1>6
<1>8. ASSUME NEW i \in 1 .. k, NEW j \in 1 .. k, f[i] = f[j]
      PROVE  i = j
  <2>1. s[i] \in 0 .. Len(nodes) /\ s[j] \in 0 .. Len(nodes) /\ path[s[i]] = path[s[j]]
    <3>1. \A n \in 1 .. Len(nodes) : n \in 0 .. Len(nodes)
      BY TrieParts, NodeType
    <3>2. QED
      BY <1>4, <1>5, <1>8, <3>1
  <2>2. Shaped(uri_id, nodes, Len(leafId)) /\ Spelled(nodes, path) /\ Apart(nodes)
    BY TrieParts
  <2>3. s[i] = s[j]
    BY <2>1, <2>2, PathsDiffer
  <2>4. QED
    BY <1>2, <1>4, <2>3 DEF IsInjective
<1>9. f \in Injection(1 .. k, W)
  <2>1. IsInjective(f)
    BY <1>7, <1>8 DEF IsInjective
  <2>2. QED
    BY <1>7, <2>1 DEF Injection
<1>10. Cardinality(1 .. k) <= Cardinality(W)
  BY <1>9, FS_Injection
<1>11. Cardinality(1 .. k) = k
  BY <1>4, FS_Interval
<1>12. QED
  BY <1>1, <1>3, <1>4, <1>10, <1>11
------------------------------------------------------------------------------
(***************************************************************************)
(* Leaves and words, and what look-ups find, in every state with a trie.   *)
(***************************************************************************)

Sound == leafId \in Seq(Nat) /\ \E path : Trie(path)

LEMMA LeavesOfWords ==
  ASSUME NEW path, Trie(path)
  PROVE  LeavesSpellWords
<1> DEFINE I == 1 .. Len(nodes)
           L == {n \in I : nodes[n].leaf # 0}
<1>1. Range(LeafNodes) = L
  BY LeafNodesAll
<1>2. \A n \in I : GetUri(n) = path[n]
  BY SpellingIsPath
<1>3. /\ \A n \in I : nodes[n].leaf # 0 => path[n] \in AllWords /\ handed[path[n]] = {nodes[n].leaf}
      /\ \A w \in AllWords : handed[w] # {} => \E n \in I : nodes[n].leaf # 0 /\ path[n] = w
  <2>1. Handed(nodes, Len(leafId), path, handed)
    BY TrieParts
  <2>2. QED
    BY <2>1, Zenon DEF Handed
<1>4. ASSUME NEW w \in AllWords
      PROVE  Cardinality(handed[w]) <= 1
  <2>1. handed[w] = {} \/ \E l : handed[w] = {l}
    <3>1. SUFFICES ASSUME handed[w] # {} PROVE \E l : handed[w] = {l}
      OBVIOUS
    <3>2. PICK n \in I : nodes[n].leaf # 0 /\ path[n] = w
      BY <1>3, <3>1
    <3>3. handed[w] = {nodes[n].leaf}
      BY <1>3, <3>2
    <3>4. QED
      BY <3>3
  <2>2. Cardinality(handed[w]) = 0 \/ Cardinality(handed[w]) = 1
    BY <2>1, FS_EmptySet, FS_Singleton
  <2>3. QED
    BY <2>2
<1> DEFINE A == {<<GetUri(n), nodes[n].leaf>> : n \in Range(LeafNodes)}
           B == UNION {{<<w, l>> : l \in handed[w]} : w \in AllWords}
<1>5. ASSUME NEW x \in A
      PROVE  x \in B
  <2>1. PICK n \in L : x = <<path[n], nodes[n].leaf>>
    BY <1>1, <1>2
  <2>2. PICK w, l : w = path[n] /\ l = nodes[n].leaf
    OBVIOUS
  <2>3. w \in AllWords /\ l \in handed[w] /\ x = <<w, l>>
    BY <1>3, <2>1, <2>2
  <2>4. QED
    BY <2>3
<1>6. ASSUME NEW x \in B
      PROVE  x \in A
  <2>1. PICK w \in AllWords : \E l \in handed[w] : x = <<w, l>>
    OBVIOUS
  <2>2. PICK l \in handed[w] : x = <<w, l>>
    BY <2>1
  <2>3. PICK n \in I : nodes[n].leaf # 0 /\ path[n] = w
    BY <1>3, <2>2
  <2>4. n \in Range(LeafNodes) /\ GetUri(n) = w
    BY <1>1, <1>2, <2>3
  <2>5. handed[w] = {nodes[n].leaf}
    BY <1>3, <2>3
  <2>6. nodes[n].leaf = l
    BY <2>2, <2>5
  <2>7. QED
    BY <2>2, <2>4, <2>6
<1>7. A = B
  <2> HIDE DEF A, B
  <2>1. QED
    BY <1>5, <1>6
<1>8. QED
  BY <1>4, <1>7 DEF LeavesSpellWords

LEMMA SoundSpells == Sound => LeavesSpellWords
<1> SUFFICES ASSUME Sound PROVE LeavesSpellWords
  OBVIOUS
<1>1. PICK path : Trie(path)
  BY DEF Sound
<1>2. QED
  BY <1>1, LeavesOfWords

GetsRight(w) ==
  /\ \A l \in handed[w] : Get(w) = leafId[l]
  /\ handed[w] = {} => Get(w) = 0
  /\ handed[w] \subseteq DOMAIN leafId

LEMMA SoundGets == Sound => \A w \in AllWords : GetsRight(w)
<1> SUFFICES ASSUME Sound, NEW w \in AllWords PROVE GetsRight(w)
  OBVIOUS
<1>1. PICK path : Trie(path)
  BY DEF Sound
<1>2. leafId \in Seq(Nat) /\ DOMAIN leafId = 1 .. Len(leafId)
  BY DEF Sound
<1>3. handed \in [AllWords -> SUBSET (1 .. Len(leafId))]
  BY <1>1, TrieParts DEF Handed
<1>4. QED
  BY <1>1, <1>2, <1>3, GetFinds DEF GetsRight
------------------------------------------------------------------------------
(***************************************************************************)
(* Identifiers decode.                                                     *)
(***************************************************************************)

LEMMA Decoding ==
  ASSUME NEW t \in Nat, NEW k \in Nat, k < SeqSpan
  PROVE  /\ GetId(k, t) \in Nat /\ GetType(GetId(k, t)) = t /\ GetSeq(GetId(k, t)) = k
         /\ k > 0 => GetId(k, t) > 0
<1>1. PICK S \in Nat : S = SeqSpan /\ S > k
  BY SpanAssumption
<1>2. PICK p : p = t * S
  OBVIOUS
<1>3. p \in Nat
  BY <1>2
<1>4. (p + k) \div S = t
  BY <1>1, <1>2, <1>3
<1>5. (p + k) % S = k
  BY <1>1, <1>2, <1>3, <1>4
<1>6. QED
  BY <1>1, <1>2, <1>3, <1>4, <1>5 DEF GetId, GetType, GetSeq

OtherTypes == TYPE_ID \ {1}

LEMMA Sizes ==
  /\ IsFiniteSet(Classes) /\ Cardinality(Classes) \in Nat /\ Cardinality(AllWords) \in Nat
  /\ Cardinality(Classes) <= Cardinality(AllWords) /\ Cardinality(AllWords) + 2 < SeqSpan
  /\ 1 \in TYPE_ID /\ TYPE_ID \subseteq Nat /\ 0 \in OtherTypes /\ 2 \in OtherTypes
  /\ \A k \in 1 .. Cardinality(Classes) : k + 2 \in OtherTypes /\ k + 2 < SeqSpan
<1>1. IsFiniteSet(AllWords) /\ Classes \in SUBSET AllWords
  BY WordsAssumption DEF AllWords
<1>2. /\ IsFiniteSet(Classes) /\ Cardinality(Classes) <= Cardinality(AllWords)
      /\ Cardinality(Classes) \in Nat /\ Cardinality(AllWords) \in Nat
  BY <1>1, FS_Subset, FS_CardinalityType
<1>3. Cardinality(AllWords) + 2 < SeqSpan
  BY <1>2, SpanAssumption
<1>4. QED
  BY <1>2, <1>3, SpanAssumption DEF TYPE_ID, OtherTypes

LEMMA ClassIdDecodes ==
  ASSUME NEW k \in 1 .. Cardinality(Classes)
  PROVE  /\ ClassId(k) \in Nat /\ ClassId(k) > 0
         /\ GetType(ClassId(k)) = 1 /\ GetSeq(ClassId(k)) = k + 2
<1>1. PICK j : j = k + 2
  OBVIOUS
<1>2. j \in Nat /\ j > 0 /\ j < SeqSpan
  BY <1>1, Sizes
<1>3. ClassId(k) = GetId(j, 1)
  BY <1>1 DEF ClassId
<1>4. QED
  BY <1>1, <1>2, <1>3, Decoding

Elements == [id : Nat, node : Nat]

\* The identifiers of a type that is not that of the classes: as many numbers
\* as elements, each of the leaf it was given to.
Numbers(lid, s, t, m) ==
  /\ IsFiniteSet(s) /\ Cardinality(s) <= m
  /\ \A e \in s : /\ \E k \in 1 .. Cardinality(s) : e.id = GetId(k, t)
                  /\ e.node \in 1 .. Len(nodes) /\ nodes[e.node].leaf # 0
                  /\ lid[nodes[e.node].leaf] = e.id

\* Identifiers and types agree, and m bounds the numbers given so far.
Filled(lid, tps, m) ==
  /\ lid \in Seq(Nat)
  /\ tps \in [TYPE_ID -> SUBSET Elements]
  /\ \A e \in tps[1] : \E k \in 1 .. Cardinality(Classes) : e.id = ClassId(k)
  /\ \A t \in OtherTypes : Numbers(lid, tps[t], t, m)
  /\ \A l \in DOMAIN lid : lid[l] # 0 => \E t \in TYPE_ID : \E e \in tps[t] : e.id = lid[l]
  /\ \A t \in TYPE_ID : \A e \in tps[t] : \E l \in DOMAIN lid : lid[l] = e.id
  /\ \A l, k \in DOMAIN lid : lid[l] # 0 /\ lid[l] = lid[k] => l = k

LEMMA FilledDecodes ==
  ASSUME NEW lid, NEW tps, NEW m \in Nat, m < SeqSpan, Filled(lid, tps, m),
         NEW t \in TYPE_ID, NEW e \in tps[t]
  PROVE  /\ e.id \in Nat /\ e.id > 0 /\ GetType(e.id) = t
         /\ t # 1 => /\ Cardinality(tps[t]) \in Nat /\ GetSeq(e.id) \in Nat
                     /\ GetSeq(e.id) <= Cardinality(tps[t])
<1>1. CASE t = 1
  <2>1. PICK k \in 1 .. Cardinality(Classes) : e.id = ClassId(k)
    BY <1>1 DEF Filled
  <2>2. QED
    BY <1>1, <2>1, ClassIdDecodes
<1>2. CASE t # 1
  <2>1. PICK s, c : s = tps[t] /\ c = Cardinality(s)
    OBVIOUS
  <2>2. t \in Nat /\ t \in OtherTypes
    BY <1>2, Sizes DEF OtherTypes
  <2>3. IsFiniteSet(s) /\ c <= m /\ \E k \in 1 .. c : e.id = GetId(k, t)
    BY <2>1, <2>2 DEF Filled, Numbers
  <2>4. c \in Nat
    BY <2>1, <2>3, FS_CardinalityType
  <2>5. PICK k \in 1 .. c : e.id = GetId(k, t)
    BY <2>3
  <2>6. k \in Nat /\ k > 0 /\ k <= c /\ k < SeqSpan
    BY <2>3, <2>4, <2>5, SpanAssumption
  <2>7. QED
    BY <2>1, <2>2, <2>4, <2>5, <2>6, Decoding
<1>3. QED
  BY <1>1, <1>2

\* What giving a leaf the next number of its type does.
LEMMA NumberFills ==
  ASSUME NEW path, Trie(path), NEW lid, NEW tps, NEW m \in Nat, m + 1 < SeqSpan,
         Filled(lid, tps, m), Len(lid) = Len(leafId),
         NEW n \in 1 .. Len(nodes), nodes[n].leaf # 0, TypeOf(nodes[n].leaf) \in OtherTypes,
         lid[nodes[n].leaf] = 0,
         NEW t, t = TypeOf(nodes[n].leaf), NEW id, id = NextId(tps[t], t)
  PROVE  /\ Filled([lid EXCEPT ![nodes[n].leaf] = id],
                   [tps EXCEPT ![t] = @ \union {[id |-> id, node |-> n]}], m + 1)
         /\ id # 0 /\ id \in Nat
<1>1. PICK l, s, c, e0, lid2, tps2 :
        /\ l = nodes[n].leaf /\ s = tps[t] /\ c = Cardinality(s) /\ e0 = [id |-> id, node |-> n]
        /\ lid2 = [lid EXCEPT ![l] = id] /\ tps2 = [tps EXCEPT ![t] = @ \union {e0}]
  OBVIOUS
<1>2. /\ lid \in Seq(Nat)
      /\ tps \in [TYPE_ID -> SUBSET Elements]
      /\ \A e \in tps[1] : \E k \in 1 .. Cardinality(Classes) : e.id = ClassId(k)
      /\ \A u \in OtherTypes : Numbers(lid, tps[u], u, m)
      /\ \A j \in DOMAIN lid : lid[j] # 0 => \E u \in TYPE_ID : \E e \in tps[u] : e.id = lid[j]
      /\ \A u \in TYPE_ID : \A e \in tps[u] : \E j \in DOMAIN lid : lid[j] = e.id
      /\ \A j, k \in DOMAIN lid : lid[j] # 0 /\ lid[j] = lid[k] => j = k
  BY DEF Filled
<1>3. /\ t \in OtherTypes /\ t \in TYPE_ID /\ t # 1 /\ t \in Nat
  BY Sizes DEF OtherTypes
<1>4. n \in Nat /\ l \in 1 .. Len(lid) /\ l \in DOMAIN lid /\ lid[l] = 0 /\ nodes[n].leaf = l /\ l # 0
  <2>1. n \in Nat /\ l \in 0 .. Len(lid) /\ l # 0
    BY <1>1, TrieParts, NodeType
  <2>2. QED
    BY <1>1, <1>2, <2>1
<1>5. IsFiniteSet(s) /\ c \in Nat /\ c <= m /\ c + 1 < SeqSpan
  <2>1. IsFiniteSet(s) /\ c <= m
    BY <1>1, <1>2, <1>3 DEF Numbers
  <2>2. c \in Nat
    BY <1>1, <2>1, FS_CardinalityType
  <2>3. QED
    BY <2>1, <2>2, SpanAssumption
<1>6. id \in Nat /\ id > 0 /\ id # 0 /\ GetType(id) = t /\ GetSeq(id) = c + 1
  <2>1. PICK k : k = c + 1
    OBVIOUS
  <2>2. k \in Nat /\ k > 0 /\ k < SeqSpan /\ id = GetId(k, t)
    BY <1>1, <1>5, <2>1 DEF NextId
  <2>3. QED
    BY <1>3, <2>1, <2>2, Decoding
<1>7. \A u \in TYPE_ID : \A e \in tps[u] : e.id # id
  <2>1. SUFFICES ASSUME NEW u \in TYPE_ID, NEW e \in tps[u], e.id = id PROVE FALSE
    OBVIOUS
  <2>2. m < SeqSpan
    BY SpanAssumption
  <2>3. /\ GetType(e.id) = u
        /\ u # 1 => GetSeq(e.id) \in Nat /\ GetSeq(e.id) <= Cardinality(tps[u])
    BY <2>2, FilledDecodes
  <2>4. u = t /\ c + 1 <= c
    BY <1>1, <1>3, <1>6, <2>1, <2>3
  <2>5. QED
    BY <1>5, <2>4
<1>8. \A j \in DOMAIN lid : lid[j] # id
  BY <1>2, <1>6, <1>7
<1>9. /\ lid2 \in Seq(Nat) /\ DOMAIN lid2 = DOMAIN lid /\ lid2[l] = id
      /\ \A j \in DOMAIN lid : j # l => lid2[j] = lid[j]
  BY <1>1, <1>2, <1>4, <1>6
<1>10. e0 \in Elements /\ e0.id = id /\ e0.node = n
  BY <1>1, <1>4, <1>6 DEF Elements
<1>11. /\ tps2 \in [TYPE_ID -> SUBSET Elements] /\ tps2[t] = s \union {e0}
       /\ \A u \in TYPE_ID : u # t => tps2[u] = tps[u]
  BY <1>1, <1>2, <1>3, <1>10
<1>12. tps2[1] = tps[1] /\ \A e \in tps2[1] : \E k \in 1 .. Cardinality(Classes) : e.id = ClassId(k)
  BY <1>2, <1>3, <1>11, Sizes
<1>13. ASSUME NEW u \in OtherTypes
       PROVE  Numbers(lid2, tps2[u], u, m + 1)
  <2>1. PICK v, d : v = tps[u] /\ d = Cardinality(v)
    OBVIOUS
  <2>2. u \in TYPE_ID
    BY DEF OtherTypes
  <2>3. /\ IsFiniteSet(v) /\ d <= m
        /\ \A e \in v : /\ \E k \in 1 .. d : e.id = GetId(k, u)
                        /\ e.node \in 1 .. Len(nodes) /\ nodes[e.node].leaf # 0
                        /\ lid[nodes[e.node].leaf] = e.id
    BY <1>2, <2>1 DEF Numbers
  <2>4. d \in Nat
    BY <2>1, <2>3, FS_CardinalityType
  <2>5. ASSUME NEW e \in v
        PROVE  lid2[nodes[e.node].leaf] = e.id
    <3>1. PICK q : q = nodes[e.node].leaf
      OBVIOUS
    <3>2. q \in 0 .. Len(leafId) /\ q # 0
      BY <2>3, <3>1, TrieParts, NodeType
    <3>3. q \in DOMAIN lid
      BY <1>2, <3>2
    <3>4. lid[q] = e.id /\ e.id > 0
      <4>1. m < SeqSpan
        BY SpanAssumption
      <4>2. e.id > 0
        BY <2>1, <2>2, <4>1, FilledDecodes
      <4>3. QED
        BY <2>3, <3>1, <4>2
    <3>5. q # l
      BY <1>4, <3>4
    <3>6. QED
      BY <1>9, <3>1, <3>3, <3>4, <3>5
  <2>6. CASE u # t
    <3>1. tps2[u] = v
      BY <1>11, <2>1, <2>2, <2>6
    <3>2. d <= m + 1
      BY <2>3, <2>4
    <3>3. QED
      BY <2>1, <2>3, <2>5, <3>1, <3>2 DEF Numbers
  <2>7. CASE u = t
    <3>1. v = s /\ d = c /\ tps2[u] = s \union {e0}
      BY <1>1, <1>11, <2>1, <2>7
    <3>2. e0 \notin s
      BY <1>1, <1>3, <1>7, <1>10
    <3>3. PICK w : w = s \union {e0}
      OBVIOUS
    <3>4. IsFiniteSet(w) /\ Cardinality(w) = c + 1
      BY <1>1, <1>5, <3>2, <3>3, FS_AddElement
    <3>5. ASSUME NEW e \in w
          PROVE  /\ \E k \in 1 .. (c + 1) : e.id = GetId(k, u)
                 /\ e.node \in 1 .. Len(nodes) /\ nodes[e.node].leaf # 0
                 /\ lid2[nodes[e.node].leaf] = e.id
      <4>1. CASE e \in s
        <5>1. PICK k \in 1 .. c : e.id = GetId(k, u)
          BY <2>3, <3>1, <4>1
        <5>2. k \in 1 .. (c + 1)
          BY <1>5
        <5>3. QED
          BY <2>3, <2>5, <3>1, <4>1, <5>1, <5>2
      <4>2. CASE e = e0
        <5>1. c + 1 \in 1 .. (c + 1) /\ id = GetId(c + 1, u)
          BY <1>1, <1>5, <2>7 DEF NextId
        <5>2. QED
          BY <1>4, <1>9, <1>10, <4>2, <5>1
      <4>3. QED
        BY <3>3, <3>5, <4>1, <4>2
    <3>6. c + 1 <= m + 1
      BY <1>5
    <3>7. QED
      BY <3>1, <3>3, <3>4, <3>5, <3>6 DEF Numbers
  <2>8. QED
    BY <2>6, <2>7
<1>14. ASSUME NEW j \in DOMAIN lid2, lid2[j] # 0
       PROVE  \E u \in TYPE_ID : \E e \in tps2[u] : e.id = lid2[j]
  <2>1. CASE j = l
    <3>1. e0 \in tps2[t] /\ e0.id = lid2[j]
      BY <1>9, <1>10, <1>11, <2>1
    <3>2. QED
      BY <1>3, <3>1
  <2>2. CASE j # l
    <3>1. j \in DOMAIN lid /\ lid2[j] = lid[j] /\ lid[j] # 0
      BY <1>9, <1>14, <2>2
    <3>2. PICK u \in TYPE_ID : \E e \in tps[u] : e.id = lid[j]
      BY <1>2, <3>1
    <3>3. PICK e \in tps[u] : e.id = lid[j]
      BY <3>2
    <3>4. e \in tps2[u]
      BY <1>1, <1>11, <3>3
    <3>5. QED
      BY <3>1, <3>3, <3>4
  <2>3. QED
    BY <2>1, <2>2
<1>15. ASSUME NEW u \in TYPE_ID, NEW e \in tps2[u]
       PROVE  \E j \in DOMAIN lid2 : lid2[j] = e.id
  <2>1. CASE e \in tps[u]
    <3>1. PICK j \in DOMAIN lid : lid[j] = e.id
      BY <1>2, <2>1
    <3>2. e.id > 0
      <4>1. m < SeqSpan
        BY SpanAssumption
      <4>2. QED
        BY <2>1, <4>1, FilledDecodes
    <3>3. j # l
      BY <1>4, <3>1, <3>2
    <3>4. QED
      BY <1>9, <3>1, <3>3
  <2>2. CASE e \notin tps[u]
    <3>1. e = e0
      BY <1>1, <1>11, <1>15, <2>2
    <3>2. QED
      BY <1>4, <1>9, <1>10, <3>1
  <2>3. QED
    BY <2>1, <2>2
<1>16. ASSUME NEW j \in DOMAIN lid2, NEW k \in DOMAIN lid2, lid2[j] # 0, lid2[j] = lid2[k]
       PROVE  j = k
  <2>1. j = l \/ lid2[j] = lid[j]
    BY <1>9
  <2>2. k = l \/ lid2[k] = lid[k]
    BY <1>9
  <2>3. j \in DOMAIN lid /\ k \in DOMAIN lid
    BY <1>9
  <2>4. QED
    BY <1>2, <1>8, <1>9, <1>16, <2>1, <2>2, <2>3
<1>17. Filled(lid2, tps2, m + 1)
  BY <1>9, <1>11, <1>12, <1>13, <1>14, <1>15, <1>16 DEF Filled
<1>18. QED
  BY <1>1, <1>6, <1>17

Typings == [leaf : Nat, type : OtherTypes]

\* The types of a leaf after each rdf:type line.
IsChosen(f, leaf, k) ==
  f = [i \in 0 .. k |->
         IF i = 0 THEN {}
         ELSE IF tt[i].leaf = leaf THEN Chosen(f[i - 1], tt[i].type) ELSE f[i - 1]]

LEMMA ChosenExists ==
  ASSUME NEW leaf, NEW n \in Nat
  PROVE  \E f : IsChosen(f, leaf, n)
<1> DEFINE Bad == {k \in Nat : ~ \E f : IsChosen(f, leaf, k)}
<1> SUFFICES ASSUME Bad # {} PROVE FALSE
  OBVIOUS
<1>1. PICK k \in Bad : \A j \in Bad : k <= j
  BY LeastIndex
<1>2. k \in Nat /\ ~ \E f : IsChosen(f, leaf, k)
  OBVIOUS
<1>3. k # 0
  <2>1. PICK f : f = [i \in 0 .. 0 |-> {}]
    OBVIOUS
  <2>2. f = [i \in 0 .. 0 |->
               IF i = 0 THEN {}
               ELSE IF tt[i].leaf = leaf THEN Chosen(f[i - 1], tt[i].type) ELSE f[i - 1]]
    BY <2>1
  <2>3. IsChosen(f, leaf, 0)
    BY <2>2, Zenon DEF IsChosen
  <2>4. QED
    BY <1>2, <2>3
<1>4. PICK j : j = k - 1
  OBVIOUS
<1>5. j \in Nat /\ ~ (k <= j) /\ k \in 0 .. k /\ j \in 0 .. j
  BY <1>2, <1>3, <1>4
<1>6. PICK f : IsChosen(f, leaf, j)
  BY <1>1, <1>5
<1> DEFINE Value(g, i) == IF i = 0 THEN {}
                          ELSE IF tt[i].leaf = leaf THEN Chosen(g[i - 1], tt[i].type) ELSE g[i - 1]
<1>7. f = [i \in 0 .. j |-> Value(f, i)]
  BY <1>6, Zenon DEF IsChosen
<1>8. PICK g : g = [i \in 0 .. k |-> IF i = k THEN Value(f, k) ELSE f[i]]
  OBVIOUS
<1>9. /\ DOMAIN g = 0 .. k /\ g[k] = Value(f, k)
      /\ \A i \in 0 .. j : i \in 0 .. k /\ i # k /\ g[i] = f[i] /\ (i # 0 => i - 1 \in 0 .. j)
      /\ \A i \in 0 .. k : i = k \/ i \in 0 .. j
      /\ k - 1 \in 0 .. j
  BY <1>2, <1>3, <1>4, <1>8
<1>10. ASSUME NEW i \in 0 .. k
       PROVE  g[i] = Value(g, i)
  <2>1. i # 0 => g[i - 1] = f[i - 1]
    BY <1>9
  <2>2. Value(g, i) = Value(f, i)
    BY <2>1
  <2>3. i # k => g[i] = f[i] /\ f[i] = Value(f, i)
    <3> HIDE DEF Value
    <3>1. QED
      BY <1>7, <1>9
  <2> HIDE DEF Value
  <2>4. QED
    BY <1>9, <2>2, <2>3
<1>11. g = [i \in 0 .. k |-> Value(g, i)]
  <2> HIDE DEF Value
  <2>1. g = [i \in 0 .. k |-> g[i]]
    BY <1>8
  <2>2. QED
    BY <1>10, <2>1
<1>12. IsChosen(g, leaf, k)
  BY <1>11, Zenon DEF IsChosen
<1>13. QED
  BY <1>2, <1>12

LEMMA ChosenType ==
  ASSUME NEW old \in SUBSET OtherTypes, NEW t \in OtherTypes
  PROVE  Chosen(old, t) \in SUBSET OtherTypes
BY DEF Chosen

\* Classes have numbers of type 1: no word is given that type.
LEMMA TypeOfType ==
  ASSUME tt \in Seq(Typings), NEW leaf
  PROVE  TypeOf(leaf) \in OtherTypes
<1>1. PICK k : k = Len(tt)
  OBVIOUS
<1>2. k \in Nat /\ \A i \in 1 .. k : tt[i] \in Typings
  BY <1>1
<1>3. \A i \in 1 .. k : tt[i].type \in OtherTypes
  BY <1>2 DEF Typings
<1>4. PICK f : f = CHOOSE g : IsChosen(g, leaf, k)
  OBVIOUS
<1>5. IsChosen(f, leaf, k)
  BY <1>2, <1>4, ChosenExists, Zenon
<1>6. ChosenTypes(leaf) = f[k]
  BY <1>1, <1>4 DEF ChosenTypes, IsChosen
<1>7. \A i \in 0 .. k : f[i] = IF i = 0 THEN {}
                               ELSE IF tt[i].leaf = leaf THEN Chosen(f[i - 1], tt[i].type) ELSE f[i - 1]
  BY <1>5 DEF IsChosen
<1> DEFINE Bad == {i \in 0 .. k : ~ (f[i] \in SUBSET OtherTypes)}
<1>8. Bad = {}
  <2>1. SUFFICES ASSUME Bad # {} PROVE FALSE
    OBVIOUS
  <2>2. Bad \in SUBSET Nat
    BY <1>2
  <2>3. PICK i \in Bad : \A j \in Bad : i <= j
    BY <2>1, <2>2, LeastIndex
  <2>4. i \in 0 .. k /\ ~ (f[i] \in SUBSET OtherTypes)
    OBVIOUS
  <2>5. i # 0
    BY <1>7, <2>4
  <2>6. PICK j : j = i - 1
    OBVIOUS
  <2>7. j \in 0 .. k /\ ~ (i <= j) /\ i \in 1 .. k
    BY <1>2, <2>4, <2>5, <2>6
  <2>8. f[j] \in SUBSET OtherTypes
    BY <2>3, <2>7
  <2>9. f[i] = IF tt[i].leaf = leaf THEN Chosen(f[j], tt[i].type) ELSE f[j]
    BY <1>7, <2>4, <2>5, <2>6
  <2>10. Chosen(f[j], tt[i].type) \in SUBSET OtherTypes
    BY <1>3, <2>7, <2>8, ChosenType
  <2>11. QED
    BY <2>4, <2>8, <2>9, <2>10
<1>9. ChosenTypes(leaf) \in SUBSET OtherTypes
  BY <1>2, <1>6, <1>8
<1>10. QED
  BY <1>9, Sizes DEF TypeOf

IsNumbered(f, k) ==
  f = [i \in 0 .. k |-> IF i = 0 THEN [leafId |-> leafId, types |-> types]
                                 ELSE Number(f[i - 1], LeafNodes[i])]

LEMMA NumberedExists ==
  ASSUME NEW n \in Nat
  PROVE  \E f : IsNumbered(f, n)
<1> DEFINE Bad == {k \in Nat : ~ \E f : IsNumbered(f, k)}
           Value(g, i) == IF i = 0 THEN [leafId |-> leafId, types |-> types]
                                   ELSE Number(g[i - 1], LeafNodes[i])
<1> SUFFICES ASSUME Bad # {} PROVE FALSE
  OBVIOUS
<1>1. PICK k \in Bad : \A j \in Bad : k <= j
  BY LeastIndex
<1>2. k \in Nat /\ ~ \E f : IsNumbered(f, k)
  OBVIOUS
<1>3. \A f, j : IsNumbered(f, j) <=> f = [i \in 0 .. j |-> Value(f, i)]
  BY DEF IsNumbered
<1>4. ASSUME NEW f, NEW g, NEW i \in Nat, i # 0 => f[i - 1] = g[i - 1]
      PROVE  Value(f, i) = Value(g, i)
  BY <1>4
<1>5. \A f, g : Value(f, 0) = Value(g, 0)
  OBVIOUS
<1> HIDE DEF Value
<1>6. k # 0
  <2>1. PICK f : f = [i \in 0 .. 0 |-> Value(<<>>, 0)]
    OBVIOUS
  <2>2. f = [i \in 0 .. 0 |-> Value(f, i)]
    BY <1>5, <2>1
  <2>3. QED
    BY <1>2, <1>3, <2>2
<1>7. PICK j : j = k - 1
  OBVIOUS
<1>8. j \in Nat /\ ~ (k <= j)
  BY <1>2, <1>6, <1>7
<1>9. PICK f : f = [i \in 0 .. j |-> Value(f, i)]
  BY <1>1, <1>3, <1>8
<1>10. PICK g : g = [i \in 0 .. k |-> IF i = k THEN Value(f, k) ELSE f[i]]
  OBVIOUS
<1>11. /\ DOMAIN g = 0 .. k /\ g[k] = Value(f, k)
       /\ \A i \in 0 .. j : i \in 0 .. k /\ i # k /\ g[i] = f[i] /\ (i # 0 => i - 1 \in 0 .. j)
       /\ \A i \in 0 .. k : i \in Nat /\ (i = k \/ i \in 0 .. j)
       /\ k - 1 \in 0 .. j
  BY <1>2, <1>6, <1>7, <1>10
<1>12. ASSUME NEW i \in 0 .. k
       PROVE  g[i] = Value(g, i)
  <2>1. i \in Nat /\ (i # 0 => g[i - 1] = f[i - 1])
    BY <1>11
  <2>2. Value(g, i) = Value(f, i)
    BY <1>4, <2>1
  <2>3. i # k => g[i] = f[i] /\ f[i] = Value(f, i)
    BY <1>9, <1>11
  <2>4. QED
    BY <1>11, <2>2, <2>3
<1>13. g = [i \in 0 .. k |-> Value(g, i)]
  <2>1. g = [i \in 0 .. k |-> g[i]]
    BY <1>10
  <2>2. QED
    BY <1>12, <2>1
<1>14. QED
  BY <1>2, <1>3, <1>13

LEMMA NumberedIs ==
  ASSUME Len(LeafNodes) \in Nat
  PROVE  \A i \in 0 .. Len(LeafNodes) :
           Numbered[i] = IF i = 0 THEN [leafId |-> leafId, types |-> types]
                                  ELSE Number(Numbered[i - 1], LeafNodes[i])
<1>1. PICK k : k = Len(LeafNodes)
  OBVIOUS
<1>2. Numbered = CHOOSE g : IsNumbered(g, k)
  BY <1>1 DEF Numbered, IsNumbered
<1>3. \E g : IsNumbered(g, k)
  BY <1>1, NumberedExists
<1>4. IsNumbered(Numbered, k)
  BY <1>2, <1>3, Zenon
<1>5. Numbered = [i \in 0 .. k |-> IF i = 0 THEN [leafId |-> leafId, types |-> types]
                                            ELSE Number(Numbered[i - 1], LeafNodes[i])]
  BY <1>4, Zenon DEF IsNumbered
<1>6. QED
  BY <1>1, <1>5

LEMMA FilledMore ==
  ASSUME NEW lid, NEW tps, NEW m \in Nat, Filled(lid, tps, m)
  PROVE  Filled(lid, tps, m + 1)
<1>1. ASSUME NEW t \in OtherTypes
      PROVE  Numbers(lid, tps[t], t, m + 1)
  <2>1. PICK s, c : s = tps[t] /\ c = Cardinality(s)
    OBVIOUS
  <2>2. Numbers(lid, s, t, m)
    BY <2>1 DEF Filled
  <2>3. IsFiniteSet(s) /\ c <= m
    BY <2>1, <2>2 DEF Numbers
  <2>4. c \in Nat
    BY <2>1, <2>3, FS_CardinalityType
  <2>5. c <= m + 1
    BY <2>3, <2>4
  <2>6. QED
    BY <2>1, <2>2, <2>5 DEF Numbers
<1>2. QED
  BY <1>1 DEF Filled

\* While no word of the second pass has a number, all other types are empty.
LEMMA OthersEmpty ==
  ASSUME NEW lid, NEW tps, Filled(lid, tps, 0), NEW t \in OtherTypes
  PROVE  tps[t] = {}
<1>1. PICK s : s = tps[t]
  OBVIOUS
<1>2. IsFiniteSet(s) /\ Cardinality(s) <= 0
  BY <1>1 DEF Filled, Numbers
<1>3. Cardinality(s) \in Nat
  BY <1>2, FS_CardinalityType
<1>4. Cardinality(s) = 0
  BY <1>2, <1>3
<1>5. QED
  BY <1>1, <1>2, <1>4, FS_EmptySet

\* The walk of MakeInverseIndex after i leaves.
Walked(i) ==
  \E lid, tps : /\ Numbered[i] = [leafId |-> lid, types |-> tps]
                /\ Filled(lid, tps, i) /\ Len(lid) = Len(leafId)
                /\ \A j \in 1 .. i : lid[nodes[LeafNodes[j]].leaf] # 0

LEMMA WalkStep ==
  ASSUME NEW path, Trie(path), leafId \in Seq(Nat), tt \in Seq(Typings),
         Len(LeafNodes) \in Nat, Len(LeafNodes) < SeqSpan,
         NEW i \in 1 .. Len(LeafNodes), Walked(i - 1)
  PROVE  Walked(i)
<1>1. PICK n, l, order, m : n = LeafNodes[i] /\ l = nodes[n].leaf /\ order = LeafNodes /\ m = i - 1
  OBVIOUS
<1>2. PICK lid, tps : /\ Numbered[m] = [leafId |-> lid, types |-> tps]
                      /\ Filled(lid, tps, m) /\ Len(lid) = Len(leafId)
                      /\ \A j \in 1 .. m : lid[nodes[order[j]].leaf] # 0
  BY <1>1 DEF Walked
<1>3. m \in Nat /\ m + 1 = i /\ i # 0 /\ i \in 0 .. Len(LeafNodes) /\ m + 1 < SeqSpan
  BY <1>1, SpanAssumption
<1>4. /\ order \in Seq(1 .. Len(nodes))
      /\ Range(order) = {x \in 1 .. Len(nodes) : nodes[x].leaf # 0}
  BY <1>1, LeafNodesAll
<1>5. i \in DOMAIN order /\ n = order[i]
  BY <1>1, <1>4
<1>6. n \in Range(order)
  BY <1>5 DEF Range
<1>7. n \in 1 .. Len(nodes) /\ nodes[n].leaf # 0 /\ l \in 0 .. Len(leafId) /\ l # 0
  <2>1. n \in 1 .. Len(nodes) /\ nodes[n].leaf # 0
    BY <1>4, <1>6
  <2>2. QED
    BY <1>1, <2>1, TrieParts, NodeType
<1>8. TypeOf(l) \in OtherTypes
  BY TypeOfType
<1>9. Numbered[i] = Number(Numbered[m], n)
  BY <1>1, <1>3, NumberedIs
<1>10. CASE lid[l] # 0
  <2>1. Numbered[i] = [leafId |-> lid, types |-> tps]
    BY <1>1, <1>2, <1>9, <1>10 DEF Number
  <2>2. Filled(lid, tps, i)
    BY <1>2, <1>3, FilledMore
  <2>3. \A j \in 1 .. i : lid[nodes[order[j]].leaf] # 0
    <3>1. \A j \in 1 .. i : j \in 1 .. m \/ j = i
      BY <1>1
    <3>2. QED
      BY <1>1, <1>2, <1>5, <1>10, <3>1
  <2>4. QED
    BY <1>1, <1>2, <2>1, <2>2, <2>3 DEF Walked
<1>11. CASE lid[l] = 0
  <2>1. PICK t, id, lid2, tps2 :
          /\ t = TypeOf(l) /\ id = NextId(tps[t], t) /\ lid2 = [lid EXCEPT ![l] = id]
          /\ tps2 = [tps EXCEPT ![t] = @ \union {[id |-> id, node |-> n]}]
    OBVIOUS
  <2>2. Numbered[i] = [leafId |-> lid2, types |-> tps2]
    BY <1>1, <1>2, <1>9, <1>11, <2>1 DEF Number
  <2>3. Filled(lid2, tps2, i) /\ id # 0 /\ id \in Nat
    <3>1. Filled([lid EXCEPT ![nodes[n].leaf] = id],
                 [tps EXCEPT ![t] = @ \union {[id |-> id, node |-> n]}], m + 1) /\ id # 0 /\ id \in Nat
      BY <1>1, <1>2, <1>3, <1>7, <1>8, <1>11, <2>1, NumberFills
    <3>2. QED
      BY <1>1, <1>3, <2>1, <3>1
  <2>4. lid \in Seq(Nat)
    BY <1>2 DEF Filled
  <2>5. /\ Len(lid2) = Len(leafId) /\ DOMAIN lid2 = DOMAIN lid
        /\ lid2[l] # 0 /\ \A k : k \in DOMAIN lid /\ k # l => lid2[k] = lid[k]
    BY <1>2, <1>7, <2>1, <2>3, <2>4
  <2>6. ASSUME NEW j \in 1 .. i
        PROVE  lid2[nodes[order[j]].leaf] # 0
    <3>1. CASE j = i
      BY <1>1, <1>5, <2>5, <3>1
    <3>2. CASE j # i
      <4>1. PICK k : k = nodes[order[j]].leaf
        OBVIOUS
      <4>2. j \in 1 .. m /\ j \in DOMAIN order
        BY <1>1, <1>3, <1>4, <3>2
      <4>3. order[j] \in 1 .. Len(nodes) /\ k # 0
        <5>1. order[j] \in Range(order)
          BY <4>2 DEF Range
        <5>2. QED
          BY <1>4, <4>1, <5>1
      <4>4. k \in 0 .. Len(leafId)
        BY <4>1, <4>3, TrieParts, NodeType
      <4>5. k \in DOMAIN lid
        BY <1>2, <2>4, <4>3, <4>4
      <4>6. lid[k] # 0
        BY <1>2, <4>1, <4>2
      <4>7. QED
        BY <2>5, <4>1, <4>5, <4>6
    <3>3. QED
      BY <3>1, <3>2
  <2>7. QED
    BY <1>1, <2>2, <2>3, <2>5, <2>6 DEF Walked
<1>12. QED
  BY <1>10, <1>11

LEMMA WalkEnds ==
  ASSUME NEW path, Trie(path), Filled(leafId, types, 0), tt \in Seq(Typings)
  PROVE  \E lid, tps, m : /\ Numbered[Len(LeafNodes)] = [leafId |-> lid, types |-> tps]
                          /\ m \in Nat /\ m < SeqSpan /\ Filled(lid, tps, m)
                          /\ Len(lid) = Len(leafId)
                          /\ \A l \in DOMAIN lid : lid[l] # 0
<1>1. PICK k : k = Len(LeafNodes)
  OBVIOUS
<1>2. k \in Nat /\ k < SeqSpan
  <2>1. IsFiniteSet(AllWords) /\ \A w \in AllWords : handed[w] # {} => w \in AllWords
    BY WordsAssumption
  <2>2. k \in Nat /\ k <= Cardinality(AllWords)
    BY <1>1, <2>1, LeafNodesCount
  <2>3. QED
    BY <2>2, Sizes, SpanAssumption
<1>3. leafId \in Seq(Nat)
  BY DEF Filled
<1>4. Walked(0)
  <2>1. Numbered[0] = [leafId |-> leafId, types |-> types]
    BY <1>1, <1>2, NumberedIs
  <2>2. \A j \in 1 .. 0 : leafId[nodes[LeafNodes[j]].leaf] # 0
    OBVIOUS
  <2>3. QED
    BY <2>1, <2>2 DEF Walked
<1> DEFINE Bad == {i \in 0 .. k : ~ Walked(i)}
<1>5. Bad = {}
  <2>1. SUFFICES ASSUME Bad # {} PROVE FALSE
    OBVIOUS
  <2>2. Bad \in SUBSET Nat
    BY <1>2
  <2>3. PICK i \in Bad : \A j \in Bad : i <= j
    BY <2>1, <2>2, LeastIndex
  <2>4. i \in 0 .. k /\ ~ Walked(i)
    OBVIOUS
  <2>5. i # 0
    BY <1>4, <2>4
  <2>6. i - 1 \in 0 .. k /\ ~ (i <= i - 1) /\ i \in 1 .. Len(LeafNodes)
    BY <1>1, <1>2, <2>4, <2>5
  <2>7. Walked(i - 1)
    BY <2>3, <2>6
  <2>8. Walked(i)
    BY <1>1, <1>2, <1>3, <2>6, <2>7, WalkStep
  <2>9. QED
    BY <2>4, <2>8
<1>6. Walked(k)
  BY <1>2, <1>5
<1>7. PICK lid, tps : /\ Numbered[k] = [leafId |-> lid, types |-> tps]
                      /\ Filled(lid, tps, k) /\ Len(lid) = Len(leafId)
                      /\ \A j \in 1 .. k : lid[nodes[LeafNodes[j]].leaf] # 0
  BY <1>6 DEF Walked
<1>8. ASSUME NEW l \in DOMAIN lid
      PROVE  lid[l] # 0
  <2>1. lid \in Seq(Nat) /\ l \in 1 .. Len(leafId)
    BY <1>7, <1>8 DEF Filled
  <2>2. PICK n \in 1 .. Len(nodes) : nodes[n].leaf = l
    <3>1. Handed(nodes, Len(leafId), path, handed)
      BY TrieParts
    <3>2. QED
      BY <2>1, <3>1 DEF Handed
  <2>3. l # 0
    BY <1>3, <2>1
  <2>4. n \in Range(LeafNodes)
    BY <2>2, <2>3, LeafNodesAll
  <2>5. PICK j \in DOMAIN LeafNodes : LeafNodes[j] = n
    BY <2>4 DEF Range
  <2>6. j \in 1 .. k
    BY <1>1, <2>5, LeafNodesAll
  <2>7. QED
    BY <1>7, <2>2, <2>5, <2>6
<1>9. QED
  BY <1>1, <1>2, <1>7, <1>8
------------------------------------------------------------------------------
(***************************************************************************)
(* The invariant: there is a trie of the words added, nothing is numbered  *)
(* in the first pass, only classes in the second, everything at its end.   *)
(***************************************************************************)

FirstPass ==
  /\ \A l \in DOMAIN leafId : leafId[l] = 0
  /\ \A w \in AllWords : handed[w] # {} => w \in Classes

Given ==
  /\ \E m \in Nat : m < SeqSpan /\ Filled(leafId, types, m)
  /\ \A l \in DOMAIN leafId : leafId[l] # 0

KInv ==
  /\ Sound
  /\ tt \in Seq(Typings)
  /\ stage = "classes" => FirstPass
  /\ stage # "numbered" => Filled(leafId, types, 0)
  /\ stage = "numbered" => Given

LEMMA EmptyTrie ==
  ASSUME uri_id = <<>>, nodes = <<>>, leafId = <<>>, handed = [w \in AllWords |-> {}]
  PROVE  Trie([n \in 0 .. 0 |-> <<>>])
<1>1. PICK path : path = [n \in 0 .. 0 |-> <<>>]
  OBVIOUS
<1>2. Len(nodes) = 0 /\ Len(leafId) = 0 /\ \A n : ~ (n \in 1 .. Len(nodes))
  OBVIOUS
<1>3. Shaped(uri_id, nodes, Len(leafId))
  BY <1>2 DEF Shaped
<1>4. Spelled(nodes, path)
  <2>1. <<>> \in Text
    BY DEF Text
  <2>2. QED
    BY <1>1, <1>2, <2>1 DEF Spelled
<1>5. Linked(uri_id, nodes)
  <2>1. \A m \in 0 .. Len(nodes) : m = 0
    BY <1>2
  <2>2. \A i : ~ (i \in DOMAIN Kids(uri_id, nodes, 0))
    BY DEF Kids
  <2>3. QED
    BY <1>2, <2>1, <2>2 DEF Linked
<1>6. Apart(nodes)
  BY <1>2 DEF Apart
<1>7. Handed(nodes, Len(leafId), path, handed)
  BY <1>2 DEF Handed
<1>8. QED
  BY <1>1, <1>3, <1>4, <1>5, <1>6, <1>7 DEF Trie, IsTrie

LEMMA KInit == Init => KInv
<1> SUFFICES ASSUME Init PROVE KInv
  OBVIOUS
<1>1. /\ stage = "classes" /\ uri_id = <<>> /\ nodes = <<>> /\ leafId = <<>>
      /\ types = [t \in TYPE_ID |-> {}] /\ tt = <<>>
      /\ handed = [w \in AllWords |-> {}]
  BY DEF Init
<1>2. Sound
  <2>1. leafId \in Seq(Nat)
    BY <1>1
  <2>2. QED
    BY <1>1, <2>1, EmptyTrie DEF Sound
<1>3. tt \in Seq(Typings)
  BY <1>1
<1>4. FirstPass
  BY <1>1 DEF FirstPass
<1>5. Filled(leafId, types, 0)
  <2>1. ASSUME NEW t \in OtherTypes
        PROVE  Numbers(leafId, types[t], t, 0)
    <3>1. types[t] = {}
      BY <1>1 DEF OtherTypes
    <3>2. QED
      BY <3>1, FS_EmptySet DEF Numbers
  <2>2. types[1] = {} /\ \A t \in TYPE_ID : types[t] = {}
    BY <1>1, Sizes
  <2>3. types \in [TYPE_ID -> SUBSET Elements]
    BY <1>1
  <2>4. leafId \in Seq(Nat) /\ \A l : ~ (l \in DOMAIN leafId)
    BY <1>1
  <2>5. QED
    BY <2>1, <2>2, <2>3, <2>4 DEF Filled
<1>6. QED
  BY <1>1, <1>2, <1>3, <1>4, <1>5 DEF KInv

\* The type a line of the second pass gives is not that of the classes.
LEMMA SoundTypes ==
  Sound /\ Filled(leafId, types, 0) => \A c \in AllWords : GetSeq(Get(c)) \in OtherTypes
<1> SUFFICES ASSUME Sound, Filled(leafId, types, 0), NEW c \in AllWords
             PROVE  GetSeq(Get(c)) \in OtherTypes
  OBVIOUS
<1>1. GetsRight(c)
  BY SoundGets
<1>2. Get(c) = 0 \/ \E l \in DOMAIN leafId : Get(c) = leafId[l] /\ leafId[l] # 0
  BY <1>1 DEF GetsRight
<1>3. CASE Get(c) = 0
  <2>1. PICK S \in Nat : S = SeqSpan /\ S > 0
    <3>1. 0 < SeqSpan
      BY Sizes, SpanAssumption
    <3>2. QED
      BY <3>1, SpanAssumption
  <2>2. 0 % S = 0
    BY <2>1
  <2>3. QED
    BY <1>3, <2>1, <2>2, Sizes DEF GetSeq
<1>4. CASE \E l \in DOMAIN leafId : Get(c) = leafId[l] /\ leafId[l] # 0
  <2>1. PICK l \in DOMAIN leafId : Get(c) = leafId[l] /\ leafId[l] # 0
    BY <1>4
  <2>2. PICK t \in TYPE_ID : \E e \in types[t] : e.id = leafId[l]
    BY <2>1 DEF Filled
  <2>3. PICK e \in types[t] : e.id = leafId[l]
    BY <2>2
  <2>4. t = 1
    BY <2>3, OthersEmpty DEF OtherTypes
  <2>5. PICK k \in 1 .. Cardinality(Classes) : e.id = ClassId(k)
    BY <2>3, <2>4 DEF Filled
  <2>6. GetSeq(Get(c)) = k + 2
    BY <2>1, <2>3, <2>5, ClassIdDecodes
  <2>7. QED
    BY <2>6, Sizes
<1>5. QED
  BY <1>2, <1>3, <1>4

\* A new leaf has no identifier yet.
LEMMA FilledGrows ==
  ASSUME Filled(leafId, types, 0), leafId' = Append(leafId, 0), types' = types
  PROVE  Filled(leafId, types, 0)'
<1>1. /\ leafId \in Seq(Nat) /\ types \in [TYPE_ID -> SUBSET Elements]
      /\ \A e \in types[1] : \E k \in 1 .. Cardinality(Classes) : e.id = ClassId(k)
      /\ \A l \in DOMAIN leafId : leafId[l] # 0 => \E t \in TYPE_ID : \E e \in types[t] : e.id = leafId[l]
      /\ \A t \in TYPE_ID : \A e \in types[t] : \E l \in DOMAIN leafId : leafId[l] = e.id
      /\ \A l, k \in DOMAIN leafId : leafId[l] # 0 /\ leafId[l] = leafId[k] => l = k
  BY DEF Filled
<1>2. PICK lid : lid = leafId'
  OBVIOUS
<1>3. /\ lid \in Seq(Nat)
      /\ \A l \in DOMAIN lid : lid[l] # 0 => l \in DOMAIN leafId /\ lid[l] = leafId[l]
      /\ \A l \in DOMAIN leafId : l \in DOMAIN lid /\ lid[l] = leafId[l]
  BY <1>1, <1>2
<1>4. ASSUME NEW t \in OtherTypes
      PROVE  Numbers(leafId, types[t], t, 0)'
  <2>1. types'[t] = {}
    BY OthersEmpty
  <2>2. QED
    BY <2>1, FS_EmptySet DEF Numbers
<1>5. \A l \in DOMAIN lid : lid[l] # 0 => \E t \in TYPE_ID : \E e \in types[t] : e.id = lid[l]
  BY <1>1, <1>3
<1>6. \A t \in TYPE_ID : \A e \in types[t] : \E l \in DOMAIN lid : lid[l] = e.id
  <2>1. SUFFICES ASSUME NEW t \in TYPE_ID, NEW e \in types[t] PROVE \E l \in DOMAIN lid : lid[l] = e.id
    OBVIOUS
  <2>2. PICK l \in DOMAIN leafId : leafId[l] = e.id
    BY <1>1
  <2>3. QED
    BY <1>3, <2>2
<1>7. \A l, k \in DOMAIN lid : lid[l] # 0 /\ lid[l] = lid[k] => l = k
  BY <1>1, <1>3
<1>8. QED
  BY <1>1, <1>2, <1>3, <1>4, <1>5, <1>6, <1>7 DEF Filled

\* What an Add leaves as it was.
LEMMA WordStep ==
  ASSUME PrefixFree, KInv, stage # "numbered", NEW w \in AllWords, AddWord(w), types' = types
  PROVE  /\ Sound' /\ Filled(leafId, types, 0)'
         /\ FirstPass /\ w \in Classes => FirstPass'
         /\ Added(w) \in Nat
<1>1. PICK path : Trie(path)
  BY DEF KInv, Sound
<1>2. leafId \in Seq(Nat) /\ Filled(leafId, types, 0)
  BY DEF KInv, Sound
<1>3. TrieNext /\ (NewWord(w) \/ KnownWord(w))
  BY <1>1, <1>2, AddWordTrie
<1>4. handed \in [AllWords -> SUBSET (1 .. Len(leafId))]
  BY <1>1, TrieParts DEF Handed
<1>5. ASSUME leafId' \in Seq(Nat)
      PROVE  Sound'
  BY <1>3, <1>5 DEF TrieNext, Sound, Trie
<1>6. CASE NewWord(w)
  <2>1. /\ Added(w) = Len(leafId) + 1 /\ leafId' = Append(leafId, 0)
        /\ handed' = [handed EXCEPT ![w] = {Len(leafId) + 1}]
    BY <1>6 DEF NewWord
  <2>2. leafId' \in Seq(Nat) /\ Added(w) \in Nat
    BY <1>2, <2>1
  <2>3. Filled(leafId, types, 0)'
    BY <1>2, <2>1, FilledGrows
  <2>4. ASSUME FirstPass, w \in Classes
        PROVE  FirstPass'
    <3>1. \A l \in DOMAIN leafId' : leafId'[l] = 0
      BY <1>2, <2>1, <2>4 DEF FirstPass
    <3>2. \A v \in AllWords : handed'[v] # {} => v \in Classes
      BY <1>4, <2>1, <2>4 DEF FirstPass
    <3>3. QED
      BY <3>1, <3>2 DEF FirstPass
  <2>5. QED
    BY <1>5, <2>2, <2>3, <2>4
<1>7. CASE KnownWord(w)
  <2>1. handed[w] = {Added(w)} /\ UNCHANGED <<uri_id, nodes, leafId, handed>>
    BY <1>7 DEF KnownWord, trie
  <2>2. Added(w) \in Nat
    BY <1>4, <2>1
  <2>3. Filled(leafId, types, 0)' /\ (FirstPass => FirstPass')
    BY <1>2, <2>1 DEF Filled, Numbers, FirstPass
  <2>4. QED
    BY <1>2, <1>5, <2>1, <2>2, <2>3
<1>8. QED
  BY <1>3, <1>6, <1>7

\* The walks leave the trie alone.
LEMMA SoundStays ==
  ASSUME NEW path, Trie(path), UNCHANGED <<uri_id, nodes, handed>>,
         leafId' \in Seq(Nat), Len(leafId') = Len(leafId)
  PROVE  Sound'
<1>1. Trie(path)'
  BY DEF Trie
<1>2. QED
  BY <1>1 DEF Sound

\* The numbers of the classes.
LEMMA ClassesFilled ==
  ASSUME NEW path, Trie(path), Filled(leafId, types, 0), FirstPass, NEW lid, NEW tps, NEW order,
         order = LeafNodes,
         lid = [l \in DOMAIN leafId |-> ClassId(CHOOSE i \in DOMAIN order : nodes[order[i]].leaf = l)],
         tps = [types EXCEPT ![1] = {[id |-> ClassId(i), node |-> order[i]] : i \in DOMAIN order}]
  PROVE  Filled(lid, tps, 0) /\ Len(lid) = Len(leafId)
<1>1. leafId \in Seq(Nat) /\ types \in [TYPE_ID -> SUBSET Elements]
  BY DEF Filled
<1>2. PICK L : L = Len(leafId)
  OBVIOUS
<1>3. L \in Nat /\ DOMAIN leafId = 1 .. L
  BY <1>1, <1>2
<1>4. /\ order \in Seq(1 .. Len(nodes)) /\ IsInjective(order)
      /\ Range(order) = {x \in 1 .. Len(nodes) : nodes[x].leaf # 0}
  BY LeafNodesAll
<1>5. Len(order) \in Nat /\ Len(order) <= Cardinality(Classes)
  <2>1. \A w \in AllWords : handed[w] # {} => w \in Classes
    BY DEF FirstPass
  <2>2. IsFiniteSet(Classes)
    BY Sizes
  <2>3. QED
    BY <2>1, <2>2, LeafNodesCount
<1>6. DOMAIN order = 1 .. Len(order) /\ DOMAIN order \subseteq 1 .. Cardinality(Classes)
  BY <1>4, <1>5, Sizes
<1>7. \A i \in DOMAIN order : /\ order[i] \in 1 .. Len(nodes) /\ nodes[order[i]].leaf # 0
                              /\ nodes[order[i]].leaf \in 1 .. L
  <2>1. SUFFICES ASSUME NEW i \in DOMAIN order
                 PROVE  /\ order[i] \in 1 .. Len(nodes) /\ nodes[order[i]].leaf # 0
                        /\ nodes[order[i]].leaf \in 1 .. L
    OBVIOUS
  <2>2. PICK n : n = order[i]
    OBVIOUS
  <2>3. n \in Range(order)
    BY <2>2 DEF Range
  <2>4. n \in 1 .. Len(nodes) /\ nodes[n].leaf # 0
    BY <1>4, <2>3
  <2>5. nodes[n].leaf \in 0 .. L
    BY <1>2, <2>4, TrieParts, NodeType
  <2>6. QED
    BY <1>3, <2>2, <2>4, <2>5
<1>8. /\ \A l \in 1 .. L : \E n \in 1 .. Len(nodes) : nodes[n].leaf = l
      /\ \A c, d \in 1 .. Len(nodes) : nodes[c].leaf # 0 /\ nodes[c].leaf = nodes[d].leaf => c = d
  <2>1. Handed(nodes, Len(leafId), path, handed)
    BY TrieParts
  <2>2. QED
    BY <1>2, <2>1 DEF Handed
<1> DEFINE pos(l) == CHOOSE i \in DOMAIN order : nodes[order[i]].leaf = l
<1>9. ASSUME NEW l \in 1 .. L
      PROVE  pos(l) \in DOMAIN order /\ nodes[order[pos(l)]].leaf = l
  <2>1. PICK n \in 1 .. Len(nodes) : nodes[n].leaf = l
    BY <1>8
  <2>2. l # 0
    BY <1>3
  <2>3. n \in Range(order)
    BY <1>4, <2>1, <2>2
  <2>4. PICK i \in DOMAIN order : order[i] = n
    BY <2>3 DEF Range
  <2>5. nodes[order[i]].leaf = l
    BY <2>1, <2>4
  <2>6. QED
    BY <2>5
<1>10. lid = [l \in 1 .. L |-> ClassId(pos(l))]
  BY <1>3
<1> HIDE DEF pos
<1>11. ASSUME NEW i \in DOMAIN order
       PROVE  pos(nodes[order[i]].leaf) = i
  <2>1. PICK l, j : l = nodes[order[i]].leaf /\ j = pos(l)
    OBVIOUS
  <2>2. j \in DOMAIN order /\ nodes[order[j]].leaf = l
    BY <1>7, <1>9, <2>1
  <2>3. order[j] = order[i]
    BY <1>7, <1>8, <2>1, <2>2
  <2>4. QED
    BY <1>4, <2>1, <2>2, <2>3 DEF IsInjective
<1>12. ASSUME NEW i \in DOMAIN order
       PROVE  /\ i \in 1 .. Cardinality(Classes)
              /\ ClassId(i) \in Nat /\ ClassId(i) > 0 /\ GetSeq(ClassId(i)) = i + 2
  <2>1. i \in 1 .. Cardinality(Classes)
    BY <1>6
  <2>2. QED
    BY <2>1, ClassIdDecodes
<1>13. /\ lid \in Seq(Nat) /\ DOMAIN lid = 1 .. L /\ Len(lid) = L
       /\ \A l \in 1 .. L : lid[l] = ClassId(pos(l))
  <2>1. lid \in [1 .. L -> Nat]
    BY <1>9, <1>10, <1>12
  <2>2. lid \in Seq(Nat) /\ DOMAIN lid = 1 .. L
    BY <1>3, <2>1, FunctionIsSeq
  <2>3. Len(lid) = L
    BY <1>3, <2>2
  <2>4. QED
    BY <1>10, <2>2, <2>3
<1> DEFINE E == {[id |-> ClassId(i), node |-> order[i]] : i \in DOMAIN order}
<1>14. E \in SUBSET Elements
  <2>1. \A i \in DOMAIN order : order[i] \in Nat
    BY <1>7
  <2>2. QED
    BY <1>12, <2>1 DEF Elements
<1>15. /\ tps \in [TYPE_ID -> SUBSET Elements] /\ tps[1] = E
       /\ \A t \in OtherTypes : tps[t] = types[t]
  <2>1. 1 \in TYPE_ID
    BY Sizes
  <2> HIDE DEF E
  <2>2. tps = [types EXCEPT ![1] = E]
    BY DEF E
  <2>3. QED
    BY <1>1, <1>14, <2>1, <2>2 DEF OtherTypes
<1>16. \A e \in E : \E i \in DOMAIN order : e.id = ClassId(i)
  OBVIOUS
<1>17. \A i \in DOMAIN order : \E e \in E : e.id = ClassId(i)
  <2>1. SUFFICES ASSUME NEW i \in DOMAIN order PROVE \E e \in E : e.id = ClassId(i)
    OBVIOUS
  <2>2. [id |-> ClassId(i), node |-> order[i]] \in E
    OBVIOUS
  <2>3. [id |-> ClassId(i), node |-> order[i]].id = ClassId(i)
    OBVIOUS
  <2>4. QED
    BY <2>2, <2>3
<1> HIDE DEF E
<1>18. \A e \in tps[1] : \E k \in 1 .. Cardinality(Classes) : e.id = ClassId(k)
  BY <1>12, <1>15, <1>16
<1>19. \A t \in OtherTypes : Numbers(lid, tps[t], t, 0)
  <2>1. ASSUME NEW t \in OtherTypes
        PROVE  Numbers(lid, tps[t], t, 0)
    <3>1. tps[t] = {}
      BY <1>15, OthersEmpty
    <3>2. QED
      BY <3>1, FS_EmptySet DEF Numbers
  <2>2. QED
    BY <2>1
<1>20. \A l \in DOMAIN lid : lid[l] # 0 => \E t \in TYPE_ID : \E e \in tps[t] : e.id = lid[l]
  <2>1. SUFFICES ASSUME NEW l \in DOMAIN lid PROVE \E e \in tps[1] : e.id = lid[l]
    BY Sizes
  <2>2. QED
    BY <1>9, <1>13, <1>15, <1>17
<1>21. \A t \in TYPE_ID : \A e \in tps[t] : \E l \in DOMAIN lid : lid[l] = e.id
  <2>1. SUFFICES ASSUME NEW t \in TYPE_ID, NEW e \in tps[t] PROVE \E l \in DOMAIN lid : lid[l] = e.id
    OBVIOUS
  <2>2. t = 1
    <3>1. ASSUME t # 1 PROVE FALSE
      <4>1. t \in OtherTypes
        BY <3>1 DEF OtherTypes
      <4>2. tps[t] = {}
        BY <1>15, <4>1, OthersEmpty
      <4>3. QED
        BY <4>2
    <3>2. QED
      BY <3>1
  <2>3. PICK i \in DOMAIN order : e.id = ClassId(i)
    BY <1>15, <1>16, <2>2
  <2>4. PICK l : l = nodes[order[i]].leaf
    OBVIOUS
  <2>5. l \in DOMAIN lid /\ lid[l] = ClassId(i)
    BY <1>7, <1>11, <1>13, <2>4
  <2>6. QED
    BY <2>3, <2>5
<1>22. \A l, k \in DOMAIN lid : lid[l] # 0 /\ lid[l] = lid[k] => l = k
  <2>1. SUFFICES ASSUME NEW l \in DOMAIN lid, NEW k \in DOMAIN lid, lid[l] = lid[k] PROVE l = k
    OBVIOUS
  <2>2. PICK i, j : i = pos(l) /\ j = pos(k)
    OBVIOUS
  <2>3. /\ i \in DOMAIN order /\ j \in DOMAIN order /\ nodes[order[i]].leaf = l /\ nodes[order[j]].leaf = k
        /\ ClassId(i) = ClassId(j)
    BY <1>9, <1>13, <2>1, <2>2
  <2>4. i + 2 = j + 2
    BY <1>12, <2>3
  <2>5. i \in Nat /\ j \in Nat
    BY <1>5, <1>6, <2>3
  <2>6. i = j
    BY <2>4, <2>5
  <2>7. QED
    BY <2>3, <2>6
<1>23. QED
  BY <1>2, <1>13, <1>15, <1>18, <1>19, <1>20, <1>21, <1>22 DEF Filled

LEMMA TypesStep ==
  ASSUME KInv, MakeInverseIndexTypes
  PROVE  KInv'
<1>1. PICK path : Trie(path)
  BY DEF KInv, Sound
<1>2. stage = "classes" /\ stage' = "words" /\ UNCHANGED <<uri_id, nodes, subclasses, tt, handed>>
  BY DEF MakeInverseIndexTypes
<1>3. FirstPass /\ Filled(leafId, types, 0)
  BY <1>2 DEF KInv
<1>4. PICK lid, tps, order : lid = leafId' /\ tps = types' /\ order = LeafNodes
  OBVIOUS
<1>5. /\ lid = [l \in DOMAIN leafId |-> ClassId(CHOOSE i \in DOMAIN order : nodes[order[i]].leaf = l)]
      /\ tps = [types EXCEPT ![1] = {[id |-> ClassId(i), node |-> order[i]] : i \in DOMAIN order}]
  <2>1. /\ leafId' = [l \in DOMAIN leafId |->
                      ClassId(CHOOSE i \in DOMAIN LeafNodes : nodes[LeafNodes[i]].leaf = l)]
        /\ types' = [types EXCEPT ![1] =
                     {[id |-> ClassId(i), node |-> LeafNodes[i]] : i \in DOMAIN LeafNodes}]
    BY DEF MakeInverseIndexTypes
  <2>2. QED
    BY <1>4, <2>1
<1>6. Filled(lid, tps, 0) /\ Len(lid) = Len(leafId)
  BY <1>1, <1>3, <1>4, <1>5, ClassesFilled
<1>7. Filled(leafId, types, 0)'
  BY <1>2, <1>4, <1>6 DEF Filled, Numbers
<1>8. Sound'
  <2>1. leafId' \in Seq(Nat)
    BY <1>4, <1>6 DEF Filled
  <2>2. QED
    BY <1>1, <1>2, <1>4, <1>6, <2>1, SoundStays
<1>9. QED
  BY <1>2, <1>7, <1>8 DEF KInv

LEMMA IndexStep ==
  ASSUME KInv, MakeInverseIndex
  PROVE  KInv'
<1>1. PICK path : Trie(path)
  BY DEF KInv, Sound
<1>2. /\ stage = "words" /\ stage' = "numbered" /\ UNCHANGED <<uri_id, nodes, subclasses, tt, handed>>
      /\ leafId' = Numbered[Len(LeafNodes)].leafId /\ types' = Numbered[Len(LeafNodes)].types
  BY DEF MakeInverseIndex
<1>3. Filled(leafId, types, 0) /\ tt \in Seq(Typings)
  BY <1>2 DEF KInv
<1>4. PICK lid, tps, m : /\ Numbered[Len(LeafNodes)] = [leafId |-> lid, types |-> tps]
                         /\ m \in Nat /\ m < SeqSpan /\ Filled(lid, tps, m)
                         /\ Len(lid) = Len(leafId)
                         /\ \A l \in DOMAIN lid : lid[l] # 0
  BY <1>1, <1>3, WalkEnds
<1>5. leafId' = lid /\ types' = tps
  BY <1>2, <1>4
<1>6. Filled(leafId, types, m)'
  BY <1>2, <1>4, <1>5 DEF Filled, Numbers
<1>7. Given'
  BY <1>4, <1>5, <1>6 DEF Given
<1>8. Sound'
  <2>1. leafId' \in Seq(Nat)
    BY <1>4, <1>5 DEF Filled
  <2>2. QED
    BY <1>1, <1>2, <1>4, <1>5, <2>1, SoundStays
<1>9. QED
  BY <1>2, <1>3, <1>7, <1>8 DEF KInv

LEMMA SoundTypesAfter ==
  (Sound /\ Filled(leafId, types, 0))' => \A c \in AllWords : (GetSeq(Get(c)) \in OtherTypes)'
<1>1. (Sound /\ Filled(leafId, types, 0) => \A c \in AllWords : GetSeq(Get(c)) \in OtherTypes)'
  BY SoundTypes, PTL
<1>2. QED
  BY <1>1

\* Every word the program adds is one of the dataset.
LEMMA KNext == PrefixFree => (KInv /\ [Next]_vars => KInv')
<1> SUFFICES ASSUME PrefixFree, KInv, [Next]_vars PROVE KInv'
  OBVIOUS
<1>1. tt \in Seq(Typings) /\ (stage # "numbered" => Filled(leafId, types, 0))
  BY DEF KInv
<1>2. ASSUME NEW c \in Classes, AddClass(c)
      PROVE  KInv'
  <2>1. stage = "classes" /\ AddWord(c) /\ stage' = stage /\ types' = types /\ tt' = tt
    BY <1>2 DEF AddClass
  <2>2. c \in AllWords /\ FirstPass
    BY <2>1 DEF AllWords, KInv
  <2>3. Sound' /\ Filled(leafId, types, 0)' /\ FirstPass'
    BY <2>1, <2>2, WordStep
  <2>4. QED
    BY <1>1, <2>1, <2>3 DEF KInv
<1>3. ASSUME NEW c \in Classes, NEW parent \in Classes, AddSubClass(c, parent)
      PROVE  KInv'
  <2>1. UNCHANGED <<stage, uri_id, nodes, leafId, types, tt, handed>>
    BY <1>3 DEF AddSubClass, trie
  <2>2. QED
    BY <2>1 DEF KInv, Sound, Trie, FirstPass, Filled, Numbers, Given
<1>4. CASE MakeInverseIndexTypes
  BY <1>4, TypesStep
<1>5. ASSUME NEW w \in AllWords, AddOrdinary(w)
      PROVE  KInv'
  <2>1. stage = "words" /\ AddWord(w) /\ stage' = stage /\ types' = types /\ tt' = tt
    BY <1>5 DEF AddOrdinary
  <2>2. Sound' /\ Filled(leafId, types, 0)'
    BY <2>1, WordStep
  <2>3. QED
    BY <1>1, <2>1, <2>2 DEF KInv
<1>6. ASSUME NEW w \in Words, NEW c \in Classes \union {Scotland}, AddTyping(w, c)
      PROVE  KInv'
  <2>1. /\ stage = "words" /\ AddWord(w) /\ stage' = stage /\ types' = types
        /\ tt' = Append(tt, [leaf |-> Added(w), type |-> GetSeq(Get(c)')])
    BY <1>6 DEF AddTyping
  <2>2. w \in AllWords /\ c \in AllWords
    BY WordsAssumption DEF AllWords
  <2>3. Sound' /\ Filled(leafId, types, 0)' /\ Added(w) \in Nat
    BY <2>1, <2>2, WordStep
  <2>4. (Sound /\ Filled(leafId, types, 0))' => \A v \in AllWords : (GetSeq(Get(v)) \in OtherTypes)'
    BY SoundTypesAfter
  <2>5. GetSeq(Get(c)') \in OtherTypes
    <3>1. (GetSeq(Get(c)) \in OtherTypes)'
      BY <2>2, <2>3, <2>4
    <3>2. QED
      BY <3>1 DEF GetSeq
  <2>6. [leaf |-> Added(w), type |-> GetSeq(Get(c)')] \in Typings
    BY <2>3, <2>5 DEF Typings
  <2>7. tt' \in Seq(Typings)
    BY <1>1, <2>1, <2>6
  <2>8. QED
    BY <2>1, <2>3, <2>7 DEF KInv
<1>7. CASE MakeInverseIndex
  BY <1>7, IndexStep
<1>8. CASE UNCHANGED vars
  <2>1. UNCHANGED <<stage, uri_id, nodes, leafId, types, tt, handed>>
    BY <1>8 DEF vars, trie
  <2>2. QED
    BY <2>1 DEF KInv, Sound, Trie, FirstPass, Filled, Numbers, Given
<1>9. QED
  BY <1>2, <1>3, <1>4, <1>5, <1>6, <1>7, <1>8 DEF Next

LEMMA KInvariant == ASSUME PrefixFree PROVE Spec => []KInv
<1>1. Init => KInv
  BY KInit
<1>2. KInv /\ [Next]_vars => KInv'
  BY KNext
<1>3. QED
  BY <1>1, <1>2, PTL DEF Spec
------------------------------------------------------------------------------
(***************************************************************************)
(* The theorems.  PrefixFree is what the brackets of URIs give: no word is *)
(* a proper beginning of another.                                          *)
(***************************************************************************)

\* What a trie built from fragments is for: the leaves spell the words added
\* (Node::Add, Node::GetUri), and every Add of a word returns the same leaf.
THEOREM LeavesStayWords == ASSUME PrefixFree PROVE Spec => []LeavesSpellWords
<1>1. KInv => LeavesSpellWords
  BY SoundSpells DEF KInv
<1>2. QED
  BY <1>1, KInvariant, PTL

\* Get walks into every word that Add has put into the trie, however often
\* fragments were split since (KeyManager::Get).
THEOREM GetAlwaysFinds == ASSUME PrefixFree PROVE Spec => []GetFindsWords
<1>1. KInv => GetFindsWords
  <2>1. SUFFICES ASSUME KInv, NEW w \in AllWords, NEW l \in handed[w] PROVE Get(w) = leafId[l]
    BY DEF GetFindsWords
  <2>2. GetsRight(w)
    BY <2>1, SoundGets DEF KInv
  <2>3. QED
    BY <2>2 DEF GetsRight
<1>2. QED
  BY <1>1, KInvariant, PTL

\* The two numberings (MakeInverseIndexTypes, MakeInverseIndex) leave no leaf
\* out and give none the identifier of another.
THEOREM IdsStayUnique == ASSUME PrefixFree PROVE Spec => []IdsAreUnique
<1>1. KInv => IdsAreUnique
  <2>1. SUFFICES ASSUME KInv, stage = "numbered"
                 PROVE  /\ \A l \in DOMAIN leafId : leafId[l] # 0
                        /\ IsInjective(leafId)
                        /\ {e.id : e \in UNION Range(types)} = Range(leafId)
    BY DEF IdsAreUnique
  <2>2. \A l \in DOMAIN leafId : leafId[l] # 0
    BY <2>1 DEF KInv, Given
  <2>3. PICK m \in Nat : m < SeqSpan /\ Filled(leafId, types, m)
    BY <2>1 DEF KInv, Given
  <2>4. /\ types \in [TYPE_ID -> SUBSET Elements]
        /\ \A l \in DOMAIN leafId : leafId[l] # 0 => \E t \in TYPE_ID : \E e \in types[t] : e.id = leafId[l]
        /\ \A t \in TYPE_ID : \A e \in types[t] : \E l \in DOMAIN leafId : leafId[l] = e.id
        /\ \A l, k \in DOMAIN leafId : leafId[l] # 0 /\ leafId[l] = leafId[k] => l = k
    BY <2>3 DEF Filled
  <2>5. IsInjective(leafId)
    BY <2>2, <2>4 DEF IsInjective
  <2>6. \A e : e \in UNION Range(types) <=> \E t \in TYPE_ID : e \in types[t]
    BY <2>4 DEF Range
  <2>7. \A x : x \in {e.id : e \in UNION Range(types)} <=> x \in Range(leafId)
    <3>1. ASSUME NEW x, x \in Range(leafId)
          PROVE  x \in {e.id : e \in UNION Range(types)}
      <4>1. PICK l \in DOMAIN leafId : x = leafId[l]
        BY <3>1 DEF Range
      <4>2. PICK t \in TYPE_ID : \E e \in types[t] : e.id = x
        BY <2>2, <2>4, <4>1
      <4>3. QED
        BY <2>6, <4>2
    <3>2. ASSUME NEW e \in UNION Range(types)
          PROVE  e.id \in Range(leafId)
      BY <2>4, <2>6 DEF Range
    <3>3. QED
      BY <3>1, <3>2
  <2>8. QED
    BY <2>2, <2>5, <2>7
<1>2. QED
  BY <1>1, KInvariant, PTL

\* An identifier of a type, looked up in the map of that type, leads to the
\* node of the word it was given for (KeyManager::types, Node::GetUri).
THEOREM IdsStayDecodable == ASSUME PrefixFree PROVE Spec => []DecodesBack
<1>1. KInv => DecodesBack
  <2>1. SUFFICES ASSUME KInv, stage = "numbered", NEW w \in AllWords, NEW l \in handed[w],
                        GetType(leafId[l]) # 1, NEW e \in types[GetType(leafId[l])], e.id = leafId[l]
                 PROVE  GetUri(e.node) = w
    BY DEF DecodesBack
  <2>2. PICK path : Trie(path)
    BY <2>1 DEF KInv, Sound
  <2>3. PICK m \in Nat : m < SeqSpan /\ Filled(leafId, types, m)
    BY <2>1 DEF KInv, Given
  <2>4. \A k \in DOMAIN leafId : leafId[k] # 0
    BY <2>1 DEF KInv, Given
  <2>5. /\ leafId \in Seq(Nat)
        /\ \A t \in OtherTypes : Numbers(leafId, types[t], t, m)
        /\ \A k \in DOMAIN leafId : leafId[k] # 0 => \E t \in TYPE_ID : \E d \in types[t] : d.id = leafId[k]
        /\ \A k, j \in DOMAIN leafId : leafId[k] # 0 /\ leafId[k] = leafId[j] => k = j
    BY <2>3 DEF Filled
  <2>6. Handed(nodes, Len(leafId), path, handed)
    BY <2>2, TrieParts
  <2>7. l \in 1 .. Len(leafId) /\ l \in DOMAIN leafId
    BY <2>5, <2>6 DEF Handed
  <2>8. PICK t : t = GetType(leafId[l])
    OBVIOUS
  <2>9. t \in OtherTypes
    <3>1. PICK u \in TYPE_ID : \E d \in types[u] : d.id = leafId[l]
      BY <2>4, <2>5, <2>7
    <3>2. PICK d \in types[u] : d.id = leafId[l]
      BY <3>1
    <3>3. GetType(d.id) = u
      BY <2>3, <3>2, FilledDecodes
    <3>4. QED
      BY <2>1, <2>8, <3>2, <3>3 DEF OtherTypes
  <2>10. PICK n, k : n = e.node /\ k = nodes[n].leaf
    OBVIOUS
  <2>11. n \in 1 .. Len(nodes) /\ k # 0 /\ leafId[k] = leafId[l]
    BY <2>1, <2>5, <2>8, <2>9, <2>10 DEF Numbers
  <2>12. k \in 0 .. Len(leafId)
    BY <2>2, <2>10, <2>11, TrieParts, NodeType
  <2>13. k = l
    <3>1. k \in DOMAIN leafId
      BY <2>5, <2>11, <2>12
    <3>2. QED
      BY <2>4, <2>5, <2>7, <2>11, <3>1
  <2>14. PICK p \in 1 .. Len(nodes) : nodes[p].leaf # 0 /\ path[p] = w
    BY <2>6 DEF Handed
  <2>15. handed[path[p]] = {nodes[p].leaf}
    BY <2>6, <2>14 DEF Handed
  <2>16. nodes[p].leaf = l
    BY <2>14, <2>15
  <2>17. p = n
    BY <2>6, <2>10, <2>11, <2>13, <2>14, <2>16 DEF Handed
  <2>18. GetUri(n) = path[n]
    BY <2>2, <2>11, SpellingIsPath
  <2>19. QED
    BY <2>10, <2>14, <2>17, <2>18
<1>2. QED
  BY <1>1, KInvariant, PTL
==============================================================================
