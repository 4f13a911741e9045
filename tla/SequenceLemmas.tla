--------------------------- MODULE SequenceLemmas ---------------------------
(***************************************************************************)
(* Facts about sequences the proofs share: a concatenation by position,    *)
(* parts of a sequence, and FlattenSeq, one sequence at a time; and that   *)
(* functions defined by recursion exist.                                   *)
(***************************************************************************)
EXTENDS Integers, SequencesExt, TLAPS, WellFoundedInduction

\* A nonempty set of naturals has a least element.
LEMMA LeastIndex ==
  ASSUME NEW T \in SUBSET Nat, T # {}
  PROVE  \E x \in T : \A y \in T : x <= y
<1>1. PICK x \in T : \A y \in T : ~ (<<y, x>> \in OpToRel(<, Nat))
  BY NatLessThanWellFounded, WFMin
<1>2. \A y \in T : ~ (y < x)
  BY <1>1 DEF OpToRel
<1>3. QED
  BY <1>2, SMT

\* A concatenation, by position.
LEMMA ConcatByPosition ==
  ASSUME NEW S, NEW a \in Seq(S), NEW b \in Seq(S)
  PROVE  /\ DOMAIN (a \o b) = 1 .. (Len(a) + Len(b))
         /\ \A i \in 1 .. Len(a) : (a \o b)[i] = a[i]
         /\ \A i \in 1 .. Len(b) : (a \o b)[Len(a) + i] = b[i]
         /\ a # <<>> \/ b # <<>> => Len(a) + Len(b) > 0
OBVIOUS
------------------------------------------------------------------------------
(***************************************************************************)
(* FlattenSeq: the function it is computed with exists and is one.         *)
(***************************************************************************)

Flattens(f, seqs, n) ==
  f = [i \in 1 .. n |-> IF i = 1 THEN seqs[i] ELSE f[i - 1] \o seqs[i]]

\* There is such a function for every number of sequences.
LEMMA FlatteningExists ==
  ASSUME NEW seqs, NEW n \in Nat
  PROVE  \E f : Flattens(f, seqs, n)
<1> DEFINE Bad == {k \in Nat : ~ \E f : Flattens(f, seqs, k)}
<1> SUFFICES ASSUME Bad # {} PROVE FALSE
  OBVIOUS
<1>1. PICK k \in Bad : \A j \in Bad : k <= j
  BY LeastIndex
<1>2. k \in Nat /\ ~ \E f : Flattens(f, seqs, k)
  OBVIOUS
<1>3. CASE k = 0
  <2> DEFINE f == [i \in 1 .. 0 |-> seqs[i]]
  <2>1. f = [i \in 1 .. 0 |-> IF i = 1 THEN seqs[i] ELSE f[i - 1] \o seqs[i]]
    OBVIOUS
  <2> HIDE DEF f
  <2>2. QED
    BY <1>2, <1>3, <2>1 DEF Flattens
<1>4. CASE k # 0
  <2>1. k - 1 \in Nat /\ k - 1 \notin Bad
    BY <1>1, <1>2, <1>4
  <2>2. PICK g : Flattens(g, seqs, k - 1)
    BY <2>1
  <2> DEFINE last == IF k = 1 THEN seqs[k] ELSE g[k - 1] \o seqs[k]
             f == [i \in 1 .. k |-> IF i = k THEN last ELSE g[i]]
  <2>3. \A i \in 1 .. (k - 1) : g[i] = IF i = 1 THEN seqs[i] ELSE g[i - 1] \o seqs[i]
    BY <2>2, Zenon DEF Flattens
  <2>4. ASSUME NEW i \in 1 .. k
        PROVE  f[i] = IF i = 1 THEN seqs[i] ELSE f[i - 1] \o seqs[i]
    <3>1. i = k \/ i \in 1 .. (k - 1)
      BY <1>2, <1>4
    <3>2. i # 1 => i - 1 \in 1 .. k /\ i - 1 # k
      BY <1>2
    <3>3. QED
      BY <2>3, <3>1, <3>2
  <2>5. f = [i \in 1 .. k |-> IF i = 1 THEN seqs[i] ELSE f[i - 1] \o seqs[i]]
    <3>1. DOMAIN f = 1 .. k /\ f = [i \in 1 .. k |-> f[i]]
      OBVIOUS
    <3> HIDE DEF f
    <3>2. QED
      BY <2>4, <3>1
  <2> HIDE DEF f
  <2>6. QED
    BY <1>2, <2>5 DEF Flattens
<1>5. QED
  BY <1>3, <1>4

\* Where two sequences agree, what flattens them does.
LEMMA FlatteningsAgree ==
  ASSUME NEW s, NEW t, NEW f, NEW g, NEW n \in Nat, NEW m \in Nat, n <= m,
         Flattens(f, s, n), Flattens(g, t, m), \A i \in 1 .. n : s[i] = t[i]
  PROVE  \A i \in 1 .. n : f[i] = g[i]
<1> DEFINE Bad == {k \in 1 .. n : f[k] # g[k]}
<1> SUFFICES ASSUME Bad # {} PROVE FALSE
  OBVIOUS
<1>1. PICK k \in Bad : \A j \in Bad : k <= j
  <2>1. Bad \in SUBSET Nat
    OBVIOUS
  <2> HIDE DEF Bad
  <2>2. QED
    BY <2>1, LeastIndex
<1>2. k \in 1 .. n /\ k \in 1 .. m /\ f[k] # g[k]
  OBVIOUS
<1>3. /\ f[k] = IF k = 1 THEN s[k] ELSE f[k - 1] \o s[k]
      /\ g[k] = IF k = 1 THEN t[k] ELSE g[k - 1] \o t[k]
  BY <1>2, Zenon DEF Flattens
<1>4. CASE k = 1
  BY <1>2, <1>3, <1>4
<1>5. CASE k # 1
  <2>1. k - 1 \in 1 .. n /\ k - 1 < k
    BY <1>2, <1>5
  <2>2. f[k - 1] = g[k - 1]
    BY <1>1, <2>1
  <2>3. QED
    BY <1>2, <1>3, <2>2
<1>6. QED
  BY <1>4, <1>5

\* FlattenSeq is the last value of that function.
LEMMA FlattenByFunction ==
  ASSUME NEW seqs, NEW f, Len(seqs) \in Nat \ {0}, Flattens(f, seqs, Len(seqs))
  PROVE  FlattenSeq(seqs) = f[Len(seqs)]
<1> DEFINE n == Len(seqs)
           g == CHOOSE h : Flattens(h, seqs, n)
<1>1. Flattens(g, seqs, n)
  <2> HIDE DEF n
  <2>1. QED
    BY Zenon DEF n
<1>2. FlattenSeq(seqs) = g[n]
  BY DEF FlattenSeq, Flattens
<1>3. f[n] = g[n]
  <2> HIDE DEF g
  <2>1. n \in Nat /\ n <= n /\ n \in 1 .. n
    OBVIOUS
  <2>2. QED
    BY <1>1, <2>1, FlatteningsAgree
<1>4. QED
  BY <1>2, <1>3

\* Flattening one sequence more appends it.
LEMMA FlattenAppend ==
  ASSUME NEW S, NEW seqs \in Seq(Seq(S)), NEW x \in Seq(S)
  PROVE  FlattenSeq(Append(seqs, x)) = FlattenSeq(seqs) \o x
<1> DEFINE n == Len(seqs)
<1>1. PICK t, k : t = Append(seqs, x) /\ k = n + 1
  OBVIOUS
<1>2. /\ n \in Nat /\ k \in Nat \ {0} /\ n <= k /\ k - 1 = n /\ k \in 1 .. k
      /\ Len(t) = k /\ t[k] = x
  BY <1>1
<1>3. \A i \in 1 .. n : seqs[i] = t[i]
  BY <1>1
<1>4. PICK f : Flattens(f, seqs, n)
  BY <1>2, FlatteningExists
<1>5. PICK g : Flattens(g, t, k)
  BY <1>2, FlatteningExists
<1>6. FlattenSeq(t) = g[k]
  BY <1>2, <1>5, FlattenByFunction
<1>7. g[k] = IF k = 1 THEN x ELSE g[n] \o x
  <2>1. g[k] = IF k = 1 THEN t[k] ELSE g[k - 1] \o t[k]
    BY <1>2, <1>5, Zenon DEF Flattens
  <2>2. QED
    BY <1>2, <2>1
<1>8. CASE n = 0
  <2>1. seqs = <<>>
    BY <1>8
  <2>2. FlattenSeq(seqs) = <<>>
    BY <2>1 DEF FlattenSeq
  <2>3. QED
    BY <1>1, <1>2, <1>6, <1>7, <1>8, <2>2
<1>9. CASE n # 0
  <2>1. FlattenSeq(seqs) = f[n]
    BY <1>2, <1>4, <1>9, FlattenByFunction
  <2> HIDE DEF n
  <2>2. \A i \in 1 .. n : f[i] = g[i]
    BY <1>2, <1>3, <1>4, <1>5, FlatteningsAgree
  <2>3. f[n] = g[n] /\ k # 1
    BY <1>2, <1>9, <2>2
  <2>4. QED
    BY <1>1, <1>6, <1>7, <2>1, <2>3
<1>10. QED
  BY <1>8, <1>9
------------------------------------------------------------------------------
(***************************************************************************)
(* Parts of a sequence: what is behind its first a elements, up to b.      *)
(***************************************************************************)

Between(f, a, b) == [k \in 1 .. (b - a) |-> f[a + k]]

\* A part is a sequence, empty when it ends where it begins.
LEMMA BetweenType ==
  ASSUME NEW f, NEW a \in Nat, NEW b \in Nat, a <= b
  PROVE  /\ DOMAIN Between(f, a, b) = 1 .. (b - a)
         /\ Len(Between(f, a, b)) = b - a
         /\ Between(f, a, b) = <<>> <=> a = b
<1> DEFINE part == Between(f, a, b)
<1>1. b - a \in Nat /\ part = [k \in 1 .. (b - a) |-> f[a + k]]
  BY DEF Between
<1>2. DOMAIN part = 1 .. (b - a) /\ Len(part) = b - a
  <2> HIDE DEF part
  <2>1. QED
    BY <1>1
<1>3. part = <<>> <=> a = b
  <2> HIDE DEF part
  <2>1. QED
    BY <1>1, <1>2
<1>4. QED
  BY <1>2, <1>3

\* What is put behind a part continues it.
LEMMA BetweenJoin ==
  ASSUME NEW f, NEW a \in Nat, NEW b \in Nat, NEW c \in Nat, a <= b, b <= c
  PROVE  Between(f, a, b) \o Between(f, b, c) = Between(f, a, c)
<1>1. PICK s, t, S : /\ s = Between(f, a, b) /\ t = Between(f, b, c)
                     /\ S = {f[i] : i \in Nat}
  OBVIOUS
<1>2. Len(s) = b - a /\ Len(t) = c - b
  BY <1>1, BetweenType
<1>3. /\ s = [k \in 1 .. (b - a) |-> f[a + k]] /\ t = [k \in 1 .. (c - b) |-> f[b + k]]
      /\ b - a \in Nat /\ c - b \in Nat
  BY <1>1 DEF Between
<1>4. \A i \in Nat : f[i] \in S
  BY <1>1
<1>5. s \in Seq(S) /\ t \in Seq(S)
  BY <1>3, <1>4
<1>6. PICK u \in Seq(S) : u = s \o t
  <2>1. s \o t \in Seq(S)
    BY <1>5
  <2>2. QED
    BY <2>1
<1>7. Len(u) = c - a
  <2>1. Len(u) = Len(s) + Len(t)
    BY <1>5, <1>6
  <2>2. QED
    BY <1>2, <2>1
<1>8. ASSUME NEW k \in 1 .. (c - a)
      PROVE  u[k] = f[a + k]
  <2>1. u[k] = IF k <= b - a THEN s[k] ELSE t[k - (b - a)]
    BY <1>2, <1>5, <1>6
  <2>2. CASE k <= b - a
    BY <1>3, <2>1, <2>2
  <2>3. CASE ~ k <= b - a
    <3>1. k - (b - a) \in 1 .. (c - b) /\ b + (k - (b - a)) = a + k
      BY <2>3
    <3>2. QED
      BY <1>3, <2>1, <2>3, <3>1
  <2>4. QED
    BY <2>2, <2>3
<1>9. u = [k \in 1 .. (c - a) |-> f[a + k]]
  <2>1. u = [k \in 1 .. (c - a) |-> u[k]]
    BY <1>7
  <2>2. QED
    BY <1>8, <2>1
<1>10. QED
  BY <1>1, <1>6, <1>9 DEF Between
------------------------------------------------------------------------------
\* The last position of a prefix.
LEMMA MaxOfPrefix ==
  ASSUME NEW k \in Nat \ {0}, NEW s \in SUBSET (1 .. k), k \in s
  PROVE  Max(s) = k
<1>1. k \in s /\ \A y \in s : k >= y
  OBVIOUS
<1>2. \A x \in s : (\A y \in s : x >= y) => x = k
  <2>1. \A x \in s : x \in Nat /\ x <= k
    OBVIOUS
  <2>2. QED
    BY <1>1, <2>1
<1>3. Max(s) = CHOOSE x \in s : \A y \in s : x >= y
  BY Zenon DEF Max
<1>4. QED
  BY <1>1, <1>2, <1>3, Zenon
------------------------------------------------------------------------------
(***************************************************************************)
(* What sequences have that are joined, or flattened.                      *)
(***************************************************************************)

LEMMA RangeOfConcat ==
  ASSUME NEW S, NEW a \in Seq(S), NEW b \in Seq(S)
  PROVE  /\ a \o b \in Seq(S)
         /\ \A x : x \in Range(a \o b) <=> x \in Range(a) \/ x \in Range(b)
<1>1. PICK c : c = a \o b
  OBVIOUS
<1>2. /\ c \in Seq(S) /\ DOMAIN c = 1 .. (Len(a) + Len(b))
      /\ Len(a) \in Nat /\ Len(b) \in Nat /\ DOMAIN a = 1 .. Len(a) /\ DOMAIN b = 1 .. Len(b)
      /\ \A i \in 1 .. Len(a) : c[i] = a[i]
      /\ \A i \in 1 .. Len(b) : c[Len(a) + i] = b[i]
  BY <1>1, ConcatByPosition
<1>3. \A i \in DOMAIN c : i \in DOMAIN a \/ (i - Len(a) \in DOMAIN b /\ Len(a) + (i - Len(a)) = i)
  BY <1>2
<1>4. \A i \in DOMAIN a : i \in DOMAIN c
  BY <1>2
<1>5. \A i \in DOMAIN b : Len(a) + i \in DOMAIN c
  BY <1>2
<1>6. ASSUME NEW x
      PROVE  x \in Range(c) <=> x \in Range(a) \/ x \in Range(b)
  <2>1. \A s : x \in Range(s) <=> \E i \in DOMAIN s : s[i] = x
    BY DEF Range
  <2>2. ASSUME NEW i \in DOMAIN c, c[i] = x
        PROVE  x \in Range(a) \/ x \in Range(b)
    <3>1. CASE i \in DOMAIN a
      BY <1>2, <2>1, <2>2, <3>1
    <3>2. CASE i - Len(a) \in DOMAIN b /\ Len(a) + (i - Len(a)) = i
      BY <1>2, <2>1, <2>2, <3>2
    <3>3. QED
      BY <1>3, <3>1, <3>2
  <2>3. ASSUME NEW i \in DOMAIN a, a[i] = x
        PROVE  x \in Range(c)
    BY <1>2, <1>4, <2>1, <2>3
  <2>4. ASSUME NEW i \in DOMAIN b, b[i] = x
        PROVE  x \in Range(c)
    BY <1>2, <1>5, <2>1, <2>4
  <2>5. QED
    BY <2>1, <2>2, <2>3, <2>4
<1>7. QED
  BY <1>1, <1>2, <1>6

\* What one has of a sequence of sequences that is flattened.
LEMMA FlattenElements ==
  ASSUME NEW S, NEW seqs \in Seq(Seq(S))
  PROVE  /\ FlattenSeq(seqs) \in Seq(S)
         /\ \A x : x \in Range(FlattenSeq(seqs)) <=> \E i \in DOMAIN seqs : x \in Range(seqs[i])
<1> DEFINE n == Len(seqs)
<1>1. n \in Nat /\ DOMAIN seqs = 1 .. n /\ \A i \in 1 .. n : seqs[i] \in Seq(S)
  OBVIOUS
<1> HIDE DEF n
<1>2. CASE n = 0
  <2>1. seqs = <<>> /\ DOMAIN seqs = {}
    BY <1>1, <1>2 DEF n
  <2>2. FlattenSeq(seqs) = <<>>
    BY <2>1 DEF FlattenSeq
  <2>3. FlattenSeq(seqs) \in Seq(S) /\ Range(FlattenSeq(seqs)) = {}
    BY <2>2 DEF Range
  <2>4. QED
    BY <2>1, <2>3
<1>3. CASE n # 0
  <2>1. PICK f : Flattens(f, seqs, n)
    BY <1>1, FlatteningExists
  <2>2. FlattenSeq(seqs) = f[n]
    BY <1>1, <1>3, <2>1, FlattenByFunction DEF n
  <2>3. \A i \in 1 .. n : f[i] = IF i = 1 THEN seqs[i] ELSE f[i - 1] \o seqs[i]
    BY <2>1, Zenon DEF Flattens
  <2> DEFINE Right(k) == /\ f[k] \in Seq(S)
                         /\ \A x : x \in Range(f[k]) <=> \E i \in 1 .. k : x \in Range(seqs[i])
  <2>4. ASSUME NEW k \in 1 .. n, \A j \in 1 .. n : j < k => Right(j)
        PROVE  Right(k)
    <3>1. PICK b : b = seqs[k]
      OBVIOUS
    <3>2. b \in Seq(S)
      BY <1>1, <3>1
    <3>3. CASE k = 1
      <4>1. f[k] = b
        BY <2>3, <3>1, <3>3
      <4>2. \A i : i \in 1 .. k <=> i = k
        BY <3>3
      <4>3. \A x : (\E i \in 1 .. k : x \in Range(seqs[i])) <=> x \in Range(b)
        BY <3>1, <4>2
      <4>4. f[k] \in Seq(S) /\ Range(f[k]) = Range(b)
        BY <3>2, <4>1
      <4>5. QED
        BY <4>3, <4>4
    <3>4. CASE k # 1
      <4>1. PICK j, a : j = k - 1 /\ a = f[j]
        OBVIOUS
      <4>2. j \in 1 .. n /\ j < k /\ \A i : i \in 1 .. k <=> i \in 1 .. j \/ i = k
        BY <1>1, <3>4, <4>1
      <4>3. a \in Seq(S) /\ \A x : x \in Range(a) <=> \E i \in 1 .. j : x \in Range(seqs[i])
        BY <2>4, <4>1, <4>2
      <4>4. f[k] = a \o b
        BY <2>3, <3>1, <3>4, <4>1
      <4>5. f[k] \in Seq(S) /\ \A x : x \in Range(f[k]) <=> x \in Range(a) \/ x \in Range(b)
        BY <3>2, <4>3, <4>4, RangeOfConcat
      <4>6. QED
        BY <3>1, <4>2, <4>3, <4>5
    <3>5. QED
      BY <3>3, <3>4
  <2> DEFINE Bad == {k \in 1 .. n : ~ Right(k)}
  <2> HIDE DEF Right
  <2>5. Bad = {}
    <3>1. SUFFICES ASSUME Bad # {} PROVE FALSE
      OBVIOUS
    <3>2. Bad \in SUBSET Nat
      BY <1>1
    <3>3. PICK k \in Bad : \A j \in Bad : k <= j
      BY <3>1, <3>2, LeastIndex
    <3>4. k \in 1 .. n /\ ~ Right(k)
      OBVIOUS
    <3>5. \A j \in 1 .. n : j < k => Right(j)
      BY <1>1, <3>3, <3>4
    <3>6. QED
      BY <2>4, <3>4, <3>5
  <2>6. Right(n)
    BY <1>1, <1>3, <2>5
  <2>7. QED
    BY <1>1, <2>2, <2>6 DEF Right
<1>4. QED
  BY <1>2, <1>3
------------------------------------------------------------------------------
(***************************************************************************)
(* A function defined by recursion exists if its values depend on those at *)
(* arguments of lesser measure.                                            *)
(***************************************************************************)

SolvedBelow(f, Body, D, mu, k) == \A n \in D : mu[n] < k => f[n] = Body[f][n]

DependsBelow(Body, D, V, mu) ==
  \A f, g \in [D -> V] : \A n \in D :
    (\A m \in D : mu[m] < mu[n] => f[m] = g[m]) => Body[f][n] = Body[g][n]

\* Below any measure there is a solution.
LEMMA SolutionBelow ==
  ASSUME NEW D, NEW V, NEW v0 \in V, NEW mu \in [D -> Nat],
         NEW Body \in [[D -> V] -> [D -> V]], DependsBelow(Body, D, V, mu), NEW k \in Nat
  PROVE  \E f \in [D -> V] : SolvedBelow(f, Body, D, mu, k)
<1> DEFINE Bad == {j \in Nat : ~ \E f \in [D -> V] : SolvedBelow(f, Body, D, mu, j)}
<1> SUFFICES ASSUME Bad # {} PROVE FALSE
  OBVIOUS
<1>1. PICK j \in Bad : \A i \in Bad : j <= i
  BY LeastIndex
<1>2. j \in Nat /\ ~ \E f \in [D -> V] : SolvedBelow(f, Body, D, mu, j)
  OBVIOUS
<1>3. j # 0
  <2>1. [n \in D |-> v0] \in [D -> V]
    OBVIOUS
  <2>2. j = 0 => SolvedBelow([n \in D |-> v0], Body, D, mu, j)
    BY DEF SolvedBelow
  <2>3. QED
    BY <1>2, <2>1, <2>2
<1>4. j - 1 \in Nat /\ j - 1 \notin Bad
  <2>1. j - 1 \in Nat /\ ~ (j <= j - 1)
    BY <1>2, <1>3
  <2>2. QED
    BY <1>1, <2>1
<1>5. PICK g \in [D -> V] : SolvedBelow(g, Body, D, mu, j - 1)
  BY <1>4
<1>6. PICK f : f = Body[g]
  OBVIOUS
<1>7. f \in [D -> V]
  BY <1>6
<1>8. ASSUME NEW n \in D, mu[n] < j
      PROVE  f[n] = Body[f][n]
  <2>1. ASSUME NEW m \in D, mu[m] < mu[n]
        PROVE  f[m] = g[m]
    <3>1. mu[m] < j - 1
      BY <1>2, <1>8, <2>1
    <3>2. QED
      BY <1>5, <1>6, <3>1 DEF SolvedBelow
  <2>2. Body[f][n] = Body[g][n]
    BY <1>7, <2>1, Zenon DEF DependsBelow
  <2>3. QED
    BY <1>6, <2>2
<1>9. SolvedBelow(f, Body, D, mu, j)
  BY <1>8 DEF SolvedBelow
<1>10. QED
  BY <1>2, <1>7, <1>9

\* Two solutions agree.
LEMMA SolutionsAgree ==
  ASSUME NEW D, NEW V, NEW mu \in [D -> Nat], NEW Body, DependsBelow(Body, D, V, mu),
         NEW k \in Nat, NEW f \in [D -> V], NEW g \in [D -> V],
         SolvedBelow(f, Body, D, mu, k), SolvedBelow(g, Body, D, mu, k), NEW n \in D, mu[n] < k
  PROVE  f[n] = g[n]
<1> DEFINE Bad == {j \in Nat : \E m \in D : mu[m] = j /\ j < k /\ f[m] # g[m]}
<1> SUFFICES ASSUME f[n] # g[n] PROVE FALSE
  OBVIOUS
<1>1. mu[n] \in Bad
  OBVIOUS
<1>2. PICK j \in Bad : \A i \in Bad : j <= i
  BY <1>1, LeastIndex
<1>3. PICK m \in D : mu[m] = j /\ j < k /\ f[m] # g[m]
  OBVIOUS
<1>4. ASSUME NEW i \in D, mu[i] < mu[m]
      PROVE  f[i] = g[i]
  <2>1. mu[i] \in Nat /\ mu[m] \in Nat
    OBVIOUS
  <2>2. mu[i] < k /\ ~ (j <= mu[i])
    BY <1>3, <1>4, <2>1
  <2>3. mu[i] \notin Bad
    BY <1>2, <2>2
  <2>4. QED
    BY <2>1, <2>2, <2>3
<1>5. Body[f][m] = Body[g][m]
  BY <1>4, Zenon DEF DependsBelow
<1>6. f[m] = Body[f][m] /\ g[m] = Body[g][m]
  BY <1>3 DEF SolvedBelow
<1>7. QED
  BY <1>3, <1>5, <1>6

Recursive(D, V, mu, Body) ==
  /\ \E v0 : v0 \in V
  /\ mu \in [D -> Nat]
  /\ Body \in [[D -> V] -> [D -> V]]
  /\ DependsBelow(Body, D, V, mu)

HasSolution(D, V, Body) == \E f \in [D -> V] : f = Body[f]

LEMMA RecursionByMeasure ==
  ASSUME NEW D, NEW V, NEW mu, NEW Body, Recursive(D, V, mu, Body)
  PROVE  HasSolution(D, V, Body)
<1> PICK v0 \in V : TRUE
  BY DEF Recursive
<1>0. mu \in [D -> Nat] /\ Body \in [[D -> V] -> [D -> V]] /\ DependsBelow(Body, D, V, mu)
  BY DEF Recursive
<1> DEFINE fam == [k \in Nat |-> CHOOSE f \in [D -> V] : SolvedBelow(f, Body, D, mu, k)]
           d == [n \in D |-> fam[mu[n] + 1][n]]
<1>1. ASSUME NEW k \in Nat
      PROVE  fam[k] \in [D -> V] /\ SolvedBelow(fam[k], Body, D, mu, k)
  <2>1. \E f \in [D -> V] : SolvedBelow(f, Body, D, mu, k)
    BY <1>0, SolutionBelow
  <2>2. QED
    BY <2>1
<1> HIDE DEF fam
<1>2. ASSUME NEW n \in D
      PROVE  mu[n] + 1 \in Nat /\ mu[n] < mu[n] + 1 /\ d[n] = fam[mu[n] + 1][n] /\ mu[n] \in Nat
  BY <1>0
<1>3. d \in [D -> V]
  <2>1. \A n \in D : fam[mu[n] + 1][n] \in V
    BY <1>1, <1>2
  <2>2. QED
    BY <2>1
<1> HIDE DEF d
<1>4. ASSUME NEW n \in D
      PROVE  d[n] = Body[d][n]
  <2>1. PICK k, g : k = mu[n] + 1 /\ g = fam[k]
    OBVIOUS
  <2>2. k \in Nat /\ g \in [D -> V] /\ SolvedBelow(g, Body, D, mu, k) /\ d[n] = g[n] /\ mu[n] < k
    BY <1>1, <1>2, <2>1
  <2>3. ASSUME NEW m \in D, mu[m] < mu[n]
        PROVE  d[m] = g[m]
    <3>1. PICK j, h : j = mu[m] + 1 /\ h = fam[j]
      OBVIOUS
    <3>2. j \in Nat /\ h \in [D -> V] /\ SolvedBelow(h, Body, D, mu, j) /\ d[m] = h[m] /\ mu[m] < j
      BY <1>1, <1>2, <3>1
    <3>3. j <= k /\ mu[m] \in Nat /\ mu[n] \in Nat
      BY <1>2, <2>1, <2>3, <3>1
    <3>4. SolvedBelow(g, Body, D, mu, j)
      BY <1>0, <2>2, <3>2, <3>3 DEF SolvedBelow
    <3>5. h[m] = g[m]
      BY <1>0, <2>2, <3>2, <3>4, SolutionsAgree
    <3>6. QED
      BY <3>2, <3>5
  <2>4. Body[d][n] = Body[g][n]
    BY <1>0, <1>3, <2>2, <2>3, Zenon DEF DependsBelow
  <2>5. g[n] = Body[g][n]
    BY <2>2 DEF SolvedBelow
  <2>6. QED
    BY <2>2, <2>4, <2>5
<1>5. d = Body[d]
  <2>1. Body[d] \in [D -> V]
    BY <1>0, <1>3
  <2>2. QED
    BY <1>3, <1>4, <2>1
<1>6. QED
  BY <1>3, <1>5 DEF HasSolution

==============================================================================
