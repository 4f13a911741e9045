------------------------ MODULE HandleQueriesProofs ------------------------
(***************************************************************************)
(* Proofs about the molecules of the nodes: what LoadData puts below the   *)
(* objects of a molecule above scope 0; and about the queries each node    *)
(* answers on its own: that the master shows the solutions, all of them.   *)
(***************************************************************************)
EXTENDS HandleQueries, SequenceLemmas, FiniteSetTheorems

(***************************************************************************)
(* The loops.  Each is a FoldLeft; Turn names the turns of all of them, so *)
(* that it is shown once that there are states between the turns.          *)
(***************************************************************************)

\* What one pattern more leaves of some bindings.
Joined(quads, bs, pattern) == UNION {Match(quads, b, pattern) : b \in bs}

Turn(loop, x, y) ==
  CASE loop.of = "lines" -> LoadLine(x, y)
    [] loop.of = "lines of a scope" -> AddTripleAt(x, y, loop.scope)
    [] loop.of = "scopes" -> LoadScope(x, y)
    [] loop.of = "templates" -> AddTemplate(x, y)
    [] loop.of = "triples" -> AddTriple(x, y, loop.scope)
    [] loop.of = "up to minScope" -> AddTriplesAt(x, loop.triples, y)
    [] loop.of = "triples of a class" ->
         IF y.subjectType \in GetHierarchyForType(loop.path[loop.scope + 1])
           THEN AddTripleInScope(x, y, loop.root, loop.scope) ELSE x
    [] loop.of = "path" -> AddClassAt(x, loop.triples, loop.root, loop.path, y)
    [] loop.of = "paths" -> AddPath(x, loop.triples, y)
    [] loop.of = "patterns" -> Joined(loop.quads, x, y)

\* The function FoldLeft computes with, on the subsets of the first n positions.
FoldsBy(g, loop, b, T, n) ==
  g = [s \in SUBSET (1 .. n) |->
         IF s = {} THEN b ELSE Turn(loop, g[s \ {Max(s)}], T[Max(s)])]

\* The states between the turns: h[k] is what there is after k of them.
Passes(h, loop, b, T, n) ==
  /\ h[0] = b
  /\ \A k \in 1 .. n : h[k] = Turn(loop, h[k - 1], T[k])

\* There is such a function.
LEMMA FoldExists ==
  ASSUME NEW loop, NEW b, NEW T, NEW n \in Nat
  PROVE  \E g : FoldsBy(g, loop, b, T, n)
<1> DEFINE Bad == {k \in Nat : ~ \E g : FoldsBy(g, loop, b, T, k)}
<1> SUFFICES ASSUME Bad # {} PROVE FALSE
  OBVIOUS
<1>1. PICK k \in Bad : \A j \in Bad : k <= j
  BY LeastIndex
<1>2. k \in Nat /\ ~ \E g : FoldsBy(g, loop, b, T, k)
  OBVIOUS
<1>3. CASE k = 0
  <2> DEFINE f == [s \in SUBSET (1 .. k) |-> b]
  <2>1. \A s \in SUBSET (1 .. k) : s = {}
    BY <1>3
  <2>2. \A s \in SUBSET (1 .. k) :
          f[s] = IF s = {} THEN b ELSE Turn(loop, f[s \ {Max(s)}], T[Max(s)])
    BY <2>1
  <2>3. f = [s \in SUBSET (1 .. k) |-> f[s]]
    OBVIOUS
  <2> HIDE DEF f
  <2>4. f = [s \in SUBSET (1 .. k) |->
               IF s = {} THEN b ELSE Turn(loop, f[s \ {Max(s)}], T[Max(s)])]
    BY <2>2, <2>3, Zenon
  <2>5. QED
    BY <1>2, <2>4, Zenon DEF FoldsBy
<1>4. CASE k # 0
  <2>1. k - 1 \in Nat /\ k - 1 \notin Bad
    BY <1>1, <1>2, <1>4
  <2>2. PICK g : FoldsBy(g, loop, b, T, k - 1)
    BY <2>1
  <2> DEFINE f == [s \in SUBSET (1 .. k) |->
                     IF k \in s THEN Turn(loop, g[s \ {k}], T[k]) ELSE g[s]]
  <2>3. \A s \in SUBSET (1 .. (k - 1)) :
          g[s] = IF s = {} THEN b ELSE Turn(loop, g[s \ {Max(s)}], T[Max(s)])
    BY <2>2, Zenon DEF FoldsBy
  <2>4. ASSUME NEW s \in SUBSET (1 .. k)
        PROVE  f[s] = IF s = {} THEN b ELSE Turn(loop, f[s \ {Max(s)}], T[Max(s)])
    <3>1. CASE k \in s
      <4>1. Max(s) = k
        BY <1>2, <1>4, <3>1, MaxOfPrefix
      <4>2. s \ {k} \in SUBSET (1 .. k) /\ k \notin s \ {k} /\ s # {}
        BY <3>1
      <4>3. f[s \ {k}] = g[s \ {k}]
        BY <4>2, Zenon
      <4>4. f[s] = Turn(loop, g[s \ {k}], T[k])
        BY <3>1, Zenon
      <4> HIDE DEF f
      <4>5. QED
        BY <4>1, <4>2, <4>3, <4>4, Zenon
    <3>2. CASE k \notin s
      <4>1. s \in SUBSET (1 .. (k - 1))
        BY <1>2, <1>4, <3>2
      <4>2. s \ {Max(s)} \in SUBSET (1 .. k) /\ k \notin s \ {Max(s)}
        BY <3>2
      <4>3. f[s] = g[s] /\ f[s \ {Max(s)}] = g[s \ {Max(s)}]
        BY <3>2, <4>2, Zenon
      <4> HIDE DEF f
      <4>4. QED
        BY <2>3, <4>1, <4>3, Zenon
    <3>3. QED
      BY <3>1, <3>2
  <2>5. f = [s \in SUBSET (1 .. k) |-> f[s]]
    OBVIOUS
  <2> HIDE DEF f
  <2>6. f = [s \in SUBSET (1 .. k) |->
               IF s = {} THEN b ELSE Turn(loop, f[s \ {Max(s)}], T[Max(s)])]
    BY <2>4, <2>5, Zenon
  <2>7. QED
    BY <1>2, <2>6, Zenon DEF FoldsBy
<1>5. QED
  BY <1>3, <1>4

\* Any such function passes through the states.
LEMMA FoldPasses ==
  ASSUME NEW loop, NEW b, NEW T, NEW n \in Nat, NEW g, FoldsBy(g, loop, b, T, n)
  PROVE  Passes([k \in 0 .. n |-> g[1 .. k]], loop, b, T, n)
<1>1. \A s \in SUBSET (1 .. n) :
        g[s] = IF s = {} THEN b ELSE Turn(loop, g[s \ {Max(s)}], T[Max(s)])
  BY Zenon DEF FoldsBy
<1> DEFINE h == [k \in 0 .. n |-> g[1 .. k]]
<1>2. h[0] = b
  <2>1. 1 .. 0 = {} /\ {} \in SUBSET (1 .. n) /\ 0 \in 0 .. n
    OBVIOUS
  <2>2. QED
    BY <1>1, <2>1
<1>3. ASSUME NEW k \in 1 .. n
      PROVE  h[k] = Turn(loop, h[k - 1], T[k])
  <2>1. 1 .. k \in SUBSET (1 .. n) /\ k \in 1 .. k /\ k \in Nat \ {0} /\ 1 .. k # {}
    OBVIOUS
  <2>2. Max(1 .. k) = k
    BY <2>1, MaxOfPrefix
  <2>3. (1 .. k) \ {k} = 1 .. (k - 1) /\ k - 1 \in 0 .. n /\ k \in 0 .. n
    OBVIOUS
  <2>4. g[1 .. k] = Turn(loop, g[1 .. (k - 1)], T[k])
    BY <1>1, <2>1, <2>2, <2>3, Zenon
  <2>5. QED
    BY <2>3, <2>4
<1> HIDE DEF h
<1>4. Passes(h, loop, b, T, n)
  BY <1>2, <1>3 DEF Passes
<1>5. QED
  BY <1>4 DEF h

\* A loop that ends with r has states between its turns.
Runs(loop, b, T, r) ==
  \E h : Passes(h, loop, b, T, Len(T)) /\ r = h[Len(T)]

\* T is what a loop over scopes goes through.
Counts(T, n) == T = ScopesTo(n)

LEMMA LinesRun ==
  ASSUME NEW b, NEW T, NEW n \in Nat, DOMAIN T = 1 .. n, Len(T) = n
  PROVE  Runs([of |-> "lines"], b, T, FoldLeft(LoadLine, b, T))
<1> DEFINE loop == [of |-> "lines"]
           g == CHOOSE iter : iter = [s \in SUBSET (DOMAIN T) |->
                  IF s = {} THEN b ELSE LoadLine(iter[s \ {Max(s)}], T[Max(s)])]
<1>1. FoldLeft(LoadLine, b, T) = g[DOMAIN T]
  BY Zenon DEF FoldLeft, MapThenFoldSet
<1>2. \A x, y : Turn(loop, x, y) = LoadLine(x, y)
  BY DEF Turn
<1> HIDE DEF loop
<1>3. PICK f : FoldsBy(f, loop, b, T, n)
  BY FoldExists
<1>4. f = [s \in SUBSET (DOMAIN T) |->
             IF s = {} THEN b ELSE LoadLine(f[s \ {Max(s)}], T[Max(s)])]
  BY <1>2, <1>3, Zenon DEF FoldsBy
<1>5. g = [s \in SUBSET (DOMAIN T) |->
             IF s = {} THEN b ELSE LoadLine(g[s \ {Max(s)}], T[Max(s)])]
  BY <1>4, Zenon
<1> HIDE DEF g
<1>6. FoldsBy(g, loop, b, T, n)
  BY <1>2, <1>5, Zenon DEF FoldsBy
<1>7. Passes([k \in 0 .. n |-> g[1 .. k]], loop, b, T, n)
  BY <1>6, FoldPasses
<1>8. [k \in 0 .. n |-> g[1 .. k]][n] = g[DOMAIN T]
  OBVIOUS
<1>9. QED
  BY <1>1, <1>7, <1>8, Zenon DEF Runs, loop

LEMMA ScopeLinesRun ==
  ASSUME NEW b, NEW scope, NEW T, NEW n \in Nat, b.tripleIDs = T, DOMAIN T = 1 .. n, Len(T) = n
  PROVE  Runs([of |-> "lines of a scope", scope |-> scope], b, T, LoadScope(b, scope))
<1> DEFINE loop == [of |-> "lines of a scope", scope |-> scope]
           g == CHOOSE iter : iter = [s \in SUBSET (DOMAIN T) |->
                  IF s = {} THEN b ELSE AddTripleAt(iter[s \ {Max(s)}], T[Max(s)], scope)]
<1>1. LoadScope(b, scope) = g[DOMAIN T]
  BY Zenon DEF FoldLeft, MapThenFoldSet, LoadScope
<1>2. \A x, y : Turn(loop, x, y) = AddTripleAt(x, y, scope)
  BY DEF Turn
<1> HIDE DEF loop
<1>3. PICK f : FoldsBy(f, loop, b, T, n)
  BY FoldExists
<1>4. f = [s \in SUBSET (DOMAIN T) |->
             IF s = {} THEN b ELSE AddTripleAt(f[s \ {Max(s)}], T[Max(s)], scope)]
  BY <1>2, <1>3, Zenon DEF FoldsBy
<1>5. g = [s \in SUBSET (DOMAIN T) |->
             IF s = {} THEN b ELSE AddTripleAt(g[s \ {Max(s)}], T[Max(s)], scope)]
  BY <1>4, Zenon
<1> HIDE DEF g
<1>6. FoldsBy(g, loop, b, T, n)
  BY <1>2, <1>5, Zenon DEF FoldsBy
<1>7. Passes([k \in 0 .. n |-> g[1 .. k]], loop, b, T, n)
  BY <1>6, FoldPasses
<1>8. [k \in 0 .. n |-> g[1 .. k]][n] = g[DOMAIN T]
  OBVIOUS
<1>9. QED
  BY <1>1, <1>7, <1>8, Zenon DEF Runs, loop

LEMMA ScopesRun ==
  ASSUME NEW b, NEW T, NEW n \in Nat, DOMAIN T = 1 .. n, Len(T) = n
  PROVE  Runs([of |-> "scopes"], b, T, FoldLeft(LoadScope, b, T))
<1> DEFINE loop == [of |-> "scopes"]
           g == CHOOSE iter : iter = [s \in SUBSET (DOMAIN T) |->
                  IF s = {} THEN b ELSE LoadScope(iter[s \ {Max(s)}], T[Max(s)])]
<1>1. FoldLeft(LoadScope, b, T) = g[DOMAIN T]
  BY Zenon DEF FoldLeft, MapThenFoldSet
<1>2. \A x, y : Turn(loop, x, y) = LoadScope(x, y)
  BY DEF Turn
<1> HIDE DEF loop
<1>3. PICK f : FoldsBy(f, loop, b, T, n)
  BY FoldExists
<1>4. f = [s \in SUBSET (DOMAIN T) |->
             IF s = {} THEN b ELSE LoadScope(f[s \ {Max(s)}], T[Max(s)])]
  BY <1>2, <1>3, Zenon DEF FoldsBy
<1>5. g = [s \in SUBSET (DOMAIN T) |->
             IF s = {} THEN b ELSE LoadScope(g[s \ {Max(s)}], T[Max(s)])]
  BY <1>4, Zenon
<1> HIDE DEF g
<1>6. FoldsBy(g, loop, b, T, n)
  BY <1>2, <1>5, Zenon DEF FoldsBy
<1>7. Passes([k \in 0 .. n |-> g[1 .. k]], loop, b, T, n)
  BY <1>6, FoldPasses
<1>8. [k \in 0 .. n |-> g[1 .. k]][n] = g[DOMAIN T]
  OBVIOUS
<1>9. QED
  BY <1>1, <1>7, <1>8, Zenon DEF Runs, loop

LEMMA TemplatesRun ==
  ASSUME NEW b, NEW T, NEW n \in Nat, DOMAIN T = 1 .. n, Len(T) = n
  PROVE  Runs([of |-> "templates"], b, T, FoldLeft(AddTemplate, b, T))
<1> DEFINE loop == [of |-> "templates"]
           g == CHOOSE iter : iter = [s \in SUBSET (DOMAIN T) |->
                  IF s = {} THEN b ELSE AddTemplate(iter[s \ {Max(s)}], T[Max(s)])]
<1>1. FoldLeft(AddTemplate, b, T) = g[DOMAIN T]
  BY Zenon DEF FoldLeft, MapThenFoldSet
<1>2. \A x, y : Turn(loop, x, y) = AddTemplate(x, y)
  BY DEF Turn
<1> HIDE DEF loop
<1>3. PICK f : FoldsBy(f, loop, b, T, n)
  BY FoldExists
<1>4. f = [s \in SUBSET (DOMAIN T) |->
             IF s = {} THEN b ELSE AddTemplate(f[s \ {Max(s)}], T[Max(s)])]
  BY <1>2, <1>3, Zenon DEF FoldsBy
<1>5. g = [s \in SUBSET (DOMAIN T) |->
             IF s = {} THEN b ELSE AddTemplate(g[s \ {Max(s)}], T[Max(s)])]
  BY <1>4, Zenon
<1> HIDE DEF g
<1>6. FoldsBy(g, loop, b, T, n)
  BY <1>2, <1>5, Zenon DEF FoldsBy
<1>7. Passes([k \in 0 .. n |-> g[1 .. k]], loop, b, T, n)
  BY <1>6, FoldPasses
<1>8. [k \in 0 .. n |-> g[1 .. k]][n] = g[DOMAIN T]
  OBVIOUS
<1>9. QED
  BY <1>1, <1>7, <1>8, Zenon DEF Runs, loop

LEMMA TriplesRun ==
  ASSUME NEW b, NEW scope, NEW T, NEW n \in Nat, DOMAIN T = 1 .. n, Len(T) = n
  PROVE  Runs([of |-> "triples", scope |-> scope], b, T, AddTriplesAt(b, T, scope))
<1> DEFINE loop == [of |-> "triples", scope |-> scope]
           g == CHOOSE iter : iter = [s \in SUBSET (DOMAIN T) |->
                  IF s = {} THEN b ELSE AddTriple(iter[s \ {Max(s)}], T[Max(s)], scope)]
<1>1. AddTriplesAt(b, T, scope) = g[DOMAIN T]
  BY Zenon DEF FoldLeft, MapThenFoldSet, AddTriplesAt
<1>2. \A x, y : Turn(loop, x, y) = AddTriple(x, y, scope)
  BY DEF Turn
<1> HIDE DEF loop
<1>3. PICK f : FoldsBy(f, loop, b, T, n)
  BY FoldExists
<1>4. f = [s \in SUBSET (DOMAIN T) |->
             IF s = {} THEN b ELSE AddTriple(f[s \ {Max(s)}], T[Max(s)], scope)]
  BY <1>2, <1>3, Zenon DEF FoldsBy
<1>5. g = [s \in SUBSET (DOMAIN T) |->
             IF s = {} THEN b ELSE AddTriple(g[s \ {Max(s)}], T[Max(s)], scope)]
  BY <1>4, Zenon
<1> HIDE DEF g
<1>6. FoldsBy(g, loop, b, T, n)
  BY <1>2, <1>5, Zenon DEF FoldsBy
<1>7. Passes([k \in 0 .. n |-> g[1 .. k]], loop, b, T, n)
  BY <1>6, FoldPasses
<1>8. [k \in 0 .. n |-> g[1 .. k]][n] = g[DOMAIN T]
  OBVIOUS
<1>9. QED
  BY <1>1, <1>7, <1>8, Zenon DEF Runs, loop

LEMMA MinScopeRuns ==
  ASSUME NEW b, NEW triples, NEW n \in Nat, NEW T, Counts(T, n), DOMAIN T = 1 .. n, Len(T) = n
  PROVE  Runs([of |-> "up to minScope", triples |-> triples], b, T, AddTriples(b, triples, n))
<1> DEFINE loop == [of |-> "up to minScope", triples |-> triples]
           g == CHOOSE iter : iter = [s \in SUBSET (DOMAIN T) |->
                  IF s = {} THEN b ELSE AddTriplesAt(iter[s \ {Max(s)}], triples, T[Max(s)])]
<1>1. AddTriples(b, triples, n) = g[DOMAIN T]
  BY Zenon DEF FoldLeft, MapThenFoldSet, AddTriples, Counts
<1>2. \A x, y : Turn(loop, x, y) = AddTriplesAt(x, triples, y)
  BY DEF Turn
<1> HIDE DEF loop
<1>3. PICK f : FoldsBy(f, loop, b, T, n)
  BY FoldExists
<1>4. f = [s \in SUBSET (DOMAIN T) |->
             IF s = {} THEN b ELSE AddTriplesAt(f[s \ {Max(s)}], triples, T[Max(s)])]
  BY <1>2, <1>3, Zenon DEF FoldsBy
<1>5. g = [s \in SUBSET (DOMAIN T) |->
             IF s = {} THEN b ELSE AddTriplesAt(g[s \ {Max(s)}], triples, T[Max(s)])]
  BY <1>4, Zenon
<1> HIDE DEF g
<1>6. FoldsBy(g, loop, b, T, n)
  BY <1>2, <1>5, Zenon DEF FoldsBy
<1>7. Passes([k \in 0 .. n |-> g[1 .. k]], loop, b, T, n)
  BY <1>6, FoldPasses
<1>8. [k \in 0 .. n |-> g[1 .. k]][n] = g[DOMAIN T]
  OBVIOUS
<1>9. QED
  BY <1>1, <1>7, <1>8, Zenon DEF Runs, loop

LEMMA ClassRuns ==
  ASSUME NEW b, NEW root, NEW path, NEW scope, NEW T, NEW n \in Nat, DOMAIN T = 1 .. n, Len(T) = n
  PROVE  Runs([of |-> "triples of a class", root |-> root, path |-> path, scope |-> scope], b, T, AddClassAt(b, T, root, path, scope))
<1> DEFINE loop == [of |-> "triples of a class", root |-> root, path |-> path, scope |-> scope]
           g == CHOOSE iter : iter = [s \in SUBSET (DOMAIN T) |->
                  IF s = {} THEN b ELSE (IF T[Max(s)].subjectType \in GetHierarchyForType(path[scope + 1]) THEN AddTripleInScope(iter[s \ {Max(s)}], T[Max(s)], root, scope) ELSE iter[s \ {Max(s)}])]
<1>1. AddClassAt(b, T, root, path, scope) = g[DOMAIN T]
  BY Zenon DEF FoldLeft, MapThenFoldSet, AddClassAt
<1>2. \A x, y : Turn(loop, x, y) = (IF y.subjectType \in GetHierarchyForType(path[scope + 1]) THEN AddTripleInScope(x, y, root, scope) ELSE x)
  BY DEF Turn
<1> HIDE DEF loop
<1>3. PICK f : FoldsBy(f, loop, b, T, n)
  BY FoldExists
<1>4. f = [s \in SUBSET (DOMAIN T) |->
             IF s = {} THEN b ELSE (IF T[Max(s)].subjectType \in GetHierarchyForType(path[scope + 1]) THEN AddTripleInScope(f[s \ {Max(s)}], T[Max(s)], root, scope) ELSE f[s \ {Max(s)}])]
  BY <1>2, <1>3, Zenon DEF FoldsBy
<1>5. g = [s \in SUBSET (DOMAIN T) |->
             IF s = {} THEN b ELSE (IF T[Max(s)].subjectType \in GetHierarchyForType(path[scope + 1]) THEN AddTripleInScope(g[s \ {Max(s)}], T[Max(s)], root, scope) ELSE g[s \ {Max(s)}])]
  BY <1>4, Zenon
<1> HIDE DEF g
<1>6. FoldsBy(g, loop, b, T, n)
  BY <1>2, <1>5, Zenon DEF FoldsBy
<1>7. Passes([k \in 0 .. n |-> g[1 .. k]], loop, b, T, n)
  BY <1>6, FoldPasses
<1>8. [k \in 0 .. n |-> g[1 .. k]][n] = g[DOMAIN T]
  OBVIOUS
<1>9. QED
  BY <1>1, <1>7, <1>8, Zenon DEF Runs, loop

LEMMA PathRuns ==
  ASSUME NEW b, NEW root, NEW triples, NEW path, NEW T, NEW n \in Nat, Counts(T, Len(path) - 1), DOMAIN T = 1 .. n, Len(T) = n
  PROVE  Runs([of |-> "path", root |-> root, triples |-> triples, path |-> path], b, T, AddPathFor(b, triples, root, path))
<1> DEFINE loop == [of |-> "path", root |-> root, triples |-> triples, path |-> path]
           g == CHOOSE iter : iter = [s \in SUBSET (DOMAIN T) |->
                  IF s = {} THEN b ELSE AddClassAt(iter[s \ {Max(s)}], triples, root, path, T[Max(s)])]
<1>1. AddPathFor(b, triples, root, path) = g[DOMAIN T]
  BY Zenon DEF FoldLeft, MapThenFoldSet, AddPathFor, Counts
<1>2. \A x, y : Turn(loop, x, y) = AddClassAt(x, triples, root, path, y)
  BY DEF Turn
<1> HIDE DEF loop
<1>3. PICK f : FoldsBy(f, loop, b, T, n)
  BY FoldExists
<1>4. f = [s \in SUBSET (DOMAIN T) |->
             IF s = {} THEN b ELSE AddClassAt(f[s \ {Max(s)}], triples, root, path, T[Max(s)])]
  BY <1>2, <1>3, Zenon DEF FoldsBy
<1>5. g = [s \in SUBSET (DOMAIN T) |->
             IF s = {} THEN b ELSE AddClassAt(g[s \ {Max(s)}], triples, root, path, T[Max(s)])]
  BY <1>4, Zenon
<1> HIDE DEF g
<1>6. FoldsBy(g, loop, b, T, n)
  BY <1>2, <1>5, Zenon DEF FoldsBy
<1>7. Passes([k \in 0 .. n |-> g[1 .. k]], loop, b, T, n)
  BY <1>6, FoldPasses
<1>8. [k \in 0 .. n |-> g[1 .. k]][n] = g[DOMAIN T]
  OBVIOUS
<1>9. QED
  BY <1>1, <1>7, <1>8, Zenon DEF Runs, loop

LEMMA PathsRun ==
  ASSUME NEW b, NEW triples, NEW T, NEW n \in Nat, DOMAIN T = 1 .. n, Len(T) = n
  PROVE  Runs([of |-> "paths", triples |-> triples], b, T, AddPaths(b, triples, T))
<1> DEFINE loop == [of |-> "paths", triples |-> triples]
           g == CHOOSE iter : iter = [s \in SUBSET (DOMAIN T) |->
                  IF s = {} THEN b ELSE AddPath(iter[s \ {Max(s)}], triples, T[Max(s)])]
<1>1. AddPaths(b, triples, T) = g[DOMAIN T]
  BY Zenon DEF FoldLeft, MapThenFoldSet, AddPaths
<1>2. \A x, y : Turn(loop, x, y) = AddPath(x, triples, y)
  BY DEF Turn
<1> HIDE DEF loop
<1>3. PICK f : FoldsBy(f, loop, b, T, n)
  BY FoldExists
<1>4. f = [s \in SUBSET (DOMAIN T) |->
             IF s = {} THEN b ELSE AddPath(f[s \ {Max(s)}], triples, T[Max(s)])]
  BY <1>2, <1>3, Zenon DEF FoldsBy
<1>5. g = [s \in SUBSET (DOMAIN T) |->
             IF s = {} THEN b ELSE AddPath(g[s \ {Max(s)}], triples, T[Max(s)])]
  BY <1>4, Zenon
<1> HIDE DEF g
<1>6. FoldsBy(g, loop, b, T, n)
  BY <1>2, <1>5, Zenon DEF FoldsBy
<1>7. Passes([k \in 0 .. n |-> g[1 .. k]], loop, b, T, n)
  BY <1>6, FoldPasses
<1>8. [k \in 0 .. n |-> g[1 .. k]][n] = g[DOMAIN T]
  OBVIOUS
<1>9. QED
  BY <1>1, <1>7, <1>8, Zenon DEF Runs, loop

------------------------------------------------------------------------------
(***************************************************************************)
(* The templates of one root.                                              *)
(***************************************************************************)

\* A type is a number.
LEMMA TypesAreNumbers == TYPE_ID \subseteq Nat /\ \A k \in KEY_ID : GetType(k) \in TYPE_ID
BY KeyAssumption DEF TYPE_ID, GetType

\* t at a scope, and whether S has it.
At(t, scope) == [t EXCEPT !.scope = scope]
Has(S, t, scope) == \E u \in S : SameTemplate(u, At(t, scope))

\* Something one scope above has the type t is about.
Below(S, t, scope) == \E u \in S : u.scope = scope - 1 /\ u.objectType = t.subjectType

\* An ID stands for one template, and a template is there once.
Numbered(S) ==
  /\ S \subseteq TripleTemplate
  /\ IsFiniteSet(S)
  /\ \A t \in S : t.ID \in 1 .. Cardinality(S)
  /\ \A t, u \in S : t.ID = u.ID => t = u
  /\ \A t, u \in S : SameTemplate(t, u) => t = u

LEMMA EmptyNumbered == Numbered({})
  BY FS_EmptySet DEF Numbered

\* set::insert with the next number.
LEMMA InsertNumbers ==
  ASSUME NEW S, Numbered(S), NEW t \in TripleTemplate
  PROVE  /\ Numbered(InsertTemplate(S, t))
         /\ S \subseteq InsertTemplate(S, t)
         /\ \E u \in InsertTemplate(S, t) : SameTemplate(u, t)
         /\ \A u \in InsertTemplate(S, t) \ S : SameTemplate(u, t)
         /\ (\E u \in S : SameTemplate(u, t)) => InsertTemplate(S, t) = S
<1>1. CASE \E u \in S : SameTemplate(u, t)
  <2>1. InsertTemplate(S, t) = S
    BY <1>1 DEF InsertTemplate
  <2>2. QED
    BY <1>1, <2>1
<1>2. CASE ~ \E u \in S : SameTemplate(u, t)
  <2> DEFINE n == Cardinality(S)
             x == [t EXCEPT !.ID = n + 1]
  <2>1. InsertTemplate(S, t) = S \union {x}
    BY <1>2 DEF InsertTemplate
  <2>2. n \in Nat
    BY FS_CardinalityType DEF Numbered
  <2>3. x \in TripleTemplate /\ SameTemplate(x, t) /\ SameTemplate(t, x) /\ x.ID = n + 1
    BY <2>2 DEF TripleTemplate, SameTemplate
  <2>4. \A u \in S : ~ SameTemplate(u, x) /\ ~ SameTemplate(x, u)
    <3>1. /\ x.subjectType = t.subjectType /\ x.predicateID = t.predicateID
          /\ x.objectType = t.objectType /\ x.scope = t.scope
      BY <2>3 DEF SameTemplate
    <3> HIDE DEF x
    <3>2. QED
      BY <1>2, <3>1, Zenon DEF SameTemplate
  <2>5. x \notin S
    BY <1>2, <2>3
  <2>6. IsFiniteSet(S \union {x}) /\ Cardinality(S \union {x}) = n + 1
    BY <2>5, FS_AddElement DEF Numbered
  <2>7. \A u \in S : u.ID \in 1 .. n /\ u \in TripleTemplate
    BY DEF Numbered
  <2> HIDE DEF n, x
  <2>8. Numbered(S \union {x})
    <3>1. S \union {x} \subseteq TripleTemplate
      BY <2>3 DEF Numbered
    <3>2. \A u \in S \union {x} : u.ID \in 1 .. (n + 1)
      BY <2>2, <2>3, <2>7
    <3>3. \A u, v \in S \union {x} : u.ID = v.ID => u = v
      <4>1. \A u, v \in S : u.ID = v.ID => u = v
        BY DEF Numbered
      <4>2. \A u \in S : u.ID # x.ID
        BY <2>2, <2>3, <2>7
      <4>3. QED
        BY <4>1, <4>2
    <3>4. \A u, v \in S \union {x} : SameTemplate(u, v) => u = v
      <4>1. \A u, v \in S : SameTemplate(u, v) => u = v
        BY DEF Numbered
      <4>2. QED
        BY <2>4, <4>1
    <3>5. QED
      BY <2>6, <3>1, <3>2, <3>3, <3>4 DEF Numbered
  <2>9. QED
    BY <1>2, <2>1, <2>3, <2>8
<1>3. QED
  BY <1>1, <1>2

\* What the turns at one scope have made of the templates S0: done are the
\* triples they were about, and only those of some types were added.
GrownAt(S0, S, scope, types, done) ==
  /\ Numbered(S)
  /\ S0 \subseteq S
  /\ \A u \in S \ S0 : u.scope = scope /\ u.subjectType \in types
  /\ \A t \in done : Below(S0, t, scope) => Has(S, t, scope)

LEMMA HasMore ==
  ASSUME NEW S, NEW R, R \subseteq S, NEW t, NEW k
  PROVE  (Has(R, t, k) => Has(S, t, k)) /\ (Below(R, t, k) => Below(S, t, k))
BY DEF Has, Below

LEMMA ExtendedGrows ==
  ASSUME NEW S0, NEW S, NEW scope \in Nat \ {0}, NEW types, NEW done,
         GrownAt(S0, S, scope, types, done),
         NEW t \in TripleTemplate, t.subjectType \in types
  PROVE  /\ GrownAt(S0, Extended(S, t, scope), scope, types, done \union {t})
         /\ S \subseteq Extended(S, t, scope)
         /\ (Below(S, t, scope) => Has(S, t, scope)) => Extended(S, t, scope) = S
<1> DEFINE u0 == At(t, scope)
           E == Extended(S, t, scope)
<1>1. u0 \in TripleTemplate /\ u0.scope = scope /\ u0.subjectType = t.subjectType
  BY DEF At, TripleTemplate
<1>2. E = IF Below(S, t, scope) THEN InsertTemplate(S, u0) ELSE S
  BY DEF Extended, Below, At
<1>3. /\ Numbered(InsertTemplate(S, u0))
      /\ S \subseteq InsertTemplate(S, u0)
      /\ \E u \in InsertTemplate(S, u0) : SameTemplate(u, u0)
      /\ \A u \in InsertTemplate(S, u0) \ S : SameTemplate(u, u0)
      /\ (\E u \in S : SameTemplate(u, u0)) => InsertTemplate(S, u0) = S
  BY <1>1, InsertNumbers DEF GrownAt
<1> HIDE DEF E
<1>4. Numbered(E) /\ S \subseteq E
  BY <1>2, <1>3 DEF GrownAt
<1>5. Below(S, t, scope) => Has(E, t, scope)
  BY <1>2, <1>3 DEF Has
<1>6. \A u \in E \ S : u.scope = scope /\ u.subjectType \in types
  <2>1. \A u \in E \ S : SameTemplate(u, u0)
    BY <1>2, <1>3
  <2> HIDE DEF u0
  <2>2. QED
    BY <1>1, <2>1 DEF SameTemplate
<1>7. (Below(S, t, scope) => Has(S, t, scope)) => E = S
  BY <1>2, <1>3 DEF Has
<1>8. GrownAt(S0, E, scope, types, done \union {t})
  <2>1. S0 \subseteq S
    BY DEF GrownAt
  <2>2. \A u \in E \ S0 : u.scope = scope /\ u.subjectType \in types
    BY <1>6 DEF GrownAt
  <2>3. \A v \in done \union {t} : Below(S0, v, scope) => Has(E, v, scope)
    <3>1. \A v \in done : Below(S0, v, scope) => Has(S, v, scope)
      BY DEF GrownAt
    <3>2. \A v : Has(S, v, scope) => Has(E, v, scope)
      BY <1>4, HasMore
    <3>3. Below(S0, t, scope) => Below(S, t, scope)
      BY <2>1, HasMore
    <3>4. QED
      BY <1>5, <3>1, <3>2, <3>3
  <2>4. QED
    BY <1>4, <2>1, <2>2, <2>3 DEF GrownAt
<1>9. QED
  BY <1>4, <1>7, <1>8 DEF E

------------------------------------------------------------------------------
(***************************************************************************)
(* The loops over the triples.                                             *)
(***************************************************************************)

\* What holds before the first turn and is kept by each holds after the last.
LEMMA AfterAllTurns ==
  ASSUME NEW n \in Nat, NEW G, 0 \in G, \A k \in 1 .. n : k - 1 \in G => k \in G
  PROVE  n \in G
<1> DEFINE Bad == {k \in Nat : k <= n /\ k \notin G}
<1> SUFFICES ASSUME n \notin G PROVE FALSE
  OBVIOUS
<1>1. n \in Bad
  OBVIOUS
<1>2. PICK k \in Bad : \A j \in Bad : k <= j
  BY <1>1, LeastIndex
<1>3. k \in Nat /\ k <= n /\ k \notin G
  OBVIOUS
<1>4. k # 0
  BY <1>3
<1>5. k - 1 \in Nat /\ k - 1 <= n /\ ~ (k <= k - 1) /\ k \in 1 .. n
  BY <1>3, <1>4
<1>6. k - 1 \in G
  BY <1>2, <1>5
<1>7. QED
  BY <1>3, <1>5, <1>6

\* T lists the triples TT.
Lists(T, n, TT) ==
  /\ n \in Nat /\ DOMAIN T = 1 .. n /\ Len(T) = n
  /\ TT = {T[i] : i \in 1 .. n}
  /\ TT \subseteq TripleTemplate

IsTable(tm) ==
  /\ DOMAIN tm = TYPE_ID
  /\ \A root \in TYPE_ID : Numbered(tm[root])

\* Every type has the templates of the lines about it.
Based(S, root, TT) == \A t \in TT : t.subjectType = root => Has(S, t, 0)

LEMMA TemplatesBase ==
  ASSUME NEW T, NEW n, NEW TT, Lists(T, n, TT),
         \A t \in TT : t.subjectType >= 2 /\ t.scope = 0
  PROVE  LET tm == FoldLeft(AddTemplate, NoTemplates, T)
         IN  /\ IsTable(tm)
             /\ \A root \in TYPE_ID : Based(tm[root], root, TT) /\ \A u \in tm[root] : u.scope = 0
<1> DEFINE tm == FoldLeft(AddTemplate, NoTemplates, T)
<1>1. n \in Nat /\ DOMAIN T = 1 .. n /\ Len(T) = n /\ TT = {T[i] : i \in 1 .. n}
  BY DEF Lists
<1>2. Runs([of |-> "templates"], NoTemplates, T, tm)
  BY <1>1, TemplatesRun
<1> HIDE DEF tm
<1>3. PICK h : Passes(h, [of |-> "templates"], NoTemplates, T, n) /\ tm = h[n]
  BY <1>1, <1>2, Zenon DEF Runs
<1>4. h[0] = NoTemplates /\ \A k \in 1 .. n : h[k] = AddTemplate(h[k - 1], T[k])
  BY <1>3 DEF Passes, Turn
<1> DEFINE G == {k \in Nat : /\ IsTable(h[k])
                             /\ \A root \in TYPE_ID : \A u \in h[k][root] : u.scope = 0
                             /\ \A i \in 1 .. k : Has(h[k][T[i].subjectType], T[i], 0)}
<1>5. 0 \in G
  <2>1. IsTable(h[0])
    BY <1>4, EmptyNumbered DEF IsTable, NoTemplates
  <2>2. QED
    BY <1>4, <2>1 DEF NoTemplates
<1>6. ASSUME NEW k \in 1 .. n, k - 1 \in G
      PROVE  k \in G
  <2> DEFINE a == h[k - 1]
             t == T[k]
             b == h[k]
  <2>1. k - 1 \in Nat /\ k \in Nat /\ IsTable(a)
    BY <1>6
  <2>2. /\ t \in TT /\ t \in TripleTemplate /\ t.subjectType >= 2 /\ t.scope = 0
        /\ t.subjectType \in TYPE_ID
    BY <1>1 DEF Lists, TripleTemplate
  <2>3. b = [a EXCEPT ![t.subjectType] = InsertTemplate(@, t)]
    <3>1. b = AddTemplate(a, t)
      BY <1>4
    <3> HIDE DEF a, b, t
    <3>2. ~ (t.subjectType < 2)
      <4>1. t.subjectType \in Nat
        BY <2>2, TypesAreNumbers
      <4>2. QED
        BY <2>2, <4>1
    <3>3. QED
      BY <3>1, <3>2 DEF AddTemplate
  <2>4. /\ \A root \in TYPE_ID : \A u \in a[root] : u.scope = 0
        /\ \A i \in 1 .. (k - 1) : Has(a[T[i].subjectType], T[i], 0)
    BY <1>6
  <2>5. /\ Numbered(InsertTemplate(a[t.subjectType], t))
        /\ a[t.subjectType] \subseteq InsertTemplate(a[t.subjectType], t)
        /\ \E u \in InsertTemplate(a[t.subjectType], t) : SameTemplate(u, t)
        /\ \A u \in InsertTemplate(a[t.subjectType], t) \ a[t.subjectType] : SameTemplate(u, t)
    <3> HIDE DEF a, b, t
    <3>1. Numbered(a[t.subjectType])
      BY <2>1, <2>2 DEF IsTable
    <3>2. QED
      BY <2>2, <3>1, InsertNumbers
  <2> HIDE DEF a, b, t
  <2>6. DOMAIN b = TYPE_ID
    BY <2>1, <2>3 DEF IsTable
  <2>7. b[t.subjectType] = InsertTemplate(a[t.subjectType], t)
    BY <2>1, <2>2, <2>3 DEF IsTable
  <2>8. \A root \in TYPE_ID \ {t.subjectType} : b[root] = a[root]
    BY <2>1, <2>3 DEF IsTable
  <2>9. IsTable(b)
    <3>1. \A root \in TYPE_ID : Numbered(a[root])
      BY <2>1 DEF IsTable
    <3>2. QED
      BY <2>5, <2>6, <2>7, <2>8, <3>1 DEF IsTable
  <2>10. ASSUME NEW root \in TYPE_ID, NEW u \in b[root]
         PROVE  u.scope = 0
    <3>1. CASE u \in a[root]
      BY <2>4, <3>1
    <3>2. CASE u \notin a[root]
      <4>1. root = t.subjectType
        BY <2>8, <3>2
      <4>2. SameTemplate(u, t)
        BY <2>5, <2>7, <3>2, <4>1
      <4>3. QED
        BY <2>2, <4>2 DEF SameTemplate
    <3>3. QED
      BY <3>1, <3>2
  <2>11. \A root \in TYPE_ID : a[root] \subseteq b[root]
    BY <2>5, <2>7, <2>8
  <2>12. ASSUME NEW i \in 1 .. k
         PROVE  Has(b[T[i].subjectType], T[i], 0)
    <3>1. CASE i = k
      <4>1. At(t, 0) = t
        BY <2>2 DEF At, TripleTemplate
      <4>2. Has(b[t.subjectType], t, 0)
        BY <2>5, <2>7, <4>1 DEF Has
      <4>3. QED
        BY <3>1, <4>2 DEF t
    <3>2. CASE i # k
      <4>1. i \in 1 .. (k - 1) /\ i \in 1 .. n
        BY <1>1, <2>1, <3>2
      <4>2. T[i].subjectType \in TYPE_ID
        BY <1>1, <4>1 DEF Lists, TripleTemplate
      <4>3. QED
        BY <2>4, <2>11, <4>1, <4>2, HasMore
    <3>3. QED
      BY <3>1, <3>2
  <2>13. QED
    BY <2>1, <2>9, <2>10, <2>12 DEF b
<1>7. n \in G
  <2> HIDE DEF G
  <2>1. QED
    BY <1>1, <1>5, <1>6, AfterAllTurns
<1>8. \A root \in TYPE_ID : Based(tm[root], root, TT)
  <2>1. \A i \in 1 .. n : Has(tm[T[i].subjectType], T[i], 0)
    BY <1>3, <1>7
  <2>2. QED
    BY <1>1, <2>1, Zenon DEF Based
<1>9. IsTable(tm) /\ \A root \in TYPE_ID : \A u \in tm[root] : u.scope = 0
  BY <1>3, <1>7
<1>10. QED
  BY <1>8, <1>9 DEF tm

\* What a scope of the loop up to minScope makes of the templates S0 of a root:
\* nothing if they had all of it already.
LEMMA TriplesAtGrow ==
  ASSUME NEW T, NEW n, NEW TT, Lists(T, n, TT), NEW tm, IsTable(tm), NEW scope \in Nat \ {0}
  PROVE  /\ IsTable(AddTriplesAt(tm, T, scope))
         /\ \A root \in TYPE_ID :
              GrownAt(tm[root], AddTriplesAt(tm, T, scope)[root], scope, TYPE_ID, TT)
<1> DEFINE r == AddTriplesAt(tm, T, scope)
<1>1. n \in Nat /\ DOMAIN T = 1 .. n /\ Len(T) = n /\ TT = {T[i] : i \in 1 .. n}
  BY DEF Lists
<1>2. Runs([of |-> "triples", scope |-> scope], tm, T, r)
  BY <1>1, TriplesRun
<1> HIDE DEF r
<1>3. PICK h : Passes(h, [of |-> "triples", scope |-> scope], tm, T, n) /\ r = h[n]
  BY <1>1, <1>2, Zenon DEF Runs
<1>4. h[0] = tm /\ \A k \in 1 .. n : h[k] = AddTriple(h[k - 1], T[k], scope)
  BY <1>3 DEF Passes, Turn
<1> DEFINE G == {k \in Nat : /\ DOMAIN h[k] = TYPE_ID
                             /\ \A root \in TYPE_ID :
                                  GrownAt(tm[root], h[k][root], scope, TYPE_ID, {T[i] : i \in 1 .. k})}
<1>5. 0 \in G
  <2>1. {T[i] : i \in 1 .. 0} = {}
    OBVIOUS
  <2>2. \A root \in TYPE_ID : GrownAt(tm[root], tm[root], scope, TYPE_ID, {})
    BY DEF GrownAt, IsTable
  <2>3. QED
    BY <1>4, <2>1, <2>2 DEF IsTable
<1>6. ASSUME NEW k \in 1 .. n, k - 1 \in G
      PROVE  k \in G
  <2> DEFINE a == h[k - 1]
             b == h[k]
             t == T[k]
             done == {T[i] : i \in 1 .. (k - 1)}
  <2>1. t \in TripleTemplate /\ t.subjectType \in TYPE_ID
    BY <1>1 DEF Lists, TripleTemplate
  <2>2. k \in Nat /\ {T[i] : i \in 1 .. k} = done \union {t}
    <3>1. k \in Nat /\ 1 .. k = (1 .. (k - 1)) \union {k}
      BY <1>1
    <3>2. QED
      BY <3>1
  <2>3. DOMAIN a = TYPE_ID /\ \A root \in TYPE_ID : GrownAt(tm[root], a[root], scope, TYPE_ID, done)
    BY <1>6
  <2>4. b = [root \in DOMAIN a |-> Extended(a[root], t, scope)]
    BY <1>4 DEF AddTriple
  <2> HIDE DEF a, b, t, done
  <2>5. DOMAIN b = TYPE_ID
    BY <2>3, <2>4
  <2>6. \A root \in TYPE_ID : GrownAt(tm[root], b[root], scope, TYPE_ID, done \union {t})
    <3>1. ASSUME NEW root \in TYPE_ID
          PROVE  GrownAt(tm[root], b[root], scope, TYPE_ID, done \union {t})
      <4>1. b[root] = Extended(a[root], t, scope)
        BY <2>3, <2>4
      <4>2. GrownAt(tm[root], Extended(a[root], t, scope), scope, TYPE_ID, done \union {t})
        BY <2>1, <2>3, ExtendedGrows
      <4>3. QED
        BY <4>1, <4>2
    <3>2. QED
      BY <3>1
  <2>7. QED
    BY <2>2, <2>5, <2>6 DEF b
<1>7. n \in G
  <2> HIDE DEF G
  <2>1. QED
    BY <1>1, <1>5, <1>6, AfterAllTurns
<1>8. DOMAIN r = TYPE_ID /\ \A root \in TYPE_ID : GrownAt(tm[root], r[root], scope, TYPE_ID, TT)
  BY <1>1, <1>3, <1>7
<1>9. QED
  BY <1>8 DEF r, IsTable, GrownAt

OfTypes(TT, types) == {t \in TT : t.subjectType \in types}

\* And what a class of a path makes of them.
LEMMA ClassGrows ==
  ASSUME NEW T, NEW n, NEW TT, Lists(T, n, TT), NEW tm, DOMAIN tm = TYPE_ID,
         NEW root \in TYPE_ID, Numbered(tm[root]), NEW path, NEW scope \in Nat \ {0},
         NEW types, types = GetHierarchyForType(path[scope + 1])
  PROVE  /\ DOMAIN AddClassAt(tm, T, root, path, scope) = TYPE_ID
         /\ GrownAt(tm[root], AddClassAt(tm, T, root, path, scope)[root], scope, types,
                    OfTypes(TT, types))
         /\ (\A t \in TT : Below(tm[root], t, scope) => Has(tm[root], t, scope))
              => AddClassAt(tm, T, root, path, scope)[root] = tm[root]
<1> DEFINE r == AddClassAt(tm, T, root, path, scope)
           loop == [of |-> "triples of a class", root |-> root, path |-> path, scope |-> scope]
           S0 == tm[root]
           Full == \A t \in TT : Below(S0, t, scope) => Has(S0, t, scope)
<1>1. n \in Nat /\ DOMAIN T = 1 .. n /\ Len(T) = n /\ TT = {T[i] : i \in 1 .. n}
  BY DEF Lists
<1>2. Runs(loop, tm, T, r)
  BY <1>1, ClassRuns
<1> HIDE DEF r
<1>3. PICK h : Passes(h, loop, tm, T, n) /\ r = h[n]
  <2> HIDE DEF loop
  <2>1. QED
    BY <1>1, <1>2, Zenon DEF Runs
<1>4. /\ h[0] = tm
      /\ \A k \in 1 .. n : h[k] = IF T[k].subjectType \in types
                                    THEN AddTripleInScope(h[k - 1], T[k], root, scope) ELSE h[k - 1]
  BY <1>3 DEF Passes, Turn
<1> HIDE DEF Full
<1> DEFINE Of(k) == {t \in {T[i] : i \in 1 .. k} : t.subjectType \in types}
           G == {k \in Nat : /\ DOMAIN h[k] = TYPE_ID
                             /\ GrownAt(S0, h[k][root], scope, types, Of(k))
                             /\ Full => h[k][root] = S0}
<1>5. 0 \in G
  <2>1. Of(0) = {}
    OBVIOUS
  <2>2. GrownAt(S0, S0, scope, types, {})
    BY DEF GrownAt
  <2>3. QED
    BY <1>4, <2>1, <2>2
<1>6. ASSUME NEW k \in 1 .. n, k - 1 \in G
      PROVE  k \in G
  <2> DEFINE a == h[k - 1]
             b == h[k]
             t == T[k]
             done == Of(k - 1)
  <2>1. t \in TripleTemplate /\ t \in TT
    BY <1>1 DEF Lists
  <2>2. k \in Nat /\ Of(k) = done \union {v \in {t} : v.subjectType \in types}
    <3>1. k \in Nat /\ 1 .. k = (1 .. (k - 1)) \union {k}
      BY <1>1
    <3>2. QED
      BY <3>1
  <2>3. DOMAIN a = TYPE_ID /\ GrownAt(S0, a[root], scope, types, done) /\ (Full => a[root] = S0)
    BY <1>6
  <2>4. b = IF t.subjectType \in types THEN AddTripleInScope(a, t, root, scope) ELSE a
    BY <1>4
  <2> HIDE DEF a, b, t, done, Of, S0
  <2>5. CASE t.subjectType \in types
    <3>1. b = [a EXCEPT ![root] = Extended(@, t, scope)]
      BY <2>3, <2>4, <2>5 DEF AddTripleInScope
    <3>2. DOMAIN b = TYPE_ID /\ b[root] = Extended(a[root], t, scope)
      BY <2>3, <3>1
    <3>3. /\ GrownAt(S0, Extended(a[root], t, scope), scope, types, done \union {t})
          /\ (Below(a[root], t, scope) => Has(a[root], t, scope)) => Extended(a[root], t, scope) = a[root]
      BY <2>1, <2>3, <2>5, ExtendedGrows
    <3>4. Full => b[root] = S0
      BY <2>1, <2>3, <3>2, <3>3 DEF Full
    <3>5. Of(k) = done \union {t}
      BY <2>2, <2>5
    <3>6. QED
      BY <2>2, <3>2, <3>3, <3>4, <3>5 DEF b
  <2>6. CASE t.subjectType \notin types
    <3>1. Of(k) = done /\ b = a
      BY <2>2, <2>4, <2>6
    <3>2. QED
      BY <2>2, <2>3, <3>1 DEF b
  <2>7. QED
    BY <2>5, <2>6
<1>7. n \in G
  <2> HIDE DEF G
  <2>1. QED
    BY <1>1, <1>5, <1>6, AfterAllTurns
<1>8. /\ DOMAIN r = TYPE_ID
      /\ GrownAt(S0, r[root], scope, types, {t \in TT : t.subjectType \in types})
      /\ Full => r[root] = S0
  BY <1>1, <1>3, <1>7
<1>9. QED
  BY <1>8 DEF r, Full, S0, OfTypes

------------------------------------------------------------------------------
(***************************************************************************)
(* The loops over the scopes.                                              *)
(***************************************************************************)

\* The templates S have, at all scopes up to m, what follows from the scope
\* above.
FilledTo(S, TT, m) == \A k \in 1 .. m : \A t \in TT : Below(S, t, k) => Has(S, t, k)

\* A scope does not add to what the scopes up to it follow from.
LEMMA BelowEarlier ==
  ASSUME NEW S0, NEW S, NEW scope \in Nat, NEW types, NEW done,
         GrownAt(S0, S, scope, types, done), NEW t, NEW k \in Nat, k <= scope
  PROVE  Below(S, t, k) => Below(S0, t, k)
<1> SUFFICES ASSUME Below(S, t, k) PROVE Below(S0, t, k)
  OBVIOUS
<1>1. PICK u \in S : u.scope = k - 1 /\ u.objectType = t.subjectType
  BY DEF Below
<1>2. u \in S0
  BY <1>1 DEF GrownAt
<1>3. QED
  BY <1>1, <1>2 DEF Below

LEMMA FilledGrows ==
  ASSUME NEW S0, NEW S, NEW scope \in Nat, NEW types, NEW done, NEW TT,
         GrownAt(S0, S, scope, types, done), NEW m \in Nat, m <= scope, FilledTo(S0, TT, m)
  PROVE  FilledTo(S, TT, m)
<1>1. ASSUME NEW k \in 1 .. m, NEW t \in TT, Below(S, t, k)
      PROVE  Has(S, t, k)
  <2>1. k \in Nat /\ k <= scope
    OBVIOUS
  <2>2. Below(S0, t, k)
    BY <1>1, <2>1, BelowEarlier
  <2>3. Has(S0, t, k)
    BY <2>2 DEF FilledTo
  <2>4. QED
    BY <2>3, HasMore DEF GrownAt
<1>2. QED
  BY <1>1 DEF FilledTo

\* The loop up to minScope.
LEMMA MinScopeFills ==
  ASSUME NEW T, NEW n, NEW TT, Lists(T, n, TT), NEW tm, IsTable(tm), NEW m \in Nat,
         \A root \in TYPE_ID : Based(tm[root], root, TT) /\ \A u \in tm[root] : u.scope = 0
  PROVE  /\ IsTable(AddTriples(tm, T, m))
         /\ \A root \in TYPE_ID :
              /\ Based(AddTriples(tm, T, m)[root], root, TT)
              /\ FilledTo(AddTriples(tm, T, m)[root], TT, m)
              /\ \A u \in AddTriples(tm, T, m)[root] : u.scope <= m
<1> DEFINE r == AddTriples(tm, T, m)
           loop == [of |-> "up to minScope", triples |-> T]
<1>1. PICK turns : turns = ScopesTo(m)
  OBVIOUS
<1>2. DOMAIN turns = 1 .. m /\ Len(turns) = m /\ \A k \in 1 .. m : turns[k] = k
  BY <1>1 DEF ScopesTo
<1>3. Runs(loop, tm, turns, r)
  BY <1>1, <1>2, MinScopeRuns DEF Counts
<1> HIDE DEF r
<1>4. PICK h : Passes(h, loop, tm, turns, m) /\ r = h[m]
  <2> HIDE DEF loop
  <2>1. QED
    BY <1>2, <1>3, Zenon DEF Runs
<1>5. h[0] = tm /\ \A k \in 1 .. m : h[k] = AddTriplesAt(h[k - 1], T, k)
  <2>1. \A k \in 1 .. m : h[k] = AddTriplesAt(h[k - 1], T, turns[k])
    BY <1>4 DEF Passes, Turn
  <2>2. QED
    BY <1>2, <1>4, <2>1 DEF Passes
<1> DEFINE G == {k \in Nat : /\ IsTable(h[k])
                             /\ \A root \in TYPE_ID :
                                  /\ Based(h[k][root], root, TT)
                                  /\ FilledTo(h[k][root], TT, k)
                                  /\ \A u \in h[k][root] : u.scope <= k}
<1>6. 0 \in G
  BY <1>5 DEF FilledTo
<1>7. ASSUME NEW k \in 1 .. m, k - 1 \in G
      PROVE  k \in G
  <2> DEFINE a == h[k - 1]
             b == h[k]
  <2>1. k - 1 \in Nat /\ k \in Nat \ {0} /\ k - 1 <= k
    OBVIOUS
  <2>2. /\ IsTable(a)
        /\ \A root \in TYPE_ID :
             /\ Based(a[root], root, TT)
             /\ FilledTo(a[root], TT, k - 1)
             /\ \A u \in a[root] : u.scope <= k - 1
    BY <1>7
  <2>3. b = AddTriplesAt(a, T, k)
    BY <1>5
  <2> HIDE DEF a, b
  <2>4. IsTable(b) /\ \A root \in TYPE_ID : GrownAt(a[root], b[root], k, TYPE_ID, TT)
    BY <2>1, <2>2, <2>3, TriplesAtGrow
  <2>5. ASSUME NEW root \in TYPE_ID
        PROVE  /\ Based(b[root], root, TT)
               /\ FilledTo(b[root], TT, k)
               /\ \A u \in b[root] : u.scope <= k
    <3>1. GrownAt(a[root], b[root], k, TYPE_ID, TT) /\ a[root] \subseteq b[root]
      BY <2>4 DEF GrownAt
    <3>2. Based(b[root], root, TT)
      BY <2>2, <3>1, HasMore DEF Based
    <3>3. FilledTo(b[root], TT, k - 1)
      BY <2>1, <2>2, <3>1, FilledGrows
    <3>4. \A t \in TT : Below(b[root], t, k) => Has(b[root], t, k)
      <4>1. \A t \in TT : Below(b[root], t, k) => Below(a[root], t, k)
        BY <2>1, <3>1, BelowEarlier
      <4>2. QED
        BY <3>1, <4>1 DEF GrownAt
    <3>5. FilledTo(b[root], TT, k)
      <4>1. \A j \in 1 .. k : j = k \/ j \in 1 .. (k - 1)
        OBVIOUS
      <4>2. QED
        BY <3>3, <3>4, <4>1 DEF FilledTo
    <3>6. \A u \in b[root] : u.scope <= k
      <4>1. \A u \in b[root] : u.scope \in Nat
        BY <2>4 DEF IsTable, Numbered, TripleTemplate
      <4>2. \A u \in a[root] : u \in b[root] /\ u.scope <= k - 1
        BY <2>2, <3>1
      <4>3. \A u \in b[root] \ a[root] : u.scope = k
        BY <3>1 DEF GrownAt
      <4>4. QED
        BY <2>1, <4>1, <4>2, <4>3
    <3>7. QED
      BY <3>2, <3>5, <3>6
  <2>6. QED
    BY <2>1, <2>4, <2>5 DEF b
<1>8. m \in G
  <2> HIDE DEF G
  <2>1. QED
    BY <1>6, <1>7, AfterAllTurns
<1>9. QED
  BY <1>4, <1>8 DEF r

\* Along a path the templates S of a root have, up to scope k, what follows
\* from the scope above.
FilledAlong(S, TT, path, k) ==
  \A j \in 1 .. k : \A t \in TT :
    t.subjectType \in GetHierarchyForType(path[j + 1]) /\ Below(S, t, j) => Has(S, t, j)

\* The loop over the classes of a path.
LEMMA PathFills ==
  ASSUME NEW T, NEW n, NEW TT, Lists(T, n, TT), NEW tm, DOMAIN tm = TYPE_ID,
         NEW root \in TYPE_ID, NEW S0, S0 = tm[root], Numbered(S0), NEW m \in Nat,
         FilledTo(S0, TT, m), NEW path, NEW len, len = Len(path) - 1, len \in Nat
  PROVE  LET S == AddPathFor(tm, T, root, path)[root]
         IN  /\ Numbered(S) /\ S0 \subseteq S
             /\ FilledTo(S, TT, m)
             /\ FilledAlong(S, TT, path, len)
             /\ \A u \in S \ S0 :
                  u.scope \in 1 .. len /\ u.subjectType \in GetHierarchyForType(path[u.scope + 1])
<1> DEFINE r == AddPathFor(tm, T, root, path)
           loop == [of |-> "path", root |-> root, triples |-> T, path |-> path]
<1>1. PICK turns : turns = ScopesTo(len)
  OBVIOUS
<1>2. DOMAIN turns = 1 .. len /\ Len(turns) = len /\ \A k \in 1 .. len : turns[k] = k
  BY <1>1 DEF ScopesTo
<1>3. Runs(loop, tm, turns, r)
  <2>1. Counts(turns, Len(path) - 1)
    BY <1>1 DEF Counts
  <2>2. QED
    BY <1>2, <2>1, PathRuns
<1> HIDE DEF r
<1>4. PICK h : Passes(h, loop, tm, turns, len) /\ r = h[len]
  <2> HIDE DEF loop
  <2>1. QED
    BY <1>2, <1>3, Zenon DEF Runs
<1>5. h[0] = tm /\ \A k \in 1 .. len : h[k] = AddClassAt(h[k - 1], T, root, path, k)
  <2>1. \A k \in 1 .. len : h[k] = AddClassAt(h[k - 1], T, root, path, turns[k])
    BY <1>4 DEF Passes, Turn
  <2>2. QED
    BY <1>2, <1>4, <2>1 DEF Passes
<1> DEFINE Good(S, k) ==
             /\ Numbered(S) /\ S0 \subseteq S
             /\ FilledTo(S, TT, m)
             /\ FilledAlong(S, TT, path, k)
             /\ \A u \in S \ S0 :
                  u.scope \in 1 .. k /\ u.subjectType \in GetHierarchyForType(path[u.scope + 1])
           G == {k \in Nat : DOMAIN h[k] = TYPE_ID /\ Good(h[k][root], k)}
<1>6. 0 \in G
  BY <1>5 DEF FilledAlong
<1>7. ASSUME NEW k \in 1 .. len, k - 1 \in G
      PROVE  k \in G
  <2> DEFINE a == h[k - 1]
             b == h[k]
             types == GetHierarchyForType(path[k + 1])
             done == OfTypes(TT, types)
  <2>1. k - 1 \in Nat /\ k \in Nat \ {0} /\ k - 1 <= k
    OBVIOUS
  <2>2. DOMAIN a = TYPE_ID /\ Good(a[root], k - 1)
    BY <1>7
  <2>3. b = AddClassAt(a, T, root, path, k)
    BY <1>5
  <2> HIDE DEF a, b, types
  <2>4. /\ DOMAIN b = TYPE_ID
        /\ GrownAt(a[root], b[root], k, types, done)
        /\ (\A t \in TT : Below(a[root], t, k) => Has(a[root], t, k)) => b[root] = a[root]
    <3>1. types = GetHierarchyForType(path[k + 1])
      BY DEF types
    <3>2. DOMAIN a = TYPE_ID /\ Numbered(a[root])
      BY <2>2
    <3> HIDE DEF G, Good
    <3>3. /\ DOMAIN AddClassAt(a, T, root, path, k) = TYPE_ID
          /\ GrownAt(a[root], AddClassAt(a, T, root, path, k)[root], k, types, done)
          /\ (\A t \in TT : Below(a[root], t, k) => Has(a[root], t, k))
               => AddClassAt(a, T, root, path, k)[root] = a[root]
      BY <2>1, <3>1, <3>2, ClassGrows
    <3>4. QED
      BY <2>3, <3>3
  <2> DEFINE old == a[root]
             new == b[root]
  <2>5. GrownAt(old, new, k, types, done) /\ Numbered(new) /\ old \subseteq new /\ S0 \subseteq old
    BY <2>2, <2>4 DEF GrownAt
  <2> HIDE DEF old, new, done
  <2>6. FilledTo(new, TT, m)
    <3>1. FilledTo(old, TT, m)
      BY <2>2 DEF old
    <3>2. CASE k <= m
      <4>1. \A t \in TT : Below(old, t, k) => Has(old, t, k)
        BY <2>1, <3>1, <3>2 DEF FilledTo
      <4>2. new = old
        BY <2>4, <4>1 DEF old, new
      <4>3. QED
        BY <3>1, <4>2
    <3>3. CASE m <= k
      BY <2>1, <2>5, <3>1, <3>3, FilledGrows
    <3>4. QED
      BY <3>2, <3>3
  <2>7. FilledAlong(new, TT, path, k)
    <3>1. FilledAlong(old, TT, path, k - 1)
      BY <2>2 DEF old
    <3>2. ASSUME NEW j \in 1 .. k, NEW t \in TT,
                 t.subjectType \in GetHierarchyForType(path[j + 1]), Below(new, t, j)
          PROVE  Has(new, t, j)
      <4>1. j \in Nat /\ j <= k /\ (j = k \/ j \in 1 .. (k - 1))
        OBVIOUS
      <4>2. Below(old, t, j)
        BY <2>1, <2>5, <3>2, <4>1, BelowEarlier
      <4>3. CASE j = k
        <5>1. t \in done
          BY <3>2, <4>3 DEF done, types, OfTypes
        <5>2. QED
          BY <2>5, <4>2, <4>3, <5>1 DEF GrownAt
      <4>4. CASE j \in 1 .. (k - 1)
        <5>1. Has(old, t, j)
          BY <3>1, <3>2, <4>2, <4>4 DEF FilledAlong
        <5>2. QED
          BY <2>5, <5>1, HasMore
      <4>5. QED
        BY <4>1, <4>3, <4>4
    <3>3. QED
      BY <3>2 DEF FilledAlong
  <2>8. ASSUME NEW u \in new \ S0
        PROVE  u.scope \in 1 .. k /\ u.subjectType \in GetHierarchyForType(path[u.scope + 1])
    <3>1. CASE u \in old
      <4>1. u.scope \in 1 .. (k - 1) /\ u.subjectType \in GetHierarchyForType(path[u.scope + 1])
        BY <2>2, <3>1 DEF old
      <4>2. QED
        BY <2>1, <4>1
    <3>2. CASE u \notin old
      <4>1. u.scope = k /\ u.subjectType \in types
        BY <2>5, <3>2 DEF GrownAt
      <4>2. QED
        BY <2>1, <4>1 DEF types
    <3>3. QED
      BY <3>1, <3>2
  <2>9. Good(new, k)
    BY <2>5, <2>6, <2>7, <2>8
  <2>10. QED
    BY <2>1, <2>4, <2>9 DEF new, b
<1>8. len \in G
  <2> HIDE DEF G
  <2>1. QED
    BY <1>6, <1>7, AfterAllTurns
<1>9. Good(r[root], len)
  BY <1>4, <1>8
<1>10. QED
  BY <1>9 DEF r

\* A path leads from a root to a type at a scope.
LeadsTo(path, root, type, scope) ==
  /\ scope < Len(path)
  /\ root \in GetHierarchyForType(path[1])
  /\ type \in GetHierarchyForType(path[scope + 1])

\* A line of the file of paths.
LEMMA PathAdds ==
  ASSUME NEW T, NEW n, NEW TT, Lists(T, n, TT), NEW tm, IsTable(tm), NEW m \in Nat,
         \A root \in TYPE_ID : FilledTo(tm[root], TT, m), NEW path, Len(path) \in Nat \ {0}
  PROVE  /\ IsTable(AddPath(tm, T, path))
         /\ \A root \in TYPE_ID :
              /\ tm[root] \subseteq AddPath(tm, T, path)[root]
              /\ FilledTo(AddPath(tm, T, path)[root], TT, m)
              /\ root \in GetHierarchyForType(path[1])
                   => FilledAlong(AddPath(tm, T, path)[root], TT, path, Len(path) - 1)
              /\ \A u \in AddPath(tm, T, path)[root] \ tm[root] :
                   LeadsTo(path, root, u.subjectType, u.scope)
<1> DEFINE r == AddPath(tm, T, path)
<1>1. PICK len : len = Len(path) - 1 /\ len \in Nat
  OBVIOUS
<1>2. DOMAIN tm = TYPE_ID /\ \A root \in TYPE_ID : Numbered(tm[root])
  BY DEF IsTable
<1>3. DOMAIN r = TYPE_ID
  BY <1>2 DEF AddPath
<1>4. ASSUME NEW root \in TYPE_ID
      PROVE  /\ Numbered(r[root])
             /\ tm[root] \subseteq r[root]
             /\ FilledTo(r[root], TT, m)
             /\ root \in GetHierarchyForType(path[1]) => FilledAlong(r[root], TT, path, len)
             /\ \A u \in r[root] \ tm[root] : LeadsTo(path, root, u.subjectType, u.scope)
  <2>1. CASE root \in GetHierarchyForType(path[1])
    <3> DEFINE S == AddPathFor(tm, T, root, path)[root]
               S0 == tm[root]
    <3>1. r[root] = S
      BY <1>2, <2>1 DEF AddPath
    <3>2. Numbered(S0) /\ FilledTo(S0, TT, m)
      BY <1>2
    <3>3. /\ Numbered(S) /\ S0 \subseteq S
          /\ FilledTo(S, TT, m)
          /\ FilledAlong(S, TT, path, len)
          /\ \A u \in S \ S0 :
               u.scope \in 1 .. len /\ u.subjectType \in GetHierarchyForType(path[u.scope + 1])
      <4>1. PICK R : R = tm[root]
        OBVIOUS
      <4>2. Numbered(R) /\ FilledTo(R, TT, m)
        BY <3>2, <4>1
      <4>3. /\ Numbered(S) /\ R \subseteq S
            /\ FilledTo(S, TT, m)
            /\ FilledAlong(S, TT, path, len)
            /\ \A u \in S \ R :
                 u.scope \in 1 .. len /\ u.subjectType \in GetHierarchyForType(path[u.scope + 1])
        BY <1>1, <1>2, <4>1, <4>2, PathFills
      <4>4. QED
        BY <4>1, <4>3
    <3> HIDE DEF S, S0
    <3>4. \A u \in S \ S0 : LeadsTo(path, root, u.subjectType, u.scope)
      <4>1. ASSUME NEW u \in S \ S0
            PROVE  u.scope < Len(path)
        BY <1>1, <3>3
      <4>2. QED
        BY <2>1, <3>3, <4>1 DEF LeadsTo
    <3>5. QED
      BY <3>1, <3>3, <3>4 DEF S0
  <2>2. CASE root \notin GetHierarchyForType(path[1])
    <3>1. r[root] = tm[root]
      BY <1>2, <2>2 DEF AddPath
    <3> HIDE DEF r
    <3>2. QED
      BY <1>2, <2>2, <3>1
  <2>3. QED
    BY <2>1, <2>2
<1> HIDE DEF r
<1>5. QED
  BY <1>1, <1>3, <1>4 DEF r, IsTable

\* The templates S of a root are of triples up to scope m or where one of the
\* paths leads.
Allowed(S, root, m, paths) ==
  \A u \in S : u.scope <= m \/ \E path \in paths : LeadsTo(path, root, u.subjectType, u.scope)

\* Part of them is what m and the paths ask for.
Followed(R, TT, root, m, paths) ==
  \A k \in Nat \ {0} : \A t \in TT :
    /\ k <= m \/ \E path \in paths : LeadsTo(path, root, t.subjectType, k)
    /\ Below(R, t, k)
    => Has(R, t, k)
Suffices(S, TT, root, m, paths) ==
  \E R \in SUBSET S : Based(R, root, TT) /\ Followed(R, TT, root, m, paths)

\* All the paths.
LEMMA PathsFit ==
  ASSUME NEW T, NEW n, NEW TT, Lists(T, n, TT), NEW tm, IsTable(tm), NEW m \in Nat,
         \A root \in TYPE_ID : /\ Based(tm[root], root, TT)
                               /\ FilledTo(tm[root], TT, m)
                               /\ \A u \in tm[root] : u.scope <= m,
         NEW paths, NEW len \in Nat, DOMAIN paths = 1 .. len, Len(paths) = len,
         \A i \in 1 .. len : Len(paths[i]) \in Nat \ {0}
  PROVE  LET r == AddPaths(tm, T, paths)
         IN  /\ IsTable(r)
             /\ \A root \in TYPE_ID :
                  /\ Allowed(r[root], root, m, Range(paths))
                  /\ Suffices(r[root], TT, root, m, {})
                  /\ \A path \in Range(paths) : Suffices(r[root], TT, root, m, {path})
<1> DEFINE r == AddPaths(tm, T, paths)
           loop == [of |-> "paths", triples |-> T]
<1>1. Runs(loop, tm, paths, r)
  BY PathsRun
<1> HIDE DEF r
<1>2. PICK h : Passes(h, loop, tm, paths, len) /\ r = h[len]
  <2> HIDE DEF loop
  <2>1. QED
    BY <1>1, Zenon DEF Runs
<1>3. h[0] = tm /\ \A k \in 1 .. len : h[k] = AddPath(h[k - 1], T, paths[k])
  BY <1>2 DEF Passes, Turn
<1> DEFINE Upto(k) == {paths[i] : i \in 1 .. k}
           Good(S, root, k) ==
             /\ Based(S, root, TT)
             /\ FilledTo(S, TT, m)
             /\ Allowed(S, root, m, Upto(k))
             /\ \A i \in 1 .. k : Suffices(S, TT, root, m, {paths[i]})
           G == {k \in Nat : IsTable(h[k]) /\ \A root \in TYPE_ID : Good(h[k][root], root, k)}
<1>4. 0 \in G
  BY <1>3 DEF Allowed
<1>5. ASSUME NEW k \in 1 .. len, k - 1 \in G
      PROVE  k \in G
  <2> DEFINE a == h[k - 1]
             b == h[k]
             path == paths[k]
  <2>1. k - 1 \in Nat /\ k \in Nat \ {0} /\ Len(path) \in Nat \ {0}
    OBVIOUS
  <2>2. IsTable(a) /\ \A root \in TYPE_ID : Good(a[root], root, k - 1)
    BY <1>5
  <2>3. b = AddPath(a, T, path)
    BY <1>3
  <2>4. path \in Upto(k) /\ Upto(k - 1) \subseteq Upto(k)
    BY <2>1
  <2> HIDE DEF a, b, path, Upto
  <2>5. /\ IsTable(b)
        /\ \A root \in TYPE_ID :
             /\ a[root] \subseteq b[root]
             /\ FilledTo(b[root], TT, m)
             /\ root \in GetHierarchyForType(path[1])
                  => FilledAlong(b[root], TT, path, Len(path) - 1)
             /\ \A u \in b[root] \ a[root] : LeadsTo(path, root, u.subjectType, u.scope)
    BY <2>1, <2>2, <2>3, PathAdds
  <2>6. ASSUME NEW root \in TYPE_ID
        PROVE  Good(b[root], root, k)
    <3> DEFINE old == a[root]
               new == b[root]
    <3>1. Good(old, root, k - 1)
      BY <2>2
    <3>2. /\ old \subseteq new
          /\ FilledTo(new, TT, m)
          /\ root \in GetHierarchyForType(path[1]) => FilledAlong(new, TT, path, Len(path) - 1)
          /\ \A u \in new \ old : LeadsTo(path, root, u.subjectType, u.scope)
      BY <2>5
    <3> HIDE DEF old, new
    <3>3. Based(new, root, TT)
      BY <3>1, <3>2, HasMore DEF Based
    <3>4. Allowed(new, root, m, Upto(k))
      BY <2>4, <3>1, <3>2 DEF Allowed
    <3>5. Suffices(new, TT, root, m, {path})
      <4>1. ASSUME NEW j \in Nat \ {0}, NEW t \in TT, Below(new, t, j),
                   j <= m \/ LeadsTo(path, root, t.subjectType, j)
            PROVE  Has(new, t, j)
        <5>1. CASE j <= m
          <6>1. j \in 1 .. m
            BY <5>1
          <6>2. QED
            BY <3>2, <4>1, <6>1 DEF FilledTo
        <5>2. CASE LeadsTo(path, root, t.subjectType, j)
          <6>1. j \in 1 .. (Len(path) - 1)
            BY <2>1, <5>2 DEF LeadsTo
          <6>2. QED
            BY <3>2, <4>1, <5>2, <6>1 DEF LeadsTo, FilledAlong
        <5>3. QED
          BY <4>1, <5>1, <5>2
      <4>2. Followed(new, TT, root, m, {path})
        BY <4>1 DEF Followed
      <4>3. QED
        BY <3>3, <4>2 DEF Suffices
    <3>6. \A i \in 1 .. k : Suffices(new, TT, root, m, {paths[i]})
      <4>1. \A J : Suffices(old, TT, root, m, J) => Suffices(new, TT, root, m, J)
        BY <3>2 DEF Suffices
      <4>2. \A i \in 1 .. k : i = k \/ i \in 1 .. (k - 1)
        BY <2>1
      <4>3. QED
        BY <3>1, <3>5, <4>1, <4>2 DEF path
    <3>7. QED
      BY <3>2, <3>3, <3>4, <3>6 DEF new
  <2>7. QED
    BY <2>1, <2>5, <2>6 DEF b
<1>6. len \in G
  <2> HIDE DEF G
  <2>1. QED
    BY <1>4, <1>5, AfterAllTurns
<1>7. IsTable(r) /\ \A root \in TYPE_ID : Good(r[root], root, len)
  BY <1>2, <1>6
<1>8. ASSUME NEW root \in TYPE_ID
      PROVE  Suffices(r[root], TT, root, m, {})
  <2>1. Based(r[root], root, TT) /\ FilledTo(r[root], TT, m)
    BY <1>7
  <2>2. Followed(r[root], TT, root, m, {})
    BY <2>1 DEF Followed, FilledTo
  <2>3. QED
    BY <2>1, <2>2 DEF Suffices
<1>9. Range(paths) = Upto(len)
  BY DEF Range
<1>10. QED
  BY <1>7, <1>8, <1>9 DEF r

------------------------------------------------------------------------------
(***************************************************************************)
(* The order of the triples, and the templates of a dataset.               *)
(***************************************************************************)

\* operator< orders the triples of lines.
LEMMA BeforeOrders ==
  ASSUME NEW TT, TT \subseteq TripleTemplate, \A t \in TT : t.scope = 0 /\ t.ID = 0
  PROVE  /\ \A t \in TT : ~ Before(t, t)
         /\ \A t, u, v \in TT : Before(t, u) /\ Before(u, v) => Before(t, v)
         /\ \A t, u \in TT : t = u \/ Before(t, u) \/ Before(u, t)
<1>1. \A t \in TT : /\ t.subjectType \in Nat /\ t.predicateID \in Nat /\ t.objectType \in Nat
                    /\ t.scope = 0
  BY TypesAreNumbers, KeyAssumption DEF TripleTemplate
<1>2. \A t \in TT : ~ Before(t, t)
  BY <1>1 DEF Before
<1>3. \A t, u, v \in TT : Before(t, u) /\ Before(u, v) => Before(t, v)
  BY <1>1 DEF Before
<1>4. \A t, u \in TT : t = u \/ Before(t, u) \/ Before(u, t)
  <2>1. \A t, u \in TT : \/ Before(t, u) \/ Before(u, t)
                         \/ /\ t.subjectType = u.subjectType
                            /\ t.predicateID = u.predicateID
                            /\ t.objectType = u.objectType
    BY <1>1 DEF Before
  <2>2. \A t, u \in TT : /\ t.subjectType = u.subjectType
                         /\ t.predicateID = u.predicateID
                         /\ t.objectType = u.objectType
                         => t = u
    BY DEF TripleTemplate
  <2>3. QED
    BY <2>1, <2>2
<1>5. QED
  BY <1>2, <1>3, <1>4

\* So their sequence has each of them.
LEMMA SortedLists ==
  ASSUME NEW TT, TT \subseteq TripleTemplate, IsFiniteSet(TT),
         \A t \in TT : t.scope = 0 /\ t.ID = 0
  PROVE  Lists(Sorted(TT), Cardinality(TT), TT)
<1> DEFINE n == Cardinality(TT)
           Pre(t) == {u \in TT : Before(u, t)}
           rank == [t \in TT |-> Cardinality(Pre(t))]
           T == Sorted(TT)
<1>1. n \in Nat
  BY FS_CardinalityType
<1>2. /\ \A t \in TT : ~ Before(t, t)
      /\ \A t, u, v \in TT : Before(t, u) /\ Before(u, v) => Before(t, v)
      /\ \A t, u \in TT : t = u \/ Before(t, u) \/ Before(u, t)
  BY BeforeOrders
<1>3. ASSUME NEW t \in TT
      PROVE  IsFiniteSet(Pre(t)) /\ Cardinality(Pre(t)) \in 0 .. (n - 1)
  <2>1. IsFiniteSet(TT \ {t}) /\ Cardinality(TT \ {t}) = n - 1
    BY FS_RemoveElement
  <2>2. Pre(t) \in SUBSET (TT \ {t})
    BY <1>2
  <2> HIDE DEF n, Pre
  <2>3. IsFiniteSet(Pre(t)) /\ Cardinality(Pre(t)) <= n - 1
    BY <2>1, <2>2, FS_Subset
  <2>4. Cardinality(Pre(t)) \in Nat
    BY <2>3, FS_CardinalityType
  <2>5. QED
    BY <1>1, <2>3, <2>4
<1>4. ASSUME NEW t \in TT, NEW u \in TT, Before(t, u)
      PROVE  Cardinality(Pre(t)) < Cardinality(Pre(u))
  <2>1. t \in Pre(u) /\ Pre(t) \in SUBSET (Pre(u) \ {t})
    BY <1>2, <1>4
  <2> HIDE DEF n, Pre
  <2>2. IsFiniteSet(Pre(u) \ {t}) /\ Cardinality(Pre(u) \ {t}) = Cardinality(Pre(u)) - 1
    BY <1>3, <2>1, FS_RemoveElement
  <2>3. Cardinality(Pre(t)) <= Cardinality(Pre(u)) - 1
    BY <2>1, <2>2, FS_Subset
  <2>4. Cardinality(Pre(t)) \in Int /\ Cardinality(Pre(u)) \in Int
    BY <1>3
  <2>5. QED
    BY <2>3, <2>4
<1> HIDE DEF n, Pre
<1>5. rank \in [TT -> 0 .. (n - 1)]
  BY <1>3
<1>6. \A t, u \in TT : rank[t] = rank[u] => t = u
  <2>1. ASSUME NEW t \in TT, NEW u \in TT, rank[t] = rank[u], t # u
        PROVE  FALSE
    <3>1. Before(t, u) \/ Before(u, t)
      BY <1>2, <2>1
    <3>2. Cardinality(Pre(t)) < Cardinality(Pre(u)) \/ Cardinality(Pre(u)) < Cardinality(Pre(t))
      BY <1>4, <3>1
    <3>3. Cardinality(Pre(t)) \in Int /\ Cardinality(Pre(u)) \in Int
      BY <1>3
    <3>4. Cardinality(Pre(t)) = Cardinality(Pre(u))
      BY <2>1
    <3>5. QED
      BY <3>2, <3>3, <3>4
  <2>2. QED
    BY <2>1
<1> HIDE DEF rank
<1>7. \A i \in 0 .. (n - 1) : \E t \in TT : rank[t] = i
  <2>1. rank \in Injection(TT, 0 .. (n - 1))
    BY <1>5, <1>6 DEF Injection, IsInjective
  <2>2. IsFiniteSet(0 .. (n - 1)) /\ Cardinality(0 .. (n - 1)) = n
    BY <1>1, FS_Interval
  <2>3. rank \in Surjection(TT, 0 .. (n - 1))
    BY <2>1, <2>2, FS_Injection DEF n
  <2>4. QED
    BY <2>3 DEF Surjection
<1>8. T = [i \in 1 .. n |-> CHOOSE t \in TT : Cardinality(Pre(t)) = i - 1]
  BY DEF Sorted, n, Pre
<1>9. \A i \in 1 .. n : T[i] \in TT /\ rank[T[i]] = i - 1
  <2>1. ASSUME NEW i \in 1 .. n
        PROVE  T[i] \in TT /\ rank[T[i]] = i - 1
    <3>1. i - 1 \in 0 .. (n - 1)
      BY <1>1
    <3>2. \E t \in TT : Cardinality(Pre(t)) = i - 1
      BY <1>7, <3>1 DEF rank
    <3>3. T[i] \in TT /\ Cardinality(Pre(T[i])) = i - 1
      <4>1. T[i] = CHOOSE t \in TT : Cardinality(Pre(t)) = i - 1
        BY <1>8
      <4> HIDE DEF T
      <4>2. QED
        BY <3>2, <4>1, Zenon
    <3>4. QED
      BY <3>3 DEF rank
  <2>2. QED
    BY <2>1
<1>10. DOMAIN T = 1 .. n /\ Len(T) = n
  BY <1>1, <1>8
<1> HIDE DEF T
<1>11. ASSUME NEW t \in TT
       PROVE  \E i \in 1 .. n : T[i] = t
  <2>1. rank[t] \in 0 .. (n - 1)
    BY <1>5
  <2>2. rank[t] + 1 \in 1 .. n /\ (rank[t] + 1) - 1 = rank[t]
    BY <1>1, <2>1
  <2>3. T[rank[t] + 1] \in TT /\ rank[T[rank[t] + 1]] = rank[t]
    BY <1>9, <2>2
  <2>4. QED
    BY <1>6, <2>2, <2>3
<1>12. TT = {T[i] : i \in 1 .. n}
  BY <1>9, <1>11
<1>13. QED
  BY <1>1, <1>10, <1>12 DEF Lists, T, n

\* The quads of a dataset, and a configuration.
IsDataset(quads) ==
  /\ quads \subseteq {q \in Quads : GetType(q.subject) >= 2}
  /\ IsFiniteSet(quads)
IsConfig(c) ==
  /\ c.minScope \in Nat /\ c.maxScope \in Nat
  /\ c.paths \in Seq(Seq(DOMAIN SubTypes) \ {<<>>})

TriplesOf(quads) == {TemplateOf(q) : q \in quads}

LEMMA TriplesAreFinite ==
  ASSUME NEW quads, IsDataset(quads)
  PROVE  /\ TriplesOf(quads) \subseteq TripleTemplate /\ IsFiniteSet(TriplesOf(quads))
         /\ \A t \in TriplesOf(quads) : t.subjectType >= 2 /\ t.scope = 0 /\ t.ID = 0
<1> DEFINE f == [q \in quads |-> TemplateOf(q)]
<1>1. f \in Surjection(quads, TriplesOf(quads))
  BY DEF Surjection, TriplesOf
<1>2. IsFiniteSet(TriplesOf(quads))
  BY <1>1, FS_Surjection DEF IsDataset
<1>3. ASSUME NEW q \in quads
      PROVE  /\ TemplateOf(q) \in TripleTemplate
             /\ TemplateOf(q).subjectType >= 2 /\ TemplateOf(q).scope = 0 /\ TemplateOf(q).ID = 0
  <2>1. /\ q.predicate \in KEY_ID /\ GetType(q.subject) >= 2
        /\ GetType(q.subject) \in TYPE_ID /\ GetType(q.object) \in TYPE_ID
    BY TypesAreNumbers DEF IsDataset, Quads
  <2>2. QED
    BY <2>1 DEF TemplateOf, TripleTemplate
<1>4. QED
  BY <1>2, <1>3 DEF TriplesOf

\* What must be there at least: up to minScope, and that with one of the paths.
Demands(c) == {{}} \union {{path} : path \in Range(c.paths)}

\* The table of a root numbers its templates.
IsStored(tm) == DOMAIN tm = TYPE_ID /\ \A root \in TYPE_ID : Numbered(tm[root])

\* The templates of all roots.
Stored(tm, quads, c) ==
  /\ IsStored(tm)
  /\ \A root \in TYPE_ID :
       /\ Allowed(tm[root], root, c.minScope, Range(c.paths))
       /\ \A J \in Demands(c) : Suffices(tm[root], TriplesOf(quads), root, c.minScope, J)

\* What TM.Store wrote.
LEMMA TemplatesFit ==
  ASSUME NEW quads, IsDataset(quads), NEW c, IsConfig(c)
  PROVE  Stored(TemplatesOf(quads, c), quads, c)
<1> DEFINE TT == TriplesOf(quads)
           T == Sorted(TT)
           m == c.minScope
           tm0 == FoldLeft(AddTemplate, NoTemplates, T)
           tm1 == AddTriples(tm0, T, m)
           r == AddPaths(tm1, T, c.paths)
           n == Cardinality(TT)
           len == Len(c.paths)
<1>1. /\ TT \subseteq TripleTemplate /\ IsFiniteSet(TT)
      /\ \A t \in TT : t.subjectType >= 2 /\ t.scope = 0 /\ t.ID = 0
  BY TriplesAreFinite
<1>2. TemplatesOf(quads, c) = r
  BY DEF TemplatesOf, TriplesOf, AddScopes
<1> HIDE DEF TT
<1>3. Lists(T, n, TT)
  BY <1>1, SortedLists
<1>4. m \in Nat
  BY DEF IsConfig
<1> HIDE DEF T, n, m
<1>5. /\ IsTable(tm0)
      /\ \A ro \in TYPE_ID : Based(tm0[ro], ro, TT) /\ \A u \in tm0[ro] : u.scope = 0
  BY <1>1, <1>3, TemplatesBase
<1> HIDE DEF tm0
<1>6. /\ IsTable(tm1)
      /\ \A ro \in TYPE_ID : /\ Based(tm1[ro], ro, TT)
                             /\ FilledTo(tm1[ro], TT, m)
                             /\ \A u \in tm1[ro] : u.scope <= m
  BY <1>3, <1>4, <1>5, MinScopeFills
<1> HIDE DEF tm1
<1>7. /\ len \in Nat /\ DOMAIN c.paths = 1 .. len
      /\ \A i \in 1 .. len : Len(c.paths[i]) \in Nat \ {0}
  <2>1. \A p \in Seq(DOMAIN SubTypes) \ {<<>>} : Len(p) \in Nat \ {0}
    OBVIOUS
  <2>2. c.paths \in Seq(Seq(DOMAIN SubTypes) \ {<<>>})
    BY DEF IsConfig
  <2>3. QED
    BY <2>1, <2>2
<1> HIDE DEF r, len
<1>8. /\ IsTable(r)
      /\ \A ro \in TYPE_ID :
           /\ Allowed(r[ro], ro, m, Range(c.paths))
           /\ Suffices(r[ro], TT, ro, m, {})
           /\ \A path \in Range(c.paths) : Suffices(r[ro], TT, ro, m, {path})
  <2>1. PICK paths, k : paths = c.paths /\ k = Len(paths)
    OBVIOUS
  <2>2. k \in Nat /\ DOMAIN paths = 1 .. k /\ Len(paths) = k /\ \A i \in 1 .. k : Len(paths[i]) \in Nat \ {0}
    BY <1>7, <2>1 DEF len
  <2>3. /\ IsTable(AddPaths(tm1, T, paths))
        /\ \A ro \in TYPE_ID :
             /\ Allowed(AddPaths(tm1, T, paths)[ro], ro, m, Range(paths))
             /\ Suffices(AddPaths(tm1, T, paths)[ro], TT, ro, m, {})
             /\ \A path \in Range(paths) : Suffices(AddPaths(tm1, T, paths)[ro], TT, ro, m, {path})
    BY <1>3, <1>4, <1>6, <2>2, PathsFit
  <2>4. QED
    BY <2>1, <2>3 DEF r
<1>9. QED
  BY <1>2, <1>8 DEF IsTable, TT, m, Stored, IsStored, Demands

------------------------------------------------------------------------------
(***************************************************************************)
(* What is reached.                                                        *)
(***************************************************************************)

\* minScope or one of the paths lets q in at scope k.
Lets(c, s, paths, q, k) == k <= c.minScope \/ \E path \in paths : Leads(path, s, q, k)

LEMMA ReachedSteps ==
  ASSUME NEW quads, NEW c, c.maxScope \in Nat, NEW s, NEW paths
  PROVE  LET r == Reached(quads, c, s, paths)
         IN  /\ \A q : q \in r[0] <=> q \in quads /\ q.subject = s
             /\ \A k \in 1 .. c.maxScope : \A q :
                  q \in r[k] <=> /\ q \in quads /\ Lets(c, s, paths, q, k)
                                /\ \E o \in r[k - 1] : o.object = q.subject
<1> DEFINE Depths == 0 .. c.maxScope
           V == SUBSET quads
           Step(f, k) == IF k = 0
                           THEN {q \in quads : q.subject = s}
                           ELSE {q \in quads : /\ k <= c.minScope \/ \E path \in paths : Leads(path, s, q, k)
                                               /\ \E o \in f[k - 1] : o.object = q.subject}
           Body == [f \in [Depths -> V] |-> [k \in Depths |-> Step(f, k)]]
           mu == [k \in Depths |-> k]
           r == Reached(quads, c, s, paths)
<1>1. \A f, k : Step(f, k) \in V
  OBVIOUS
<1>2. \A f, g, k : f[k - 1] = g[k - 1] => Step(f, k) = Step(g, k)
  OBVIOUS
<1>3. \A f, g : Step(f, 0) = Step(g, 0)
  OBVIOUS
<1> HIDE DEF Step
<1>4. Body \in [[Depths -> V] -> [Depths -> V]] /\ mu \in [Depths -> Nat] /\ \E v0 : v0 \in V
  <2>1. {} \in V
    OBVIOUS
  <2>2. \A f \in [Depths -> V] : [k \in Depths |-> Step(f, k)] \in [Depths -> V]
    BY <1>1
  <2>3. QED
    BY <2>1, <2>2
<1>5. DependsBelow(Body, Depths, V, mu)
  <2>1. ASSUME NEW f \in [Depths -> V], NEW g \in [Depths -> V], NEW k \in Depths,
               \A j \in Depths : mu[j] < mu[k] => f[j] = g[j]
        PROVE  Body[f][k] = Body[g][k]
    <3>1. Step(f, k) = Step(g, k)
      <4>1. CASE k = 0
        BY <1>3, <4>1
      <4>2. CASE k # 0
        <5>1. k - 1 \in Depths /\ mu[k - 1] < mu[k]
          BY <4>2
        <5>2. QED
          BY <1>2, <2>1, <5>1
      <4>3. QED
        BY <4>1, <4>2
    <3>2. QED
      BY <3>1
  <2>2. QED
    BY <2>1 DEF DependsBelow
<1> HIDE DEF Depths, V
<1>6. HasSolution(Depths, V, Body)
  <2> HIDE DEF Body, mu
  <2>1. Recursive(Depths, V, mu, Body)
    BY <1>4, <1>5 DEF Recursive
  <2>2. QED
    BY <2>1, RecursionByMeasure
<1>7. PICK f \in [Depths -> V] : f = Body[f]
  BY <1>6 DEF HasSolution
<1>8. f = [k \in Depths |-> Step(f, k)]
  BY <1>7
<1>9. r = CHOOSE g : g = [k \in Depths |-> Step(g, k)]
  BY DEF r, Reached, Step, Depths
<1>10. r = [k \in Depths |-> Step(r, k)]
  <2> HIDE DEF r
  <2>1. QED
    BY <1>8, <1>9, Zenon
<1> HIDE DEF r
<1>11. 0 \in Depths /\ \A k \in 1 .. c.maxScope : k \in Depths /\ k # 0
  BY DEF Depths
<1>12. \A q : q \in r[0] <=> q \in quads /\ q.subject = s
  <2>1. r[0] = Step(r, 0)
    BY <1>10, <1>11
  <2>2. QED
    BY <2>1 DEF Step
<1>13. ASSUME NEW k \in 1 .. c.maxScope
       PROVE  \A q : q \in r[k] <=> /\ q \in quads /\ Lets(c, s, paths, q, k)
                                    /\ \E o \in r[k - 1] : o.object = q.subject
  <2>1. r[k] = Step(r, k) /\ k # 0
    BY <1>10, <1>11
  <2>2. QED
    BY <2>1 DEF Step, Lets
<1>14. QED
  BY <1>12, <1>13 DEF r

\* Every quad that is reached has its template.
LEMMA ReachedHas ==
  ASSUME NEW quads, IsDataset(quads), NEW c, IsConfig(c), NEW s, NEW paths, NEW S,
         Suffices(S, TriplesOf(quads), GetType(s), c.minScope, paths)
  PROVE  \A k \in 0 .. c.maxScope : \A q \in Reached(quads, c, s, paths)[k] : Has(S, TemplateOf(q), k)
<1> DEFINE r == Reached(quads, c, s, paths)
           TT == TriplesOf(quads)
           m == c.minScope
<1>1. /\ \A q : q \in r[0] <=> q \in quads /\ q.subject = s
      /\ \A k \in 1 .. c.maxScope : \A q :
           q \in r[k] <=> /\ q \in quads /\ Lets(c, s, paths, q, k)
                         /\ \E o \in r[k - 1] : o.object = q.subject
  BY ReachedSteps DEF IsConfig
<1>2. PICK R \in SUBSET S : Based(R, GetType(s), TT) /\ Followed(R, TT, GetType(s), m, paths)
  BY DEF Suffices
<1> HIDE DEF r, TT, m
<1> DEFINE G == {k \in Nat : k <= c.maxScope => \A q \in r[k] : q \in quads /\ Has(R, TemplateOf(q), k)}
<1>3. \A q \in quads : TemplateOf(q) \in TT /\ q.object \in KEY_ID
  BY DEF TT, TriplesOf, IsDataset, Quads
<1>4. 0 \in G
  <2>1. ASSUME NEW q \in r[0]
        PROVE  q \in quads /\ Has(R, TemplateOf(q), 0)
    <3>1. q \in quads /\ q.subject = s
      BY <1>1, <2>1
    <3>2. TemplateOf(q).subjectType = GetType(s)
      BY <3>1 DEF TemplateOf
    <3>3. QED
      BY <1>2, <1>3, <3>1, <3>2 DEF Based
  <2>2. QED
    BY <2>1
<1>5. ASSUME NEW k \in Nat \ {0}, k - 1 \in G
      PROVE  k \in G
  <2>1. SUFFICES ASSUME k <= c.maxScope, NEW q \in r[k]
                 PROVE  q \in quads /\ Has(R, TemplateOf(q), k)
    OBVIOUS
  <2>2. k \in 1 .. c.maxScope /\ k - 1 <= c.maxScope /\ c.maxScope \in Nat
    BY <2>1 DEF IsConfig
  <2>3. PICK o \in r[k - 1] : o.object = q.subject
    BY <1>1, <2>2
  <2>4. q \in quads /\ Lets(c, s, paths, q, k)
    BY <1>1, <2>2
  <2>5. o \in quads /\ Has(R, TemplateOf(o), k - 1)
    BY <1>5, <2>2
  <2>6. q \in quads /\ (k <= m \/ \E path \in paths : Leads(path, s, q, k))
    BY <2>4 DEF Lets, m
  <2>7. Below(R, TemplateOf(q), k)
    <3>1. PICK u \in R : SameTemplate(u, At(TemplateOf(o), k - 1))
      BY <2>5 DEF Has
    <3>2. u.scope = k - 1 /\ u.objectType = GetType(o.object)
      BY <3>1 DEF SameTemplate, At, TemplateOf
    <3>3. TemplateOf(q).subjectType = GetType(q.subject)
      BY DEF TemplateOf
    <3>4. QED
      BY <2>3, <3>2, <3>3 DEF Below
  <2>8. \A path : Leads(path, s, q, k) => LeadsTo(path, GetType(s), TemplateOf(q).subjectType, k)
    BY DEF Leads, LeadsTo, TemplateOf
  <2>9. QED
    BY <1>2, <1>3, <2>6, <2>7, <2>8 DEF Followed
<1>6. ASSUME NEW k \in 0 .. c.maxScope, NEW q \in r[k]
      PROVE  Has(S, TemplateOf(q), k)
  <2>1. k \in Nat /\ k <= c.maxScope
    BY DEF IsConfig
  <2> HIDE DEF G
  <2>2. \A j \in 1 .. k : j - 1 \in G => j \in G
    BY <1>5, <2>1
  <2>3. k \in G
    BY <1>4, <2>1, <2>2, AfterAllTurns
  <2>4. Has(R, TemplateOf(q), k)
    BY <1>6, <2>1, <2>3 DEF G
  <2>5. QED
    BY <2>4, HasMore
<1>7. QED
  BY <1>6 DEF r

------------------------------------------------------------------------------
(***************************************************************************)
(* A node at scope 0.                                                      *)
(***************************************************************************)

\* The j-th element of the i-th group of a molecule, and those it holds.
ElementAt(m, i, j) ==
  [prov |-> m[i].prov, tmpl |-> m[i].next[j].tmpl, obj |-> m[i].next[j].obj]
Holds(m, e) == \E i \in DOMAIN m : \E j \in DOMAIN m[i].next : e = ElementAt(m, i, j)

LEMMA ElementsHeld ==
  ASSUME NEW m, NEW e
  PROVE  e \in Elements(m) <=> Holds(m, e)
<1> DEFINE Of(i) == {ElementAt(m, i, j) : j \in DOMAIN m[i].next}
<1>1. Elements(m) = UNION {Of(i) : i \in DOMAIN m}
  BY Zenon DEF Elements, ElementAt
<1>2. \A i : e \in Of(i) <=> \E j \in DOMAIN m[i].next : e = ElementAt(m, i, j)
  OBVIOUS
<1> HIDE DEF Of
<1>3. QED
  BY <1>1, <1>2 DEF Holds

\* AddTriple of a molecule adds an element to it.
LEMMA ElementAdded ==
  ASSUME NEW m \in Molecule, NEW tmpl \in Nat, NEW o \in KEY_ID, NEW prov \in KEY_ID
  PROVE  /\ AddToMolecule(m, tmpl, o, prov) \in Molecule
         /\ \A x : x \in Elements(AddToMolecule(m, tmpl, o, prov)) <=>
                     x \in Elements(m) \/ x = [prov |-> prov, tmpl |-> tmpl, obj |-> o]
<1>1. PICK elem : elem = [tmpl |-> tmpl, obj |-> o]
  OBVIOUS
<1>2. elem \in Element /\ elem.obj = o /\ elem.tmpl = tmpl
  BY <1>1 DEF Element
<1>0. PICK entry : entry = [prov |-> prov, tmpl |-> elem.tmpl, obj |-> elem.obj]
  OBVIOUS
<1> DEFINE r == AddToMolecule(m, tmpl, o, prov)
<1>3. CASE GroupsOf(m, prov) # {}
  <2>1. PICK f : f = FirstGroup(m, prov)
    OBVIOUS
  <2>2. f \in DOMAIN m /\ m[f].prov = prov
    <3>1. GroupsOf(m, prov) \in SUBSET Nat
      BY DEF Molecule, GroupsOf
    <3>2. \E i \in GroupsOf(m, prov) : \A j \in GroupsOf(m, prov) : i <= j
      BY <1>3, <3>1, LeastIndex
    <3>3. f \in GroupsOf(m, prov)
      BY <2>1, <3>2, Zenon DEF FirstGroup
    <3>4. QED
      BY <3>3 DEF GroupsOf
  <2>3. PICK old : old = m[f].next
    OBVIOUS
  <2>4. m[f] \in Group /\ old \in Seq(Element)
    <3>1. m[f] \in Group
      BY <2>2 DEF Molecule
    <3>2. QED
      BY <2>3, <3>1 DEF Group
  <2>5. PICK g : g = [prov |-> prov, next |-> Append(old, elem)]
    OBVIOUS
  <2>6. g \in Group /\ g.prov = prov
    BY <1>2, <2>4, <2>5 DEF Group
  <2>7. r = [m EXCEPT ![f] = g]
    BY <1>1, <1>3, <2>1, <2>3, <2>5 DEF AddToMolecule, GrownGroup
  <2>8. /\ DOMAIN r = DOMAIN m /\ r[f] = g
        /\ \A i \in DOMAIN m : i # f => r[i] = m[i]
    BY <2>2, <2>7
  <2>0. PICK last : last = Len(old) + 1
    OBVIOUS
  <2>9. /\ DOMAIN g.next = DOMAIN old \union {last}
        /\ \A j \in DOMAIN old : g.next[j] = old[j]
        /\ g.next[last] = elem
    BY <1>2, <2>0, <2>4, <2>5
  <2>10. r \in Molecule
    BY <2>2, <2>6, <2>7 DEF Molecule
  <2> HIDE DEF r
  <2>13. \A i \in DOMAIN m : \A j \in DOMAIN m[i].next :
           j \in DOMAIN r[i].next /\ ElementAt(r, i, j) = ElementAt(m, i, j)
    <3>1. ASSUME NEW i \in DOMAIN m, NEW j \in DOMAIN m[i].next
          PROVE  j \in DOMAIN r[i].next /\ r[i].next[j] = m[i].next[j] /\ r[i].prov = m[i].prov
      <4>1. CASE i = f
        BY <2>2, <2>3, <2>6, <2>8, <2>9, <4>1
      <4>2. CASE i # f
        BY <2>8, <4>2
      <4>3. QED
        BY <4>1, <4>2
    <3>2. QED
      BY <3>1 DEF ElementAt
  <2>14. last \in DOMAIN r[f].next /\ ElementAt(r, f, last) = entry
    BY <1>0, <2>6, <2>8, <2>9 DEF ElementAt
  <2>15. \A i \in DOMAIN r : \A j \in DOMAIN r[i].next : j \in DOMAIN m[i].next \/ (i = f /\ j = last)
    BY <2>3, <2>8, <2>9
  <2>11. ASSUME NEW x
         PROVE  Holds(r, x) <=> Holds(m, x) \/ x = entry
    BY <2>2, <2>8, <2>13, <2>14, <2>15 DEF Holds
  <2>12. QED
    BY <1>0, <1>2, <2>10, <2>11, ElementsHeld DEF r
<1>4. CASE GroupsOf(m, prov) = {}
  <2>1. PICK g : g = [prov |-> prov, next |-> <<elem>>]
    OBVIOUS
  <2>2. g \in Group /\ DOMAIN g.next = {1} /\ g.next[1] = elem /\ g.prov = prov
    BY <1>2, <2>1 DEF Group
  <2>3. r = Append(m, g)
    BY <1>1, <1>4, <2>1 DEF AddToMolecule
  <2>4. PICK n : n = Len(m) + 1
    OBVIOUS
  <2>5. /\ DOMAIN r = DOMAIN m \union {n} /\ n \notin DOMAIN m
        /\ r[n] = g /\ \A i \in DOMAIN m : r[i] = m[i]
        /\ r \in Molecule
    BY <2>2, <2>3, <2>4 DEF Molecule
  <2> HIDE DEF r
  <2>7. \A i \in DOMAIN m : \A j : ElementAt(r, i, j) = ElementAt(m, i, j)
    BY <2>5 DEF ElementAt
  <2>8. ElementAt(r, n, 1) = entry
    BY <1>0, <2>2, <2>5 DEF ElementAt
  <2>6. ASSUME NEW x
        PROVE  Holds(r, x) <=> Holds(m, x) \/ x = entry
    BY <2>2, <2>5, <2>7, <2>8 DEF Holds
  <2>9. QED
    BY <1>0, <1>2, <2>5, <2>6, ElementsHeld DEF r
<1>5. QED
  BY <1>3, <1>4

------------------------------------------------------------------------------
\* The memory of a node whose subjects are my and whose templates are tm.
Memory(n, my, tm) ==
  /\ n = [at |-> n.at, runs |-> n.runs, tripleIDs |-> n.tripleIDs,
          myMolecules |-> n.myMolecules, nbTypes |-> n.nbTypes,
          templates |-> n.templates, TypesM |-> n.TypesM, molecules |-> n.molecules,
          edges |-> n.edges, inv_molecules |-> n.inv_molecules, ProvIdx |-> n.ProvIdx]
  /\ n.myMolecules = my /\ n.templates = tm
  /\ DOMAIN n.TypesM = DOMAIN SubTypes
  /\ \A t \in DOMAIN SubTypes : n.TypesM[t] \subseteq KEY_ID /\ \A e \in n.TypesM[t] : GetType(e) = t
  /\ n.molecules \in [KEY_ID -> Molecule]
  /\ DOMAIN n.edges = KEY_ID
  /\ n.inv_molecules \in [KEY_ID -> SUBSET KEY_ID]
  /\ DOMAIN n.ProvIdx = KEY_ID

\* m has been made from n, by the lines and whatever else.
Keeps(m, n) ==
  /\ m.tripleIDs = n.tripleIDs
  /\ \A t \in DOMAIN SubTypes : n.TypesM[t] \subseteq m.TypesM[t]
  /\ \A k \in KEY_ID : n.inv_molecules[k] \subseteq m.inv_molecules[k]

\* The number CreateMolecule writes, and what a molecule then holds of q.
NumberOf(tm, q) ==
  GetTemplate(tm, GetType(q.subject), GetType(q.subject), q.predicate, GetType(q.object)) % TmplSpan
ElementOf(tm, q) == [prov |-> q.prov, tmpl |-> NumberOf(tm, q), obj |-> q.object]

\* CreateMolecule finds a number, or -1, and keeps 16 bits of it.
LEMMA TemplateAtType ==
  ASSUME NEW n, NEW my, NEW tm, Memory(n, my, tm), IsStored(tm), NEW q \in Quads
  PROVE  TemplateAt(n, q) = NumberOf(tm, q) /\ TemplateAt(n, q) \in Nat
<1> DEFINE root == GetType(q.subject)
           hit == {u \in tm[root] : /\ u.subjectType = root
                                    /\ u.predicateID = q.predicate
                                    /\ u.objectType = GetType(q.object)
                                    /\ u.scope = 0}
           g == GetTemplate(tm, root, root, q.predicate, GetType(q.object))
<1>1. root \in TYPE_ID
  BY TypesAreNumbers DEF Quads
<1>2. \A u \in tm[root] : u.ID \in Nat
  BY <1>1 DEF IsStored, Numbered, TripleTemplate
<1>3. g = IF root \in DOMAIN tm /\ hit # {} THEN (CHOOSE u \in hit : TRUE).ID ELSE NoTemplate
  BY DEF GetTemplate
<1>4. hit # {} => (CHOOSE u \in hit : TRUE) \in tm[root]
  <2> HIDE DEF root
  <2>1. hit # {} => (CHOOSE u \in hit : TRUE) \in hit
    BY Zenon
  <2>2. QED
    BY <2>1
<1>5. g \in Int
  BY <1>2, <1>3, <1>4 DEF NoTemplate
<1>6. TemplateAt(n, q) = g % TmplSpan /\ NumberOf(tm, q) = g % TmplSpan
  BY DEF TemplateAt, NumberOf, Memory
<1> HIDE DEF g
<1>7. g % TmplSpan \in Nat
  BY <1>5, SpanAssumption
<1>8. QED
  BY <1>6, <1>7

\* TypesManager::AddElement.
LEMMA TypeAdded ==
  ASSUME NEW types, DOMAIN types = DOMAIN SubTypes, NEW e \in KEY_ID
  PROVE  /\ DOMAIN AddElement(types, e) = DOMAIN SubTypes
         /\ GetType(e) \in DOMAIN SubTypes
         /\ \A t \in DOMAIN SubTypes : \A x :
              x \in AddElement(types, e)[t] <=> x \in types[t] \/ (t = GetType(e) /\ x = e)
<1>1. GetType(e) \in DOMAIN SubTypes
  BY TypesAreNumbers, TypesAssumption
<1>2. QED
  BY <1>1 DEF AddElement

\* The type lists after both ends of a line were added.
LEMMA EndsAdded ==
  ASSUME NEW n, NEW my, NEW tm, Memory(n, my, tm), NEW q \in Quads
  PROVE  LET types == AddElement(AddElement(n.TypesM, q.subject), q.object)
         IN  /\ DOMAIN types = DOMAIN SubTypes
             /\ \A t \in DOMAIN SubTypes :
                  /\ n.TypesM[t] \subseteq types[t] /\ types[t] \subseteq KEY_ID
                  /\ \A e \in types[t] : GetType(e) = t
             /\ q.subject \in types[GetType(q.subject)]
             /\ GetType(q.subject) \in DOMAIN SubTypes
<1>1. q.subject \in KEY_ID /\ q.object \in KEY_ID
  BY DEF Quads
<1> DEFINE half == AddElement(n.TypesM, q.subject)
           types == AddElement(half, q.object)
<1>2. DOMAIN n.TypesM = DOMAIN SubTypes
  BY DEF Memory
<1>3. /\ DOMAIN half = DOMAIN SubTypes
      /\ GetType(q.subject) \in DOMAIN SubTypes
      /\ \A t \in DOMAIN SubTypes : \A x :
           x \in half[t] <=> x \in n.TypesM[t] \/ (t = GetType(q.subject) /\ x = q.subject)
  BY <1>1, <1>2, TypeAdded
<1> HIDE DEF half
<1>4. /\ DOMAIN types = DOMAIN SubTypes
      /\ \A t \in DOMAIN SubTypes : \A x :
           x \in types[t] <=> x \in half[t] \/ (t = GetType(q.object) /\ x = q.object)
  BY <1>1, <1>3, TypeAdded
<1> HIDE DEF types
<1>5. \A t \in DOMAIN SubTypes : n.TypesM[t] \subseteq KEY_ID /\ \A e \in n.TypesM[t] : GetType(e) = t
  BY DEF Memory
<1>6. QED
  BY <1>1, <1>3, <1>4, <1>5 DEF types, half

\* r has been made from n by a line q of one of its subjects.
Created(r, n, my, tm, q) ==
  /\ Memory(r, my, tm) /\ Keeps(r, n)
  /\ r.edges = n.edges
  /\ \A s \in KEY_ID : \A x :
       x \in Elements(r.molecules[s]) <=>
         x \in Elements(n.molecules[s]) \/ (s = q.subject /\ x = ElementOf(tm, q))
  /\ \A s \in KEY_ID : s # q.subject => r.molecules[s] = n.molecules[s]
  /\ \A k \in KEY_ID : r.inv_molecules[k] \subseteq n.inv_molecules[k] \union {q.subject}
  /\ q.subject \in r.inv_molecules[q.object]
  /\ q.subject \in r.TypesM[GetType(q.subject)]

LEMMA MoleculeCreated ==
  ASSUME NEW n, NEW my, NEW tm, Memory(n, my, tm), IsStored(tm), NEW q \in Quads,
         NEW r, r = CreateMoleculeAt(n, q)
  PROVE  Created(r, n, my, tm, q)
<1> DEFINE mol == [n.molecules EXCEPT ![q.subject] =
                     AddToMolecule(@, TemplateAt(n, q), q.object, q.prov)]
           inv == [n.inv_molecules EXCEPT ![q.object] = @ \union {q.subject}]
           typ == AddElement(AddElement(n.TypesM, q.subject), q.object)
<1>1. q.subject \in KEY_ID /\ q.object \in KEY_ID /\ q.prov \in KEY_ID
  BY DEF Quads
<1>2. n.molecules \in [KEY_ID -> Molecule] /\ n.inv_molecules \in [KEY_ID -> SUBSET KEY_ID]
  BY DEF Memory
<1>3. /\ AddToMolecule(n.molecules[q.subject], TemplateAt(n, q), q.object, q.prov) \in Molecule
      /\ \A x : x \in Elements(AddToMolecule(n.molecules[q.subject], TemplateAt(n, q), q.object, q.prov))
                  <=> x \in Elements(n.molecules[q.subject]) \/ x = ElementOf(tm, q)
  <2>1. TemplateAt(n, q) \in Nat /\ TemplateAt(n, q) = NumberOf(tm, q)
    BY TemplateAtType
  <2>2. n.molecules[q.subject] \in Molecule
    BY <1>1, <1>2
  <2>3. QED
    BY <1>1, <2>1, <2>2, ElementAdded DEF ElementOf
<1>4. /\ mol \in [KEY_ID -> Molecule]
      /\ \A s \in KEY_ID : \A x :
           x \in Elements(mol[s]) <=>
             x \in Elements(n.molecules[s]) \/ (s = q.subject /\ x = ElementOf(tm, q))
      /\ \A s \in KEY_ID : s # q.subject => mol[s] = n.molecules[s]
  BY <1>1, <1>2, <1>3
<1>5. /\ inv \in [KEY_ID -> SUBSET KEY_ID]
      /\ q.subject \in inv[q.object]
      /\ \A k \in KEY_ID : n.inv_molecules[k] \subseteq inv[k]
      /\ \A k \in KEY_ID : inv[k] \subseteq n.inv_molecules[k] \union {q.subject}
  BY <1>1, <1>2
<1>6. /\ DOMAIN typ = DOMAIN SubTypes
      /\ \A t \in DOMAIN SubTypes :
           /\ n.TypesM[t] \subseteq typ[t] /\ typ[t] \subseteq KEY_ID
           /\ \A e \in typ[t] : GetType(e) = t
      /\ q.subject \in typ[GetType(q.subject)]
  BY EndsAdded
<1>7. r = [n EXCEPT !.TypesM = typ, !.molecules = mol, !.inv_molecules = inv]
  BY DEF CreateMoleculeAt
<1> HIDE DEF mol, inv, typ
<1>8. r = [at |-> n.at, runs |-> n.runs, tripleIDs |-> n.tripleIDs,
           myMolecules |-> n.myMolecules, nbTypes |-> n.nbTypes,
           templates |-> n.templates, TypesM |-> typ, molecules |-> mol,
           edges |-> n.edges, inv_molecules |-> inv, ProvIdx |-> n.ProvIdx]
  BY <1>7 DEF Memory
<1>9. Memory(r, my, tm)
  BY <1>4, <1>5, <1>6, <1>8 DEF Memory
<1>10. Keeps(r, n)
  BY <1>5, <1>6, <1>8 DEF Keeps
<1>11. QED
  BY <1>4, <1>5, <1>6, <1>8, <1>9, <1>10 DEF Created

\* Any line.
LEMMA LineLoaded ==
  ASSUME NEW n, NEW my \in SUBSET KEY_ID, NEW tm, Memory(n, my, tm), IsStored(tm), NEW q \in Quads
  PROVE  LET r == LoadLine(n, q)
         IN  /\ Memory(r, my, tm) /\ Keeps(r, n)
             /\ r.edges = n.edges
             /\ \A s \in my : \A x :
                  x \in Elements(r.molecules[s]) <=>
                    x \in Elements(n.molecules[s]) \/ (s = q.subject /\ x = ElementOf(tm, q))
             /\ \A s \in KEY_ID \ my : r.molecules[s] = n.molecules[s]
             /\ \A k \in KEY_ID : r.inv_molecules[k] \subseteq n.inv_molecules[k] \union my
             /\ q.subject \in my =>
                  /\ q.subject \in r.inv_molecules[q.object]
                  /\ q.subject \in r.TypesM[GetType(q.subject)]
<1> DEFINE c == IF q.subject \in n.myMolecules THEN CreateMoleculeAt(n, q) ELSE n
           r == LoadLine(n, q)
           prv == [n.ProvIdx EXCEPT ![q.prov] = @ \union {q.subject}]
<1>1. n.myMolecules = my
  BY DEF Memory
<1>2. /\ Memory(c, my, tm) /\ Keeps(c, n)
      /\ c.edges = n.edges
      /\ c.ProvIdx = n.ProvIdx
      /\ \A s \in my : \A x :
           x \in Elements(c.molecules[s]) <=>
             x \in Elements(n.molecules[s]) \/ (s = q.subject /\ x = ElementOf(tm, q))
      /\ \A s \in KEY_ID \ my : c.molecules[s] = n.molecules[s]
      /\ \A k \in KEY_ID : c.inv_molecules[k] \subseteq n.inv_molecules[k] \union my
      /\ q.subject \in my =>
           /\ q.subject \in c.inv_molecules[q.object]
           /\ q.subject \in c.TypesM[GetType(q.subject)]
  <2>1. CASE q.subject \in my
    <3>1. c = CreateMoleculeAt(n, q)
      BY <1>1, <2>1
    <3>2. c.ProvIdx = n.ProvIdx
      BY <3>1 DEF CreateMoleculeAt, Memory
    <3>3. PICK g : g = CreateMoleculeAt(n, q)
      OBVIOUS
    <3>4. Created(g, n, my, tm, q)
      BY <3>3, MoleculeCreated
    <3>5. c = g
      BY <3>1, <3>3
    <3> HIDE DEF c
    <3>6. QED
      BY <2>1, <3>2, <3>4, <3>5 DEF Created
  <2>2. CASE q.subject \notin my
    <3>1. c = n
      BY <1>1, <2>2
    <3>2. Keeps(n, n)
      BY DEF Keeps
    <3>3. QED
      BY <2>2, <3>1, <3>2
  <2>3. QED
    BY <2>1, <2>2
<1>3. r = [c EXCEPT !.ProvIdx[q.prov] = @ \union {q.subject}]
  BY DEF LoadLine
<1> HIDE DEF c, r
<1>4. r = [at |-> c.at, runs |-> c.runs, tripleIDs |-> c.tripleIDs,
           myMolecules |-> c.myMolecules, nbTypes |-> c.nbTypes,
           templates |-> c.templates, TypesM |-> c.TypesM, molecules |-> c.molecules,
           edges |-> c.edges, inv_molecules |-> c.inv_molecules, ProvIdx |-> prv]
  <2>1. c = [at |-> c.at, runs |-> c.runs, tripleIDs |-> c.tripleIDs,
             myMolecules |-> c.myMolecules, nbTypes |-> c.nbTypes,
             templates |-> c.templates, TypesM |-> c.TypesM, molecules |-> c.molecules,
             edges |-> c.edges, inv_molecules |-> c.inv_molecules, ProvIdx |-> c.ProvIdx]
    BY <1>2 DEF Memory
  <2>2. QED
    BY <1>2, <1>3, <2>1
<1>5. DOMAIN prv = KEY_ID
  BY DEF Memory
<1> HIDE DEF prv
<1>6. Memory(r, my, tm)
  BY <1>2, <1>4, <1>5 DEF Memory
<1>7. Keeps(r, n)
  BY <1>2, <1>4 DEF Keeps
<1>8. r.edges = c.edges /\ r.molecules = c.molecules /\ r.inv_molecules = c.inv_molecules /\ r.TypesM = c.TypesM
  BY <1>4
<1>9. QED
  BY <1>2, <1>6, <1>7, <1>8 DEF r

\* What the molecules of a node are after k of its lines.
Placed(n, T, my, tm, k) ==
  /\ n.edges = Empty
  /\ n.tripleIDs = T
  /\ \A s \in my : \A x :
       x \in Elements(n.molecules[s]) <=> \E i \in 1 .. k : T[i].subject = s /\ x = ElementOf(tm, T[i])
  /\ \A s \in KEY_ID \ my : n.molecules[s] = NoMolecule
  /\ \A o \in KEY_ID : n.inv_molecules[o] \subseteq my
  /\ \A i \in 1 .. k : T[i].subject \in my =>
       /\ T[i].subject \in n.inv_molecules[T[i].object]
       /\ T[i].subject \in n.TypesM[GetType(T[i].subject)]

LEMMA LinePlaced ==
  ASSUME NEW n, NEW my \in SUBSET KEY_ID, NEW tm, Memory(n, my, tm), IsStored(tm),
         NEW T, NEW k \in Nat \ {0}, Placed(n, T, my, tm, k - 1), \A i \in 1 .. k : T[i] \in Quads
  PROVE  Memory(LoadLine(n, T[k]), my, tm) /\ Placed(LoadLine(n, T[k]), T, my, tm, k)
<1> DEFINE q == T[k]
           r == LoadLine(n, q)
<1>1. q \in Quads
  OBVIOUS
<1>2. /\ Memory(r, my, tm) /\ Keeps(r, n)
      /\ r.edges = n.edges
      /\ \A s \in my : \A x :
           x \in Elements(r.molecules[s]) <=>
             x \in Elements(n.molecules[s]) \/ (s = q.subject /\ x = ElementOf(tm, q))
      /\ \A s \in KEY_ID \ my : r.molecules[s] = n.molecules[s]
      /\ \A o \in KEY_ID : r.inv_molecules[o] \subseteq n.inv_molecules[o] \union my
      /\ q.subject \in my =>
           /\ q.subject \in r.inv_molecules[q.object]
           /\ q.subject \in r.TypesM[GetType(q.subject)]
  BY <1>1, LineLoaded
<1> HIDE DEF r
<1>3. \A i : i \in 1 .. k <=> i \in 1 .. (k - 1) \/ i = k
  OBVIOUS
<1>4. ASSUME NEW s \in my, NEW x
      PROVE  x \in Elements(r.molecules[s]) <=> \E i \in 1 .. k : T[i].subject = s /\ x = ElementOf(tm, T[i])
  <2>1. x \in Elements(n.molecules[s]) <=> \E i \in 1 .. (k - 1) : T[i].subject = s /\ x = ElementOf(tm, T[i])
    BY DEF Placed
  <2>2. x \in Elements(r.molecules[s]) <=> x \in Elements(n.molecules[s]) \/ (s = T[k].subject /\ x = ElementOf(tm, T[k]))
    BY <1>2
  <2>3. k \in 1 .. k
    OBVIOUS
  <2>4. QED
    BY <1>3, <2>1, <2>2, <2>3, Zenon
<1>5. ASSUME NEW i \in 1 .. k, T[i].subject \in my
      PROVE  /\ T[i].subject \in r.inv_molecules[T[i].object]
             /\ T[i].subject \in r.TypesM[GetType(T[i].subject)]
  <2>1. CASE i = k
    BY <1>2, <1>5, <2>1
  <2>2. CASE i \in 1 .. (k - 1)
    <3>1. T[i].object \in KEY_ID /\ T[i].subject \in KEY_ID
      BY DEF Quads
    <3>2. GetType(T[i].subject) \in DOMAIN SubTypes
      BY <3>1, TypesAreNumbers, TypesAssumption
    <3>3. QED
      BY <1>2, <1>5, <2>2, <3>1, <3>2 DEF Placed, Keeps
  <2>3. QED
    BY <1>3, <2>1, <2>2
<1>6. /\ r.edges = Empty /\ r.tripleIDs = T
      /\ \A s \in KEY_ID \ my : r.molecules[s] = NoMolecule
      /\ \A o \in KEY_ID : r.inv_molecules[o] \subseteq my
  BY <1>2 DEF Placed, Keeps
<1>7. Placed(r, T, my, tm, k)
  BY <1>4, <1>5, <1>6 DEF Placed
<1>8. QED
  BY <1>2, <1>7 DEF r

\* A node before its lines are loaded.
Start(T, my, tm) ==
  [FreshNode EXCEPT !.tripleIDs = T, !.myMolecules = my,
                    !.nbTypes = Cardinality(DOMAIN SubTypes), !.templates = tm]

LEMMA NothingPlaced ==
  ASSUME NEW T, NEW my \in SUBSET KEY_ID, NEW tm, NEW n,
         n = [Start(T, my, tm) EXCEPT !.TypesM = [t \in 0 .. (Start(T, my, tm).nbTypes - 1) |-> {}]]
  PROVE  Memory(n, my, tm) /\ Placed(n, T, my, tm, 0)
<1> DEFINE typ == [t \in DOMAIN SubTypes |-> {}]
           mol == [k \in KEY_ID |-> NoMolecule]
<1>1. Start(T, my, tm).nbTypes = Cardinality(DOMAIN SubTypes)
  BY DEF Start, FreshNode
<1>2. [t \in 0 .. (Start(T, my, tm).nbTypes - 1) |-> {}] = typ
  BY <1>1, TypesAssumption
<1>3. PICK size : size = Cardinality(DOMAIN SubTypes)
  OBVIOUS
<1>4. n = [at |-> "triples", runs |-> {}, tripleIDs |-> T, myMolecules |-> my, nbTypes |-> size,
           templates |-> tm, TypesM |-> typ, molecules |-> mol, edges |-> Empty,
           inv_molecules |-> Empty, ProvIdx |-> Empty]
  <2>1. n = [Start(T, my, tm) EXCEPT !.TypesM = typ]
    BY <1>2
  <2> HIDE DEF typ
  <2>2. QED
    BY <1>3, <2>1 DEF Start, FreshNode
<1>5. mol \in [KEY_ID -> Molecule]
  BY DEF NoMolecule, Molecule
<1>6. \A s \in KEY_ID : \A x : x \notin Elements(mol[s])
  <2>1. \A s \in KEY_ID : mol[s] = <<>>
    BY DEF NoMolecule
  <2>2. \A x : ~ Holds(<<>>, x)
    BY DEF Holds
  <2>3. QED
    BY <2>1, <2>2, ElementsHeld
<1>7. /\ DOMAIN Empty = KEY_ID
      /\ Empty \in [KEY_ID -> SUBSET KEY_ID]
  BY DEF Empty
<1>8. Memory(n, my, tm)
  <2>1. DOMAIN typ = DOMAIN SubTypes /\ \A t \in DOMAIN SubTypes : typ[t] = {}
    OBVIOUS
  <2> HIDE DEF typ, mol
  <2>2. n = [at |-> n.at, runs |-> n.runs, tripleIDs |-> n.tripleIDs,
             myMolecules |-> n.myMolecules, nbTypes |-> n.nbTypes,
             templates |-> n.templates, TypesM |-> n.TypesM, molecules |-> n.molecules,
             edges |-> n.edges, inv_molecules |-> n.inv_molecules, ProvIdx |-> n.ProvIdx]
    BY <1>4
  <2>3. /\ n.myMolecules = my /\ n.templates = tm /\ n.TypesM = typ /\ n.molecules = mol
        /\ n.edges = Empty /\ n.inv_molecules = Empty /\ n.ProvIdx = Empty
    BY <1>4
  <2>4. \A t \in DOMAIN SubTypes : n.TypesM[t] \subseteq KEY_ID /\ \A e \in n.TypesM[t] : GetType(e) = t
    BY <2>1, <2>3
  <2>5. QED
    BY <1>5, <1>7, <2>1, <2>2, <2>3, <2>4, Zenon DEF Memory
<1>9. Placed(n, T, my, tm, 0)
  <2>1. n.edges = Empty /\ n.tripleIDs = T /\ n.molecules = mol
    BY <1>4
  <2>2. 1 .. 0 = {}
    OBVIOUS
  <2>3. \A s \in KEY_ID : mol[s] = NoMolecule
    OBVIOUS
  <2>4. n.inv_molecules = Empty /\ \A o \in KEY_ID : Empty[o] = {}
    BY <1>4 DEF Empty
  <2> HIDE DEF mol
  <2>5. QED
    BY <1>6, <2>1, <2>2, <2>3, <2>4 DEF Placed
<1>10. QED
  BY <1>8, <1>9

LEMMA AllPlaced ==
  ASSUME NEW T \in Seq(Quads), NEW my \in SUBSET KEY_ID, NEW tm, IsStored(tm)
  PROVE  /\ Memory(LoadScope0(Start(T, my, tm)), my, tm)
         /\ Placed(LoadScope0(Start(T, my, tm)), T, my, tm, Len(T))
<1>1. PICK n0 : n0 = [Start(T, my, tm) EXCEPT !.TypesM = [t \in 0 .. (Start(T, my, tm).nbTypes - 1) |-> {}]]
  OBVIOUS
<1>2. PICK len : len = Len(T) /\ len \in Nat /\ DOMAIN T = 1 .. len
  OBVIOUS
<1>3. PICK r : r = FoldLeft(LoadLine, n0, T)
  OBVIOUS
<1>4. LoadScope0(Start(T, my, tm)) = r
  <2>1. Start(T, my, tm).tripleIDs = T
    BY DEF Start, FreshNode
  <2>2. QED
    BY <1>1, <1>3, <2>1 DEF LoadScope0
<1>5. Memory(n0, my, tm) /\ Placed(n0, T, my, tm, 0)
  BY <1>1, NothingPlaced
<1> DEFINE loop == [of |-> "lines"]
<1>6. Runs(loop, n0, T, r)
  BY <1>2, <1>3, LinesRun
<1>7. PICK h : Passes(h, loop, n0, T, len) /\ r = h[len]
  BY <1>2, <1>6 DEF Runs
<1>8. h[0] = n0 /\ \A k \in 1 .. len : h[k] = LoadLine(h[k - 1], T[k])
  BY <1>7 DEF Passes, Turn
<1> DEFINE G == {k \in Nat : Memory(h[k], my, tm) /\ Placed(h[k], T, my, tm, k)}
<1>9. 0 \in G
  BY <1>5, <1>8
<1>10. ASSUME NEW k \in 1 .. len, k - 1 \in G
       PROVE  k \in G
  <2>1. k \in Nat \ {0} /\ \A i \in 1 .. k : i \in 1 .. len
    BY <1>2
  <2>2. \A i \in 1 .. k : T[i] \in Quads
    BY <1>2, <2>1
  <2>3. Memory(h[k - 1], my, tm) /\ Placed(h[k - 1], T, my, tm, k - 1)
    BY <1>10
  <2>4. /\ Memory(LoadLine(h[k - 1], T[k]), my, tm)
        /\ Placed(LoadLine(h[k - 1], T[k]), T, my, tm, k)
    BY <2>1, <2>2, <2>3, LinePlaced
  <2>5. QED
    BY <1>8, <2>1, <2>4
<1> HIDE DEF G
<1>11. len \in G
  BY <1>2, <1>9, <1>10, AfterAllTurns
<1>12. QED
  BY <1>2, <1>4, <1>7, <1>11 DEF G
------------------------------------------------------------------------------
(***************************************************************************)
(* A node above scope 0.                                                   *)
(***************************************************************************)

\* What AddTriple looks up.
Fitting(tm, q, scope) ==
  GetTemplatesByRoot(tm, GetType(q.subject), q.predicate, GetType(q.object), scope)

\* u is a template of q at this scope, with this ID.
IsFor(u, q, scope, id) == u.ID = id /\ SameTemplate(u, At(TemplateOf(q), scope))

LEMMA TemplatesFound ==
  ASSUME NEW tm, IsStored(tm), NEW q \in Quads, NEW scope \in Nat \ {0}
  PROVE  /\ \A t \in Fitting(tm, q, scope) : t = <<t[1], t[2]>>
         /\ \A root, id :
              <<root, id>> \in Fitting(tm, q, scope) <=>
                root \in TYPE_ID /\ \E u \in tm[root] : IsFor(u, q, scope, id)
<1>1. PICK s, p, o : s = GetType(q.subject) /\ p = q.predicate /\ o = GetType(q.object)
  OBVIOUS
<1>2. s # Wild /\ p # Wild /\ o # Wild
  <2>1. q.subject \in KEY_ID /\ q.predicate \in KEY_ID /\ q.object \in KEY_ID
    BY DEF Quads
  <2>2. s \in Nat /\ p \in Nat /\ o \in Nat
    BY <1>1, <2>1, TypesAreNumbers, KeyAssumption
  <2>3. QED
    BY <2>2 DEF Wild
<1> DEFINE Matches(u) == /\ s \in {Wild, u.subjectType}
                         /\ p \in {Wild, u.predicateID}
                         /\ o \in {Wild, u.objectType}
                         /\ u.scope = scope
           Pairs(root) == {<<root, u.ID>> : u \in {v \in tm[root] : Matches(v)}}
<1>3. Fitting(tm, q, scope) = UNION {Pairs(root) : root \in TYPE_ID}
  BY <1>1 DEF Fitting, GetTemplatesByRoot, IsStored
<1>4. \A u : Matches(u) <=> SameTemplate(u, At(TemplateOf(q), scope))
  BY <1>1, <1>2 DEF SameTemplate, At, TemplateOf
<1> HIDE DEF Matches
<1>5. \A root, id : \A t : t \in Pairs(root) <=> \E u \in tm[root] : Matches(u) /\ t = <<root, u.ID>>
  OBVIOUS
<1>6. ASSUME NEW root, NEW id
      PROVE  <<root, id>> \in Fitting(tm, q, scope) <=>
               root \in TYPE_ID /\ \E u \in tm[root] : IsFor(u, q, scope, id)
  <2>1. ASSUME <<root, id>> \in Fitting(tm, q, scope)
        PROVE  root \in TYPE_ID /\ \E u \in tm[root] : IsFor(u, q, scope, id)
    <3> HIDE DEF Pairs
    <3>1. PICK rt \in TYPE_ID : <<root, id>> \in Pairs(rt)
      BY <1>3, <2>1
    <3>2. PICK u \in tm[rt] : Matches(u) /\ <<root, id>> = <<rt, u.ID>>
      BY <1>5, <3>1
    <3>3. root = rt /\ id = u.ID
      BY <3>2
    <3>4. QED
      BY <1>4, <3>2, <3>3 DEF IsFor
  <2>2. ASSUME root \in TYPE_ID, NEW u \in tm[root], IsFor(u, q, scope, id)
        PROVE  <<root, id>> \in Fitting(tm, q, scope)
    <3>1. Matches(u) /\ u.ID = id
      BY <1>4, <2>2 DEF IsFor
    <3>2. <<root, id>> \in Pairs(root)
      BY <1>5, <3>1
    <3> HIDE DEF Pairs
    <3>3. QED
      BY <1>3, <2>2, <3>2
  <2>3. QED
    BY <2>1, <2>2
<1>7. ASSUME NEW t \in Fitting(tm, q, scope)
      PROVE  t = <<t[1], t[2]>>
  <2>1. PICK rt \in TYPE_ID : t \in Pairs(rt)
    BY <1>3
  <2>2. PICK u : t = <<rt, u.ID>>
    BY <1>5, <2>1
  <2>3. QED
    BY <2>2
<1>8. QED
  BY <1>6, <1>7

\* An edge says q at a scope, by one of the templates S.
Made(e, q, S, scope) ==
  /\ e.scope = scope /\ e.subj = q.subject /\ e.obj = q.object /\ e.prov = q.prov
  /\ \E u \in S : IsFor(u, q, scope, e.tmpl)

\* m has been made from n by adding q at a scope.
GrownBy(m, n, tm, q, scope) ==
  /\ m.molecules = n.molecules
  /\ \A o \in KEY_ID : m.inv_molecules[o] \subseteq n.inv_molecules[o] \union n.inv_molecules[q.subject]
  /\ \A s \in KEY_ID :
       /\ n.edges[s] \subseteq m.edges[s]
       /\ \A e \in m.edges[s] \ n.edges[s] :
            /\ Made(e, q, tm[GetType(s)], scope)
            /\ q.subject \in EntitiesAt(n.molecules[s], n.edges[s], scope - 1)
            /\ s \in m.inv_molecules[q.object]
       /\ /\ s \in n.inv_molecules[q.subject]
          /\ s \in n.TypesM[GetType(s)]
          /\ Has(tm[GetType(s)], TemplateOf(q), scope)
          /\ q.subject \in EntitiesAt(n.molecules[s], n.edges[s], scope - 1)
          => \E e \in m.edges[s] : Made(e, q, tm[GetType(s)], scope)

LEMMA TripleAdded ==
  ASSUME NEW n, NEW my, NEW tm, Memory(n, my, tm), IsStored(tm), NEW q \in Quads,
         NEW scope \in Nat \ {0}
  PROVE  LET m == AddTripleAt(n, q, scope)
         IN  Memory(m, my, tm) /\ Keeps(m, n) /\ GrownBy(m, n, tm, q, scope)
<1> DEFINE m == AddTripleAt(n, q, scope)
           tmpls == GetTemplatesByRoot(n.templates, GetType(q.subject), q.predicate,
                                       GetType(q.object), scope)
           types == AddElement(AddElement(n.TypesM, q.subject), q.object)
           Of(r) == {t[2] : t \in {u \in tmpls : r \in types[u[1]]}}
           hosts == {r \in n.inv_molecules[q.subject] : Of(r) # {}}
           Grown(r) == FindEntityAndAddNext(n.molecules[r], n.edges[r], CHOOSE t \in Of(r) : TRUE,
                                            q.object, q.subject, q.prov, scope)
           edges == [r \in KEY_ID |-> IF r \in hosts THEN Grown(r) ELSE n.edges[r]]
           inv == [n.inv_molecules EXCEPT ![q.object] = @ \union hosts]
<1>1. q.subject \in KEY_ID /\ q.object \in KEY_ID
  BY DEF Quads
<1>2. n.inv_molecules \in [KEY_ID -> SUBSET KEY_ID] /\ DOMAIN n.edges = KEY_ID /\ n.templates = tm
  BY DEF Memory
<1>3. /\ DOMAIN types = DOMAIN SubTypes
      /\ \A t \in DOMAIN SubTypes :
           /\ n.TypesM[t] \subseteq types[t] /\ types[t] \subseteq KEY_ID
           /\ \A e \in types[t] : GetType(e) = t
  BY EndsAdded
<1>4. /\ \A t \in tmpls : t = <<t[1], t[2]>>
      /\ \A root, id :
           <<root, id>> \in tmpls <=> root \in TYPE_ID /\ \E u \in tm[root] : IsFor(u, q, scope, id)
  <2>1. tmpls = Fitting(tm, q, scope)
    BY <1>2 DEF Fitting
  <2> HIDE DEF tmpls
  <2>2. QED
    BY <2>1, TemplatesFound
<1>5. TYPE_ID \subseteq DOMAIN SubTypes /\ \A k \in KEY_ID : GetType(k) \in TYPE_ID
  BY TypesAreNumbers, TypesAssumption
<1>6. m = IF n.inv_molecules[q.subject] = {} \/ tmpls = {}
            THEN n
            ELSE [n EXCEPT !.TypesM = types, !.edges = [r \in KEY_ID |-> IF r \in hosts THEN Grown(r) ELSE @[r]],
                           !.inv_molecules[q.object] = @ \union hosts]
  BY Zenon DEF AddTripleAt
<1> HIDE DEF m, tmpls, types
<1>7. ASSUME NEW s \in KEY_ID, NEW id \in Of(s)
      PROVE  \E u \in tm[GetType(s)] : IsFor(u, q, scope, id)
  <2>1. PICK t \in tmpls : s \in types[t[1]] /\ id = t[2]
    OBVIOUS
  <2>2. t[1] \in TYPE_ID /\ \E u \in tm[t[1]] : IsFor(u, q, scope, id)
    BY <1>4, <2>1
  <2>3. GetType(s) = t[1]
    BY <1>3, <1>5, <2>1, <2>2
  <2>4. QED
    BY <2>2, <2>3
<1>8. ASSUME NEW s \in KEY_ID, s \in n.TypesM[GetType(s)], Has(tm[GetType(s)], TemplateOf(q), scope)
      PROVE  tmpls # {} /\ Of(s) # {}
  <2>1. PICK u \in tm[GetType(s)] : SameTemplate(u, At(TemplateOf(q), scope))
    BY <1>8 DEF Has
  <2>2. PICK t : t = <<GetType(s), u.ID>>
    OBVIOUS
  <2>3. t \in tmpls
    BY <1>4, <1>5, <2>1, <2>2 DEF IsFor
  <2>4. s \in types[t[1]]
    BY <1>3, <1>5, <1>8, <2>2
  <2>5. t[2] \in Of(s)
    BY <2>3, <2>4
  <2>6. QED
    BY <2>3, <2>5
<1> DEFINE new(s) == [scope |-> scope, subj |-> q.subject, tmpl |-> CHOOSE t \in Of(s) : TRUE,
                      obj |-> q.object, prov |-> q.prov]
           At0(s) == q.subject \in EntitiesAt(n.molecules[s], n.edges[s], scope - 1)
<1>9. \A s : Grown(s) = IF At0(s) THEN n.edges[s] \union {new(s)} ELSE n.edges[s]
  BY DEF FindEntityAndAddNext
<1>10. ASSUME NEW s \in KEY_ID, s \in hosts
       PROVE  Made(new(s), q, tm[GetType(s)], scope)
  <2>1. PICK id : id = (CHOOSE t \in Of(s) : TRUE)
    OBVIOUS
  <2>2. id \in Of(s)
    <3>1. Of(s) # {}
      BY <1>10
    <3> HIDE DEF Of
    <3>2. QED
      BY <2>1, <3>1, Zenon
  <2>3. \E u \in tm[GetType(s)] : IsFor(u, q, scope, id)
    BY <1>7, <2>2
  <2> HIDE DEF Of
  <2>4. new(s) = [scope |-> scope, subj |-> q.subject, tmpl |-> id, obj |-> q.object, prov |-> q.prov]
    BY <2>1
  <2>5. QED
    BY <2>3, <2>4 DEF Made
<1>11. hosts \subseteq n.inv_molecules[q.subject] /\ \A s \in n.inv_molecules[q.subject] : Of(s) # {} => s \in hosts
  OBVIOUS
<1> HIDE DEF Of, new, At0, hosts, Grown
<1>12. CASE n.inv_molecules[q.subject] = {} \/ tmpls = {}
  <2>1. m = n
    BY <1>6, <1>12
  <2>2. Keeps(n, n)
    BY DEF Keeps
  <2>3. GrownBy(n, n, tm, q, scope)
    BY <1>8, <1>12 DEF GrownBy
  <2>4. QED
    BY <2>1, <2>2, <2>3 DEF m
<1>13. CASE ~ (n.inv_molecules[q.subject] = {} \/ tmpls = {})
  <2>1. m = [at |-> n.at, runs |-> n.runs, tripleIDs |-> n.tripleIDs,
             myMolecules |-> n.myMolecules, nbTypes |-> n.nbTypes,
             templates |-> n.templates, TypesM |-> types, molecules |-> n.molecules,
             edges |-> edges, inv_molecules |-> inv, ProvIdx |-> n.ProvIdx]
    <3>1. m = [n EXCEPT !.TypesM = types, !.edges = [r \in KEY_ID |-> IF r \in hosts THEN Grown(r) ELSE @[r]],
                        !.inv_molecules[q.object] = @ \union hosts]
      BY <1>6, <1>13, Zenon
    <3>2. n = [at |-> n.at, runs |-> n.runs, tripleIDs |-> n.tripleIDs,
               myMolecules |-> n.myMolecules, nbTypes |-> n.nbTypes,
               templates |-> n.templates, TypesM |-> n.TypesM, molecules |-> n.molecules,
               edges |-> n.edges, inv_molecules |-> n.inv_molecules, ProvIdx |-> n.ProvIdx]
      BY DEF Memory
    <3>3. QED
      BY <3>1, <3>2
  <2>2. hosts \subseteq KEY_ID
    BY <1>1, <1>2, <1>11
  <2>3. /\ inv \in [KEY_ID -> SUBSET KEY_ID]
        /\ \A k \in KEY_ID : n.inv_molecules[k] \subseteq inv[k]
        /\ hosts \subseteq inv[q.object]
        /\ \A k \in KEY_ID : inv[k] \subseteq n.inv_molecules[k] \union n.inv_molecules[q.subject]
    BY <1>11, <1>1, <1>2, <2>2
  <2>4. \A s \in KEY_ID : edges[s] = IF s \in hosts THEN Grown(s) ELSE n.edges[s]
    OBVIOUS
  <2>5. DOMAIN edges = KEY_ID
    OBVIOUS
  <2> HIDE DEF edges, inv
  <2>6. /\ m.molecules = n.molecules /\ m.edges = edges /\ m.inv_molecules = inv /\ m.TypesM = types
        /\ m.tripleIDs = n.tripleIDs
        /\ m.myMolecules = n.myMolecules /\ m.templates = n.templates /\ m.ProvIdx = n.ProvIdx
    BY <2>1
  <2>7. Memory(m, my, tm)
    <3>1. m = [at |-> m.at, runs |-> m.runs, tripleIDs |-> m.tripleIDs,
               myMolecules |-> m.myMolecules, nbTypes |-> m.nbTypes,
               templates |-> m.templates, TypesM |-> m.TypesM, molecules |-> m.molecules,
               edges |-> m.edges, inv_molecules |-> m.inv_molecules, ProvIdx |-> m.ProvIdx]
      BY <2>1
    <3>2. /\ n.myMolecules = my /\ n.templates = tm /\ n.molecules \in [KEY_ID -> Molecule]
          /\ DOMAIN n.ProvIdx = KEY_ID
      BY DEF Memory
    <3>3. \A t \in DOMAIN SubTypes : m.TypesM[t] \subseteq KEY_ID /\ \A e \in m.TypesM[t] : GetType(e) = t
      BY <1>3, <2>6
    <3>4. QED
      BY <1>3, <2>3, <2>5, <2>6, <3>1, <3>2, <3>3, Zenon DEF Memory
  <2>8. Keeps(m, n)
    BY <1>3, <2>3, <2>6 DEF Keeps
  <2>9. ASSUME NEW s \in KEY_ID
        PROVE  /\ n.edges[s] \subseteq m.edges[s]
               /\ \A e \in m.edges[s] \ n.edges[s] :
                    /\ Made(e, q, tm[GetType(s)], scope) /\ At0(s) /\ s \in m.inv_molecules[q.object]
               /\ /\ s \in n.inv_molecules[q.subject] /\ s \in n.TypesM[GetType(s)]
                  /\ Has(tm[GetType(s)], TemplateOf(q), scope) /\ At0(s)
                  => \E e \in m.edges[s] : Made(e, q, tm[GetType(s)], scope)
    <3>1. CASE s \in hosts
      <4>1. m.edges[s] = IF At0(s) THEN n.edges[s] \union {new(s)} ELSE n.edges[s]
        BY <1>9, <2>4, <2>6, <3>1
      <4>2. Made(new(s), q, tm[GetType(s)], scope) /\ s \in m.inv_molecules[q.object]
        BY <1>10, <2>3, <2>6, <3>1
      <4>3. QED
        BY <4>1, <4>2
    <3>2. CASE s \notin hosts
      <4>1. m.edges[s] = n.edges[s]
        BY <2>4, <2>6, <3>2
      <4>2. QED
        BY <1>8, <1>11, <3>2, <4>1
    <3>3. QED
      BY <3>1, <3>2
  <2>10. GrownBy(m, n, tm, q, scope)
    BY <2>3, <2>6, <2>9, Zenon DEF GrownBy, At0
  <2>11. QED
    BY <2>7, <2>8, <2>10 DEF m
<1>14. QED
  BY <1>12, <1>13

\* ReachedSteps for a configuration.
LEMMA ReachedFirst ==
  ASSUME NEW quads, NEW c, IsConfig(c), NEW s, NEW paths
  PROVE  \A q : q \in Reached(quads, c, s, paths)[0] <=> q \in quads /\ q.subject = s
<1>1. c.maxScope \in Nat
  BY DEF IsConfig
<1>2. QED
  BY <1>1, ReachedSteps

\* k is a scope above 0, and h the one before.
IsScope(c, k, h) == c.maxScope \in Nat /\ k \in 1 .. c.maxScope /\ h = k - 1

\* x is an object in R.
Meets(R, x) == \E o \in R : o.object = x

LEMMA ReachedNext ==
  ASSUME NEW quads, NEW c, IsConfig(c), NEW s, NEW paths, NEW k, NEW h, IsScope(c, k, h)
  PROVE  \A q : q \in Reached(quads, c, s, paths)[k] <=>
                  /\ q \in quads /\ Lets(c, s, paths, q, k)
                  /\ Meets(Reached(quads, c, s, paths)[h], q.subject)
<1>1. c.maxScope \in Nat /\ k \in 1 .. c.maxScope /\ h = k - 1
  BY DEF IsScope
<1> DEFINE r == Reached(quads, c, s, paths)
<1>2. \A i \in 1 .. c.maxScope : \A q :
        q \in r[i] <=> /\ q \in quads /\ Lets(c, s, paths, q, i)
                      /\ \E o \in r[i - 1] : o.object = q.subject
  BY <1>1, ReachedSteps
<1> HIDE DEF r
<1>3. \A q : q \in r[k] <=> /\ q \in quads /\ Lets(c, s, paths, q, k)
                            /\ Meets(r[k - 1], q.subject)
  BY <1>1, <1>2 DEF Meets
<1>4. QED
  BY <1>1, <1>3 DEF r

\* The molecule of s when all scopes below k and the first j lines at scope k
\* have been added: what it has at scope 0 and where it is listed, ...
Listed(n, T, s) ==
  /\ \A x : x \in ObjectsOf(n.molecules[s]) <=> \E q \in Range(T) : q.subject = s /\ q.object = x
  /\ \A q \in Range(T) : q.subject = s => s \in n.inv_molecules[q.object]
  /\ s \in n.TypesM[GetType(s)]

\* ... what it has above, ...
Sound(n, T, c, tm, s, k) ==
  \A e \in n.edges[s] :
    /\ e.scope \in 1 .. k
    /\ s \in n.inv_molecules[e.obj]
    /\ \E q \in Reached(Range(T), c, s, Range(c.paths))[e.scope] : Made(e, q, tm[GetType(s)], e.scope)

\* ... and what it cannot lack.
Complete(n, T, c, tm, s, k, j) ==
  \A J \in Demands(c) : \A i \in 1 .. k : \A q \in Reached(Range(T), c, s, J)[i] :
    i < k \/ (\E l \in 1 .. j : q = T[l]) => \E e \in n.edges[s] : Made(e, q, tm[GetType(s)], i)

\* What is the same at all scopes.
Holding(n, T, my, tm) ==
  /\ \A s \in my : \A x :
       x \in Elements(n.molecules[s]) <=> \E q \in Range(T) : q.subject = s /\ x = ElementOf(tm, q)
  /\ \A s \in KEY_ID \ my : n.molecules[s] = NoMolecule
  /\ \A o \in KEY_ID : n.inv_molecules[o] \subseteq my

Nests(n, T, c, my, tm, k, j) ==
  /\ Memory(n, my, tm) /\ n.tripleIDs = T
  /\ Holding(n, T, my, tm)
  /\ \A s \in my : Listed(n, T, s) /\ Sound(n, T, c, tm, s, k) /\ Complete(n, T, c, tm, s, k, j)

\* The parts of a node's lines and configuration.
Given(T, c, my, tm) ==
  /\ T \in Seq(Quads) /\ IsDataset(Range(T)) /\ IsConfig(c)
  /\ my \subseteq {q.subject : q \in Range(T)}
  /\ Stored(tm, Range(T), c)

\* What is found at the depth above is reached one scope above.
LEMMA EntitiesReached ==
  ASSUME NEW n, NEW T, NEW c, IsConfig(c), NEW tm, NEW s, NEW k, NEW h, IsScope(c, k, h),
         Listed(n, T, s), Sound(n, T, c, tm, s, k), NEW x,
         x \in EntitiesAt(n.molecules[s], n.edges[s], h)
  PROVE  Meets(Reached(Range(T), c, s, Range(c.paths))[h], x)
<1>0. k \in Nat /\ k >= 1 /\ h = k - 1
  BY DEF IsScope
<1>1. \A q : q \in Reached(Range(T), c, s, Range(c.paths))[0] <=> q \in Range(T) /\ q.subject = s
  BY ReachedFirst
<1>2. CASE h = 0
  <2>1. x \in ObjectsOf(n.molecules[s])
    BY <1>2 DEF EntitiesAt
  <2>2. PICK q \in Range(T) : q.subject = s /\ q.object = x
    BY <2>1 DEF Listed
  <2>3. QED
    BY <1>1, <1>2, <2>2 DEF Meets
<1>3. CASE h # 0
  <2>1. PICK e \in n.edges[s] : e.scope = h /\ e.obj = x
    BY <1>3 DEF EntitiesAt
  <2>2. PICK q \in Reached(Range(T), c, s, Range(c.paths))[e.scope] : Made(e, q, tm[GetType(s)], e.scope)
    BY <2>1 DEF Sound
  <2>3. QED
    BY <2>1, <2>2 DEF Made, Meets
<1>4. QED
  BY <1>2, <1>3

\* What must be reached one scope above is found at the depth above, and the
\* index knows.
LEMMA ReachedFound ==
  ASSUME NEW n, NEW T, NEW c, IsConfig(c), NEW tm, NEW s, NEW k, NEW h, IsScope(c, k, h), NEW j,
         Listed(n, T, s), Sound(n, T, c, tm, s, k), Complete(n, T, c, tm, s, k, j),
         NEW J \in Demands(c), NEW q \in Reached(Range(T), c, s, J)[h]
  PROVE  /\ q.object \in EntitiesAt(n.molecules[s], n.edges[s], h)
         /\ s \in n.inv_molecules[q.object]
<1>0. k \in Nat /\ k >= 1 /\ h = k - 1
  BY DEF IsScope
<1>1. \A r : r \in Reached(Range(T), c, s, J)[0] <=> r \in Range(T) /\ r.subject = s
  BY ReachedFirst
<1>2. CASE h = 0
  <2>1. q \in Range(T) /\ q.subject = s
    BY <1>1, <1>2
  <2>2. q.object \in ObjectsOf(n.molecules[s]) /\ s \in n.inv_molecules[q.object]
    BY <2>1 DEF Listed
  <2>3. QED
    BY <1>2, <2>2 DEF EntitiesAt
<1>3. CASE h # 0
  <2>1. h \in 1 .. k /\ h < k
    BY <1>0, <1>3
  <2>2. PICK e \in n.edges[s] : Made(e, q, tm[GetType(s)], h)
    BY <2>1 DEF Complete
  <2>3. e.scope = h /\ e.obj = q.object
    BY <2>2 DEF Made
  <2>4. s \in n.inv_molecules[q.object]
    BY <2>3 DEF Sound
  <2>5. QED
    BY <1>3, <2>3, <2>4 DEF EntitiesAt
<1>4. QED
  BY <1>2, <1>3

\* A line at a scope.
LEMMA LineNests ==
  ASSUME NEW T, NEW c, NEW my, NEW tm, Given(T, c, my, tm), NEW k \in 1 .. c.maxScope,
         NEW j \in 1 .. Len(T), NEW n, Nests(n, T, c, my, tm, k, j - 1)
  PROVE  Nests(AddTripleAt(n, T[j], k), T, c, my, tm, k, j)
<1>1. PICK q : q = T[j]
  OBVIOUS
<1>2. T \in Seq(Quads) /\ IsDataset(Range(T)) /\ IsConfig(c)
  BY DEF Given
<1>3. q \in Quads /\ q \in Range(T)
  BY <1>1, <1>2 DEF Range
<1>4. k \in Nat \ {0} /\ c.maxScope \in Nat /\ k \in 1 .. c.maxScope
  BY <1>2 DEF IsConfig
<1>0. PICK h : h = k - 1
  OBVIOUS
<1>14. IsScope(c, k, h)
  BY <1>0, <1>4 DEF IsScope
<1>5. PICK m : m = AddTripleAt(n, q, k)
  OBVIOUS
<1>6. IsStored(tm) /\ Memory(n, my, tm) /\ n.tripleIDs = T
  BY DEF Given, Stored, Nests
<1>7. Memory(m, my, tm) /\ Keeps(m, n) /\ GrownBy(m, n, tm, q, k)
  BY <1>3, <1>4, <1>5, <1>6, TripleAdded
<1>8. my \subseteq KEY_ID
  BY <1>2 DEF Given, IsDataset, Quads
<1>9. \A x \in Quads : x.object \in KEY_ID
  BY DEF Quads
<1>10. Range(T) \subseteq Quads
  BY <1>2 DEF IsDataset
<1>11. ASSUME NEW s \in my
       PROVE  Listed(m, T, s) /\ Sound(m, T, c, tm, s, k) /\ Complete(m, T, c, tm, s, k, j)
  <2>1. Listed(n, T, s) /\ Sound(n, T, c, tm, s, k) /\ Complete(n, T, c, tm, s, k, j - 1)
    BY DEF Nests
  <2>2. s \in KEY_ID /\ GetType(s) \in TYPE_ID /\ GetType(s) \in DOMAIN SubTypes
    BY <1>8, TypesAreNumbers, TypesAssumption
  <2>3. /\ m.molecules = n.molecules
        /\ n.edges[s] \subseteq m.edges[s]
        /\ \A e \in m.edges[s] \ n.edges[s] :
             /\ Made(e, q, tm[GetType(s)], k)
             /\ q.subject \in EntitiesAt(n.molecules[s], n.edges[s], h)
             /\ s \in m.inv_molecules[q.object]
        /\ /\ s \in n.inv_molecules[q.subject]
           /\ s \in n.TypesM[GetType(s)]
           /\ Has(tm[GetType(s)], TemplateOf(q), k)
           /\ q.subject \in EntitiesAt(n.molecules[s], n.edges[s], h)
           => \E e \in m.edges[s] : Made(e, q, tm[GetType(s)], k)
    BY <1>0, <1>7, <2>2 DEF GrownBy
  <2>4. /\ \A x \in KEY_ID : n.inv_molecules[x] \subseteq m.inv_molecules[x]
        /\ n.TypesM[GetType(s)] \subseteq m.TypesM[GetType(s)]
    BY <1>7, <2>2 DEF Keeps
  <2>5. Listed(m, T, s)
    BY <1>9, <1>10, <2>1, <2>3, <2>4 DEF Listed
  <2>6. Sound(m, T, c, tm, s, k)
    <3>1. ASSUME NEW e \in m.edges[s], e \in n.edges[s]
          PROVE  /\ e.scope \in 1 .. k
                 /\ s \in m.inv_molecules[e.obj]
                 /\ \E r \in Reached(Range(T), c, s, Range(c.paths))[e.scope] : Made(e, r, tm[GetType(s)], e.scope)
      <4>1. /\ e.scope \in 1 .. k
            /\ s \in n.inv_molecules[e.obj]
        BY <2>1, <3>1 DEF Sound
      <4>2. PICK r \in Reached(Range(T), c, s, Range(c.paths))[e.scope] : Made(e, r, tm[GetType(s)], e.scope)
        BY <2>1, <3>1 DEF Sound
      <4>3. e.scope \in 1 .. c.maxScope
        BY <1>2, <4>1 DEF IsConfig
      <4>4. r \in Range(T)
        <5>1. IsScope(c, e.scope, e.scope - 1)
          BY <1>4, <4>3 DEF IsScope
        <5>2. QED
          BY <1>2, <4>2, <5>1, ReachedNext
      <4>5. e.obj \in KEY_ID
        BY <1>9, <1>10, <4>2, <4>4 DEF Made
      <4>6. QED
        BY <2>4, <4>1, <4>2, <4>5
    <3>2. ASSUME NEW e \in m.edges[s], e \notin n.edges[s]
          PROVE  /\ e.scope \in 1 .. k
                 /\ s \in m.inv_molecules[e.obj]
                 /\ \E r \in Reached(Range(T), c, s, Range(c.paths))[e.scope] : Made(e, r, tm[GetType(s)], e.scope)
      <4>1. /\ Made(e, q, tm[GetType(s)], k)
            /\ q.subject \in EntitiesAt(n.molecules[s], n.edges[s], h)
            /\ s \in m.inv_molecules[q.object]
        BY <2>3, <3>2
      <4>2. e.scope = k /\ e.obj = q.object
        BY <4>1 DEF Made
      <4>3. Meets(Reached(Range(T), c, s, Range(c.paths))[h], q.subject)
        BY <1>2, <1>14, <2>1, <4>1, EntitiesReached
      <4>4. Lets(c, s, Range(c.paths), q, k)
        <5>1. PICK u \in tm[GetType(s)] : IsFor(u, q, k, e.tmpl)
          BY <4>1 DEF Made
        <5>2. u.scope = k /\ u.subjectType = GetType(q.subject)
          BY <5>1 DEF IsFor, SameTemplate, At, TemplateOf
        <5>3. u.scope <= c.minScope
                \/ \E path \in Range(c.paths) : LeadsTo(path, GetType(s), u.subjectType, u.scope)
          BY <2>2 DEF Given, Stored, Allowed
        <5>4. QED
          BY <5>2, <5>3 DEF Lets, Leads, LeadsTo
      <4>5. q \in Reached(Range(T), c, s, Range(c.paths))[k]
        BY <1>2, <1>3, <1>14, <4>3, <4>4, ReachedNext
      <4>6. QED
        BY <1>4, <4>1, <4>2, <4>5
    <3>3. QED
      BY <3>1, <3>2 DEF Sound
  <2>7. ASSUME NEW J \in Demands(c), NEW i \in 1 .. k, NEW r \in Reached(Range(T), c, s, J)[i],
               i < k \/ \E l \in 1 .. j : r = T[l]
        PROVE  \E e \in m.edges[s] : Made(e, r, tm[GetType(s)], i)
    <3>1. CASE i < k \/ \E l \in 1 .. (j - 1) : r = T[l]
      BY <2>1, <2>3, <3>1 DEF Complete
    <3>2. CASE i = k /\ r = q
      <4>0. q \in Reached(Range(T), c, s, J)[k]
        BY <3>2
      <4>1. PICK o \in Reached(Range(T), c, s, J)[h] : o.object = q.subject
        <5>1. Meets(Reached(Range(T), c, s, J)[h], q.subject)
          BY <1>2, <1>14, <4>0, ReachedNext
        <5>2. QED
          BY <5>1 DEF Meets
      <4>2. /\ q.subject \in EntitiesAt(n.molecules[s], n.edges[s], h)
            /\ s \in n.inv_molecules[q.subject]
        <5>1. PICK l : l = j - 1
          OBVIOUS
        <5>2. Complete(n, T, c, tm, s, k, l)
          BY <2>1, <5>1
        <5>3. /\ o.object \in EntitiesAt(n.molecules[s], n.edges[s], h)
              /\ s \in n.inv_molecules[o.object]
          BY <1>2, <1>14, <2>1, <5>2, ReachedFound
        <5>4. QED
          BY <4>1, <5>3
      <4>3. Has(tm[GetType(s)], TemplateOf(q), k)
        <5>1. Suffices(tm[GetType(s)], TriplesOf(Range(T)), GetType(s), c.minScope, J)
          BY <2>2 DEF Given, Stored
        <5>2. k \in 0 .. c.maxScope
          BY <1>2 DEF IsConfig
        <5>3. QED
          BY <1>2, <3>2, <5>1, <5>2, ReachedHas
      <4>4. s \in n.TypesM[GetType(s)]
        BY <2>1 DEF Listed
      <4>5. QED
        BY <2>3, <3>2, <4>2, <4>3, <4>4
    <3>3. i < k \/ i = k
      BY <1>4
    <3>4. \A l \in 1 .. j : l \in 1 .. (j - 1) \/ l = j
      BY <1>2
    <3>5. QED
      BY <1>1, <2>7, <3>1, <3>2, <3>3, <3>4
  <2>8. QED
    BY <2>5, <2>6, <2>7 DEF Complete
<1>12. m.tripleIDs = T /\ Holding(m, T, my, tm)
  <2>1. Holding(n, T, my, tm)
    BY DEF Nests
  <2>2. m.molecules = n.molecules
    BY <1>7 DEF GrownBy
  <2>3. q.subject \in KEY_ID
    BY <1>3 DEF Quads
  <2>4. \A o \in KEY_ID : m.inv_molecules[o] \subseteq my
    BY <1>7, <2>1, <2>3 DEF GrownBy, Holding
  <2>5. QED
    BY <1>6, <1>7, <2>1, <2>2, <2>4 DEF Keeps, Holding
<1>13. QED
  BY <1>1, <1>5, <1>7, <1>11, <1>12 DEF Nests

\* The next scope starts where the lines of one are done.
LEMMA NextScope ==
  ASSUME NEW T, NEW c, NEW my, NEW tm, Given(T, c, my, tm), NEW k \in 1 .. c.maxScope, NEW n,
         Nests(n, T, c, my, tm, k, Len(T)), NEW next, next = k + 1
  PROVE  Nests(n, T, c, my, tm, next, 0)
<1>1. T \in Seq(Quads) /\ IsConfig(c)
  BY DEF Given
<1>2. /\ k \in Nat /\ c.maxScope \in Nat
      /\ \A i : i \in 1 .. k => i \in 1 .. next
  BY <1>1 DEF IsConfig
<1>3. ASSUME NEW s \in my
      PROVE  Listed(n, T, s) /\ Sound(n, T, c, tm, s, next) /\ Complete(n, T, c, tm, s, next, 0)
  <2>1. Listed(n, T, s) /\ Sound(n, T, c, tm, s, k) /\ Complete(n, T, c, tm, s, k, Len(T))
    BY DEF Nests
  <2>2. Sound(n, T, c, tm, s, next)
    BY <1>2, <2>1 DEF Sound
  <2>3. ASSUME NEW J \in Demands(c), NEW i \in 1 .. next, NEW q \in Reached(Range(T), c, s, J)[i],
               i < next \/ \E l \in 1 .. 0 : q = T[l]
        PROVE  \E e \in n.edges[s] : Made(e, q, tm[GetType(s)], i)
    <3>1. i \in 1 .. k
      BY <1>2, <2>3
    <3>2. IsScope(c, i, i - 1)
      BY <1>2, <3>1 DEF IsScope
    <3>3. q \in Range(T)
      BY <1>1, <3>2, ReachedNext
    <3>4. \E l \in 1 .. Len(T) : q = T[l]
      BY <1>1, <3>3 DEF Range
    <3>5. QED
      BY <2>1, <3>1, <3>4 DEF Complete
  <2>4. QED
    BY <2>1, <2>2, <2>3 DEF Complete
<1>4. QED
  BY <1>3 DEF Nests

\* All lines at a scope.
LEMMA ScopeNests ==
  ASSUME NEW T, NEW c, NEW my, NEW tm, Given(T, c, my, tm), NEW k \in 1 .. c.maxScope, NEW n,
         Nests(n, T, c, my, tm, k, 0), NEW next, next = k + 1
  PROVE  Nests(LoadScope(n, k), T, c, my, tm, next, 0)
<1>1. PICK len : len = Len(T) /\ len \in Nat /\ DOMAIN T = 1 .. len
  BY DEF Given
<1>2. PICK r : r = LoadScope(n, k)
  OBVIOUS
<1> DEFINE loop == [of |-> "lines of a scope", scope |-> k]
<1>3. n.tripleIDs = T
  BY DEF Nests
<1>4. Runs(loop, n, T, r)
  BY <1>1, <1>2, <1>3, ScopeLinesRun
<1>5. PICK h : Passes(h, loop, n, T, len) /\ r = h[len]
  BY <1>1, <1>4 DEF Runs
<1>6. h[0] = n /\ \A j \in 1 .. len : h[j] = AddTripleAt(h[j - 1], T[j], k)
  BY <1>5 DEF Passes, Turn
<1> DEFINE G == {j \in Nat : Nests(h[j], T, c, my, tm, k, j)}
<1>7. 0 \in G
  BY <1>6
<1>8. ASSUME NEW j \in 1 .. len, j - 1 \in G
      PROVE  j \in G
  <2>1. Nests(h[j - 1], T, c, my, tm, k, j - 1) /\ j \in 1 .. Len(T) /\ j \in Nat
    BY <1>1, <1>8
  <2>2. Nests(AddTripleAt(h[j - 1], T[j], k), T, c, my, tm, k, j)
    BY <2>1, LineNests
  <2>3. QED
    BY <1>6, <2>1, <2>2
<1> HIDE DEF G
<1>9. len \in G
  BY <1>1, <1>7, <1>8, AfterAllTurns
<1>10. Nests(r, T, c, my, tm, k, Len(T))
  BY <1>1, <1>5, <1>9 DEF G
<1>11. QED
  BY <1>2, <1>10, NextScope

\* Before the first.
LEMMA FirstScope ==
  ASSUME NEW T, NEW c, NEW my, NEW tm, Given(T, c, my, tm), NEW n,
         Memory(n, my, tm), Placed(n, T, my, tm, Len(T))
  PROVE  Nests(n, T, c, my, tm, 1, 0)
<1>1. T \in Seq(Quads) /\ my \subseteq {q.subject : q \in Range(T)}
  BY DEF Given
<1>2. \A q : q \in Range(T) <=> \E i \in 1 .. Len(T) : q = T[i]
  BY <1>1 DEF Range
<1>3. ASSUME NEW s \in my
      PROVE  Listed(n, T, s) /\ Sound(n, T, c, tm, s, 1) /\ Complete(n, T, c, tm, s, 1, 0)
  <2>1. PICK q0 \in Range(T) : q0.subject = s
    BY <1>1
  <2>2. \A q \in Range(T) : q.subject = s => s \in n.inv_molecules[q.object] /\ s \in n.TypesM[GetType(s)]
    BY <1>2, <1>3 DEF Placed
  <2>0. \A x : x \in Elements(n.molecules[s]) <=> \E q \in Range(T) : q.subject = s /\ x = ElementOf(tm, q)
    BY <1>2, <1>3 DEF Placed
  <2>3. \A x : x \in ObjectsOf(n.molecules[s]) <=> \E q \in Range(T) : q.subject = s /\ q.object = x
    <3>1. \A q : ElementOf(tm, q).obj = q.object
      BY DEF ElementOf
    <3>2. QED
      BY <2>0, <3>1 DEF ObjectsOf
  <2>4. Listed(n, T, s)
    BY <2>1, <2>2, <2>3 DEF Listed
  <2>5. n.edges[s] = {}
    <3>1. q0.subject \in KEY_ID
      <4>1. q0 \in Quads
        BY DEF Given, IsDataset
      <4>2. QED
        BY <4>1 DEF Quads
    <3>2. QED
      BY <2>1, <3>1 DEF Placed, Empty
  <2>6. QED
    BY <2>4, <2>5 DEF Sound, Complete
<1>4. n.tripleIDs = T /\ Holding(n, T, my, tm)
  BY <1>2 DEF Placed, Holding
<1>5. QED
  BY <1>3, <1>4 DEF Nests

\* All scopes.
LEMMA AllNest ==
  ASSUME NEW T, NEW c, NEW my, NEW tm, Given(T, c, my, tm), NEW last, last = c.maxScope + 1,
         NEW r, r = FoldLeft(LoadScope, LoadScope0(Start(T, my, tm)), [i \in 1 .. c.maxScope |-> i])
  PROVE  Nests(r, T, c, my, tm, last, 0)
<1>1. /\ T \in Seq(Quads) /\ c.maxScope \in Nat /\ IsStored(tm)
      /\ my \in SUBSET KEY_ID
  <2>1. IsDataset(Range(T)) /\ my \subseteq {q.subject : q \in Range(T)}
    BY DEF Given
  <2>2. \A q \in Range(T) : q.subject \in KEY_ID
    BY <2>1 DEF IsDataset, Quads
  <2>3. QED
    BY <2>1, <2>2 DEF Given, IsConfig, Stored
<1>2. PICK n0 : n0 = LoadScope0(Start(T, my, tm))
  OBVIOUS
<1>3. PICK len : len = c.maxScope
  OBVIOUS
<1>4. PICK S : S = [i \in 1 .. len |-> i]
  OBVIOUS
<1>5. DOMAIN S = 1 .. len /\ Len(S) = len /\ \A i \in 1 .. len : S[i] = i
  <2>1. S \in Seq(1 .. len)
    BY <1>1, <1>3, <1>4
  <2>2. QED
    BY <1>1, <1>3, <1>4, <2>1
<1>6. Nests(n0, T, c, my, tm, 1, 0)
  BY <1>1, <1>2, AllPlaced, FirstScope
<1> DEFINE loop == [of |-> "scopes"]
<1>7. r = FoldLeft(LoadScope, n0, S)
  BY <1>2, <1>3, <1>4
<1>8. Runs(loop, n0, S, r)
  BY <1>1, <1>3, <1>5, <1>7, ScopesRun
<1>9. PICK h : Passes(h, loop, n0, S, len) /\ r = h[len]
  BY <1>5, <1>8 DEF Runs
<1>10. h[0] = n0 /\ \A k \in 1 .. len : h[k] = LoadScope(h[k - 1], k)
  BY <1>5, <1>9 DEF Passes, Turn
<1> DEFINE G == {k \in Nat : Nests(h[k], T, c, my, tm, k + 1, 0)}
<1>11. 0 \in G
  BY <1>6, <1>10
<1>12. ASSUME NEW k \in 1 .. len, k - 1 \in G
       PROVE  k \in G
  <2>1. k \in Nat /\ k \in 1 .. c.maxScope /\ (k - 1) + 1 = k
    BY <1>1, <1>3
  <2>2. Nests(h[k - 1], T, c, my, tm, k, 0)
    BY <1>12, <2>1
  <2>3. Nests(LoadScope(h[k - 1], k), T, c, my, tm, k + 1, 0)
    BY <2>1, <2>2, ScopeNests
  <2>4. QED
    BY <1>10, <2>1, <2>3
<1> HIDE DEF G
<1>13. len \in G
  BY <1>1, <1>3, <1>11, <1>12, AfterAllTurns
<1>14. QED
  BY <1>3, <1>9, <1>13 DEF G

\* GetPredicate gives an edge the predicate of its line.
LEMMA EdgeSays ==
  ASSUME NEW tm, NEW root, Numbered(tm[root]), NEW e, NEW q \in Quads, NEW k, Made(e, q, tm[root], k)
  PROVE  q = [subject |-> e.subj, predicate |-> GetPredicate(tm, root, e.tmpl),
              object |-> e.obj, prov |-> e.prov]
<1>1. PICK u \in tm[root] : IsFor(u, q, k, e.tmpl)
  BY DEF Made
<1>2. u.ID = e.tmpl /\ u.predicateID = q.predicate
  BY <1>1 DEF IsFor, SameTemplate, At, TemplateOf
<1>3. {v \in tm[root] : v.ID = e.tmpl} = {u}
  BY <1>1, <1>2 DEF Numbered
<1>4. GetPredicate(tm, root, e.tmpl) = (CHOOSE v \in {u} : TRUE).predicateID
  BY <1>3 DEF GetPredicate
<1>5. (CHOOSE v \in {u} : TRUE) = u
  OBVIOUS
<1>6. PICK p : p = GetPredicate(tm, root, e.tmpl)
  OBVIOUS
<1>7. p = q.predicate
  BY <1>2, <1>4, <1>5, <1>6
<1>8. e.subj = q.subject /\ e.obj = q.object /\ e.prov = q.prov
  BY DEF Made
<1>9. q = [subject |-> q.subject, predicate |-> q.predicate, object |-> q.object, prov |-> q.prov]
  BY DEF Quads
<1>10. QED
  BY <1>6, <1>7, <1>8, <1>9

\* The record of an edge.
Saying(n, s, e) ==
  [subject |-> e.subj, predicate |-> GetPredicate(n.templates, GetType(s), e.tmpl),
   object |-> e.obj, prov |-> e.prov]

LEMMA SaysEdges ==
  ASSUME NEW n, NEW s, NEW k
  PROVE  \A x : x \in Says(n, s, k) <=> \E e \in n.edges[s] : e.scope = k /\ x = Saying(n, s, e)
BY DEF Says, Saying

\* What a node has in memory is nested.
LEMMA MemoryNested ==
  ASSUME NEW T, NEW c, NEW my, NEW tm, Given(T, c, my, tm), NEW n, NEW last, last = c.maxScope + 1,
         Nests(n, T, c, my, tm, last, 0), NEW s \in my
  PROVE  Nested(n, Range(T), c, s)
<1>1. PICK quads : quads = Range(T)
  OBVIOUS
<1>2. PICK all : all = Range(c.paths)
  OBVIOUS
<1>3. IsDataset(quads) /\ IsConfig(c) /\ quads \subseteq Quads
  BY <1>1 DEF Given, IsDataset
<1>4. Listed(n, T, s) /\ Sound(n, T, c, tm, s, last) /\ Complete(n, T, c, tm, s, last, 0)
  BY DEF Nests
<1>5. n.templates = tm
  BY DEF Nests, Memory
<1>6. Numbered(tm[GetType(s)])
  <2>1. PICK q \in quads : q.subject = s
    BY <1>1 DEF Given
  <2>2. q \in Quads
    BY <1>3
  <2>3. GetType(s) \in TYPE_ID
    BY <2>1, <2>2, TypesAreNumbers DEF Quads
  <2>4. QED
    BY <2>3 DEF Given, Stored, IsStored
<1>7. ASSUME NEW e, NEW q \in Quads, NEW k, Made(e, q, tm[GetType(s)], k)
      PROVE  q = Saying(n, s, e) /\ e.scope = k /\ e.obj = q.object
  BY <1>5, <1>6, <1>7, EdgeSays DEF Saying, Made
<1>8. c.maxScope \in Nat
  BY <1>3 DEF IsConfig
<1>9. ASSUME NEW k \in 1 .. c.maxScope, NEW J, NEW q \in Reached(quads, c, s, J)[k]
      PROVE  q \in quads
  <2>1. IsScope(c, k, k - 1)
    BY <1>8 DEF IsScope
  <2>2. QED
    BY <1>3, <1>9, <2>1, ReachedNext
<1>10. ASSUME NEW k \in 1 .. c.maxScope, NEW x \in Says(n, s, k)
       PROVE  x \in Reached(quads, c, s, all)[k] /\ s \in n.inv_molecules[x.object]
  <2>1. PICK e \in n.edges[s] : e.scope = k /\ x = Saying(n, s, e)
    BY SaysEdges
  <2>2. PICK q \in Reached(quads, c, s, all)[k] : Made(e, q, tm[GetType(s)], k)
    BY <1>1, <1>2, <1>4, <2>1 DEF Sound
  <2>3. q \in Quads
    BY <1>3, <1>9
  <2>4. q = x /\ e.obj = q.object
    BY <1>7, <2>1, <2>2, <2>3
  <2>5. s \in n.inv_molecules[e.obj]
    BY <1>4 DEF Sound
  <2>6. QED
    BY <2>2, <2>4, <2>5
<1>11. ASSUME NEW k \in 1 .. c.maxScope, NEW J \in Demands(c), NEW q \in Reached(quads, c, s, J)[k]
       PROVE  q \in Says(n, s, k)
  <2>1. k \in 1 .. last /\ k < last
    BY <1>8
  <2>2. PICK e \in n.edges[s] : Made(e, q, tm[GetType(s)], k)
    BY <1>1, <1>4, <2>1 DEF Complete
  <2>3. q \in Quads
    BY <1>3, <1>9
  <2>4. q = Saying(n, s, e) /\ e.scope = k
    BY <1>7, <2>2, <2>3
  <2>5. QED
    BY <2>4, SaysEdges
<1>12. {} \in Demands(c) /\ \A path \in all : {path} \in Demands(c)
  BY <1>2 DEF Demands
<1>13. ASSUME NEW q \in Reached(quads, c, s, {})[0]
       PROVE  s \in n.inv_molecules[q.object]
  <2>1. q \in quads /\ q.subject = s
    BY <1>3, ReachedFirst
  <2>2. QED
    BY <1>1, <1>4, <2>1 DEF Listed
<1>14. ASSUME NEW k \in 1 .. c.maxScope
       PROVE  /\ Says(n, s, k) \subseteq Reached(quads, c, s, all)[k]
              /\ \A path \in all : Reached(quads, c, s, {path})[k] \subseteq Says(n, s, k)
              /\ Reached(quads, c, s, {})[k] \subseteq Says(n, s, k)
              /\ \A q \in Says(n, s, k) : s \in n.inv_molecules[q.object]
  BY <1>10, <1>11, <1>12
<1>15. Nested(n, quads, c, s)
  BY <1>2, <1>13, <1>14 DEF Nested
<1>16. QED
  BY <1>1, <1>15

\* So is a node when it is loaded, with the subjects it was dealt.
LEMMA LoadedNested ==
  ASSUME NEW T \in Seq(Quads), NEW c, IsConfig(c), NEW quads, quads = Range(T), IsDataset(quads),
         NEW my, my \subseteq {q.subject : q \in quads}
  PROVE  /\ Loaded(T, my, c).myMolecules = my
         /\ \A s \in my : Nested(Loaded(T, my, c), quads, c, s)
<1>1. PICK tm : tm = TemplatesOf(quads, c)
  OBVIOUS
<1>3. Given(T, c, my, tm)
  <2>1. Stored(tm, quads, c)
    BY <1>1, TemplatesFit
  <2>2. QED
    BY <2>1 DEF Given
<1>4. PICK r : r = FoldLeft(LoadScope, LoadScope0(Start(T, my, tm)), [i \in 1 .. c.maxScope |-> i])
  OBVIOUS
<1>5. PICK last : last = c.maxScope + 1
  OBVIOUS
<1>6. Nests(r, T, c, my, tm, last, 0)
  BY <1>3, <1>4, <1>5, AllNest
<1>7. Loaded(T, my, c) = [r EXCEPT !.at = "loaded"]
  BY <1>1, <1>4, Zenon DEF Loaded, LoadLines, Start
<1>8. PICK n : n = Loaded(T, my, c)
  OBVIOUS
<1>9. /\ n.myMolecules = my
      /\ n.edges = r.edges /\ n.templates = r.templates /\ n.inv_molecules = r.inv_molecules
  BY <1>6, <1>7, <1>8 DEF Nests, Memory
<1>10. \A s \in my : Nested(r, Range(T), c, s)
  BY <1>3, <1>5, <1>6, MemoryNested
<1>11. \A s, k : Says(n, s, k) = Says(r, s, k)
  BY <1>9 DEF Says
<1>12. \A s \in my : Nested(n, Range(T), c, s)
  BY <1>9, <1>10, <1>11 DEF Nested
<1>13. QED
  BY <1>8, <1>9, <1>12
------------------------------------------------------------------------------
(***************************************************************************)
(* The nodes.                                                              *)
(***************************************************************************)

NodesNest ==
  \A i \in Nodes : \A s \in node[i].myMolecules : Nested(node[i], lines, config, s)

LEMMA InitNests == Init => NodesNest
<1> SUFFICES ASSUME Init PROVE NodesNest
  OBVIOUS
<1> DEFINE Dealt(order, place) ==
             node = [i \in Nodes |-> Loaded(order, {s \in SubjectsOf(lines) : place[s] = i}, config)]
<1>1. PICK d \in Datasets :
        \E extra \in SUBSET d.optional :
          /\ lines = d.lines \union extra
          /\ config = d.config
          /\ \E order \in LineOrders(lines, config) : \E place \in [SubjectsOf(lines) -> Nodes] :
               Dealt(order, place)
  BY DEF Init
<1>2. PICK extra \in SUBSET d.optional :
        /\ lines = d.lines \union extra
        /\ config = d.config
        /\ \E order \in LineOrders(lines, config) : \E place \in [SubjectsOf(lines) -> Nodes] :
             Dealt(order, place)
  BY <1>1
<1>3. PICK order \in LineOrders(lines, config) : \E place \in [SubjectsOf(lines) -> Nodes] : Dealt(order, place)
  BY <1>2
<1>4. PICK place \in [SubjectsOf(lines) -> Nodes] : Dealt(order, place)
  BY <1>3
<1>5. order \in Seq(Quads) /\ Range(order) = lines
  BY <1>2, <1>3, OrdersAssumption
<1>6. IsDataset(lines)
  <2>1. lines \subseteq d.lines \union d.optional
    BY <1>2
  <2>2. /\ d.lines \union d.optional \subseteq {q \in Quads : GetType(q.subject) >= 2}
        /\ IsFiniteSet(d.lines \union d.optional)
    BY DatasetsAssumption
  <2>3. IsFiniteSet(lines)
    BY <2>1, <2>2, FS_Subset
  <2>4. QED
    BY <2>1, <2>2, <2>3 DEF IsDataset
<1>7. IsConfig(config)
  BY <1>2, DatasetsAssumption DEF IsConfig
<1>8. ASSUME NEW i \in Nodes, NEW s \in node[i].myMolecules
      PROVE  Nested(node[i], lines, config, s)
  <2>1. PICK my : my = {x \in SubjectsOf(lines) : place[x] = i}
    OBVIOUS
  <2>2. node[i] = Loaded(order, my, config)
    BY <1>4, <2>1
  <2>3. my \subseteq {q.subject : q \in lines}
    BY <2>1 DEF SubjectsOf
  <2>4. /\ Loaded(order, my, config).myMolecules = my
        /\ \A x \in my : Nested(Loaded(order, my, config), lines, config, x)
    BY <1>5, <1>6, <1>7, <2>3, LoadedNested
  <2>5. QED
    BY <1>8, <2>2, <2>4
<1>9. QED
  BY <1>8 DEF NodesNest

\* No step loads anything.
LEMMA StepKeepsNodes == [Next]_vars => UNCHANGED <<node, lines, config>>
<1> SUFFICES ASSUME [Next]_vars PROVE UNCHANGED <<node, lines, config>>
  OBVIOUS
<1>1. CASE UNCHANGED vars
  BY <1>1 DEF vars
<1>2. ASSUME NEW q \in queries, Ask(q) \/ AnswerAlone(q)
      PROVE  UNCHANGED <<node, lines, config>>
  BY <1>2 DEF Ask, AnswerAlone
<1>3. ASSUME NEW i \in Nodes, NodeAnswers(i)
      PROVE  UNCHANGED <<node, lines, config>>
  BY <1>3 DEF NodeAnswers
<1>4. CASE MasterReceives \/ MasterBroadcasts \/ MasterJoins
  BY <1>4 DEF MasterReceives, MasterBroadcasts, MasterJoins
<1>5. QED
  BY <1>1, <1>2, <1>3, <1>4 DEF Next

\* LoadData of Conductor and ConductorNode, and Molecules::AddTriple: whatever
\* the dataset, the configuration, the order of the lines and the nodes they
\* are dealt to, every molecule has below its objects, scope by scope, what is
\* there up to minScope and along each path, nothing to which no path leads,
\* and the index lists it under every object in it.
THEOREM LoadedMoleculesNest == Spec => []MoleculesNest
<1>1. Init => NodesNest
  BY InitNests
<1>2. NodesNest /\ [Next]_vars => NodesNest'
  <2> SUFFICES ASSUME NodesNest, [Next]_vars PROVE NodesNest'
    OBVIOUS
  <2>1. UNCHANGED <<node, lines, config>>
    BY StepKeepsNodes
  <2>2. QED
    BY <2>1 DEF NodesNest, Nested, Says
<1>3. NodesNest => MoleculesNest
  BY DEF NodesNest, MoleculesNest
<1>4. QED
  BY <1>1, <1>2, <1>3, PTL DEF Spec
------------------------------------------------------------------------------
(***************************************************************************)
(* The answers of queries that no node needs another node for.             *)
(***************************************************************************)

\* GetHierarchyForType of t, the calls it makes being h.
BelowType(h, t) == GetCompositesForTypes(t) \union UNION {{u} \union h[u] : u \in SubTypes[t]}

\* B is a set of types to which the recursion from within it keeps.
ClosedBelow(B) == B \subseteq DOMAIN SubTypes /\ \A t \in B : SubTypes[t] \subseteq B

\* There is no cycle, so a set that is closed below and has not all types can be
\* made larger by one.
LEMMA NextBelow ==
  ASSUME NEW B, ClosedBelow(B), B # DOMAIN SubTypes
  PROVE  \E t \in DOMAIN SubTypes \ B : SubTypes[t] \subseteq B
<1>1. PICK S : S = DOMAIN SubTypes \ B
  OBVIOUS
<1>2. S # {}
  BY <1>1 DEF ClosedBelow
<1>3. CASE \E t \in S : SubTypes[t] = {}
  BY <1>1, <1>3
<1>4. CASE \A t \in S : SubTypes[t] # {}
  <2>1. S \in SUBSET {t \in DOMAIN SubTypes : SubTypes[t] # {}}
    BY <1>1, <1>4
  <2>2. PICK t \in S : SubTypes[t] \intersect S = {}
    BY <1>2, <2>1, SubTypesAssumption
  <2>3. SubTypes[t] \subseteq DOMAIN SubTypes
    BY <1>1, TypesAssumption
  <2>4. QED
    BY <1>1, <2>2, <2>3
<1>5. QED
  BY <1>3, <1>4

\* So the recursion is defined on larger and larger such sets, at last on all.
LEMMA HierarchyUnfolds == \A t \in DOMAIN SubTypes : hierarchy[t] = BelowType(hierarchy, t)
<1>1. PICK n : n = Cardinality(DOMAIN SubTypes)
  OBVIOUS
<1>2. n \in Nat
  BY <1>1, TypesAssumption, FS_CardinalityType
<1>3. ASSUME NEW f, NEW g, NEW t \in DOMAIN SubTypes, \A u \in SubTypes[t] : f[u] = g[u]
      PROVE  BelowType(f, t) = BelowType(g, t)
  BY <1>3 DEF BelowType
<1> DEFINE On(f, B) == /\ DOMAIN f = DOMAIN SubTypes /\ f = [t \in DOMAIN SubTypes |-> f[t]]
                       /\ \A t \in B : f[t] = BelowType(f, t)
           G == {m \in Nat : \E B, f : /\ ClosedBelow(B) /\ On(f, B)
                                       /\ B = DOMAIN SubTypes \/ Cardinality(B) >= m}
<1>4. 0 \in G
  <2>1. On([t \in DOMAIN SubTypes |-> {}], {}) /\ ClosedBelow({}) /\ Cardinality({}) >= 0
    BY FS_EmptySet DEF ClosedBelow
  <2>2. QED
    BY <2>1
<1>5. ASSUME NEW m \in 1 .. n, m - 1 \in G
      PROVE  m \in G
  <2>1. PICK B, f : /\ ClosedBelow(B) /\ On(f, B)
                    /\ B = DOMAIN SubTypes \/ Cardinality(B) >= m - 1
    BY <1>5
  <2>2. CASE B = DOMAIN SubTypes
    BY <1>2, <2>1, <2>2
  <2>3. CASE B # DOMAIN SubTypes
    <3>1. PICK last \in DOMAIN SubTypes \ B : SubTypes[last] \subseteq B
      BY <2>1, <2>3, NextBelow
    <3>2. PICK E : E = B \union {last}
      OBVIOUS
    <3>3. ClosedBelow(E)
      BY <2>1, <3>1, <3>2 DEF ClosedBelow
    <3>4. IsFiniteSet(B)
      BY <2>1, TypesAssumption, FS_Subset DEF ClosedBelow
    <3>5. Cardinality(E) = Cardinality(B) + 1 /\ Cardinality(B) \in Nat
      BY <3>1, <3>2, <3>4, FS_AddElement, FS_CardinalityType
    <3>6. Cardinality(E) >= m
      BY <1>2, <2>1, <2>3, <3>5
    <3>7. PICK g : g = [t \in DOMAIN SubTypes |-> IF t = last THEN BelowType(f, last) ELSE f[t]]
      OBVIOUS
    <3>8. ASSUME NEW t \in E
          PROVE  g[t] = BelowType(g, t)
      <4>1. t \in DOMAIN SubTypes /\ SubTypes[t] \subseteq B /\ B \subseteq DOMAIN SubTypes
        BY <2>1, <3>1, <3>2, <3>8 DEF ClosedBelow
      <4>2. \A u \in SubTypes[t] : g[u] = f[u]
        BY <3>1, <3>7, <4>1
      <4>3. BelowType(g, t) = BelowType(f, t)
        BY <1>3, <4>1, <4>2
      <4>4. CASE t = last
        BY <3>7, <4>1, <4>3, <4>4
      <4>5. CASE t # last
        BY <2>1, <3>2, <3>7, <3>8, <4>1, <4>3, <4>5
      <4>6. QED
        BY <4>4, <4>5
    <3>9. On(g, E)
      BY <3>7, <3>8
    <3>10. QED
      BY <1>2, <3>3, <3>6, <3>9
  <2>4. QED
    BY <2>2, <2>3
<1> HIDE DEF G
<1>6. n \in G
  BY <1>2, <1>4, <1>5, AfterAllTurns
<1>7. PICK B, f : /\ ClosedBelow(B) /\ On(f, B)
                  /\ B = DOMAIN SubTypes \/ Cardinality(B) >= n
  BY <1>6 DEF G
<1>8. B = DOMAIN SubTypes
  <2>1. B \subseteq DOMAIN SubTypes
    BY <1>7 DEF ClosedBelow
  <2>2. Cardinality(B) <= n /\ Cardinality(B) \in Nat
    BY <1>1, <2>1, TypesAssumption, FS_Subset, FS_CardinalityType
  <2>3. B = DOMAIN SubTypes \/ Cardinality(B) = n
    BY <1>2, <1>7, <2>2
  <2>4. QED
    BY <1>1, <2>1, <2>3, TypesAssumption, FS_Subset
<1>9. f = [t \in DOMAIN SubTypes |-> BelowType(f, t)]
  BY <1>7, <1>8
<1>10. hierarchy = CHOOSE h : h = [t \in DOMAIN SubTypes |-> BelowType(h, t)]
  BY DEF hierarchy, BelowType
<1>11. hierarchy = [t \in DOMAIN SubTypes |-> BelowType(hierarchy, t)]
  BY <1>9, <1>10, Zenon
<1>12. QED
  BY <1>11

\* A class is in its own hierarchy; below type 0 there is nothing.
LEMMA HierarchyHas ==
  /\ \A t \in DOMAIN SubTypes : t \in GetHierarchyForType(t)
  /\ 0 \in DOMAIN SubTypes => GetHierarchyForType(0) = {0}
<1>1. \A t \in DOMAIN SubTypes : t \in BelowType(hierarchy, t)
  BY DEF BelowType, GetCompositesForTypes
<1>2. 0 \in DOMAIN SubTypes => SubTypes[0] = {}
  BY TypesAssumption
<1>3. 0 \in DOMAIN SubTypes => BelowType(hierarchy, 0) = {0}
  BY <1>2 DEF BelowType, GetCompositesForTypes
<1>4. QED
  BY <1>1, <1>3, HierarchyUnfolds DEF GetHierarchyForType
------------------------------------------------------------------------------
\* u is the template at scope 0 of what is said of s with p and o.
Suits(u, s, p, o) ==
  u.subjectType = GetType(s) /\ u.predicateID = p /\ u.objectType = GetType(o) /\ u.scope = 0

\* What a node with the subjects my, of all the quads, knows.
Knows(n, my, quads) ==
  /\ my \subseteq {q.subject : q \in quads}
  /\ IsStored(n.templates)
  /\ \A root \in TYPE_ID : \A u \in n.templates[root] : u.ID \in Nat /\ u.ID < TmplSpan
  /\ \A q \in quads : \E u \in n.templates[GetType(q.subject)] : Suits(u, q.subject, q.predicate, q.object)
  /\ \A s \in my : \A x :
       x \in Elements(n.molecules[s]) <=>
         \E q \in quads : q.subject = s /\ x = ElementOf(n.templates, q)
  /\ \A s \in KEY_ID \ my : n.molecules[s] = NoMolecule
  /\ \A o \in KEY_ID : n.inv_molecules[o] \subseteq my
  /\ \A q \in quads : q.subject \in my => q.subject \in n.inv_molecules[q.object]
  /\ DOMAIN n.TypesM = DOMAIN SubTypes
  /\ \A t \in DOMAIN SubTypes : \A e \in n.TypesM[t] : e \in KEY_ID /\ GetType(e) = t
  /\ \A s \in my : s \in n.TypesM[GetType(s)]

\* A node is like that when it is loaded.
LEMMA LoadedKnows ==
  ASSUME NEW T \in Seq(Quads), NEW c, IsConfig(c), NEW quads, quads = Range(T), IsDataset(quads),
         NEW my, my \subseteq {q.subject : q \in quads},
         \A root \in TYPE_ID : Cardinality(TemplatesOf(quads, c)[root]) < TmplSpan
  PROVE  Knows(Loaded(T, my, c), my, quads) /\ Loaded(T, my, c).myMolecules = my
<1>1. PICK tm : tm = TemplatesOf(quads, c)
  OBVIOUS
<1>2. Stored(tm, quads, c)
  BY <1>1, TemplatesFit
<1>3. Given(T, c, my, tm)
  BY <1>2 DEF Given
<1>4. PICK r : r = FoldLeft(LoadScope, LoadScope0(Start(T, my, tm)), [i \in 1 .. c.maxScope |-> i])
  OBVIOUS
<1>5. PICK last : last = c.maxScope + 1
  OBVIOUS
<1>6. Nests(r, T, c, my, tm, last, 0)
  BY <1>3, <1>4, <1>5, AllNest
<1>7. Loaded(T, my, c) = [r EXCEPT !.at = "loaded"]
  BY <1>1, <1>4, Zenon DEF Loaded, LoadLines, Start
<1>8. PICK n : n = Loaded(T, my, c)
  OBVIOUS
<1>9. Memory(r, my, tm)
  BY <1>6 DEF Nests
<1>10. /\ n.myMolecules = my /\ n.templates = tm /\ n.TypesM = r.TypesM
       /\ n.molecules = r.molecules /\ n.inv_molecules = r.inv_molecules
  BY <1>7, <1>8, <1>9 DEF Memory
<1>11. IsStored(tm)
  BY <1>2 DEF Stored
<1>12. ASSUME NEW root \in TYPE_ID, NEW u \in tm[root]
       PROVE  u.ID \in Nat /\ u.ID < TmplSpan
  <2>1. Numbered(tm[root])
    BY <1>11 DEF IsStored
  <2>2. Cardinality(tm[root]) \in Nat /\ u.ID \in 1 .. Cardinality(tm[root])
    BY <2>1, FS_CardinalityType DEF Numbered
  <2>3. Cardinality(tm[root]) < TmplSpan
    BY <1>1
  <2>4. QED
    BY <2>2, <2>3, SpanAssumption
<1>13. ASSUME NEW q \in quads
       PROVE  \E u \in tm[GetType(q.subject)] : Suits(u, q.subject, q.predicate, q.object)
  <2>1. q \in Quads /\ GetType(q.subject) \in TYPE_ID
    BY TypesAreNumbers DEF IsDataset, Quads
  <2>2. Suffices(tm[GetType(q.subject)], TriplesOf(quads), GetType(q.subject), c.minScope, {})
    BY <1>2, <2>1 DEF Stored, Demands
  <2>3. TemplateOf(q) \in TriplesOf(quads) /\ TemplateOf(q).subjectType = GetType(q.subject)
    BY DEF TriplesOf, TemplateOf
  <2>4. Has(tm[GetType(q.subject)], TemplateOf(q), 0)
    BY <2>2, <2>3 DEF Suffices, Based, Has
  <2>5. PICK u \in tm[GetType(q.subject)] : SameTemplate(u, At(TemplateOf(q), 0))
    BY <2>4 DEF Has
  <2>6. QED
    BY <2>5 DEF SameTemplate, At, TemplateOf, Suits
<1>14. \A s \in my : Listed(r, T, s)
  BY <1>6 DEF Nests
<1>15. Holding(r, T, my, tm)
  BY <1>6 DEF Nests
<1>16. /\ DOMAIN r.TypesM = DOMAIN SubTypes
       /\ \A t \in DOMAIN SubTypes : \A e \in r.TypesM[t] : e \in KEY_ID /\ GetType(e) = t
  BY <1>9 DEF Memory
<1>17. /\ \A s \in my : s \in r.TypesM[GetType(s)]
       /\ \A q \in quads : q.subject \in my => q.subject \in r.inv_molecules[q.object]
  BY <1>14 DEF Listed
<1>18. Knows(n, my, quads)
  BY <1>10, <1>11, <1>12, <1>13, <1>15, <1>16, <1>17 DEF Knows, Holding
<1>19. QED
  BY <1>8, <1>10, <1>18

\* The template of a root that suits is found, and no other.
LEMMA TemplateIsFound ==
  ASSUME NEW tm, IsStored(tm), NEW s \in KEY_ID, NEW o \in KEY_ID, NEW p,
         NEW id, id = GetTripleTemplate(tm, GetType(s), GetType(s), p, GetType(o), 0)
  PROVE  /\ \A u \in tm[GetType(s)] : Suits(u, s, p, o) => id = u.ID
         /\ id # NoTemplate => \E u \in tm[GetType(s)] : Suits(u, s, p, o) /\ id = u.ID
<1> DEFINE root == GetType(s)
           hit == {u \in tm[root] : /\ root \in {0, u.subjectType} /\ u.predicateID = p
                                    /\ GetType(o) \in {0, u.objectType} /\ u.scope = 0}
           first == CHOOSE u \in hit : \A v \in hit \ {u} : Before(u, v)
<1>1. root \in DOMAIN tm /\ root \in TYPE_ID /\ root # 0 /\ GetType(o) # 0
  BY TypesAreNumbers, TypesAssumption DEF IsStored
<1>2. \A u, v \in tm[root] : SameTemplate(u, v) => u = v
  BY <1>1 DEF IsStored, Numbered
<1>3. \A u : u \in hit <=> u \in tm[root] /\ Suits(u, s, p, o)
  BY <1>1 DEF Suits
<1>4. id = IF hit # {} THEN first.ID ELSE NoTemplate
  BY <1>1 DEF GetTripleTemplate
<1> HIDE DEF hit, root
<1>5. \A u, v \in hit : u = v
  BY <1>2, <1>3 DEF Suits, SameTemplate
<1>6. hit # {} => first \in hit
  <2>1. ASSUME NEW u \in hit PROVE \A v \in hit \ {u} : Before(u, v)
    BY <1>5
  <2>2. QED
    BY <2>1, Zenon
<1> HIDE DEF first
<1>7. QED
  BY <1>3, <1>4, <1>5, <1>6 DEF root

\* CreateMolecule writes the number of the template that suits.
LEMMA NumberIsOf ==
  ASSUME NEW n, NEW my, NEW quads, IsDataset(quads), Knows(n, my, quads), NEW q \in quads
  PROVE  \E u \in n.templates[GetType(q.subject)] :
           Suits(u, q.subject, q.predicate, q.object) /\ u.ID = NumberOf(n.templates, q)
<1>1. PICK tm : tm = n.templates
  OBVIOUS
<1> DEFINE root == GetType(q.subject)
           hit == {u \in tm[root] : /\ u.subjectType = root /\ u.predicateID = q.predicate
                                    /\ u.objectType = GetType(q.object) /\ u.scope = 0}
           g == GetTemplate(tm, root, root, q.predicate, GetType(q.object))
<1>2. q \in Quads /\ root \in TYPE_ID
  BY TypesAreNumbers DEF IsDataset, Quads
<1>3. root \in DOMAIN tm
  BY <1>1, <1>2 DEF Knows, IsStored
<1>4. g = IF root \in DOMAIN tm /\ hit # {} THEN (CHOOSE u \in hit : TRUE).ID ELSE NoTemplate
  BY DEF GetTemplate
<1>5. PICK u \in tm[root] : Suits(u, q.subject, q.predicate, q.object)
  BY <1>1 DEF Knows
<1>6. \A v : v \in hit <=> v \in tm[root] /\ Suits(v, q.subject, q.predicate, q.object)
  BY DEF Suits
<1>7. (CHOOSE v \in hit : TRUE) \in hit /\ hit # {}
  <2> HIDE DEF hit
  <2>1. u \in hit
    BY <1>5, <1>6
  <2>2. QED
    BY <2>1, Zenon
<1>8. PICK w : w = CHOOSE v \in hit : TRUE
  OBVIOUS
<1>9. w \in tm[root] /\ Suits(w, q.subject, q.predicate, q.object) /\ g = w.ID
  BY <1>3, <1>4, <1>6, <1>7, <1>8
<1>10. w.ID \in Nat /\ w.ID < TmplSpan
  BY <1>1, <1>2, <1>9 DEF Knows
<1>11. w.ID % TmplSpan = w.ID
  BY <1>10, SpanAssumption
<1>12. NumberOf(tm, q) = g % TmplSpan
  BY DEF NumberOf
<1>13. QED
  BY <1>1, <1>9, <1>11, <1>12

\* CheckIfEntityExists finds a line that got this number.
LEMMA ExistsExactly ==
  ASSUME NEW n, NEW my, NEW quads, Knows(n, my, quads), NEW s \in my, NEW o \in KEY_ID, NEW id
  PROVE  Exists(n, s, id, o) <=>
           \E q \in quads : q.subject = s /\ q.object = o /\ NumberOf(n.templates, q) = id
<1>1. o # Wild
  BY KeyAssumption DEF Wild
<1>2. \A d : d \in Elements(n.molecules[s]) <=>
        \E q \in quads : q.subject = s /\ d = ElementOf(n.templates, q)
  BY DEF Knows
<1>3. PICK m : m = n.molecules[s]
  OBVIOUS
<1>4. Exists(n, s, id, o) <=> \E d \in Elements(m) : d.tmpl = id /\ d.obj = o
  BY <1>1, <1>3 DEF Exists, CheckIfEntityExists, provenanceTriger
<1>5. \A q : ElementOf(n.templates, q).tmpl = NumberOf(n.templates, q) /\ ElementOf(n.templates, q).obj = q.object
  BY DEF ElementOf
<1>6. QED
  BY <1>2, <1>3, <1>4, <1>5

\* Some line says p and o of s.
Told(quads, s, p, o) == \E q \in quads : q.subject = s /\ q.predicate = p /\ q.object = o

\* What two lines of one subject say of one object with one number is the same.
LEMMA NumberTellsPredicate ==
  ASSUME NEW n, NEW my, NEW quads, IsDataset(quads), Knows(n, my, quads), NEW q \in quads,
         NEW u \in n.templates[GetType(q.subject)], NumberOf(n.templates, q) = u.ID
  PROVE  Suits(u, q.subject, q.predicate, q.object)
<1>1. PICK v \in n.templates[GetType(q.subject)] :
        Suits(v, q.subject, q.predicate, q.object) /\ v.ID = NumberOf(n.templates, q)
  BY NumberIsOf
<1>2. GetType(q.subject) \in TYPE_ID
  BY TypesAreNumbers DEF IsDataset, Quads
<1>3. u = v
  BY <1>1, <1>2 DEF Knows, IsStored, Numbered
<1>4. QED
  BY <1>1, <1>3

\* The subjects the lookups find are those the lines tell of.
LEMMA SubjectsExactly ==
  ASSUME NEW n, NEW my, NEW quads, IsDataset(quads), Knows(n, my, quads), NEW types, NEW p, NEW o
  PROVE  \A s : s \in Subjects(n, types, p, o) <=> s \in my /\ GetType(s) \in types /\ Told(quads, s, KM(p), o)
<1>0. \A q \in quads : q \in Quads
  BY DEF IsDataset
<1>1. my \subseteq KEY_ID
  BY <1>0 DEF Knows, Quads
<1>2. ASSUME NEW s \in my, o \in KEY_ID
      PROVE  Exists(n, s, TemplateTo(n, s, p, GetType(o)), o) <=> Told(quads, s, KM(p), o)
  <2>1. PICK id : id = TemplateTo(n, s, p, GetType(o))
    OBVIOUS
  <2>2. /\ \A u \in n.templates[GetType(s)] : Suits(u, s, KM(p), o) => id = u.ID
        /\ id # NoTemplate => \E u \in n.templates[GetType(s)] : Suits(u, s, KM(p), o) /\ id = u.ID
    BY <1>1, <1>2, <2>1, TemplateIsFound DEF TemplateTo, Knows
  <2>3. Exists(n, s, id, o) <=> \E q \in quads : q.subject = s /\ q.object = o /\ NumberOf(n.templates, q) = id
    BY <1>2, ExistsExactly
  <2>4. ASSUME NEW q \in quads, q.subject = s, q.object = o
        PROVE  NumberOf(n.templates, q) = id <=> q.predicate = KM(p)
    <3>1. PICK v \in n.templates[GetType(s)] : Suits(v, s, q.predicate, o) /\ v.ID = NumberOf(n.templates, q)
      BY <2>4, NumberIsOf
    <3>2. ASSUME NumberOf(n.templates, q) = id PROVE q.predicate = KM(p)
      <4>1. v.ID \in Nat
        BY <1>1, <3>1, TypesAreNumbers DEF Knows
      <4>2. id # NoTemplate
        BY <3>1, <3>2, <4>1 DEF NoTemplate
      <4>3. PICK u \in n.templates[GetType(s)] : Suits(u, s, KM(p), o) /\ id = u.ID
        BY <2>2, <4>2
      <4>4. Suits(u, s, q.predicate, o)
        BY <2>4, <3>2, <4>3, NumberTellsPredicate
      <4>5. QED
        BY <4>3, <4>4 DEF Suits
    <3>3. ASSUME q.predicate = KM(p) PROVE NumberOf(n.templates, q) = id
      BY <2>2, <3>1, <3>3
    <3>4. QED
      BY <3>2, <3>3
  <2>5. QED
    BY <2>1, <2>3, <2>4 DEF Told
<1>3. ASSUME NEW s
      PROVE  s \in Subjects(n, types, p, o) <=> s \in my /\ GetType(s) \in types /\ Told(quads, s, KM(p), o)
  <2>1. CASE o \notin KEY_ID
    <3>1. Mentioning(n, o) = {}
      BY <2>1 DEF Mentioning
    <3>2. ~ Told(quads, s, KM(p), o)
      BY <1>0, <2>1 DEF Told, Quads
    <3>3. QED
      BY <3>1, <3>2 DEF Subjects
  <2>2. CASE o \in KEY_ID
    <3>1. Mentioning(n, o) = n.inv_molecules[o] /\ n.inv_molecules[o] \subseteq my
      BY <2>2 DEF Mentioning, Knows
    <3>2. s \in my /\ Told(quads, s, KM(p), o) => s \in n.inv_molecules[o]
      BY DEF Told, Knows
    <3>3. QED
      BY <1>2, <2>2, <3>1, <3>2 DEF Subjects
  <2>3. QED
    BY <2>1, <2>2
<1>4. QED
  BY <1>3

\* A node has molecules of its own subjects only.
LEMMA MineHaveMolecules ==
  ASSUME NEW n, NEW my, NEW quads, IsDataset(quads), Knows(n, my, quads), NEW s
  PROVE  IsItMyObject(n, s) <=> s \in my
<1>1. my \subseteq KEY_ID
  BY DEF Knows, IsDataset, Quads
<1>2. ASSUME s \in my
      PROVE  n.molecules[s] # NoMolecule
  <2>1. PICK q \in quads : q.subject = s
    BY <1>2 DEF Knows
  <2>2. ElementOf(n.templates, q) \in Elements(n.molecules[s])
    BY <1>2, <2>1 DEF Knows
  <2>3. \A x : ~ Holds(NoMolecule, x)
    BY DEF Holds, NoMolecule
  <2>4. QED
    BY <2>2, <2>3, ElementsHeld
<1>3. QED
  BY <1>1, <1>2 DEF IsItMyObject, Knows

\* The members of some types that have a molecule here.
LEMMA LocalExactly ==
  ASSUME NEW n, NEW my, NEW quads, IsDataset(quads), Knows(n, my, quads), NEW types
  PROVE  \A s : s \in LocalOf(n, types) <=> s \in my /\ GetType(s) \in types
<1>1. \A s \in my : GetType(s) \in DOMAIN SubTypes
  BY TypesAreNumbers, TypesAssumption DEF Knows, IsDataset, Quads
<1>2. DOMAIN n.TypesM = DOMAIN SubTypes
  BY DEF Knows
<1>3. ASSUME NEW s \in my
      PROVE  s \in ElementsOf(n, types) <=> GetType(s) \in types
  <2>1. s \in ElementsOf(n, types) <=> \E t \in types : t \in DOMAIN SubTypes /\ s \in n.TypesM[t]
    BY <1>2 DEF ElementsOf
  <2>2. \A t \in DOMAIN SubTypes : s \in n.TypesM[t] <=> t = GetType(s)
    BY DEF Knows
  <2>3. QED
    BY <1>1, <2>1, <2>2
<1>4. QED
  BY <1>3, MineHaveMolecules DEF LocalOf

\* GetPredicate gives a molecule back what its lines said.
LEMMA EverythingExactly ==
  ASSUME NEW n, NEW my, NEW quads, IsDataset(quads), Knows(n, my, quads), NEW s \in my
  PROVE  \A x : x \in Everything(n, s) <=>
                  \E q \in quads : q.subject = s /\ x = <<q.predicate, q.object>>
<1>1. ASSUME NEW q \in quads, q.subject = s
      PROVE  GetPredicate(n.templates, GetType(s), NumberOf(n.templates, q)) = q.predicate
  <2>1. PICK S, id : S = n.templates[GetType(s)] /\ id = NumberOf(n.templates, q)
    OBVIOUS
  <2>2. PICK u \in S : Suits(u, s, q.predicate, q.object) /\ u.ID = id
    BY <1>1, <2>1, NumberIsOf
  <2> DEFINE hit == {v \in S : v.ID = id}
  <2>3. u \in hit
    BY <2>2
  <2>4. (CHOOSE v \in hit : TRUE) \in hit
    BY <2>3, Zenon
  <2>5. PICK w : w = CHOOSE v \in hit : TRUE
    OBVIOUS
  <2>6. w \in S /\ w.ID = id
    BY <2>4, <2>5
  <2>7. Suits(w, s, q.predicate, q.object)
    BY <1>1, <2>1, <2>6, NumberTellsPredicate
  <2>8. GetPredicate(n.templates, GetType(s), id) = IF hit = {} THEN 0 ELSE w.predicateID
    BY <2>1, <2>5 DEF GetPredicate
  <2>9. hit # {}
    BY <2>3
  <2>10. QED
    BY <2>1, <2>7, <2>8, <2>9 DEF Suits
<1>2. \A d : d \in Elements(n.molecules[s]) <=>
        \E q \in quads : q.subject = s /\ d = ElementOf(n.templates, q)
  BY DEF Knows
<1>3. \A q : ElementOf(n.templates, q).tmpl = NumberOf(n.templates, q) /\ ElementOf(n.templates, q).obj = q.object
  BY DEF ElementOf
<1> DEFINE Pair(e) == <<GetPredicate(n.templates, GetType(s), e.tmpl), e.obj>>
<1>4. Everything(n, s) = {Pair(e) : e \in Elements(n.molecules[s])}
  BY Zenon DEF Everything
<1>5. \A q \in quads : q.subject = s => Pair(ElementOf(n.templates, q)) = <<q.predicate, q.object>>
  BY <1>1, <1>3
<1>6. \A x : x \in Everything(n, s) <=> \E e \in Elements(n.molecules[s]) : x = Pair(e)
  BY <1>4
<1> HIDE DEF Pair
<1>7. QED
  BY <1>2, <1>5, <1>6

\* The templates of a predicate are those of all roots; the number of this root
\* is looked for.
LEMMA RootTemplatesFind ==
  ASSUME NEW n, NEW my, NEW quads, IsDataset(quads), Knows(n, my, quads),
         NEW s \in my, NEW p, NEW o \in KEY_ID
  PROVE  (\E t \in RootTemplates(n, GetType(s), p, GetType(o)) : Exists(n, s, t, o))
           <=> Told(quads, s, KM(p), o)
<1>1. PICK root, type, k : root = GetType(s) /\ type = GetType(o) /\ k = KM(p)
  OBVIOUS
<1>2. s \in KEY_ID /\ root \in TYPE_ID /\ type # Wild /\ k # Wild
  BY <1>1, TypesAreNumbers, WordsAssumption DEF Knows, IsDataset, Quads, KM, Wild
<1> DEFINE Matches(u) == /\ Wild \in {Wild, u.subjectType}
                         /\ k \in {Wild, u.predicateID}
                         /\ type \in {Wild, u.objectType}
                         /\ u.scope = 0
           Pairs(rt) == {<<rt, u.ID>> : u \in {v \in n.templates[rt] : Matches(v)}}
<1>3. DOMAIN n.templates = TYPE_ID
  BY DEF Knows, IsStored
<1>4. GetTemplatesByRoot(n.templates, Wild, k, type, 0) = UNION {Pairs(rt) : rt \in TYPE_ID}
  BY <1>3 DEF GetTemplatesByRoot
<1>5. \A u : Matches(u) <=> k = u.predicateID /\ type = u.objectType /\ u.scope = 0
  BY <1>2
<1> HIDE DEF Matches
<1>6. \A rt : \A x : x \in Pairs(rt) <=> \E u \in n.templates[rt] : Matches(u) /\ x = <<rt, u.ID>>
  OBVIOUS
<1> HIDE DEF Pairs
<1>7. ASSUME NEW t
      PROVE  t \in RootTemplates(n, root, p, type) <=> \E u \in n.templates[root] : Matches(u) /\ t = u.ID
  <2>1. t \in RootTemplates(n, root, p, type) <=>
          \E x \in GetTemplatesByRoot(n.templates, Wild, k, type, 0) : x[1] = root /\ t = x[2]
    BY <1>1 DEF RootTemplates
  <2>2. \A x : x \in GetTemplatesByRoot(n.templates, Wild, k, type, 0) <=> \E rt \in TYPE_ID : x \in Pairs(rt)
    BY <1>4
  <2>3. ASSUME NEW x, NEW rt \in TYPE_ID, x \in Pairs(rt), x[1] = root, t = x[2]
        PROVE  \E u \in n.templates[root] : Matches(u) /\ t = u.ID
    BY <1>6, <2>3
  <2>4. ASSUME NEW u \in n.templates[root], Matches(u), t = u.ID
        PROVE  \E rt \in TYPE_ID : \E x \in Pairs(rt) : x[1] = root /\ t = x[2]
    <3>1. <<root, u.ID>> \in Pairs(root)
      BY <1>6, <2>4
    <3>2. <<root, u.ID>>[1] = root /\ <<root, u.ID>>[2] = t
      BY <2>4
    <3>3. QED
      BY <1>2, <3>1, <3>2
  <2>5. QED
    BY <2>1, <2>2, <2>3, <2>4
<1>8. \A t : Exists(n, s, t, o) <=>
        \E q \in quads : q.subject = s /\ q.object = o /\ NumberOf(n.templates, q) = t
  BY ExistsExactly
<1>9. ASSUME NEW q \in quads, q.subject = s, q.object = o,
             NEW u \in n.templates[root], NumberOf(n.templates, q) = u.ID
      PROVE  Suits(u, s, q.predicate, o)
  BY <1>1, <1>9, NumberTellsPredicate
<1>10. ASSUME NEW q \in quads, q.subject = s, q.object = o
       PROVE  \E u \in n.templates[root] : Suits(u, s, q.predicate, o) /\ NumberOf(n.templates, q) = u.ID
  BY <1>1, <1>10, NumberIsOf
<1>11. QED
  BY <1>1, <1>5, <1>7, <1>8, <1>9, <1>10 DEF Told, Suits
------------------------------------------------------------------------------
(***************************************************************************)
(* Solutions.                                                              *)
(***************************************************************************)

\* The patterns of a query are the turns of a loop.
LEMMA PatternsRun ==
  ASSUME NEW quads, NEW T, NEW n \in Nat, DOMAIN T = 1 .. n, Len(T) = n
  PROVE  Runs([of |-> "patterns", quads |-> quads], {<<>>}, T, Solutions(quads, T))
<1> DEFINE loop == [of |-> "patterns", quads |-> quads]
           b == {<<>>}
           g == CHOOSE iter : iter = [s \in SUBSET (DOMAIN T) |->
                  IF s = {} THEN b ELSE Joined(quads, iter[s \ {Max(s)}], T[Max(s)])]
<1>1. Solutions(quads, T) = g[DOMAIN T]
  BY Zenon DEF Solutions, FoldLeft, MapThenFoldSet, Joined
<1>2. \A x, y : Turn(loop, x, y) = Joined(quads, x, y)
  BY DEF Turn
<1> HIDE DEF loop, b
<1>3. PICK f : FoldsBy(f, loop, b, T, n)
  BY FoldExists
<1>4. f = [s \in SUBSET (DOMAIN T) |->
             IF s = {} THEN b ELSE Joined(quads, f[s \ {Max(s)}], T[Max(s)])]
  BY <1>2, <1>3, Zenon DEF FoldsBy
<1>5. g = [s \in SUBSET (DOMAIN T) |->
             IF s = {} THEN b ELSE Joined(quads, g[s \ {Max(s)}], T[Max(s)])]
  BY <1>4, Zenon
<1> HIDE DEF g
<1>6. FoldsBy(g, loop, b, T, n)
  BY <1>2, <1>5, Zenon DEF FoldsBy
<1>7. Passes([k \in 0 .. n |-> g[1 .. k]], loop, b, T, n)
  BY <1>6, FoldPasses
<1>8. [k \in 0 .. n |-> g[1 .. k]][n] = g[DOMAIN T]
  OBVIOUS
<1>9. QED
  BY <1>1, <1>7, <1>8, Zenon DEF Runs, loop, b

\* One pattern, and two.
LEMMA SolutionsOfOne ==
  ASSUME NEW quads, NEW p
  PROVE  Solutions(quads, <<p>>) = Match(quads, <<>>, p)
<1> DEFINE T == <<p>>
           loop == [of |-> "patterns", quads |-> quads]
<1>1. DOMAIN T = 1 .. 1 /\ Len(T) = 1 /\ T[1] = p
  OBVIOUS
<1>2. Runs(loop, {<<>>}, T, Solutions(quads, T))
  BY <1>1, PatternsRun
<1>3. PICK h : Passes(h, loop, {<<>>}, T, 1) /\ Solutions(quads, T) = h[1]
  BY <1>1, <1>2 DEF Runs
<1>4. \A x, y : Turn(loop, x, y) = Joined(quads, x, y)
  BY DEF Turn
<1> HIDE DEF T, loop
<1>5. 1 - 1 = 0 /\ 2 - 1 = 1 /\ 1 \in 1 .. 1 /\ 1 \in 1 .. 1
  OBVIOUS
<1>6. h[0] = {<<>>} /\ h[1] = Joined(quads, h[0], p)
  BY <1>1, <1>3, <1>4, <1>5 DEF Passes
<1>7. QED
  BY <1>3, <1>6 DEF Joined, T

\* With two, every binding of the first is extended by the second.
LEMMA SolutionsOfTwo ==
  ASSUME NEW quads, NEW p1, NEW p2
  PROVE  \A b : b \in Solutions(quads, <<p1, p2>>) <=>
                  \E c \in Match(quads, <<>>, p1) : b \in Match(quads, c, p2)
<1> DEFINE T == <<p1, p2>>
           loop == [of |-> "patterns", quads |-> quads]
<1>1. DOMAIN T = 1 .. 2 /\ Len(T) = 2 /\ T[1] = p1 /\ T[2] = p2
  OBVIOUS
<1>2. Runs(loop, {<<>>}, T, Solutions(quads, T))
  BY <1>1, PatternsRun
<1>3. PICK h : Passes(h, loop, {<<>>}, T, 2) /\ Solutions(quads, T) = h[2]
  BY <1>1, <1>2 DEF Runs
<1>4. \A x, y : Turn(loop, x, y) = Joined(quads, x, y)
  BY DEF Turn
<1> HIDE DEF T, loop
<1>5. 1 - 1 = 0 /\ 2 - 1 = 1 /\ 1 \in 1 .. 2 /\ 2 \in 1 .. 2
  OBVIOUS
<1>6. h[0] = {<<>>} /\ h[1] = Joined(quads, h[0], p1) /\ h[2] = Joined(quads, h[1], p2)
  BY <1>1, <1>3, <1>4, <1>5 DEF Passes
<1>7. QED
  BY <1>3, <1>6 DEF Joined, T

\* The binding of one variable.
To(v, k) == [x \in {v} |-> k]

\* The subjects of a predicate and an object that are words.
LEMMA MatchSubject ==
  ASSUME NEW quads, NEW p, NEW o, p \notin Vars, o \notin Vars
  PROVE  /\ \A b : b \in Match(quads, <<>>, <<"?x", p, o>>) <=>
                     \E k : b = To("?x", k) /\ Told(quads, k, KM(p), KM(o))
         /\ \A k, b : b \in Match(quads, To("?x", k), <<"?x", p, o>>) <=>
                        b = To("?x", k) /\ Told(quads, k, KM(p), KM(o))
<1>1. "?x" \in Vars
  BY DEF Vars
<1>2. PICK term : term = <<"?x", p, o>>
  OBVIOUS
<1>3. term[1] = "?x" /\ term[2] = p /\ term[3] = o
  BY <1>2
<1>4. DOMAIN <<>> = {} /\ \A k : DOMAIN To("?x", k) = {"?x"} /\ To("?x", k)["?x"] = k
  BY DEF To
<1>5. \A b, k : Bind(b, p, k) = b /\ Bind(b, o, k) = b /\ (Fits(b, p, k) <=> KM(p) = k) /\ (Fits(b, o, k) <=> KM(o) = k)
  BY DEF Bind, Fits
<1>6. \A k : Fits(<<>>, "?x", k) /\ Bind(<<>>, "?x", k) = To("?x", k)
  BY <1>1, <1>4 DEF Fits, Bind, To
<1>7. \A k, l : Fits(To("?x", k), "?x", l) <=> k = l
  BY <1>1, <1>4 DEF Fits
<1>8. \A k : Bind(To("?x", k), "?x", k) = To("?x", k)
  BY <1>1, <1>4 DEF Bind, To
<1>9. ASSUME NEW b, NEW c
      PROVE  b \in Match(quads, c, term) <=>
               \E q \in quads : /\ Fits(c, "?x", q.subject) /\ KM(p) = q.predicate /\ KM(o) = q.object
                                /\ b = Bind(c, "?x", q.subject)
  BY <1>3, <1>5 DEF Match
<1>10. QED
  BY <1>2, <1>6, <1>7, <1>8, <1>9 DEF Told

\* All that is said of a word.
LEMMA MatchSaid ==
  ASSUME NEW quads, NEW s, s \notin Vars
  PROVE  \A r : (\E b \in Match(quads, <<>>, <<s, "?p", "?b">>) : r = <<b["?p"], b["?b"]>>) <=>
                  \E q \in quads : q.subject = KM(s) /\ r = <<q.predicate, q.object>>
<1>1. "?p" \in Vars /\ "?b" \in Vars /\ "?p" # "?b"
  BY DEF Vars
<1>2. PICK term : term = <<s, "?p", "?b">>
  OBVIOUS
<1>3. term[1] = s /\ term[2] = "?p" /\ term[3] = "?b"
  BY <1>2
<1>4. DOMAIN <<>> = {} /\ \A v, k : DOMAIN To(v, k) = {v} /\ To(v, k)[v] = k
  BY DEF To
<1>5. \A b, k : Bind(b, s, k) = b /\ (Fits(b, s, k) <=> KM(s) = k)
  BY DEF Bind, Fits
<1>6. \A k : Fits(<<>>, "?p", k) /\ Bind(<<>>, "?p", k) = To("?p", k)
  BY <1>1, <1>4 DEF Fits, Bind, To
<1>7. \A k : Fits(<<>>, "?b", k)
  BY <1>1, <1>4 DEF Fits
<1>8. ASSUME NEW k, NEW l
      PROVE  Bind(To("?p", k), "?b", l)["?p"] = k /\ Bind(To("?p", k), "?b", l)["?b"] = l
  <2>1. PICK f : f = To("?p", k)
    OBVIOUS
  <2>2. DOMAIN f = {"?p"} /\ f["?p"] = k
    BY <1>4, <2>1
  <2>3. Bind(f, "?b", l) = [x \in {"?p", "?b"} |-> IF x = "?b" THEN l ELSE f[x]]
    <3>1. DOMAIN f \union {"?b"} = {"?p", "?b"}
      BY <2>2
    <3>2. QED
      BY <1>1, <3>1 DEF Bind
  <2>4. QED
    BY <1>1, <2>1, <2>2, <2>3
<1>9. ASSUME NEW b
      PROVE  b \in Match(quads, <<>>, term) <=>
               \E q \in quads : KM(s) = q.subject /\ b = Bind(To("?p", q.predicate), "?b", q.object)
  BY <1>3, <1>5, <1>6, <1>7 DEF Match
<1>10. QED
  BY <1>2, <1>8, <1>9
------------------------------------------------------------------------------
(***************************************************************************)
(* What is asked.                                                          *)
(***************************************************************************)

\* What the texts of some queries are.
LEMMA TextsAre ==
  /\ SPARQL["q01"] = {Select(<<"?x">>, <<<<"?x", "takesCourse", "GraduateCourse0">>, A("?x", "GraduateStudent")>>)}
  /\ SPARQL["q03"] = {Select(<<"?x">>, <<<<"?x", "publicationAuthor", "AssistantProfessor0">>, A("?x", "Publication")>>)}
  /\ SPARQL["q05"] = {Select(<<"?x">>, <<<<"?x", "memberOf", "Department0">>, A("?x", "Person")>>)}
  /\ SPARQL["q06"] = {Select(<<"?x">>, <<A("?x", "Student")>>)}
  /\ SPARQL["q10"] = {Select(<<"?x">>, <<<<"?x", "takesCourse", "GraduateCourse0">>, A("?x", "Person")>>)}
  /\ SPARQL["q13"] = {Select(<<"?x">>, <<<<"?x", p, "University0">>>>)
                        : p \in {"doctoralDegreeFrom", "mastersDegreeFrom", "undergraduateDegreeFrom"}}
  /\ SPARQL["q14"] = {Select(<<"?x">>, <<A("?x", "UndergraduateStudent")>>)}
  /\ SPARQL["Dq01"] = {Select(<<"?p", "?b">>, <<<<"Metropolitan_Museum", "?p", "?b">>>>)}
  /\ SPARQL["Cq01"] =
       {Select(<<"?x">>, <<<<"?x", "takesCourse", "GraduateCourse0">>, A("?x", "GraduateStudent")>>)}
BY DEF SPARQL

\* The lines are those of a dataset, none with a type.
LinesGiven == IsDataset(lines) /\ \A q \in lines : q.predicate # KM("a")

\* k is mentioned in a line.
Occurs(k) == \E q \in lines : k \in {q.subject, q.object}

OfClass(t, class) == t \in GetHierarchyForType(GetSeq(class))

\* What has no class has none of a class the dataset does not know either.
LEMMA UnknownClass ==
  ASSUME LinesGiven, NEW class, class \notin DOMAIN Words, NEW k, Occurs(k)
  PROVE  ~ OfClass(GetType(k), class)
<1>1. k \in KEY_ID
  BY DEF Occurs, LinesGiven, IsDataset, Quads
<1>2. GetType(k) \in DOMAIN SubTypes \ {0}
  BY <1>1, TypesAreNumbers, TypesAssumption
<1>3. Cardinality(DOMAIN SubTypes) \in Nat
  BY TypesAssumption, FS_CardinalityType
<1>4. 0 \in DOMAIN SubTypes
  BY <1>2, <1>3, TypesAssumption
<1>5. GetSeq(class) = 0
  BY KeyAssumption DEF GetSeq, KM
<1>6. QED
  BY <1>2, <1>4, <1>5, HierarchyHas DEF OfClass

\* Facts with rdf:type tell the classes, the others are lines.
LEMMA FactsTell ==
  ASSUME LinesGiven
  PROVE  /\ \A p, k, o : p # "a" => (Told(Facts, k, KM(p), o) <=> Told(lines, k, KM(p), o))
         /\ \A k : \A class \in Classes :
              Told(Facts, k, KM("a"), KM(class)) <=> Occurs(k) /\ OfClass(GetType(k), class)
<1> DEFINE Typed(k, c) == [subject |-> k, predicate |-> KM("a"), object |-> SeqSpan + c, prov |-> 0]
           TypesOf(k) == {Typed(k, c) : c \in {t \in DOMAIN SubTypes : t > 2 /\ GetType(k) \in hierarchy[t]}}
           Ends == UNION {{q.subject, q.object} : q \in lines}
<1>1. Facts = lines \union UNION {TypesOf(k) : k \in Ends}
  BY Zenon DEF Facts
<1>2. \A k : k \in Ends <=> Occurs(k)
  BY DEF Occurs
<1> HIDE DEF Ends
<1>3. \A x, k : x \in TypesOf(k) <=>
        \E c \in DOMAIN SubTypes : c > 2 /\ GetType(k) \in hierarchy[c] /\ x = Typed(k, c)
  OBVIOUS
<1> HIDE DEF TypesOf
<1>4. \A x : x \in Facts <=> x \in lines \/ \E k : Occurs(k) /\ x \in TypesOf(k)
  BY <1>1, <1>2
<1>5. \A k, c : Typed(k, c).subject = k /\ Typed(k, c).predicate = KM("a") /\ Typed(k, c).object = SeqSpan + c
  OBVIOUS
<1> HIDE DEF Typed
<1>6. \A p : p # "a" => KM(p) # KM("a")
  BY WordsAssumption DEF KM
<1>7. ASSUME NEW p, NEW k, NEW o, p # "a"
      PROVE  Told(Facts, k, KM(p), o) <=> Told(lines, k, KM(p), o)
  BY <1>3, <1>4, <1>5, <1>6, <1>7 DEF Told
<1>8. ASSUME NEW k, NEW class \in Classes
      PROVE  Told(Facts, k, KM("a"), KM(class)) <=> Occurs(k) /\ OfClass(GetType(k), class)
  <2>1. Told(Facts, k, KM("a"), KM(class)) <=>
          /\ Occurs(k)
          /\ \E c \in DOMAIN SubTypes : c > 2 /\ GetType(k) \in hierarchy[c] /\ KM(class) = SeqSpan + c
    <3>1. \A x \in lines : x.predicate # KM("a")
      BY DEF LinesGiven
    <3>2. ASSUME Told(Facts, k, KM("a"), KM(class))
          PROVE  /\ Occurs(k)
                 /\ \E c \in DOMAIN SubTypes : c > 2 /\ GetType(k) \in hierarchy[c] /\ KM(class) = SeqSpan + c
      <4>1. PICK x \in Facts : x.subject = k /\ x.predicate = KM("a") /\ x.object = KM(class)
        BY <3>2 DEF Told
      <4>2. PICK j : Occurs(j) /\ x \in TypesOf(j)
        BY <1>4, <3>1, <4>1
      <4>3. PICK c \in DOMAIN SubTypes : c > 2 /\ GetType(j) \in hierarchy[c] /\ x = Typed(j, c)
        BY <1>3, <4>2
      <4>4. QED
        BY <1>5, <4>1, <4>2, <4>3
    <3>3. ASSUME Occurs(k), NEW c \in DOMAIN SubTypes, c > 2, GetType(k) \in hierarchy[c],
                 KM(class) = SeqSpan + c
          PROVE  Told(Facts, k, KM("a"), KM(class))
      <4>1. Typed(k, c) \in TypesOf(k)
        BY <1>3, <3>3
      <4>2. Typed(k, c) \in Facts
        BY <1>4, <3>3, <4>1
      <4>3. QED
        BY <1>5, <3>3, <4>2 DEF Told
    <3>4. QED
      BY <3>2, <3>3
  <2>2. Cardinality(DOMAIN SubTypes) \in Nat
    BY TypesAssumption, FS_CardinalityType
  <2>3. DOMAIN SubTypes \subseteq Nat
    BY <2>2, TypesAssumption
  <2>4. CASE class \in DOMAIN Words
    <3>1. /\ KM(class) = SeqSpan + GetSeq(class)
          /\ GetSeq(class) \in DOMAIN SubTypes /\ GetSeq(class) > 2
      BY <2>3, <2>4, WordsAssumption
    <3>2. \A c \in DOMAIN SubTypes : KM(class) = SeqSpan + c <=> c = GetSeq(class)
      BY <2>3, <3>1, KeyAssumption
    <3>3. QED
      BY <2>1, <3>1, <3>2 DEF OfClass, GetHierarchyForType
  <2>5. CASE class \notin DOMAIN Words
    <3>1. KM(class) = 0
      BY <2>5 DEF KM
    <3>2. \A c \in DOMAIN SubTypes : KM(class) # SeqSpan + c
      BY <2>3, <3>1, KeyAssumption
    <3>3. QED
      BY <2>1, <2>5, <3>2, UnknownClass
  <2>6. QED
    BY <2>4, <2>5
<1>9. QED
  BY <1>7, <1>8

\* The queries the nodes answer on their own, and the one of the single process.
Direct == {"q01", "q03", "q05", "q06", "q10", "q13", "q14", "Dq01", "Cq01"}

\* A row of a binding.
Row(sel, b) == [i \in DOMAIN sel.columns |-> b[sel.columns[i]]]

\* What is asked for, row by row, with no box and no variant.
LEMMA AskedRows ==
  ASSUME query \in Direct
  PROVE  \A r : r \in Asked <=>
           \E sel \in SPARQL[query] :
             \E b \in Solutions(IF query = "Dq01" THEN lines ELSE Facts, sel.patterns) : r = Row(sel, b)
<1>1. Text = query
  BY DEF Direct, Text
<1>2. query # "q15"
  BY DEF Direct
<1>3. \A d : InBox(d)
  BY DEF Direct, InBox
<1>4. PICK quads : quads = IF query = "Dq01" THEN lines ELSE Facts
  OBVIOUS
<1>5. (Text \in {"q16s1", "Dq01"}) = (query = "Dq01")
  BY <1>1 DEF Direct
<1> DEFINE RowsOfSel(sel) == {[i \in DOMAIN sel.columns |-> b[sel.columns[i]]] :
                                b \in {d \in Solutions(quads, sel.patterns) : InBox(d)}}
<1>6. Asked = UNION {RowsOfSel(sel) : sel \in SPARQL[query]}
  BY <1>1, <1>2, <1>4, <1>5 DEF Asked
<1>7. \A sel, r : r \in RowsOfSel(sel) <=> \E b \in Solutions(quads, sel.patterns) : r = Row(sel, b)
  BY <1>3 DEF Row
<1> HIDE DEF RowsOfSel
<1>8. QED
  BY <1>4, <1>6, <1>7

\* One column.
LEMMA RowOfOne ==
  ASSUME NEW v, NEW T
  PROVE  /\ Select(<<v>>, T).patterns = T
         /\ \A b : Row(Select(<<v>>, T), b) = <<b[v]>>
<1>1. DOMAIN <<v>> = {1} /\ <<v>>[1] = v
  OBVIOUS
<1>2. ASSUME NEW b
      PROVE  [i \in DOMAIN <<v>> |-> b[<<v>>[i]]] = <<b[v]>>
  <2>1. [i \in DOMAIN <<v>> |-> b[<<v>>[i]]] = [i \in 1 .. 1 |-> b[v]]
    BY <1>1
  <2>2. QED
    BY <2>1
<1>3. QED
  BY <1>2 DEF Row, Select

\* Two columns.
LEMMA RowOfTwo ==
  ASSUME NEW v, NEW w, NEW T
  PROVE  /\ Select(<<v, w>>, T).patterns = T
         /\ \A b : Row(Select(<<v, w>>, T), b) = <<b[v], b[w]>>
<1>1. DOMAIN <<v, w>> = 1 .. 2 /\ <<v, w>>[1] = v /\ <<v, w>>[2] = w
  OBVIOUS
<1>2. ASSUME NEW b
      PROVE  [i \in DOMAIN <<v, w>> |-> b[<<v, w>>[i]]] = <<b[v], b[w]>>
  <2>1. [i \in DOMAIN <<v, w>> |-> b[<<v, w>>[i]]] = [i \in 1 .. 2 |-> IF i = 1 THEN b[v] ELSE b[w]]
    BY <1>1
  <2>2. QED
    BY <2>1
<1>3. QED
  BY <1>2 DEF Row, Select

\* One object and one class are asked for.
AsksLink(p, o, class) ==
  /\ SPARQL[query] = {Select(<<"?x">>, <<<<"?x", p, o>>, A("?x", class)>>)}
  /\ class \in Classes /\ p \notin Vars \union {"a"} /\ o \notin Vars
  /\ query \in Direct \ {"Dq01"}
Linked(k, p, o, class) == Told(lines, k, KM(p), KM(o)) /\ OfClass(GetType(k), class)

\* Its rows are who is linked.
LEMMA LinkAndClass ==
  ASSUME LinesGiven, NEW p, NEW o, NEW class, AsksLink(p, o, class)
  PROVE  \A r : r \in Asked <=> \E k : Linked(k, p, o, class) /\ r = <<k>>
<1>0. /\ SPARQL[query] = {Select(<<"?x">>, <<<<"?x", p, o>>, A("?x", class)>>)}
      /\ class \in Classes /\ p \notin Vars \union {"a"} /\ o \notin Vars
      /\ query \in Direct \ {"Dq01"}
  BY DEF AsksLink
<1>1. PICK T, sel : T = <<<<"?x", p, o>>, A("?x", class)>> /\ sel = Select(<<"?x">>, T)
  OBVIOUS
<1>2. class \notin Vars /\ "a" \notin Vars
  BY <1>0 DEF Classes, Vars
<1>3. sel.patterns = T /\ \A b : Row(sel, b) = <<b["?x"]>>
  BY <1>1, RowOfOne
<1>4. \A k : To("?x", k)["?x"] = k
  BY DEF To
<1>5. \A b : b \in Match(Facts, <<>>, <<"?x", p, o>>) <=>
               \E k : b = To("?x", k) /\ Told(Facts, k, KM(p), KM(o))
  BY <1>0, MatchSubject
<1>6. \A k, b : b \in Match(Facts, To("?x", k), A("?x", class)) <=>
                  b = To("?x", k) /\ Told(Facts, k, KM("a"), KM(class))
  BY <1>2, MatchSubject DEF A
<1>7. \A b : b \in Solutions(Facts, T) <=>
        \E k : b = To("?x", k) /\ Told(Facts, k, KM(p), KM(o)) /\ Told(Facts, k, KM("a"), KM(class))
  <2>1. \A b : b \in Solutions(Facts, T) <=>
          \E c \in Match(Facts, <<>>, <<"?x", p, o>>) : b \in Match(Facts, c, A("?x", class))
    BY <1>1, SolutionsOfTwo
  <2>2. QED
    BY <1>5, <1>6, <2>1
<1>8. \A k : Told(lines, k, KM(p), KM(o)) => Occurs(k)
  BY DEF Told, Occurs
<1>9. \A k : Told(Facts, k, KM(p), KM(o)) /\ Told(Facts, k, KM("a"), KM(class)) <=>
               Told(lines, k, KM(p), KM(o)) /\ OfClass(GetType(k), class)
  BY <1>0, <1>8, FactsTell
<1>10. \A r : r \in Asked <=> \E b \in Solutions(Facts, T) : r = <<b["?x"]>>
  <2>1. query \in Direct /\ query # "Dq01" /\ SPARQL[query] = {sel}
    BY <1>0, <1>1
  <2>2. \A r : r \in Asked <=> \E s \in {sel} : \E b \in Solutions(Facts, s.patterns) : r = Row(s, b)
    BY <2>1, AskedRows
  <2>3. QED
    BY <1>3, <2>2
<1>11. QED
  BY <1>4, <1>7, <1>9, <1>10 DEF Linked

\* Who is of a class.
LEMMA ClassOnly ==
  ASSUME LinesGiven, NEW class \in Classes, query \in Direct \ {"Dq01"},
         SPARQL[query] = {Select(<<"?x">>, <<A("?x", class)>>)}
  PROVE  \A r : r \in Asked <=> \E k : Occurs(k) /\ OfClass(GetType(k), class) /\ r = <<k>>
<1>1. PICK T, sel : T = <<A("?x", class)>> /\ sel = Select(<<"?x">>, T)
  OBVIOUS
<1>2. class \notin Vars /\ "a" \notin Vars
  BY DEF Classes, Vars
<1>3. sel.patterns = T /\ \A b : Row(sel, b) = <<b["?x"]>>
  BY <1>1, RowOfOne
<1>4. \A k : To("?x", k)["?x"] = k
  BY DEF To
<1>5. \A b : b \in Match(Facts, <<>>, A("?x", class)) <=>
               \E k : b = To("?x", k) /\ Told(Facts, k, KM("a"), KM(class))
  BY <1>2, MatchSubject DEF A
<1>6. Solutions(Facts, T) = Match(Facts, <<>>, A("?x", class))
  BY <1>1, SolutionsOfOne
<1>7. \A r : r \in Asked <=> \E b \in Solutions(Facts, T) : r = <<b["?x"]>>
  <2>1. query \in Direct /\ query # "Dq01" /\ SPARQL[query] = {sel}
    BY <1>1
  <2>2. \A r : r \in Asked <=> \E s \in {sel} : \E b \in Solutions(Facts, s.patterns) : r = Row(s, b)
    BY <2>1, AskedRows
  <2>3. QED
    BY <1>3, <2>2
<1>8. QED
  BY <1>4, <1>5, <1>6, <1>7, FactsTell

Degrees13 == {"doctoralDegreeFrom", "mastersDegreeFrom", "undergraduateDegreeFrom"}

\* What the text of a query asks of k.
Wanted(q, k) ==
  CASE q \in {"q01", "Cq01"} -> Linked(k, "takesCourse", "GraduateCourse0", "GraduateStudent")
    [] q = "q03" -> Linked(k, "publicationAuthor", "AssistantProfessor0", "Publication")
    [] q = "q05" -> Linked(k, "memberOf", "Department0", "Person")
    [] q = "q06" -> Occurs(k) /\ OfClass(GetType(k), "Student")
    [] q = "q10" -> Linked(k, "takesCourse", "GraduateCourse0", "Person")
    [] q = "q13" -> \E p \in Degrees13 : Told(lines, k, KM(p), KM("University0"))
    [] q = "q14" -> Occurs(k) /\ OfClass(GetType(k), "UndergraduateStudent")

\* The solutions of a text are what it asks.
LEMMA AskedIsWanted ==
  ASSUME LinesGiven, query \in Direct \ {"Dq01"}
  PROVE  \A r : r \in Asked <=> \E k : Wanted(query, k) /\ r = <<k>>
<1>1. CASE query \in {"q01", "Cq01"}
  <2>1. AsksLink("takesCourse", "GraduateCourse0", "GraduateStudent")
    BY <1>1, TextsAre DEF AsksLink, Classes, Vars, Direct
  <2>2. \A r : r \in Asked <=> \E k : Linked(k, "takesCourse", "GraduateCourse0", "GraduateStudent") /\ r = <<k>>
    BY <2>1, LinkAndClass
  <2>3. QED
    BY <1>1, <2>2 DEF Wanted
<1>2. CASE query = "q03"
  <2>1. AsksLink("publicationAuthor", "AssistantProfessor0", "Publication")
    BY <1>2, TextsAre DEF AsksLink, Classes, Vars, Direct
  <2>2. \A r : r \in Asked <=> \E k : Linked(k, "publicationAuthor", "AssistantProfessor0", "Publication") /\ r = <<k>>
    BY <2>1, LinkAndClass
  <2>3. QED
    BY <1>2, <2>2 DEF Wanted
<1>3. CASE query = "q05"
  <2>1. AsksLink("memberOf", "Department0", "Person")
    BY <1>3, TextsAre DEF AsksLink, Classes, Vars, Direct
  <2>2. \A r : r \in Asked <=> \E k : Linked(k, "memberOf", "Department0", "Person") /\ r = <<k>>
    BY <2>1, LinkAndClass
  <2>3. QED
    BY <1>3, <2>2 DEF Wanted
<1>4. CASE query = "q10"
  <2>1. AsksLink("takesCourse", "GraduateCourse0", "Person")
    BY <1>4, TextsAre DEF AsksLink, Classes, Vars, Direct
  <2>2. \A r : r \in Asked <=> \E k : Linked(k, "takesCourse", "GraduateCourse0", "Person") /\ r = <<k>>
    BY <2>1, LinkAndClass
  <2>3. QED
    BY <1>4, <2>2 DEF Wanted
<1>5. CASE query = "q06"
  <2>1. SPARQL[query] = {Select(<<"?x">>, <<A("?x", "Student")>>)}
    BY <1>5, TextsAre
  <2>2. \A r : r \in Asked <=> \E k : Occurs(k) /\ OfClass(GetType(k), "Student") /\ r = <<k>>
    BY <2>1, ClassOnly DEF Classes
  <2>3. QED
    BY <1>5, <2>2 DEF Wanted
<1>6. CASE query = "q14"
  <2>1. SPARQL[query] = {Select(<<"?x">>, <<A("?x", "UndergraduateStudent")>>)}
    BY <1>6, TextsAre
  <2>2. \A r : r \in Asked <=> \E k : Occurs(k) /\ OfClass(GetType(k), "UndergraduateStudent") /\ r = <<k>>
    BY <2>1, ClassOnly DEF Classes
  <2>3. QED
    BY <1>6, <2>2 DEF Wanted
<1>7. CASE query = "q13"
  <2> DEFINE Link(p) == <<"?x", p, "University0">>
             Sel(p) == Select(<<"?x">>, <<Link(p)>>)
  <2>1. SPARQL[query] = {Sel(p) : p \in Degrees13}
    BY <1>7, TextsAre DEF Degrees13
  <2>2. \A p : Sel(p).patterns = <<Link(p)>> /\ \A b : Row(Sel(p), b) = <<b["?x"]>>
    BY RowOfOne
  <2>3. \A p \in Degrees13 : p \notin Vars /\ p # "a" /\ "University0" \notin Vars
    BY DEF Vars, Degrees13
  <2>4. \A r : r \in Asked <=>
          \E sel \in SPARQL[query] : \E b \in Solutions(Facts, sel.patterns) : r = Row(sel, b)
    BY <1>7, AskedRows
  <2>5. \A p \in Degrees13 : \A b : b \in Match(Facts, <<>>, Link(p)) <=>
          \E k : b = To("?x", k) /\ Told(Facts, k, KM(p), KM("University0"))
    BY <2>3, MatchSubject
  <2>6. \A p : Solutions(Facts, <<Link(p)>>) = Match(Facts, <<>>, Link(p))
    BY SolutionsOfOne
  <2> HIDE DEF Sel
  <2>7. \A r : r \in Asked <=> \E p \in Degrees13 : \E b \in Solutions(Facts, Sel(p).patterns) : r = Row(Sel(p), b)
    BY <2>1, <2>4
  <2>8. \A r : r \in Asked <=> \E p \in Degrees13 : \E b \in Match(Facts, <<>>, Link(p)) : r = <<b["?x"]>>
    <3> HIDE DEF Link
    <3>1. \A p : Solutions(Facts, Sel(p).patterns) = Match(Facts, <<>>, Link(p))
      BY <2>2, <2>6
    <3>2. \A p, b : Row(Sel(p), b) = <<b["?x"]>>
      BY <2>2
    <3>3. ASSUME NEW r, NEW p
          PROVE  (\E b \in Solutions(Facts, Sel(p).patterns) : r = Row(Sel(p), b)) <=>
                   \E b \in Match(Facts, <<>>, Link(p)) : r = <<b["?x"]>>
      BY <3>1, <3>2, Zenon
    <3>4. QED
      BY <2>7, <3>3, Zenon
  <2>9. \A k : To("?x", k)["?x"] = k
    BY DEF To
  <2>10. \A p \in Degrees13 : \A k : Told(Facts, k, KM(p), KM("University0")) <=> Told(lines, k, KM(p), KM("University0"))
    BY <2>3, FactsTell
  <2>11. \A k : Wanted(query, k) <=> \E p \in Degrees13 : Told(lines, k, KM(p), KM("University0"))
    BY <1>7 DEF Wanted
  <2> HIDE DEF Link
  <2>12. \A r, p : (\E b \in Match(Facts, <<>>, Link(p)) : r = <<b["?x"]>>) /\ p \in Degrees13 <=>
                     p \in Degrees13 /\ \E k : Told(lines, k, KM(p), KM("University0")) /\ r = <<k>>
    BY <2>5, <2>9, <2>10
  <2>13. QED
    BY <2>8, <2>11, <2>12
<1>8. QED
  BY <1>1, <1>2, <1>3, <1>4, <1>5, <1>6, <1>7 DEF Direct

\* Dq01: the words of the lines themselves.
LEMMA AskedAbout ==
  ASSUME query = "Dq01"
  PROVE  \A r : r \in Asked <=>
           \E q \in lines : q.subject = KM("Metropolitan_Museum") /\ r = <<q.predicate, q.object>>
<1>1. PICK T, sel : T = <<<<"Metropolitan_Museum", "?p", "?b">>>> /\ sel = Select(<<"?p", "?b">>, T)
  OBVIOUS
<1>2. sel.patterns = T /\ \A b : Row(sel, b) = <<b["?p"], b["?b"]>>
  BY <1>1, RowOfTwo
<1>3. SPARQL[query] = {sel}
  BY <1>1, TextsAre
<1>4. \A r : r \in Asked <=> \E s \in {sel} : \E b \in Solutions(lines, s.patterns) : r = Row(s, b)
  BY <1>3, AskedRows DEF Direct
<1>5. Solutions(lines, T) = Match(lines, <<>>, <<"Metropolitan_Museum", "?p", "?b">>)
  BY <1>1, SolutionsOfOne
<1>6. "Metropolitan_Museum" \notin Vars
  BY DEF Vars
<1>7. PICK found : found = Match(lines, <<>>, <<"Metropolitan_Museum", "?p", "?b">>)
  OBVIOUS
<1>8. \A r : r \in Asked <=> \E b \in found : r = <<b["?p"], b["?b"]>>
  BY <1>2, <1>4, <1>5, <1>7
<1>9. \A r : (\E b \in found : r = <<b["?p"], b["?b"]>>) <=>
               \E q \in lines : q.subject = KM("Metropolitan_Museum") /\ r = <<q.predicate, q.object>>
  BY <1>6, <1>7, MatchSaid
<1>10. QED
  BY <1>8, <1>9

\* What a node looks for among the subjects k of its molecules.
Found(q, k) ==
  CASE q \in {"q01", "Cq01"} ->
         Told(lines, k, KM("takesCourse"), KM("GraduateCourse0")) /\ GetType(k) = GetSeq("GraduateStudent")
    [] q = "q03" ->
         Told(lines, k, KM("publicationAuthor"), KM("AssistantProfessor0")) /\ GetType(k) = GetSeq("Publication")
    [] q = "q05" -> Linked(k, "memberOf", "Department0", "Person")
    [] q = "q06" -> OfClass(GetType(k), "Student")
    [] q = "q10" -> Linked(k, "takesCourse", "GraduateCourse0", "Person")
    [] q = "q13" -> \E p \in Degrees13 : Told(lines, k, KM(p), KM("University0"))
    [] q = "q14" -> GetType(k) = GetSeq("UndergraduateStudent")

IsPlain(class) == \A x : Occurs(x) /\ OfClass(GetType(x), class) => GetType(x) = GetSeq(class)
IsDescribed(class) == \A x : Occurs(x) /\ OfClass(GetType(x), class) => x \in SubjectsOf(lines)

\* The parts of Granted these queries rely on.
LEMMA WhatIsGranted ==
  ASSUME Granted
  PROVE  /\ query \in {"q01", "Cq01"} => IsPlain("GraduateStudent")
         /\ query = "q03" => IsPlain("Publication")
         /\ query = "q06" => IsDescribed("Student")
         /\ query = "q14" => IsPlain("UndergraduateStudent") /\ IsDescribed("UndergraduateStudent")
<1> DEFINE Ends == UNION {{q.subject, q.object} : q \in lines}
           Plain(class) == \A x \in Ends : GetType(x) \in GetHierarchyForType(GetSeq(class)) => GetType(x) = GetSeq(class)
           Described(class) ==
             \A x \in Ends : GetType(x) \in GetHierarchyForType(GetSeq(class)) => x \in SubjectsOf(lines)
<1>1. \A x : x \in Ends <=> Occurs(x)
  BY DEF Occurs
<1>2. CASE query = "q01"
  <2>1. Plain("GraduateStudent")
    BY <1>2 DEF Granted
  <2>2. QED
    BY <1>1, <1>2, <2>1 DEF IsPlain, OfClass
<1>3. CASE query = "Cq01"
  <2>1. Plain("GraduateStudent")
    BY <1>3 DEF Granted
  <2>2. QED
    BY <1>1, <1>3, <2>1 DEF IsPlain, OfClass
<1>4. CASE query = "q03"
  <2>1. Plain("Publication")
    BY <1>4 DEF Granted
  <2>2. QED
    BY <1>1, <1>4, <2>1 DEF IsPlain, OfClass
<1>5. CASE query = "q06"
  <2>1. Described("Student")
    BY <1>5 DEF Granted
  <2>2. QED
    BY <1>1, <1>5, <2>1 DEF IsDescribed, OfClass
<1>6. CASE query = "q14"
  <2>1. Plain("UndergraduateStudent") /\ Described("UndergraduateStudent")
    BY <1>6 DEF Granted
  <2>2. QED
    BY <1>1, <1>6, <2>1 DEF IsPlain, IsDescribed, OfClass
<1>7. QED
  BY <1>2, <1>3, <1>4, <1>5, <1>6

\* As far as the data is as granted, the nodes look for what is wanted.
LEMMA FoundIsWanted ==
  ASSUME LinesGiven, Granted, query \in Direct \ {"Dq01"}
  PROVE  \A k : k \in SubjectsOf(lines) /\ Found(query, k) <=> Wanted(query, k)
<1>1. \A k, p, o : Told(lines, k, p, o) => k \in SubjectsOf(lines)
  BY DEF Told, SubjectsOf
<1>2. \A k : k \in SubjectsOf(lines) => Occurs(k)
  BY DEF SubjectsOf, Occurs
<1>3. \A k : Occurs(k) => GetType(k) \in DOMAIN SubTypes
  BY TypesAreNumbers, TypesAssumption DEF LinesGiven, IsDataset, Quads, Occurs
<1>4. \A k, class : Occurs(k) /\ GetType(k) = GetSeq(class) => OfClass(GetType(k), class)
  BY <1>3, HierarchyHas DEF OfClass
<1>5. CASE query \in {"q01", "Cq01"}
  BY <1>1, <1>2, <1>4, <1>5, WhatIsGranted DEF Found, Wanted, IsPlain, Linked
<1>6. CASE query = "q03"
  BY <1>1, <1>2, <1>4, <1>6, WhatIsGranted DEF Found, Wanted, IsPlain, Linked
<1>7. CASE query \in {"q05", "q10"}
  BY <1>1, <1>7 DEF Found, Wanted, Linked
<1>8. CASE query = "q06"
  BY <1>2, <1>8, WhatIsGranted DEF Found, Wanted, IsDescribed
<1>9. CASE query = "q13"
  BY <1>1, <1>9 DEF Found, Wanted
<1>10. CASE query = "q14"
  BY <1>2, <1>4, <1>10, WhatIsGranted DEF Found, Wanted, IsPlain, IsDescribed
<1>11. QED
  BY <1>5, <1>6, <1>7, <1>8, <1>9, <1>10 DEF Direct

\* The rows that are found among the molecules of some subjects.
Rows(q, S) ==
  IF q = "Dq01"
    THEN {<<x.predicate, x.object>> : x \in {y \in lines : y.subject = KM("Metropolitan_Museum") /\ y.subject \in S}}
    ELSE {<<k>> : k \in {j \in S : Found(q, j)}}

\* The rows found among all subjects are the solutions over the whole dataset.
LEMMA RowsAreAsked ==
  ASSUME LinesGiven, Granted, query \in Direct
  PROVE  Asked = Rows(query, SubjectsOf(lines))
<1>1. CASE query = "Dq01"
  <2>1. \A q \in lines : q.subject \in SubjectsOf(lines)
    BY DEF SubjectsOf
  <2>2. \A r : r \in Rows(query, SubjectsOf(lines)) <=>
          \E q \in lines : q.subject = KM("Metropolitan_Museum") /\ r = <<q.predicate, q.object>>
    BY <1>1, <2>1 DEF Rows
  <2>3. \A r : r \in Asked <=>
          \E q \in lines : q.subject = KM("Metropolitan_Museum") /\ r = <<q.predicate, q.object>>
    BY <1>1, AskedAbout
  <2>4. QED
    BY <2>2, <2>3
<1>2. CASE query # "Dq01"
  <2>1. \A r : r \in Rows(query, SubjectsOf(lines)) <=>
          \E k : k \in SubjectsOf(lines) /\ Found(query, k) /\ r = <<k>>
    BY <1>2 DEF Rows
  <2>2. \A r : r \in Asked <=> \E k : Wanted(query, k) /\ r = <<k>>
    BY <1>2, AskedIsWanted
  <2>3. \A k : k \in SubjectsOf(lines) /\ Found(query, k) <=> Wanted(query, k)
    BY <1>2, FoundIsWanted
  <2>4. QED
    BY <2>1, <2>2, <2>3
<1>3. QED
  BY <1>1, <1>2
------------------------------------------------------------------------------
(***************************************************************************)
(* The modules of the queries look up what NodeQueries does.               *)
(***************************************************************************)

\* With the same constants, they find the same.
LEMMA LookUpsOfNodes ==
  ASSUME NEW n
  PROVE  /\ \A types, p, o : L!Subjects(n, types, p, o) = Subjects(n, types, p, o)
         /\ \A types : L!LocalOf(n, types) = LocalOf(n, types)
         /\ \A root, p, o : L!RootTemplates(n, root, p, o) = RootTemplates(n, root, p, o)
         /\ \A s, t, o : L!Exists(n, s, t, o) <=> Exists(n, s, t, o)
         /\ \A o : L!Mentioning(n, o) = Mentioning(n, o)
         /\ \A s : D!Everything(n, s) = Everything(n, s)
         /\ \A s : D!IsItMyObject(n, s) <=> IsItMyObject(n, s)
         /\ \A types, p, o : C!Subjects(n, types, p, o) = Subjects(n, types, p, o)
         /\ \A o : C!Mentioning(n, o) = Mentioning(n, o)
<1>1. \A m : L!Elements(m) = Elements(m) /\ D!Elements(m) = Elements(m) /\ C!Elements(m) = Elements(m)
  BY DEF L!Elements, D!Elements, C!Elements, Elements
<1>2. \A k : L!GetType(k) = GetType(k) /\ D!GetType(k) = GetType(k) /\ C!GetType(k) = GetType(k)
  BY DEF L!GetType, D!GetType, C!GetType, GetType
<1>3. \A w : L!KM(w) = KM(w) /\ C!KM(w) = KM(w)
  BY DEF L!KM, C!KM, KM
<1>4. L!Wild = Wild /\ C!Wild = Wild /\ L!NoTemplate = NoTemplate /\ C!NoTemplate = NoTemplate
      /\ L!NoMolecule = NoMolecule /\ D!NoMolecule = NoMolecule
  BY DEF L!Wild, C!Wild, Wild, L!NoTemplate, C!NoTemplate, NoTemplate, L!NoMolecule, D!NoMolecule, NoMolecule
<1>5. \A m, tmpls, o : /\ L!CheckIfEntityExists(m, tmpls, o, FALSE, {}) = CheckIfEntityExists(m, tmpls, o, FALSE, {})
                       /\ C!CheckIfEntityExists(m, tmpls, o, FALSE, {}) = CheckIfEntityExists(m, tmpls, o, FALSE, {})
  BY <1>1, <1>4, Zenon DEF L!CheckIfEntityExists, C!CheckIfEntityExists, CheckIfEntityExists,
         L!provenanceTriger, C!provenanceTriger, provenanceTriger
<1>6. \A s, t, o : (L!Exists(n, s, t, o) <=> Exists(n, s, t, o)) /\ (C!Exists(n, s, t, o) <=> Exists(n, s, t, o))
  BY <1>5 DEF L!Exists, C!Exists, Exists
<1>7. \A u, v : (L!Before(u, v) <=> Before(u, v)) /\ (C!Before(u, v) <=> Before(u, v))
  BY DEF L!Before, C!Before, Before
<1>8. ASSUME NEW tm, NEW root, NEW s, NEW p, NEW o, NEW k
      PROVE  /\ L!GetTripleTemplate(tm, root, s, p, o, k) = GetTripleTemplate(tm, root, s, p, o, k)
             /\ C!GetTripleTemplate(tm, root, s, p, o, k) = GetTripleTemplate(tm, root, s, p, o, k)
  <2> DEFINE hit == {u \in tm[root] : /\ s \in {0, u.subjectType} /\ u.predicateID = p
                                      /\ o \in {0, u.objectType} /\ u.scope = k}
             found == root \in DOMAIN tm /\ hit # {}
             first == CHOOSE u \in hit : \A v \in hit \ {u} : Before(u, v)
             Lfirst == CHOOSE u \in hit : \A v \in hit \ {u} : L!Before(u, v)
             Cfirst == CHOOSE u \in hit : \A v \in hit \ {u} : C!Before(u, v)
  <2>1. /\ L!GetTripleTemplate(tm, root, s, p, o, k) = IF found THEN Lfirst.ID ELSE L!NoTemplate
        /\ C!GetTripleTemplate(tm, root, s, p, o, k) = IF found THEN Cfirst.ID ELSE C!NoTemplate
        /\ GetTripleTemplate(tm, root, s, p, o, k) = IF found THEN first.ID ELSE NoTemplate
    BY DEF L!GetTripleTemplate, C!GetTripleTemplate, GetTripleTemplate
  <2>2. Lfirst = first /\ Cfirst = first
    BY DEF L!Before, C!Before, Before
  <2> HIDE DEF found, first, Lfirst, Cfirst
  <2>3. QED
    BY <1>4, <2>1, <2>2
<1>9. \A s, p, t : L!TemplateTo(n, s, p, t) = TemplateTo(n, s, p, t) /\ C!TemplateTo(n, s, p, t) = TemplateTo(n, s, p, t)
  BY <1>2, <1>3, <1>8 DEF L!TemplateTo, C!TemplateTo, TemplateTo
<1>10. \A o : L!Mentioning(n, o) = Mentioning(n, o) /\ C!Mentioning(n, o) = Mentioning(n, o)
  BY DEF L!Mentioning, C!Mentioning, Mentioning
<1>11. \A types, p, o : /\ L!Subjects(n, types, p, o) = Subjects(n, types, p, o)
                        /\ C!Subjects(n, types, p, o) = Subjects(n, types, p, o)
  BY <1>2, <1>6, <1>9, <1>10 DEF L!Subjects, C!Subjects, Subjects
<1>12. \A types : L!ElementsOf(n, types) = ElementsOf(n, types)
  BY DEF L!ElementsOf, ElementsOf
<1>13. \A s : (L!IsItMyObject(n, s) <=> IsItMyObject(n, s)) /\ (D!IsItMyObject(n, s) <=> IsItMyObject(n, s))
  BY <1>4 DEF L!IsItMyObject, D!IsItMyObject, IsItMyObject
<1>14. \A types : L!LocalOf(n, types) = LocalOf(n, types)
  BY <1>12, <1>13 DEF L!LocalOf, LocalOf
<1>15. \A tm, s, p, o, k : L!GetTemplatesByRoot(tm, s, p, o, k) = GetTemplatesByRoot(tm, s, p, o, k)
  BY Zenon DEF L!GetTemplatesByRoot, GetTemplatesByRoot, L!Wild, Wild
<1>16. \A root, p, o : L!RootTemplates(n, root, p, o) = RootTemplates(n, root, p, o)
  BY <1>3, <1>4, <1>15 DEF L!RootTemplates, RootTemplates
<1>17. \A tm, root, id : D!GetPredicate(tm, root, id) = GetPredicate(tm, root, id)
  BY Zenon DEF D!GetPredicate, GetPredicate
<1>18. \A s : D!Everything(n, s) = Everything(n, s)
  BY <1>1, <1>2, <1>17 DEF D!Everything, Everything
<1>19. QED
  BY <1>6, <1>10, <1>11, <1>13, <1>14, <1>16, <1>18

\* They know the same words and classes.
LEMMA WordsOfNodes ==
  /\ \A word : L!KM(word) = KM(word) /\ D!KM(word) = KM(word) /\ C!KM(word) = KM(word)
  /\ \A k : L!GetType(k) = GetType(k)
  /\ \A class : L!Type(class) = {GetSeq(class)} /\ C!GetCompositesForTypes(C!GetSeq(class)) = {GetSeq(class)}
  /\ \A class : L!Hierarchy(class) = GetHierarchyForType(GetSeq(class))
  /\ \A S : L!Ready(L!RowsOf(S)) = Ready(RowsOf(S)) /\ D!Ready(S) = Ready(S) /\ C!RowsOf(S) = RowsOf(S)
<1>1. \A word : L!KM(word) = KM(word) /\ D!KM(word) = KM(word) /\ C!KM(word) = KM(word)
  BY DEF L!KM, D!KM, C!KM, KM
<1>2. \A class : L!GetSeq(class) = GetSeq(class) /\ C!GetSeq(class) = GetSeq(class)
  BY <1>1 DEF L!GetSeq, C!GetSeq, GetSeq
<1>3. L!hierarchy = hierarchy
  BY Zenon DEF L!hierarchy, hierarchy, L!GetCompositesForTypes, GetCompositesForTypes
<1>4. \A t : L!GetCompositesForTypes(t) = {t} /\ C!GetCompositesForTypes(t) = {t}
             /\ L!GetHierarchyForType(t) = GetHierarchyForType(t)
  BY <1>3 DEF L!GetCompositesForTypes, C!GetCompositesForTypes, L!GetHierarchyForType, GetHierarchyForType
<1>5. \A class : L!Type(class) = {GetSeq(class)} /\ L!Hierarchy(class) = GetHierarchyForType(GetSeq(class))
  BY <1>2, <1>4 DEF L!Type, L!Hierarchy
<1>6. \A S : L!Ready(L!RowsOf(S)) = Ready(RowsOf(S)) /\ D!Ready(S) = Ready(S) /\ C!RowsOf(S) = RowsOf(S)
  BY DEF L!Ready, L!RowsOf, D!Ready, C!RowsOf, Ready, RowsOf, L!Message, D!Message, Message
<1>7. \A k : L!GetType(k) = GetType(k)
  BY DEF L!GetType, GetType
<1>8. QED
  BY <1>1, <1>2, <1>4, <1>5, <1>6, <1>7

\* Rows of one column are the same when their members are.
LEMMA SameRows ==
  ASSUME NEW q, q # "Dq01", NEW S, NEW my, \A k : k \in S <=> k \in my /\ Found(q, k)
  PROVE  RowsOf(S) = Rows(q, my)
<1>1. S = {j \in my : Found(q, j)}
  OBVIOUS
<1>2. QED
  BY <1>1 DEF RowsOf, Rows

\* A node sends the rows of its own subjects, whatever the round.
LEMMA RepliesAreRows ==
  ASSUME NEW n, NEW my, LinesGiven, Knows(n, my, lines), NEW q \in Direct \ {"Cq01"}, NEW r, NEW rows
  PROVE  Replies(q, r, n, rows) = {Ready(Rows(q, my))}
<1>1. \A types, p, o : \A s :
        s \in Subjects(n, types, p, o) <=> s \in my /\ GetType(s) \in types /\ Told(lines, s, KM(p), o)
  BY SubjectsExactly DEF LinesGiven
<1>2. \A types : \A s : s \in LocalOf(n, types) <=> s \in my /\ GetType(s) \in types
  BY LocalExactly DEF LinesGiven
<1>3. CASE q = "q01"
  <2>1. PICK S : S = Subjects(n, {GetSeq("GraduateStudent")}, "takesCourse", KM("GraduateCourse0"))
    OBVIOUS
  <2>2. Replies(q, r, n, rows) = {Ready(RowsOf(S))}
    BY <1>3, <2>1, LookUpsOfNodes, WordsOfNodes DEF Replies, L!q01_n
  <2>3. \A k : k \in S <=> k \in my /\ Found(q, k)
    BY <1>1, <1>3, <2>1 DEF Found
  <2>4. QED
    BY <1>3, <2>2, <2>3, SameRows
<1>4. CASE q = "q03"
  <2>1. PICK S : S = Subjects(n, {GetSeq("Publication")}, "publicationAuthor", KM("AssistantProfessor0"))
    OBVIOUS
  <2>2. Replies(q, r, n, rows) = {Ready(RowsOf(S))}
    BY <1>4, <2>1, LookUpsOfNodes, WordsOfNodes DEF Replies, L!q03_n
  <2>3. \A k : k \in S <=> k \in my /\ Found(q, k)
    BY <1>1, <1>4, <2>1 DEF Found
  <2>4. QED
    BY <1>4, <2>2, <2>3, SameRows
<1>5. CASE q = "q05"
  <2>1. PICK S : S = Subjects(n, GetHierarchyForType(GetSeq("Person")), "memberOf", KM("Department0"))
    OBVIOUS
  <2>2. Replies(q, r, n, rows) = {Ready(RowsOf(S))}
    BY <1>5, <2>1, LookUpsOfNodes, WordsOfNodes DEF Replies, L!q05_n
  <2>3. \A k : k \in S <=> k \in my /\ Found(q, k)
    BY <1>1, <1>5, <2>1 DEF Found, Linked, OfClass
  <2>4. QED
    BY <1>5, <2>2, <2>3, SameRows
<1>6. CASE q = "q06"
  <2>1. PICK S : S = LocalOf(n, GetHierarchyForType(GetSeq("Student")))
    OBVIOUS
  <2>2. Replies(q, r, n, rows) = {Ready(RowsOf(S))}
    BY <1>6, <2>1, LookUpsOfNodes, WordsOfNodes DEF Replies, L!q06_n
  <2>3. \A k : k \in S <=> k \in my /\ Found(q, k)
    BY <1>2, <1>6, <2>1 DEF Found, OfClass
  <2>4. QED
    BY <1>6, <2>2, <2>3, SameRows
<1>7. CASE q = "q10"
  <2>1. PICK S : S = Subjects(n, GetHierarchyForType(GetSeq("Person")), "takesCourse", KM("GraduateCourse0"))
    OBVIOUS
  <2>2. Replies(q, r, n, rows) = {Ready(RowsOf(S))}
    BY <1>7, <2>1, LookUpsOfNodes, WordsOfNodes DEF Replies, L!q10_n
  <2>3. \A k : k \in S <=> k \in my /\ Found(q, k)
    BY <1>1, <1>7, <2>1 DEF Found, Linked, OfClass
  <2>4. QED
    BY <1>7, <2>2, <2>3, SameRows
<1>8. CASE q = "q13"
  <2> DEFINE University == KM("University0")
             Ids(s) == UNION {RootTemplates(n, GetType(s), p, GetType(University)) : p \in Degrees13}
             graduates == {s \in Mentioning(n, University) : \E t \in Ids(s) : Exists(n, s, t, University)}
  <2>1. Replies(q, r, n, rows) = {Ready(RowsOf(graduates))}
    BY <1>8, LookUpsOfNodes, WordsOfNodes DEF Replies, L!q13_n, Degrees13
  <2>2. ASSUME NEW s \in my, University \in KEY_ID
        PROVE  (\E t \in Ids(s) : Exists(n, s, t, University)) <=> \E p \in Degrees13 : Told(lines, s, KM(p), University)
    <3>1. \A p : (\E t \in RootTemplates(n, GetType(s), p, GetType(University)) : Exists(n, s, t, University))
                   <=> Told(lines, s, KM(p), University)
      BY <2>2, RootTemplatesFind DEF LinesGiven
    <3> HIDE DEF University
    <3>2. QED
      BY <3>1
  <2>3. \A s : s \in graduates <=> s \in my /\ Found(q, s)
    <3>1. \A s : Found(q, s) <=> \E p \in Degrees13 : Told(lines, s, KM(p), University)
      BY <1>8 DEF Found
    <3>2. CASE University \notin KEY_ID
      <4>1. \A s, p : ~ Told(lines, s, p, University)
        BY <3>2 DEF Told, LinesGiven, IsDataset, Quads
      <4>2. Mentioning(n, University) = {}
        BY <3>2 DEF Mentioning
      <4> HIDE DEF University, Ids
      <4>3. QED
        BY <3>1, <4>1, <4>2
    <3>3. CASE University \in KEY_ID
      <4>1. Mentioning(n, University) \subseteq my
        BY <3>3 DEF Mentioning, Knows
      <4>2. \A s \in my : \A p : Told(lines, s, p, University) => s \in Mentioning(n, University)
        BY <3>3 DEF Mentioning, Knows, Told
      <4> HIDE DEF University, Ids
      <4>3. QED
        BY <2>2, <3>1, <3>3, <4>1, <4>2
    <3>4. QED
      BY <3>2, <3>3
  <2>4. QED
    BY <1>8, <2>1, <2>3, SameRows
<1>9. CASE q = "q14"
  <2>1. PICK S : S = LocalOf(n, {GetSeq("UndergraduateStudent")})
    OBVIOUS
  <2>2. Replies(q, r, n, rows) = {Ready(RowsOf(S))}
    BY <1>9, <2>1, LookUpsOfNodes, WordsOfNodes DEF Replies, L!q14_n
  <2>3. \A k : k \in S <=> k \in my /\ Found(q, k)
    BY <1>2, <1>9, <2>1 DEF Found
  <2>4. QED
    BY <1>9, <2>2, <2>3, SameRows
<1>10. CASE q = "Dq01"
  <2>1. PICK museum : museum = KM("Metropolitan_Museum")
    OBVIOUS
  <2>2. Replies(q, r, n, rows) = {Ready(IF IsItMyObject(n, museum) THEN Everything(n, museum) ELSE {})}
    BY <1>10, <2>1, LookUpsOfNodes, WordsOfNodes DEF Replies, D!q01_n
  <2>3. IsItMyObject(n, museum) <=> museum \in my
    BY MineHaveMolecules DEF LinesGiven
  <2>4. museum \in my =>
          \A x : x \in Everything(n, museum) <=> \E y \in lines : y.subject = museum /\ x = <<y.predicate, y.object>>
    BY EverythingExactly DEF LinesGiven
  <2>5. \A x : x \in Rows(q, my) <=> \E y \in lines : y.subject = museum /\ museum \in my /\ x = <<y.predicate, y.object>>
    BY <1>10, <2>1 DEF Rows
  <2>6. (IF IsItMyObject(n, museum) THEN Everything(n, museum) ELSE {}) = Rows(q, my)
    BY <2>3, <2>4, <2>5
  <2>7. QED
    BY <2>2, <2>6
<1>11. QED
  BY <1>3, <1>4, <1>5, <1>6, <1>7, <1>8, <1>9, <1>10 DEF Direct

\* q01 of the single process, which has everything.
LEMMA AloneIsRows ==
  ASSUME NEW n, LinesGiven, Knows(n, SubjectsOf(lines), lines), \E q \in lines : q.object = KM("GraduateCourse0")
  PROVE  C!q01(n) = Rows("Cq01", SubjectsOf(lines))
<1>1. \A s : s \in Subjects(n, {GetSeq("GraduateStudent")}, "takesCourse", KM("GraduateCourse0")) <=>
        s \in SubjectsOf(lines) /\ Found("Cq01", s)
  BY SubjectsExactly DEF LinesGiven, Found
<1>2. Mentioning(n, KM("GraduateCourse0")) # {}
  BY DEF Mentioning, LinesGiven, IsDataset, Quads, Knows, SubjectsOf
<1>3. C!HasMentions(n, KM("GraduateCourse0"))
  BY <1>2, LookUpsOfNodes DEF C!HasMentions
<1>4. C!q01(n) = RowsOf(Subjects(n, {GetSeq("GraduateStudent")}, "takesCourse", KM("GraduateCourse0")))
  BY <1>3, LookUpsOfNodes, WordsOfNodes DEF C!q01
<1>5. QED
  BY <1>1, <1>4, SameRows
------------------------------------------------------------------------------
(***************************************************************************)
(* The nodes' parts, put together.                                         *)
(***************************************************************************)

\* What node i sends.
Part(i) == Ready(Rows(query, node[i].myMolecules))

\* What Init leaves the nodes with, for good.
NodesKnow ==
  /\ LinesGiven
  /\ \A i \in Nodes : Knows(node[i], node[i].myMolecules, lines)
  /\ \A s \in SubjectsOf(lines) : \E i \in Nodes : s \in node[i].myMolecules

\* How far an answer is.
PartsFit ==
  /\ round = 1 /\ DOMAIN sent \subseteq Nodes
  /\ \A i \in DOMAIN sent : sent[i] = Part(i)
  /\ received \in Seq({Part(i) : i \in Nodes})
  /\ \A j \in 1 .. Len(received) : received[j] = Part(j - 1)

Answering ==
  /\ query \in Direct \ {"Cq01"} =>
       /\ PartsFit
       /\ answered => answers = Rows(query, SubjectsOf(lines))
  /\ query = "Cq01" =>
       /\ answered
       /\ (\E q \in lines : q.object = KM("GraduateCourse0")) => answers = Rows(query, SubjectsOf(lines))

QInv == NodesKnow /\ Answering

\* The rows of all subjects are those of the nodes together.
LEMMA RowsOfAll ==
  ASSUME NodesKnow, NEW q
  PROVE  /\ \A i \in Nodes : Rows(q, node[i].myMolecules) \subseteq Rows(q, SubjectsOf(lines))
         /\ \A x \in Rows(q, SubjectsOf(lines)) : \E i \in Nodes : x \in Rows(q, node[i].myMolecules)
<1>1. \A i \in Nodes : node[i].myMolecules \subseteq SubjectsOf(lines)
  BY DEF NodesKnow, Knows, SubjectsOf
<1>2. \A s \in SubjectsOf(lines) : \E i \in Nodes : s \in node[i].myMolecules
  BY DEF NodesKnow
<1>3. CASE q = "Dq01"
  <2>1. \A S : \A x : x \in Rows(q, S) <=>
          \E y \in lines : y.subject = KM("Metropolitan_Museum") /\ y.subject \in S /\ x = <<y.predicate, y.object>>
    BY <1>3 DEF Rows
  <2>2. QED
    BY <1>1, <1>2, <2>1
<1>4. CASE q # "Dq01"
  <2>1. \A S : \A x : x \in Rows(q, S) <=> \E k \in S : Found(q, k) /\ x = <<k>>
    BY <1>4 DEF Rows
  <2>2. QED
    BY <1>1, <1>2, <2>1
<1>5. QED
  BY <1>3, <1>4

\* Every dataset, order and deal leaves the nodes like that.
LEMMA InitKnows == Init => NodesKnow
<1> SUFFICES ASSUME Init PROVE NodesKnow
  OBVIOUS
<1> DEFINE Dealt(order, place) ==
             node = [i \in Nodes |-> Loaded(order, {s \in SubjectsOf(lines) : place[s] = i}, config)]
<1>1. PICK d \in Datasets :
        \E extra \in SUBSET d.optional :
          /\ lines = d.lines \union extra
          /\ config = d.config
          /\ \E order \in LineOrders(lines, config) : \E place \in [SubjectsOf(lines) -> Nodes] :
               Dealt(order, place)
  BY DEF Init
<1>2. PICK extra \in SUBSET d.optional :
        /\ lines = d.lines \union extra
        /\ config = d.config
        /\ \E order \in LineOrders(lines, config) : \E place \in [SubjectsOf(lines) -> Nodes] :
             Dealt(order, place)
  BY <1>1
<1>3. PICK order \in LineOrders(lines, config) : \E place \in [SubjectsOf(lines) -> Nodes] : Dealt(order, place)
  BY <1>2
<1>4. PICK place \in [SubjectsOf(lines) -> Nodes] : Dealt(order, place)
  BY <1>3
<1>5. order \in Seq(Quads) /\ Range(order) = lines
  BY <1>2, <1>3, OrdersAssumption
<1>6. lines \subseteq d.lines \union d.optional
  BY <1>2
<1>7. IsDataset(lines)
  <2>1. /\ d.lines \union d.optional \subseteq {q \in Quads : GetType(q.subject) >= 2}
        /\ IsFiniteSet(d.lines \union d.optional)
    BY DatasetsAssumption
  <2>2. IsFiniteSet(lines)
    BY <1>6, <2>1, FS_Subset
  <2>3. QED
    BY <1>6, <2>1, <2>2 DEF IsDataset
<1>8. LinesGiven
  BY <1>6, <1>7, WordsAssumption DEF LinesGiven
<1>9. IsConfig(config)
  BY <1>2, DatasetsAssumption DEF IsConfig
<1>10. \A root \in TYPE_ID : Cardinality(TemplatesOf(lines, config)[root]) < TmplSpan
  BY <1>2, NumbersAssumption
<1>11. ASSUME NEW i \in Nodes
       PROVE  /\ Knows(node[i], node[i].myMolecules, lines)
              /\ node[i].myMolecules = {x \in SubjectsOf(lines) : place[x] = i}
  <2>1. PICK my : my = {x \in SubjectsOf(lines) : place[x] = i}
    OBVIOUS
  <2>2. node[i] = Loaded(order, my, config)
    BY <1>4, <2>1
  <2>3. my \subseteq {q.subject : q \in lines}
    BY <2>1 DEF SubjectsOf
  <2>4. Knows(Loaded(order, my, config), my, lines) /\ Loaded(order, my, config).myMolecules = my
    BY <1>5, <1>7, <1>9, <1>10, <2>3, LoadedKnows
  <2>5. QED
    BY <2>1, <2>2, <2>4
<1>12. \A s \in SubjectsOf(lines) : place[s] \in Nodes /\ s \in node[place[s]].myMolecules
  BY <1>11
<1>13. QED
  BY <1>8, <1>11, <1>12 DEF NodesKnow

\* The query, the nodes and the lines stay: so does what a node sends.
LEMMA StepKeepsAnswering ==
  ASSUME QInv, [Next]_vars
  PROVE  Answering'
<1>0. node' = node /\ lines' = lines
  BY StepKeepsNodes
<1>1. PICK given : given = SubjectsOf(lines)
  OBVIOUS
<1>2. query' = query => \A i : Part(i)' = Part(i)
  BY <1>0 DEF Part, Rows, Found, Told, Linked
<1>3. query' = query => Rows(query, SubjectsOf(lines))' = Rows(query, SubjectsOf(lines))
  BY <1>0 DEF Rows, Found, Told, Linked, SubjectsOf
<1>4. CASE UNCHANGED vars
  BY <1>0, <1>2, <1>3, <1>4 DEF QInv, Answering, PartsFit, vars, Nodes
<1>5. ASSUME NEW q \in queries, Ask(q)
      PROVE  Answering'
  <2>1. query' # "Cq01" /\ ~ answered' /\ round' = 1 /\ sent' = <<>> /\ received' = <<>>
    BY <1>5 DEF Ask, Alone
  <2>2. PartsFit'
    BY <2>1 DEF PartsFit
  <2>3. QED
    BY <2>1, <2>2 DEF Answering
<1>6. ASSUME NEW q \in queries, AnswerAlone(q)
      PROVE  Answering'
  <2>1. answered' /\ query' = q /\ q \in {"Cq01", "Cq02"}
    BY <1>6 DEF AnswerAlone, Alone
  <2>2. ASSUME q = "Cq01", \E x \in lines : x.object = KM("GraduateCourse0")
        PROVE  answers' = Rows(query, SubjectsOf(lines))'
    <3>1. PICK i \in Nodes : node[i].myMolecules = given /\ answers' = C!q01(node[i])
      BY <1>1, <1>6, <2>2 DEF AnswerAlone
    <3>2. Knows(node[i], given, lines)
      BY <3>1 DEF QInv, NodesKnow
    <3>3. C!q01(node[i]) = Rows("Cq01", given)
      BY <1>1, <2>2, <3>2, AloneIsRows DEF QInv, NodesKnow
    <3>4. Rows(query, SubjectsOf(lines))' = Rows("Cq01", given)
      BY <1>0, <1>1, <2>1, <2>2 DEF Rows, Found, Told, Linked, SubjectsOf
    <3>5. QED
      BY <3>1, <3>3, <3>4
  <2>3. QED
    BY <1>0, <2>1, <2>2 DEF Answering, Direct
<1>7. ASSUME NEW i \in Nodes, NodeAnswers(i)
      PROVE  Answering'
  <2>1. /\ ~ answered /\ ~ answered' /\ query' = query /\ round' = round /\ received' = received
        /\ \E message \in Replies(query, round, node[i], broadcast) :
             sent' = [j \in DOMAIN sent \union {i} |-> IF j = i THEN message ELSE sent[j]]
    BY <1>7 DEF NodeAnswers
  <2>2. CASE query \in Direct \ {"Cq01"}
    <3>1. Replies(query, round, node[i], broadcast) = {Part(i)}
      BY <2>2, RepliesAreRows DEF QInv, NodesKnow, Part
    <3>2. sent' = [j \in DOMAIN sent \union {i} |-> IF j = i THEN Part(i) ELSE sent[j]]
      BY <2>1, <3>1
    <3>3. PartsFit
      BY <2>2 DEF QInv, Answering
    <3>4. PartsFit'
      <4>1. \A j \in 1 .. Len(received) : received[j] = Part(j - 1)'
        BY <1>2, <2>1, <3>3 DEF PartsFit
      <4>2. received' \in Seq({Part(j) : j \in Nodes})'
        BY <1>2, <2>1, <3>3 DEF PartsFit, Nodes
      <4>3. \A j \in DOMAIN sent' : sent'[j] = Part(j)'
        BY <1>2, <2>1, <3>2, <3>3 DEF PartsFit
      <4>4. QED
        BY <2>1, <3>2, <3>3, <4>1, <4>2, <4>3 DEF PartsFit, Nodes
    <3>5. QED
      BY <2>1, <2>2, <3>4 DEF Answering
  <2>3. CASE query \notin Direct \ {"Cq01"}
    BY <2>1, <2>3 DEF QInv, Answering
  <2>4. QED
    BY <2>2, <2>3
<1>8. CASE MasterReceives
  <2>1. /\ Len(received) \in DOMAIN sent
        /\ received' = Append(received, sent[Len(received)])
        /\ sent' = [i \in DOMAIN sent \ {Len(received)} |-> sent[i]]
        /\ query' = query /\ round' = round /\ answers' = answers /\ answered' = answered
    BY <1>8 DEF MasterReceives
  <2>2. CASE query \in Direct \ {"Cq01"}
    <3>1. PartsFit
      BY <2>2 DEF QInv, Answering
    <3>2. PICK S, r, m : S = {Part(j) : j \in Nodes} /\ r = received /\ m = sent[Len(received)]
      OBVIOUS
    <3>3. r \in Seq(S) /\ m \in S /\ m = Part(Len(r)) /\ Len(r) \in Nat
      BY <2>1, <3>1, <3>2 DEF PartsFit
    <3>4. /\ received' \in Seq(S) /\ Len(received') = Len(r) + 1
          /\ \A j \in 1 .. Len(r) : received'[j] = r[j]
          /\ received'[Len(r) + 1] = m
      BY <2>1, <3>2, <3>3
    <3>5. \A j \in 1 .. Len(received') : received'[j] = Part(j - 1)
      <4>1. ASSUME NEW j \in 1 .. Len(received')
            PROVE  received'[j] = Part(j - 1)
        <5>1. CASE j \in 1 .. Len(r)
          BY <3>1, <3>2, <3>4, <5>1 DEF PartsFit
        <5>2. CASE j = Len(r) + 1
          <6>1. j - 1 = Len(r)
            BY <3>3, <5>2
          <6>2. received'[j] = m
            BY <3>4, <5>2
          <6>3. QED
            BY <3>3, <6>1, <6>2
        <5>3. QED
          BY <3>3, <3>4, <5>1, <5>2
      <4>2. QED
        BY <4>1
    <3>6. S' = S
      BY <1>2, <2>1, <3>2 DEF Nodes
    <3>7. PartsFit'
      BY <1>2, <2>1, <3>1, <3>2, <3>4, <3>5 DEF PartsFit, Nodes
    <3>8. QED
      BY <1>3, <2>1, <2>2, <3>7 DEF QInv, Answering
  <2>3. CASE query \notin Direct \ {"Cq01"}
    BY <1>0, <1>3, <2>1, <2>3 DEF QInv, Answering
  <2>4. QED
    BY <2>2, <2>3
<1>9. CASE MasterBroadcasts
  <2>1. ~ answered /\ round < Rounds(query) /\ query' = query
    BY <1>9 DEF MasterBroadcasts
  <2>2. query \in Direct \ {"Cq01"} => round = 1 /\ Rounds(query) = 1
    BY DEF QInv, Answering, PartsFit, Rounds, Direct
  <2>3. query \notin Direct
    BY <2>1, <2>2 DEF QInv, Answering
  <2>4. QED
    BY <2>1, <2>3 DEF Answering, Direct
<1>10. CASE MasterJoins
  <2>1. /\ ~ answered /\ Len(received) = nbOfNodes /\ answers' \in Joins(query, received) /\ answered'
        /\ query' = query /\ round' = round /\ sent' = sent /\ received' = received
    BY <1>10 DEF MasterJoins
  <2>2. CASE query \in Direct \ {"Cq01"}
    <3>1. PartsFit
      BY <2>2 DEF QInv, Answering
    <3>2. Joins(query, received) = {ReadyOf(received)}
      BY <2>2 DEF Joins, Direct
    <3>3. received \in Seq({Part(j) : j \in Nodes}) /\ DOMAIN received = 1 .. nbOfNodes /\ nbOfNodes \in Nat
      BY <2>1, <3>1 DEF PartsFit
    <3>4. \A j \in 1 .. nbOfNodes : j - 1 \in Nodes /\ received[j].ready = Rows(query, node[j - 1].myMolecules)
      BY <2>1, <3>1, <3>3 DEF PartsFit, Part, Ready, Message, Nodes
    <3>5. \A i \in Nodes : i + 1 \in 1 .. nbOfNodes /\ received[i + 1].ready = Rows(query, node[i].myMolecules)
      <4>1. \A i \in Nodes : i + 1 \in 1 .. nbOfNodes /\ (i + 1) - 1 = i
        BY <3>3 DEF Nodes
      <4>2. QED
        BY <3>4, <4>1
    <3>6. ReadyOf(received) = Rows(query, SubjectsOf(lines))
      <4>1. \A x : x \in ReadyOf(received) <=> \E j \in 1 .. nbOfNodes : x \in received[j].ready
        BY <3>3 DEF ReadyOf
      <4>2. \A x : x \in ReadyOf(received) <=> \E i \in Nodes : x \in Rows(query, node[i].myMolecules)
        BY <3>4, <3>5, <4>1
      <4>3. QED
        BY <4>2, RowsOfAll DEF QInv
    <3>7. PartsFit'
      BY <1>2, <2>1, <3>1 DEF PartsFit, Nodes
    <3>8. QED
      BY <1>3, <2>1, <2>2, <3>2, <3>6, <3>7 DEF Answering
  <2>3. CASE query \notin Direct \ {"Cq01"}
    BY <2>1, <2>3 DEF QInv, Answering
  <2>4. QED
    BY <2>2, <2>3
<1>11. QED
  BY <1>4, <1>5, <1>6, <1>7, <1>8, <1>9, <1>10 DEF Next

\* The invariant: Init has it, and every step keeps it.
LEMMA QInvHolds == Spec => []QInv
<1>1. Init => QInv
  <2>1. Init => query = ""
    BY DEF Init
  <2>2. query = "" => Answering
    BY DEF Answering, Direct
  <2>3. QED
    BY <2>1, <2>2, InitKnows DEF QInv
<1>2. QInv /\ [Next]_vars => QInv'
  <2> SUFFICES ASSUME QInv, [Next]_vars PROVE QInv'
    OBVIOUS
  <2>1. UNCHANGED <<node, lines, config>>
    BY StepKeepsNodes
  <2>2. NodesKnow'
    BY <2>1 DEF QInv, NodesKnow, LinesGiven, Nodes, SubjectsOf
  <2>3. QED
    BY <2>2, StepKeepsAnswering DEF QInv
<1>3. QED
  BY <1>1, <1>2, PTL DEF Spec

\* What the master has is all that is asked for.
LEMMA AnsweredRows ==
  ASSUME QInv, query \in Direct, Granted
  PROVE  /\ Asked = Rows(query, SubjectsOf(lines))
         /\ answered => answers = Asked
<1>1. Asked = Rows(query, SubjectsOf(lines))
  BY RowsAreAsked DEF QInv, NodesKnow
<1>2. CASE query = "Cq01"
  <2>1. \E q \in lines : q.object = KM("GraduateCourse0")
    BY <1>2 DEF Granted
  <2>2. QED
    BY <1>1, <1>2, <2>1 DEF QInv, Answering
<1>3. CASE query # "Cq01"
  BY <1>1, <1>3 DEF QInv, Answering
<1>4. QED
  BY <1>2, <1>3

\* LUBMnetwork's q01, q03, q05, q06, q10, q13 and q14, DBPnetwork's q01 and
\* LUBM's q01: for every dataset, however it is dealt out and in whatever order
\* the nodes answer, every row the master shows is a solution of the query's
\* text over the whole dataset.
THEOREM DirectAnswersAreSolutions == Spec => [](query \in Direct => AnswersAreSolutions)
<1>1. QInv => (query \in Direct => AnswersAreSolutions)
  BY AnsweredRows DEF AnswersAreSolutions, Answered
<1>2. QED
  BY <1>1, QInvHolds, PTL

\* And it shows every solution, for no molecule of a subject is on two nodes
\* in part, and none is on no node.
THEOREM DirectSolutionsAreAnswered == Spec => [](query \in Direct => SolutionsAreAnswered)
<1>1. QInv => (query \in Direct => SolutionsAreAnswered)
  BY AnsweredRows DEF SolutionsAreAnswered, Answered
<1>2. QED
  BY <1>1, QInvHolds, PTL

\* Before the master has heard all nodes: what each of them sends for these
\* queries, from its own lines, is a solution over the whole dataset.
THEOREM DirectPartsAreSound == Spec => [](query \in Direct => LocalJoinsAreSound)
<1>1. ASSUME QInv, query \in Direct
      PROVE  LocalJoinsAreSound
  <2>1. ASSUME ~ answered, Granted, NEW i \in DOMAIN sent, NEW r \in sent[i].ready
        PROVE  r \in Asked
    <3>1. query # "Cq01"
      BY <1>1, <2>1 DEF QInv, Answering
    <3>2. PartsFit
      BY <1>1, <3>1 DEF QInv, Answering
    <3>3. i \in Nodes /\ sent[i].ready = Rows(query, node[i].myMolecules)
      BY <2>1, <3>2 DEF PartsFit, Part, Ready, Message
    <3>4. r \in Rows(query, SubjectsOf(lines))
      BY <1>1, <2>1, <3>3, RowsOfAll DEF QInv
    <3>5. QED
      BY <1>1, <2>1, <3>4, AnsweredRows
  <2>2. QED
    BY <2>1 DEF LocalJoinsAreSound
<1>2. QInv => (query \in Direct => LocalJoinsAreSound)
  BY <1>1
<1>3. QED
  BY <1>2, QInvHolds, PTL
==============================================================================
