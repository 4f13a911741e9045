--------------------------- MODULE DeploymentProofs ---------------------------
(***************************************************************************)
(* Proofs about the master and the nodes that load its files, for every    *)
(* dataset, number of nodes, number of runs of the master and of failures; *)
(* and about the provenance queries, asked where all molecules are:        *)
(* SelectedSoFar for every dataset and every assignment of identifiers to  *)
(* the words of the two queries, and CopyAnswersAlike, for the copy of the *)
(* molecules made after them.                                              *)
(***************************************************************************)
EXTENDS Deployment, Materialize, ConductorProofs
------------------------------------------------------------------------------
(***************************************************************************)
(* The partitioner, for every number of molecules and nodes, every range.  *)
(***************************************************************************)

\* A turn of the loop of PartitionMolecules keeps the types.
LEMMA PlaceChunkTypes ==
  ASSUME PartitionTypeOK, PlaceChunk
  PROVE  PartitionTypeOK'
<1>1. PICK c \in Chunks :
        /\ nodes' = [nodes EXCEPT ![lastNetworkNode] = @ \union c]
        /\ toPlace' = toPlace \ c
  BY DEF PlaceChunk
<1>2. c \subseteq Subjects
  BY DEF Chunks, PartitionTypeOK
<1>3. lastNetworkNode' \in Clients
  BY PartitionAssumption DEF PlaceChunk, NextNetworkNode, PartitionTypeOK, Clients
<1>4. QED
  BY <1>1, <1>2, <1>3 DEF PartitionTypeOK

\* The partitioner keeps its types; the turn is always that of a node.
THEOREM PartitionKeepsTypes == PartitionSpec => []PartitionTypeOK
<1>1. PartitionInit => PartitionTypeOK
  BY PartitionAssumption DEF PartitionInit, PartitionTypeOK, Clients
<1>2. PartitionTypeOK /\ [PartitionNext]_partitionVars => PartitionTypeOK'
  <2> SUFFICES ASSUME PartitionTypeOK, [PartitionNext]_partitionVars
               PROVE  PartitionTypeOK'
    OBVIOUS
  <2>1. ASSUME NEW batch \in SUBSET Subjects, PartitionMolecules(batch)
        PROVE  PartitionTypeOK'
    BY <2>1 DEF PartitionTypeOK, PartitionMolecules
  <2>2. CASE PlaceChunk
    BY <2>2, PlaceChunkTypes
  <2>3. CASE UNCHANGED partitionVars
    BY <2>3 DEF PartitionTypeOK, partitionVars
  <2>4. QED
    BY <2>1, <2>2, <2>3 DEF PartitionNext
<1>3. QED
  BY <1>1, <1>2, PTL DEF PartitionSpec

\* A turn moves a chunk from the iterator to the node whose turn it is.
LEMMA ChunkMoves ==
  ASSUME PartitionTypeOK, PlaceChunk
  PROVE  \E c \in SUBSET toPlace :
           /\ c \in Chunks
           /\ nodes'[lastNetworkNode] = nodes[lastNetworkNode] \union c
           /\ \A i \in Clients \ {lastNetworkNode} : nodes'[i] = nodes[i]
           /\ toPlace' = toPlace \ c
<1>1. PICK c \in Chunks :
        /\ nodes' = [nodes EXCEPT ![lastNetworkNode] = @ \union c]
        /\ toPlace' = toPlace \ c
  BY DEF PlaceChunk
<1>2. c \in SUBSET toPlace
  BY DEF Chunks
<1>3. QED
  BY <1>1, <1>2 DEF PartitionTypeOK

\* It gives a node what no node has.
LEMMA PlaceChunkOnOne ==
  ASSUME PartitionTypeOK, OnOneNode, PlaceChunk
  PROVE  OnOneNode'
<1> DEFINE n == lastNetworkNode
<1>1. PICK c \in SUBSET toPlace :
        /\ nodes'[n] = nodes[n] \union c
        /\ \A i \in Clients \ {n} : nodes'[i] = nodes[i]
        /\ toPlace' = toPlace \ c
  BY ChunkMoves
<1>2. \A i \in Clients : nodes[i] \intersect toPlace = {}
  BY DEF OnOneNode, Placed
<1>3. \A i \in Clients : nodes'[i] \subseteq nodes[i] \union c
  BY <1>1
<1>4. ASSUME NEW i \in Clients, NEW j \in Clients, i # j
      PROVE  nodes'[i] \intersect nodes'[j] = {}
  <2>1. nodes[i] \intersect nodes[j] = {}
    BY <1>4 DEF OnOneNode
  <2>2. CASE i = n
    BY <1>1, <1>2, <1>4, <2>1, <2>2
  <2>3. CASE j = n
    BY <1>1, <1>2, <1>4, <2>1, <2>3
  <2>4. CASE i # n /\ j # n
    BY <1>1, <2>1, <2>4
  <2>5. QED
    BY <2>2, <2>3, <2>4
<1>5. \A i \in Clients : nodes'[i] \intersect toPlace' = {}
  BY <1>1, <1>2, <1>3
<1>6. QED
  BY <1>4, <1>5 DEF OnOneNode, Placed

\* Two nodes never have the same molecule, and none has one whose turn is yet
\* to come.
THEOREM MoleculesStayOnOneNode == PartitionSpec => []OnOneNode
<1>1. PartitionInit => OnOneNode
  BY DEF PartitionInit, OnOneNode, Placed
<1>2. PartitionTypeOK /\ OnOneNode /\ [PartitionNext]_partitionVars => OnOneNode'
  <2> SUFFICES ASSUME PartitionTypeOK, OnOneNode, [PartitionNext]_partitionVars
               PROVE  OnOneNode'
    OBVIOUS
  <2>1. ASSUME Placed = {}, NEW batch \in SUBSET Subjects, PartitionMolecules(batch)
        PROVE  OnOneNode'
    BY <2>1 DEF OnOneNode, PartitionMolecules, Placed
  <2>2. CASE PlaceChunk
    BY <2>2, PlaceChunkOnOne
  <2>3. CASE UNCHANGED partitionVars
    BY <2>3 DEF OnOneNode, Placed, partitionVars
  <2>4. QED
    BY <2>1, <2>2, <2>3 DEF PartitionNext
<1>3. QED
  BY <1>1, <1>2, PartitionKeepsTypes, PTL DEF PartitionSpec

\* What it takes from the iterator it gives to a node.
LEMMA PlaceChunkKeeps ==
  ASSUME PartitionTypeOK, PlaceChunk
  PROVE  (Placed \union toPlace)' = Placed \union toPlace
<1> DEFINE n == lastNetworkNode
<1>1. PICK c \in SUBSET toPlace :
        /\ nodes'[n] = nodes[n] \union c
        /\ \A i \in Clients \ {n} : nodes'[i] = nodes[i]
        /\ toPlace' = toPlace \ c
  BY ChunkMoves
<1>2. n \in Clients
  BY DEF PartitionTypeOK
<1>3. Placed' = Placed \union c
  <2>1. ASSUME NEW m \in Placed'
        PROVE  m \in Placed \union c
    BY <1>1, <1>2, <2>1 DEF Placed
  <2>2. ASSUME NEW m \in Placed
        PROVE  m \in Placed'
    <3>1. PICK i \in Clients : m \in nodes[i]
      BY <2>2 DEF Placed
    <3>2. m \in nodes'[i]
      BY <1>1, <3>1
    <3>3. QED
      BY <3>2 DEF Placed
  <2>3. c \subseteq Placed'
    BY <1>1, <1>2 DEF Placed
  <2>4. QED
    BY <2>1, <2>2, <2>3
<1>4. QED
  BY <1>1, <1>3

\* A turn keeps every molecule, with a node or before the iterator.
THEOREM NoMoleculeIsLost == PartitionSpec => NothingLost
<1>1. ASSUME PartitionTypeOK, [PartitionNext]_partitionVars, toPlace # {}
      PROVE  (Placed \union toPlace)' = Placed \union toPlace
  <2>1. CASE PlaceChunk
    BY <1>1, <2>1, PlaceChunkKeeps
  <2>2. CASE UNCHANGED partitionVars
    BY <2>2 DEF partitionVars, Placed
  <2>3. QED
    BY <1>1, <2>1, <2>2 DEF PartitionNext
<1>2. PartitionTypeOK /\ [PartitionNext]_partitionVars
        => [toPlace # {} => (Placed \union toPlace)' = Placed \union toPlace]_partitionVars
  BY <1>1
<1>3. QED
  BY <1>2, PartitionKeepsTypes, PTL DEF PartitionSpec, NothingLost

\* While molecules are left, the nodes whose turn in this round is over have a
\* range more than the others, all of the same number b.  The last chunk may
\* be short, so then only the bounds are left.
RoundsOf(b) ==
  /\ \A i \in Clients : b <= Cardinality(nodes[i]) /\ Cardinality(nodes[i]) <= b + PartitionerRange
  /\ toPlace # {} =>
       \A i \in Clients : Cardinality(nodes[i]) = IF i < lastNetworkNode THEN b + PartitionerRange ELSE b

InRounds ==
  /\ \E b \in Nat : RoundsOf(b)
  /\ toPlace = {} /\ Placed = {} => lastNetworkNode = 0

\* A turn makes the sizes those of the next turn, of this round or a new one.
LEMMA TurnKeepsRounds ==
  ASSUME PartitionTypeOK, OnOneNode, PlaceChunk, NEW b \in Nat, RoundsOf(b)
  PROVE  RoundsOf(b)' \/ RoundsOf(b + PartitionerRange)'
<1> DEFINE n == lastNetworkNode
           R == PartitionerRange
<1>1. n \in Clients /\ R \in Nat \ {0} /\ nbOfClients \in Nat \ {0}
  BY PartitionAssumption DEF PartitionTypeOK
<1>2. PICK c \in SUBSET toPlace :
        /\ c \in Chunks
        /\ nodes'[n] = nodes[n] \union c
        /\ \A i \in Clients \ {n} : nodes'[i] = nodes[i]
        /\ toPlace' = toPlace \ c
  BY ChunkMoves
<1>3. IsFiniteSet(c) /\ IsFiniteSet(nodes[n])
  <2>1. c \in SUBSET Subjects /\ nodes[n] \in SUBSET Subjects
    BY <1>1, <1>2 DEF PartitionTypeOK
  <2>2. QED
    BY <2>1, FS_Subset, PartitionAssumption
<1>4. Cardinality(c) \in Nat /\ Cardinality(nodes[n]) \in Nat
  BY <1>3, FS_CardinalityType
<1>5. nodes[n] \intersect c = {}
  BY <1>1, <1>2 DEF OnOneNode, Placed
<1>6. Cardinality(nodes'[n]) = Cardinality(nodes[n]) + Cardinality(c)
  BY <1>2, <1>3, <1>4, <1>5, FS_Union, FS_EmptySet
<1>7. Cardinality(c) <= R /\ (toPlace' # {} => Cardinality(c) = R)
  BY <1>1, <1>2, <1>4 DEF Chunks
<1>8. \A i \in Clients : Cardinality(nodes[i]) = IF i < n THEN b + R ELSE b
  BY DEF PlaceChunk, RoundsOf
<1>9. Cardinality(nodes'[n]) = b + Cardinality(c)
  BY <1>1, <1>6, <1>8, SMT DEF Clients
<1>10. \A i \in Clients \ {n} : Cardinality(nodes'[i]) = IF i < n THEN b + R ELSE b
  BY <1>2, <1>8
<1>11. \A i \in Clients : b <= Cardinality(nodes'[i]) /\ Cardinality(nodes'[i]) <= b + R
  BY <1>1, <1>4, <1>7, <1>9, <1>10, SMT DEF Clients
<1>12. CASE toPlace' = {}
  BY <1>11, <1>12 DEF RoundsOf
<1>13. CASE toPlace' # {}
  <2>1. Cardinality(nodes'[n]) = b + R
    BY <1>7, <1>9, <1>13
  <2>2. CASE n < nbOfClients - 1
    <3>1. lastNetworkNode' = n + 1
      BY <2>2 DEF PlaceChunk, NextNetworkNode
    <3>2. \A i \in Clients : Cardinality(nodes'[i]) = IF i < lastNetworkNode' THEN b + R ELSE b
      BY <1>1, <1>10, <2>1, <3>1, SMT DEF Clients
    <3>3. QED
      BY <1>11, <3>2 DEF RoundsOf
  <2>3. CASE ~ (n < nbOfClients - 1)
    <3>1. lastNetworkNode' = 0 /\ n = nbOfClients - 1
      BY <1>1, <2>3, SMT DEF PlaceChunk, NextNetworkNode, Clients
    <3>2. \A i \in Clients : Cardinality(nodes'[i]) = b + R
      BY <1>1, <1>10, <2>1, <3>1, SMT DEF Clients
    <3>3. \A i \in Clients : ~ (i < 0)
      BY <1>1, SMT DEF Clients
    <3>4. b + R <= b + R /\ b + R <= (b + R) + R
      BY <1>1, SMT
    <3>5. QED
      BY <3>1, <3>2, <3>3, <3>4 DEF RoundsOf
  <2>4. QED
    BY <2>2, <2>3
<1>14. QED
  BY <1>12, <1>13

\* The rounds begin with all nodes empty, when the partitioner is made and when
\* it is called; a turn keeps them; and they bound the sizes.
LEMMA RoundsBegin == PartitionInit => InRounds
<1> SUFFICES ASSUME PartitionInit
             PROVE  InRounds
  OBVIOUS
<1>1. \A i \in Clients : Cardinality(nodes[i]) = 0
  BY FS_EmptySet DEF PartitionInit
<1>2. RoundsOf(0)
  BY <1>1, PartitionAssumption, SMT DEF RoundsOf, PartitionInit, Clients
<1>3. QED
  BY <1>2 DEF InRounds, PartitionInit

LEMMA CallKeepsRounds ==
  ASSUME InRounds, toPlace = {}, Placed = {}, NEW batch, PartitionMolecules(batch)
  PROVE  InRounds'
<1>1. lastNetworkNode' = 0
  BY DEF InRounds, PartitionMolecules
<1>2. \A i \in Clients : nodes'[i] = {}
  BY DEF Placed, PartitionMolecules
<1>3. \A i \in Clients : Cardinality(nodes'[i]) = 0
  BY <1>2, FS_EmptySet
<1>4. RoundsOf(0)'
  BY <1>1, <1>3, PartitionAssumption, SMT DEF RoundsOf, Clients
<1>5. QED
  BY <1>1, <1>4 DEF InRounds

LEMMA PlaceChunkRounds ==
  ASSUME PartitionTypeOK, OnOneNode, InRounds, PlaceChunk
  PROVE  InRounds'
<1>1. PICK b \in Nat : RoundsOf(b)
  BY DEF InRounds
<1>2. b + PartitionerRange \in Nat
  BY PartitionAssumption
<1>3. \E d \in Nat : RoundsOf(d)'
  BY <1>1, <1>2, TurnKeepsRounds
<1>4. toPlace' = {} => Placed' # {}
  <2>1. PICK c \in SUBSET toPlace :
          /\ nodes'[lastNetworkNode] = nodes[lastNetworkNode] \union c
          /\ toPlace' = toPlace \ c
    BY ChunkMoves
  <2>2. toPlace' = {} => nodes'[lastNetworkNode] # {}
    BY <2>1 DEF PlaceChunk
  <2>3. QED
    BY <2>2 DEF Placed, PartitionTypeOK
<1>5. QED
  BY <1>3, <1>4 DEF InRounds

LEMMA RoundsAreBalanced == PartitionTypeOK /\ InRounds => Balanced
<1> SUFFICES ASSUME PartitionTypeOK, InRounds, NEW i \in Clients, NEW j \in Clients
             PROVE  Cardinality(nodes[i]) <= Cardinality(nodes[j]) + PartitionerRange
  BY DEF Balanced
<1>1. nodes[i] \in SUBSET Subjects /\ nodes[j] \in SUBSET Subjects
  BY DEF PartitionTypeOK
<1>2. Cardinality(nodes[i]) \in Nat /\ Cardinality(nodes[j]) \in Nat
  BY <1>1, FS_Subset, FS_CardinalityType, PartitionAssumption
<1>3. PICK b \in Nat : RoundsOf(b)
  BY DEF InRounds
<1>4. QED
  BY <1>2, <1>3, PartitionAssumption, SMT DEF RoundsOf

\* The sizes of two nodes never differ by more than a range.
THEOREM NodesStayBalanced == PartitionSpec => []Balanced
<1>1. PartitionInit => InRounds
  BY RoundsBegin
<1>2. ASSUME PartitionTypeOK, OnOneNode, InRounds, [PartitionNext]_partitionVars
      PROVE  InRounds'
  <2>1. ASSUME toPlace = {}, Placed = {}, NEW batch \in SUBSET Subjects,
               PartitionMolecules(batch)
        PROVE  InRounds'
    BY <1>2, <2>1, CallKeepsRounds
  <2>2. CASE PlaceChunk
    BY <1>2, <2>2, PlaceChunkRounds
  <2>3. CASE UNCHANGED partitionVars
    BY <1>2, <2>3 DEF InRounds, RoundsOf, Placed, partitionVars
  <2>4. QED
    BY <1>2, <2>1, <2>2, <2>3 DEF PartitionNext
<1>3. PartitionTypeOK /\ InRounds => Balanced
  BY RoundsAreBalanced
<1>4. QED
  BY <1>1, <1>2, <1>3, PartitionKeepsTypes, MoleculesStayOnOneNode, PTL DEF PartitionSpec
------------------------------------------------------------------------------
(***************************************************************************)
(* A node once LoadLines has run: its molecules, their indexes and the     *)
(* type lists.  First the loop over the lines: FoldLeft, line by line.     *)
(***************************************************************************)

\* The function FoldLeft computes with, on the subsets of the first n positions.
FoldsLines(g, b, T, n) ==
  g = [s \in SUBSET (1 .. n) |->
         IF s = {} THEN b ELSE LoadLine(g[s \ {Max(s)}], T[Max(s)])]

\* There is such a function.
LEMMA FoldExists ==
  ASSUME NEW b, NEW T, NEW n \in Nat
  PROVE  \E g : FoldsLines(g, b, T, n)
<1> DEFINE Bad == {k \in Nat : ~ \E g : FoldsLines(g, b, T, k)}
<1> SUFFICES ASSUME Bad # {} PROVE FALSE
  OBVIOUS
<1>1. PICK k \in Bad : \A j \in Bad : k <= j
  BY LeastIndex
<1>2. k \in Nat /\ ~ \E g : FoldsLines(g, b, T, k)
  OBVIOUS
<1>3. CASE k = 0
  <2> DEFINE f == [s \in SUBSET (1 .. k) |-> b]
  <2>1. \A s \in SUBSET (1 .. k) : s = {}
    BY <1>3
  <2>2. \A s \in SUBSET (1 .. k) :
          f[s] = IF s = {} THEN b ELSE LoadLine(f[s \ {Max(s)}], T[Max(s)])
    BY <2>1
  <2>3. f = [s \in SUBSET (1 .. k) |-> f[s]]
    OBVIOUS
  <2> HIDE DEF f
  <2>4. f = [s \in SUBSET (1 .. k) |->
               IF s = {} THEN b ELSE LoadLine(f[s \ {Max(s)}], T[Max(s)])]
    BY <2>2, <2>3, Zenon
  <2>5. QED
    BY <1>2, <2>4, Zenon DEF FoldsLines
<1>4. CASE k # 0
  <2>1. k - 1 \in Nat /\ k - 1 \notin Bad
    BY <1>1, <1>2, <1>4
  <2>2. PICK g : FoldsLines(g, b, T, k - 1)
    BY <2>1
  <2> DEFINE f == [s \in SUBSET (1 .. k) |->
                     IF k \in s THEN LoadLine(g[s \ {k}], T[k]) ELSE g[s]]
  <2>3. \A s \in SUBSET (1 .. (k - 1)) :
          g[s] = IF s = {} THEN b ELSE LoadLine(g[s \ {Max(s)}], T[Max(s)])
    BY <2>2, Zenon DEF FoldsLines
  <2>4. ASSUME NEW s \in SUBSET (1 .. k)
        PROVE  f[s] = IF s = {} THEN b ELSE LoadLine(f[s \ {Max(s)}], T[Max(s)])
    <3>1. CASE k \in s
      <4>1. Max(s) = k
        BY <1>2, <1>4, <3>1, MaxOfPrefix
      <4>2. s \ {k} \in SUBSET (1 .. k) /\ k \notin s \ {k} /\ s # {}
        BY <3>1
      <4>3. f[s \ {k}] = g[s \ {k}]
        BY <4>2, Zenon
      <4>4. f[s] = LoadLine(g[s \ {k}], T[k])
        BY <3>1, Zenon
      <4> HIDE DEF f
      <4>5. QED
        BY <4>1, <4>2, <4>3, <4>4, Zenon
    <3>2. CASE k \notin s
      <4>1. s \in SUBSET (1 .. (k - 1))
        BY <1>2, <1>4, <3>2
      <4>2. s \ {Max(s)} \in SUBSET (1 .. k) /\ k \notin s \ {Max(s)}
        BY <3>2
      <4>3. f[s] = g[s] /\ f[s \ {Max(s)}] = g[s \ {Max(s)}]
        BY <3>2, <4>2, Zenon
      <4> HIDE DEF f
      <4>4. QED
        BY <2>3, <4>1, <4>3, Zenon
    <3>3. QED
      BY <3>1, <3>2
  <2>5. f = [s \in SUBSET (1 .. k) |-> f[s]]
    OBVIOUS
  <2> HIDE DEF f
  <2>6. f = [s \in SUBSET (1 .. k) |->
               IF s = {} THEN b ELSE LoadLine(f[s \ {Max(s)}], T[Max(s)])]
    BY <2>4, <2>5, Zenon
  <2>7. QED
    BY <1>2, <2>6, Zenon DEF FoldsLines
<1>5. QED
  BY <1>3, <1>4

\* The states of the node between the lines: h[k] is what it is after k lines.
LoadsLines(h, b, T, n) ==
  /\ h[0] = b
  /\ \A k \in 1 .. n : h[k] = LoadLine(h[k - 1], T[k])

\* The fold passes through such states.
LEMMA FoldByLine ==
  ASSUME NEW b, NEW T \in Seq(Lines), NEW n, n = Len(T)
  PROVE  \E h : LoadsLines(h, b, T, n) /\ FoldLeft(LoadLine, b, T) = h[n]
<1>1. n \in Nat /\ DOMAIN T = 1 .. n
  OBVIOUS
<1> DEFINE g == CHOOSE iter : iter = [s \in SUBSET (DOMAIN T) |->
                  IF s = {} THEN b ELSE LoadLine(iter[s \ {Max(s)}], T[Max(s)])]
<1>2. FoldLeft(LoadLine, b, T) = g[DOMAIN T]
  BY Zenon DEF FoldLeft, MapThenFoldSet
<1>3. PICK f : FoldsLines(f, b, T, n)
  BY <1>1, FoldExists
<1>4. f = [s \in SUBSET (DOMAIN T) |->
             IF s = {} THEN b ELSE LoadLine(f[s \ {Max(s)}], T[Max(s)])]
  BY <1>1, <1>3, Zenon DEF FoldsLines
<1>5. g = [s \in SUBSET (DOMAIN T) |->
             IF s = {} THEN b ELSE LoadLine(g[s \ {Max(s)}], T[Max(s)])]
  BY <1>4, Zenon
<1> HIDE DEF g
<1>6. \A s \in SUBSET (1 .. n) :
        g[s] = IF s = {} THEN b ELSE LoadLine(g[s \ {Max(s)}], T[Max(s)])
  BY <1>1, <1>5, Zenon
<1> DEFINE h == [k \in 0 .. n |-> g[1 .. k]]
<1>7. h[0] = b
  <2>1. 1 .. 0 = {} /\ {} \in SUBSET (1 .. n) /\ 0 \in 0 .. n
    BY <1>1
  <2>2. QED
    BY <1>6, <2>1
<1>8. ASSUME NEW k \in 1 .. n
      PROVE  h[k] = LoadLine(h[k - 1], T[k])
  <2>1. 1 .. k \in SUBSET (1 .. n) /\ k \in 1 .. k /\ k \in Nat \ {0} /\ 1 .. k # {}
    BY <1>1
  <2>2. Max(1 .. k) = k
    BY <2>1, MaxOfPrefix
  <2>3. (1 .. k) \ {k} = 1 .. (k - 1) /\ k - 1 \in 0 .. n /\ k \in 0 .. n
    BY <1>1
  <2>4. g[1 .. k] = LoadLine(g[1 .. (k - 1)], T[k])
    BY <1>6, <2>1, <2>2, <2>3, Zenon
  <2>5. QED
    BY <2>3, <2>4
<1>9. h[n] = g[DOMAIN T]
  BY <1>1
<1> HIDE DEF h
<1>10. QED
  BY <1>2, <1>7, <1>8, <1>9 DEF LoadsLines
------------------------------------------------------------------------------
(***************************************************************************)
(* One line.                                                               *)
(***************************************************************************)

\* The template CreateMolecule stores, read from the table tm.
TemplateIn(tm, q) ==
  GetTemplate(tm, GetType(q.subject), GetType(q.subject), q.predicate,
              GetType(q.object)) % TmplSpan

\* A node between two lines of the loop.
Loading(m) ==
  /\ m = [at |-> m.at, runs |-> m.runs, tripleIDs |-> m.tripleIDs,
          myMolecules |-> m.myMolecules, nbTypes |-> m.nbTypes,
          templates |-> m.templates, TypesM |-> m.TypesM, molecules |-> m.molecules,
          edges |-> m.edges, inv_molecules |-> m.inv_molecules, ProvIdx |-> m.ProvIdx]
  /\ m.tripleIDs \in Seq(Lines)
  /\ m.myMolecules \subseteq KEY_ID
  /\ m.nbTypes \in Nat
  /\ m.templates \in Templates
  /\ m.TypesM \in [0 .. (m.nbTypes - 1) -> SUBSET KEY_ID]
  /\ m.molecules \in [KEY_ID -> Molecule]
  /\ m.inv_molecules \in [KEY_ID -> SUBSET KEY_ID]
  /\ m.ProvIdx \in [KEY_ID -> SUBSET KEY_ID]

\* What LoadMolecules does not change but the file it is at.
SameFiles(m, b) ==
  /\ m.at = b.at /\ m.runs = b.runs /\ m.tripleIDs = b.tripleIDs
  /\ m.myMolecules = b.myMolecules /\ m.nbTypes = b.nbTypes /\ m.templates = b.templates

\* The template ID is a natural, whatever table the node has read.
LEMMA TemplateInType ==
  ASSUME NEW tm \in Templates, NEW q \in TripleIDs
  PROVE  TemplateIn(tm, q) \in Nat
<1> DEFINE root == GetType(q.subject)
           hit == {u \in tm[root] : /\ u.subjectType = root
                                    /\ u.predicateID = q.predicate
                                    /\ u.objectType = GetType(q.object)
                                    /\ u.scope = 0}
           g == GetTemplate(tm, root, root, q.predicate, GetType(q.object))
<1>1. root \in TYPE_ID
  BY TypesOfKeys DEF TripleIDs
<1>2. \A u \in tm[root] : u.ID \in Nat
  BY <1>1 DEF Templates, TripleTemplate
<1>3. g = IF root \in DOMAIN tm /\ hit # {} THEN (CHOOSE u \in hit : TRUE).ID
          ELSE NoTemplate
  BY DEF GetTemplate
<1>4. hit # {} => (CHOOSE u \in hit : TRUE) \in tm[root]
  <2> HIDE DEF root
  <2>1. hit # {} => (CHOOSE u \in hit : TRUE) \in hit
    BY Zenon
  <2>2. QED
    BY <2>1
<1>5. g \in Int
  BY <1>2, <1>3, <1>4 DEF NoTemplate
<1>6. TmplSpan \in Nat \ {0}
  BY LoadAssumption
<1> HIDE DEF g
<1>7. g % TmplSpan \in Nat
  BY <1>5, <1>6
<1>8. QED
  BY <1>7 DEF TemplateIn, g

\* TypesManager::AddElement puts an element under its type and removes none.
LEMMA AddElementAdds ==
  ASSUME NEW D, NEW types \in [D -> SUBSET KEY_ID], NEW e \in KEY_ID, GetType(e) \in D
  PROVE  /\ AddElement(types, e) \in [D -> SUBSET KEY_ID]
         /\ \A t \in D : types[t] \subseteq AddElement(types, e)[t]
         /\ e \in AddElement(types, e)[GetType(e)]
BY DEF AddElement

\* A type below the number of types has a list.
LEMMA TypesSized ==
  ASSUME NEW m, Loading(m), NEW k \in KEY_ID, GetType(k) < m.nbTypes
  PROVE  GetType(k) \in 0 .. (m.nbTypes - 1)
BY TypesOfKeys DEF Loading

\* What a line of a molecule of this node leaves.
LEMMA MoleculeCreated ==
  ASSUME NEW m, Loading(m), NEW q \in TripleIDs
  PROVE  /\ Loading(CreateMoleculeAt(m, q))
         /\ SameFiles(CreateMoleculeAt(m, q), m)
         /\ CreateMoleculeAt(m, q).ProvIdx = m.ProvIdx
         /\ CreateMoleculeAt(m, q).molecules =
              [m.molecules EXCEPT ![q.subject] =
                 AddToMolecule(@, TemplateIn(m.templates, q), q.object, q.prov)]
         /\ CreateMoleculeAt(m, q).inv_molecules =
              [m.inv_molecules EXCEPT ![q.object] = @ \union {q.subject}]
         /\ CreateMoleculeAt(m, q).TypesM = AddElement(AddElement(m.TypesM, q.subject), q.object)
<1> DEFINE mol == [m.molecules EXCEPT ![q.subject] =
                     AddToMolecule(@, TemplateIn(m.templates, q), q.object, q.prov)]
           inv == [m.inv_molecules EXCEPT ![q.object] = @ \union {q.subject}]
           typ == AddElement(AddElement(m.TypesM, q.subject), q.object)
           r == CreateMoleculeAt(m, q)
<1>1. q.subject \in KEY_ID /\ q.object \in KEY_ID /\ q.prov \in KEY_ID
  BY DEF TripleIDs
<1>2. mol \in [KEY_ID -> Molecule]
  <2>1. m.molecules \in [KEY_ID -> Molecule] /\ TemplateIn(m.templates, q) \in Nat
    BY TemplateInType DEF Loading
  <2>2. AddToMolecule(m.molecules[q.subject], TemplateIn(m.templates, q), q.object, q.prov) \in Molecule
    BY <1>1, <2>1, AddToMoleculeType
  <2>3. QED
    BY <2>1, <2>2
<1>3. inv \in [KEY_ID -> SUBSET KEY_ID]
  BY <1>1 DEF Loading
<1>4. typ \in [0 .. (m.nbTypes - 1) -> SUBSET KEY_ID]
  BY <1>1 DEF Loading, AddElement
<1>5. TemplateAt(m, q) = TemplateIn(m.templates, q)
  BY DEF TemplateAt, TemplateIn
<1>6. r = [at |-> m.at, runs |-> m.runs, tripleIDs |-> m.tripleIDs,
           myMolecules |-> m.myMolecules, nbTypes |-> m.nbTypes,
           templates |-> m.templates, TypesM |-> typ, molecules |-> mol,
           edges |-> m.edges, inv_molecules |-> inv, ProvIdx |-> m.ProvIdx]
  <2>1. r = [m EXCEPT !.TypesM = typ, !.molecules = mol, !.inv_molecules = inv]
    BY <1>5 DEF CreateMoleculeAt
  <2> HIDE DEF mol, inv, typ, r
  <2>2. QED
    BY <2>1 DEF Loading
<1> HIDE DEF mol, inv, typ, r
<1>7. Loading(r) /\ SameFiles(r, m)
  BY <1>2, <1>3, <1>4, <1>6 DEF Loading, SameFiles
<1>8. QED
  BY <1>6, <1>7 DEF r, mol, inv, typ

\* What any line leaves.
LEMMA LineLoaded ==
  ASSUME NEW m, Loading(m), NEW q \in TripleIDs
  PROVE  /\ Loading(LoadLine(m, q))
         /\ SameFiles(LoadLine(m, q), m)
         /\ LoadLine(m, q).ProvIdx = [m.ProvIdx EXCEPT ![q.prov] = @ \union {q.subject}]
         /\ q.subject \notin m.myMolecules =>
              /\ LoadLine(m, q).molecules = m.molecules
              /\ LoadLine(m, q).inv_molecules = m.inv_molecules
              /\ LoadLine(m, q).TypesM = m.TypesM
         /\ q.subject \in m.myMolecules =>
              /\ LoadLine(m, q).molecules =
                   [m.molecules EXCEPT ![q.subject] =
                      AddToMolecule(@, TemplateIn(m.templates, q), q.object, q.prov)]
              /\ LoadLine(m, q).inv_molecules =
                   [m.inv_molecules EXCEPT ![q.object] = @ \union {q.subject}]
              /\ LoadLine(m, q).TypesM = AddElement(AddElement(m.TypesM, q.subject), q.object)
<1> DEFINE c == IF q.subject \in m.myMolecules THEN CreateMoleculeAt(m, q) ELSE m
           r == LoadLine(m, q)
           prv == [m.ProvIdx EXCEPT ![q.prov] = @ \union {q.subject}]
<1>1. q.subject \in KEY_ID /\ q.prov \in KEY_ID
  BY DEF TripleIDs
<1>2. Loading(c) /\ SameFiles(c, m) /\ c.ProvIdx = m.ProvIdx
  BY MoleculeCreated DEF SameFiles
<1>3. prv \in [KEY_ID -> SUBSET KEY_ID]
  BY <1>1 DEF Loading
<1>4. r = [c EXCEPT !.ProvIdx[q.prov] = @ \union {q.subject}]
  BY DEF LoadLine
<1>5. q.subject \in m.myMolecules => c = CreateMoleculeAt(m, q)
  OBVIOUS
<1>6. q.subject \notin m.myMolecules => c = m
  OBVIOUS
<1> HIDE DEF c, r, prv
<1>7. r = [at |-> c.at, runs |-> c.runs, tripleIDs |-> c.tripleIDs,
           myMolecules |-> c.myMolecules, nbTypes |-> c.nbTypes,
           templates |-> c.templates, TypesM |-> c.TypesM, molecules |-> c.molecules,
           edges |-> c.edges, inv_molecules |-> c.inv_molecules, ProvIdx |-> prv]
  BY <1>2, <1>4 DEF Loading, prv
<1>8. Loading(r) /\ SameFiles(r, m)
  BY <1>2, <1>3, <1>7 DEF Loading, SameFiles
<1>9. r.ProvIdx = prv /\ r.molecules = c.molecules /\ r.inv_molecules = c.inv_molecules
        /\ r.TypesM = c.TypesM
  BY <1>7
<1>10. q.subject \in m.myMolecules =>
         /\ c.molecules = [m.molecules EXCEPT ![q.subject] =
                             AddToMolecule(@, TemplateIn(m.templates, q), q.object, q.prov)]
         /\ c.inv_molecules = [m.inv_molecules EXCEPT ![q.object] = @ \union {q.subject}]
         /\ c.TypesM = AddElement(AddElement(m.TypesM, q.subject), q.object)
  BY <1>5, MoleculeCreated
<1>11. QED
  BY <1>6, <1>8, <1>9, <1>10 DEF r, prv
------------------------------------------------------------------------------
(***************************************************************************)
(* All the lines.                                                          *)
(***************************************************************************)

\* A node as LoadLines finds it, but for the type lists.
Blank(b) ==
  /\ b.molecules = [k \in KEY_ID |-> NoMolecule]
  /\ b.inv_molecules = Empty
  /\ b.ProvIdx = Empty

\* What a line puts into the molecule of its subject.
ElementOf(tm, q) == [prov |-> q.prov, tmpl |-> TemplateIn(tm, q), obj |-> q.object]

\* m is what b has become after k of its lines.
HoldsElements(m, b, k) ==
  \A s \in KEY_ID : \A e :
    e \in Elements(m.molecules[s]) <=>
      /\ s \in b.myMolecules
      /\ \E i \in 1 .. k : b.tripleIDs[i].subject = s /\ e = ElementOf(b.templates, b.tripleIDs[i])

HoldsIndex(m, b, k) ==
  \A o, s \in KEY_ID :
    s \in m.inv_molecules[o] <=>
      /\ s \in b.myMolecules
      /\ \E i \in 1 .. k : b.tripleIDs[i].subject = s /\ b.tripleIDs[i].object = o

HoldsProvIdx(m, b, k) ==
  \A p, s \in KEY_ID :
    s \in m.ProvIdx[p] <=>
      \E i \in 1 .. k : b.tripleIDs[i].subject = s /\ b.tripleIDs[i].prov = p

HoldsTypes(m, b, k) ==
  TypesFit(b) =>
    \A s \in b.myMolecules :
      (\E i \in 1 .. k : b.tripleIDs[i].subject = s) => s \in m.TypesM[GetType(s)]

HoldsNoMore(m, b, k) ==
  \A s \in KEY_ID :
    m.molecules[s] # NoMolecule =>
      s \in b.myMolecules /\ \E i \in 1 .. k : b.tripleIDs[i].subject = s

HoldsAll(m, b, k) ==
  /\ Loading(m) /\ SameFiles(m, b)
  /\ HoldsElements(m, b, k)
  /\ HoldsIndex(m, b, k)
  /\ HoldsProvIdx(m, b, k)
  /\ HoldsTypes(m, b, k)
  /\ HoldsNoMore(m, b, k)

\* Every line adds itself to all of it.
LEMMA LineHolds ==
  ASSUME NEW m, NEW b, NEW j \in Nat, NEW k, k = j + 1,
         k \in DOMAIN b.tripleIDs, HoldsAll(m, b, j)
  PROVE  HoldsAll(LoadLine(m, b.tripleIDs[k]), b, k)
<1> DEFINE q == b.tripleIDs[k]
           tm == b.templates
           my == b.myMolecules
           r == LoadLine(m, q)
<1>1. q \in TripleIDs
  <2>1. b.tripleIDs \in Seq(Lines)
    BY DEF HoldsAll, Loading, SameFiles
  <2>2. QED
    BY <2>1, LoadAssumption
<1>2. /\ q.subject \in KEY_ID /\ q.object \in KEY_ID /\ q.prov \in KEY_ID
      /\ my \subseteq KEY_ID /\ m.myMolecules = my /\ m.templates = tm
  BY <1>1 DEF TripleIDs, HoldsAll, Loading, SameFiles
<1>3. \A i : i \in 1 .. k <=> i \in 1 .. j \/ i = k
  OBVIOUS
<1>4. Loading(r) /\ SameFiles(r, b)
  <2>1. Loading(m) /\ SameFiles(m, b)
    BY DEF HoldsAll
  <2>2. Loading(r) /\ SameFiles(r, m)
    BY <1>1, <2>1, LineLoaded
  <2> HIDE DEF r
  <2>3. QED
    BY <2>1, <2>2 DEF SameFiles
<1>5. /\ m.molecules \in [KEY_ID -> Molecule]
      /\ m.inv_molecules \in [KEY_ID -> SUBSET KEY_ID]
      /\ m.ProvIdx \in [KEY_ID -> SUBSET KEY_ID]
      /\ m.TypesM \in [0 .. (m.nbTypes - 1) -> SUBSET KEY_ID]
  BY DEF HoldsAll, Loading
<1>6. Loading(m)
  BY DEF HoldsAll
<1>7. r.ProvIdx = [m.ProvIdx EXCEPT ![q.prov] = @ \union {q.subject}]
  BY <1>1, <1>6, LineLoaded
<1>8. q.subject \notin my =>
        r.molecules = m.molecules /\ r.inv_molecules = m.inv_molecules /\ r.TypesM = m.TypesM
  BY <1>1, <1>2, <1>6, LineLoaded
<1>9. q.subject \in my =>
        /\ r.molecules = [m.molecules EXCEPT ![q.subject] =
                            AddToMolecule(@, TemplateIn(tm, q), q.object, q.prov)]
        /\ r.inv_molecules = [m.inv_molecules EXCEPT ![q.object] = @ \union {q.subject}]
        /\ r.TypesM = AddElement(AddElement(m.TypesM, q.subject), q.object)
  <2> HIDE DEF q, tm, my, r
  <2>1. q.subject \in m.myMolecules =>
          /\ LoadLine(m, q).molecules =
               [m.molecules EXCEPT ![q.subject] =
                  AddToMolecule(@, TemplateIn(m.templates, q), q.object, q.prov)]
          /\ LoadLine(m, q).inv_molecules =
               [m.inv_molecules EXCEPT ![q.object] = @ \union {q.subject}]
          /\ LoadLine(m, q).TypesM = AddElement(AddElement(m.TypesM, q.subject), q.object)
    BY <1>1, <1>6, LineLoaded
  <2>2. QED
    BY <1>2, <2>1, Zenon DEF r
<1> HIDE DEF r, q, tm, my
<1>10. HoldsProvIdx(r, b, k)
  <2>1. \A p, s \in KEY_ID : s \in r.ProvIdx[p] <=> s \in m.ProvIdx[p] \/ (s = q.subject /\ p = q.prov)
    BY <1>2, <1>5, <1>7
  <2>2. \A p, s \in KEY_ID :
          s \in m.ProvIdx[p] <=>
            \E i \in 1 .. j : b.tripleIDs[i].subject = s /\ b.tripleIDs[i].prov = p
    BY DEF HoldsAll, HoldsProvIdx
  <2>3. ASSUME NEW p \in KEY_ID, NEW s \in KEY_ID
        PROVE  s \in r.ProvIdx[p] <=>
                 \E i \in 1 .. k : b.tripleIDs[i].subject = s /\ b.tripleIDs[i].prov = p
    <3>1. s \in m.ProvIdx[p] <=>
            \E i \in 1 .. j : b.tripleIDs[i].subject = s /\ b.tripleIDs[i].prov = p
      BY <2>2
    <3>2. s \in r.ProvIdx[p] <=> s \in m.ProvIdx[p] \/ (s = q.subject /\ p = q.prov)
      BY <2>1
    <3>3. QED
      BY <1>3, <3>1, <3>2, Zenon DEF q
  <2>4. QED
    BY <2>3 DEF HoldsProvIdx
<1>11. HoldsIndex(r, b, k)
  <2>1. \A o, s \in KEY_ID :
          s \in r.inv_molecules[o] <=>
            s \in m.inv_molecules[o] \/ (s = q.subject /\ o = q.object /\ q.subject \in my)
    BY <1>2, <1>5, <1>8, <1>9
  <2>2. \A o, s \in KEY_ID :
          s \in m.inv_molecules[o] <=>
            s \in my /\ \E i \in 1 .. j : b.tripleIDs[i].subject = s /\ b.tripleIDs[i].object = o
    BY DEF HoldsAll, HoldsIndex, my
  <2>3. ASSUME NEW o \in KEY_ID, NEW s \in KEY_ID
        PROVE  s \in r.inv_molecules[o] <=>
                 s \in my /\ \E i \in 1 .. k : b.tripleIDs[i].subject = s /\ b.tripleIDs[i].object = o
    <3>1. s \in m.inv_molecules[o] <=>
            s \in my /\ \E i \in 1 .. j : b.tripleIDs[i].subject = s /\ b.tripleIDs[i].object = o
      BY <2>2
    <3>2. s \in r.inv_molecules[o] <=>
            s \in m.inv_molecules[o] \/ (s = q.subject /\ o = q.object /\ q.subject \in my)
      BY <2>1
    <3>3. QED
      BY <1>3, <3>1, <3>2, Zenon DEF q
  <2>4. QED
    BY <2>3 DEF HoldsIndex, my
<1>12. HoldsTypes(r, b, k)
  <2> SUFFICES ASSUME TypesFit(b)
               PROVE  \A s \in my : (\E i \in 1 .. k : b.tripleIDs[i].subject = s) =>
                        s \in r.TypesM[GetType(s)]
    BY DEF HoldsTypes, my
  <2>1. ASSUME NEW i \in 1 .. k, b.tripleIDs[i].subject \in my
        PROVE  /\ GetType(b.tripleIDs[i].subject) < m.nbTypes
               /\ GetType(b.tripleIDs[i].object) < m.nbTypes
    <3>1. DOMAIN b.tripleIDs = 1 .. Len(b.tripleIDs) /\ m.nbTypes = b.nbTypes
      BY DEF HoldsAll, Loading, SameFiles
    <3>2. i \in DOMAIN b.tripleIDs
      BY <3>1
    <3>3. QED
      BY <2>1, <3>1, <3>2 DEF TypesFit, my
  <2>2. ASSUME q.subject \in my
        PROVE  /\ \A t \in 0 .. (m.nbTypes - 1) : m.TypesM[t] \subseteq r.TypesM[t]
               /\ q.subject \in r.TypesM[GetType(q.subject)]
    <3> DEFINE D == 0 .. (m.nbTypes - 1)
               types == AddElement(m.TypesM, q.subject)
    <3>1. GetType(q.subject) \in D /\ GetType(q.object) \in D
      <4>1. GetType(q.subject) < m.nbTypes /\ GetType(q.object) < m.nbTypes
        BY <2>1, <2>2 DEF q
      <4>2. QED
        BY <1>2, <1>6, <4>1, TypesSized
    <3>2. m.TypesM \in [D -> SUBSET KEY_ID] /\ r.TypesM = AddElement(types, q.object)
      BY <1>5, <1>9, <2>2
    <3> HIDE DEF D, types
    <3>3. /\ types \in [D -> SUBSET KEY_ID]
          /\ \A t \in D : m.TypesM[t] \subseteq types[t]
          /\ q.subject \in types[GetType(q.subject)]
      BY <1>2, <3>1, <3>2, AddElementAdds DEF types
    <3>4. \A t \in D : types[t] \subseteq r.TypesM[t]
      BY <1>2, <3>1, <3>2, <3>3, AddElementAdds
    <3>5. QED
      BY <3>1, <3>3, <3>4 DEF D
  <2>3. ASSUME NEW s \in my, NEW i \in 1 .. k, b.tripleIDs[i].subject = s
        PROVE  m.TypesM[GetType(s)] \subseteq r.TypesM[GetType(s)]
    <3>1. GetType(s) < m.nbTypes
      BY <2>1, <2>3
    <3>2. GetType(s) \in 0 .. (m.nbTypes - 1)
      BY <1>2, <1>6, <3>1, TypesSized
    <3>3. QED
      BY <1>8, <2>2, <3>2
  <2>4. \A s \in my : (\E i \in 1 .. j : b.tripleIDs[i].subject = s) => s \in m.TypesM[GetType(s)]
    BY DEF HoldsAll, HoldsTypes, my
  <2>5. ASSUME NEW s \in my, NEW i \in 1 .. k, b.tripleIDs[i].subject = s
        PROVE  s \in r.TypesM[GetType(s)]
    <3>1. CASE i = k
      BY <2>2, <2>5, <3>1 DEF q
    <3>2. CASE i # k
      <4>1. i \in 1 .. j
        BY <1>3, <3>2
      <4>2. s \in m.TypesM[GetType(s)]
        BY <2>4, <2>5, <4>1
      <4>3. QED
        BY <2>3, <2>5, <4>2
    <3>3. QED
      BY <3>1, <3>2
  <2>6. QED
    BY <2>5
<1>13. HoldsElements(r, b, k)
  <2>1. ASSUME NEW s \in KEY_ID
        PROVE  Elements(r.molecules[s]) =
                 IF s = q.subject /\ s \in my
                   THEN Elements(m.molecules[s]) \union {ElementOf(tm, q)}
                   ELSE Elements(m.molecules[s])
    <3>1. CASE s = q.subject /\ s \in my
      <4>1. r.molecules[s] = AddToMolecule(m.molecules[s], TemplateIn(tm, q), q.object, q.prov)
        BY <1>5, <1>9, <3>1
      <4>2. TemplateIn(tm, q) \in Nat
        BY <1>1, <1>2, <1>6, TemplateInType DEF Loading
      <4>3. m.molecules[s] \in Molecule
        BY <1>5
      <4>4. Elements(AddToMolecule(m.molecules[s], TemplateIn(tm, q), q.object, q.prov)) =
              Elements(m.molecules[s]) \union
                {[prov |-> q.prov, tmpl |-> TemplateIn(tm, q), obj |-> q.object]}
        BY <1>2, <4>2, <4>3, AddToMoleculeElements
      <4>5. QED
        BY <3>1, <4>1, <4>4 DEF ElementOf
    <3>2. CASE ~ (s = q.subject /\ s \in my)
      <4>1. r.molecules[s] = m.molecules[s]
        BY <1>2, <1>5, <1>8, <1>9, <3>2
      <4>2. QED
        BY <3>2, <4>1
    <3>3. QED
      BY <3>1, <3>2
  <2>2. \A s \in KEY_ID : \A e :
          e \in Elements(m.molecules[s]) <=>
            s \in my /\ \E i \in 1 .. j : b.tripleIDs[i].subject = s /\ e = ElementOf(tm, b.tripleIDs[i])
    BY DEF HoldsAll, HoldsElements, my, tm
  <2>3. \A s \in KEY_ID : \A e :
          e \in Elements(r.molecules[s]) <=>
            e \in Elements(m.molecules[s]) \/ (s = q.subject /\ s \in my /\ e = ElementOf(tm, q))
    BY <2>1
  <2>4. ASSUME NEW s \in KEY_ID, NEW e
        PROVE  e \in Elements(r.molecules[s]) <=>
                 s \in my /\ \E i \in 1 .. k : b.tripleIDs[i].subject = s /\ e = ElementOf(tm, b.tripleIDs[i])
    <3>1. e \in Elements(m.molecules[s]) <=>
            s \in my /\ \E i \in 1 .. j : b.tripleIDs[i].subject = s /\ e = ElementOf(tm, b.tripleIDs[i])
      BY <2>2
    <3>2. e \in Elements(r.molecules[s]) <=>
            e \in Elements(m.molecules[s]) \/ (s = q.subject /\ s \in my /\ e = ElementOf(tm, q))
      BY <2>3
    <3>3. QED
      BY <1>3, <3>1, <3>2, Zenon DEF q
  <2>5. QED
    BY <2>4 DEF HoldsElements, my, tm
<1>14. HoldsNoMore(r, b, k)
  <2>1. \A s \in KEY_ID : r.molecules[s] # NoMolecule =>
          m.molecules[s] # NoMolecule \/ (s = q.subject /\ s \in my)
    BY <1>2, <1>5, <1>8, <1>9
  <2>2. \A s \in KEY_ID : m.molecules[s] # NoMolecule =>
          s \in my /\ \E i \in 1 .. j : b.tripleIDs[i].subject = s
    BY DEF HoldsAll, HoldsNoMore, my
  <2>3. ASSUME NEW s \in KEY_ID, r.molecules[s] # NoMolecule
        PROVE  s \in my /\ \E i \in 1 .. k : b.tripleIDs[i].subject = s
    <3>1. m.molecules[s] # NoMolecule \/ (s = q.subject /\ s \in my)
      BY <2>1, <2>3
    <3>2. m.molecules[s] # NoMolecule => s \in my /\ \E i \in 1 .. j : b.tripleIDs[i].subject = s
      BY <2>2
    <3>3. QED
      BY <1>3, <3>1, <3>2, Zenon DEF q
  <2>4. QED
    BY <2>3 DEF HoldsNoMore, my
<1>15. QED
  BY <1>4, <1>10, <1>11, <1>12, <1>13, <1>14 DEF HoldsAll, r, q

\* There is no scope above 0 to load.
LEMMA NoScopes ==
  ASSUME NEW m, NEW T, DOMAIN T = {}
  PROVE  FoldLeft(LoadScope, m, T) = m
<1> DEFINE g == CHOOSE iter : iter = [s \in SUBSET (DOMAIN T) |->
                  IF s = {} THEN m ELSE LoadScope(iter[s \ {Max(s)}], T[Max(s)])]
           f == [s \in SUBSET (DOMAIN T) |-> m]
<1>1. FoldLeft(LoadScope, m, T) = g[DOMAIN T]
  BY Zenon DEF FoldLeft, MapThenFoldSet
<1>2. \A s \in SUBSET (DOMAIN T) :
        f[s] = IF s = {} THEN m ELSE LoadScope(f[s \ {Max(s)}], T[Max(s)])
  <2>1. \A s \in SUBSET (DOMAIN T) : s = {}
    OBVIOUS
  <2>2. QED
    BY <2>1, Zenon
<1>3. f = [s \in SUBSET (DOMAIN T) |-> f[s]]
  OBVIOUS
<1> HIDE DEF f
<1>4. f = [s \in SUBSET (DOMAIN T) |->
             IF s = {} THEN m ELSE LoadScope(f[s \ {Max(s)}], T[Max(s)])]
  BY <1>2, <1>3, Zenon
<1>5. g = [s \in SUBSET (DOMAIN T) |->
             IF s = {} THEN m ELSE LoadScope(g[s \ {Max(s)}], T[Max(s)])]
  BY <1>4, Zenon
<1> HIDE DEF g
<1>6. {} \in SUBSET (DOMAIN T)
  OBVIOUS
<1>7. g[{}] = m
  BY <1>5, <1>6, Zenon
<1>8. QED
  BY <1>1, <1>7, Zenon

\* A node that has read its files and none of the lines.
Prepared(b) ==
  /\ b = [at |-> b.at, runs |-> b.runs, tripleIDs |-> b.tripleIDs,
          myMolecules |-> b.myMolecules, nbTypes |-> b.nbTypes,
          templates |-> b.templates, TypesM |-> b.TypesM, molecules |-> b.molecules,
          edges |-> b.edges, inv_molecules |-> b.inv_molecules, ProvIdx |-> b.ProvIdx]
  /\ b.tripleIDs \in Seq(Lines)
  /\ b.myMolecules \subseteq KEY_ID
  /\ b.nbTypes \in Nat
  /\ b.templates \in Templates
  /\ Blank(b)

\* The same, with its type lists: no line is loaded.
Sized(b) == [b EXCEPT !.TypesM = [t \in 0 .. (b.nbTypes - 1) |-> {}]]

LEMMA NothingLoaded ==
  ASSUME NEW b, Prepared(b)
  PROVE  HoldsAll(Sized(b), b, 0)
<1> DEFINE m == Sized(b)
           lists == [t \in 0 .. (b.nbTypes - 1) |-> {}]
<1>1. lists \in [0 .. (b.nbTypes - 1) -> SUBSET KEY_ID]
  OBVIOUS
<1>2. m = [b EXCEPT !.TypesM = lists]
  BY DEF Sized
<1> HIDE DEF m, lists
<1>3. m = [at |-> b.at, runs |-> b.runs, tripleIDs |-> b.tripleIDs,
           myMolecules |-> b.myMolecules, nbTypes |-> b.nbTypes,
           templates |-> b.templates, TypesM |-> lists, molecules |-> b.molecules,
           edges |-> b.edges, inv_molecules |-> b.inv_molecules, ProvIdx |-> b.ProvIdx]
  BY <1>2 DEF Prepared
<1>4. /\ b.molecules = [k \in KEY_ID |-> <<>>]
      /\ b.inv_molecules = [k \in KEY_ID |-> {}]
      /\ b.ProvIdx = [k \in KEY_ID |-> {}]
  BY DEF Prepared, Blank, NoMolecule, Empty
<1>5. b.molecules \in [KEY_ID -> Molecule]
  BY <1>4 DEF Molecule
<1>6. Loading(m) /\ SameFiles(m, b)
  BY <1>1, <1>3, <1>4, <1>5 DEF Loading, SameFiles, Prepared
<1>7. \A i : i \notin 1 .. 0
  OBVIOUS
<1>8. Elements(<<>>) = {}
  BY DEF Elements
<1>9. HoldsElements(m, b, 0)
  BY <1>3, <1>4, <1>7, <1>8 DEF HoldsElements
<1>10. /\ HoldsIndex(m, b, 0) /\ HoldsProvIdx(m, b, 0) /\ HoldsTypes(m, b, 0)
       /\ HoldsNoMore(m, b, 0)
  BY <1>3, <1>4, <1>7 DEF HoldsIndex, HoldsProvIdx, HoldsTypes, HoldsNoMore, NoMolecule
<1>11. QED
  BY <1>6, <1>9, <1>10 DEF HoldsAll, m

\* LoadLines passes through the states between the lines, and ends in the last.
LEMMA LoadPasses ==
  ASSUME NEW b, Prepared(b), NEW n, n = Len(b.tripleIDs)
  PROVE  \E h : /\ LoadsLines(h, Sized(b), b.tripleIDs, n)
                /\ LoadLines(b, 0) = [h[n] EXCEPT !.at = "loaded"]
<1>1. b.tripleIDs \in Seq(Lines) /\ Sized(b).tripleIDs = b.tripleIDs
  BY DEF Prepared, Sized
<1>2. PICK h : LoadsLines(h, Sized(b), b.tripleIDs, n) /\ FoldLeft(LoadLine, Sized(b), b.tripleIDs) = h[n]
  BY <1>1, FoldByLine
<1>3. LoadScope0(b) = h[n]
  BY <1>2, Zenon DEF LoadScope0, Sized
<1>4. DOMAIN [i \in 1 .. 0 |-> i] = {}
  OBVIOUS
<1>5. FoldLeft(LoadScope, LoadScope0(b), [i \in 1 .. 0 |-> i]) = LoadScope0(b)
  BY <1>4, NoScopes, Zenon
<1>6. QED
  BY <1>2, <1>3, <1>5, Zenon DEF LoadLines

\* After k lines the node holds k lines.
LEMMA EveryLineHolds ==
  ASSUME NEW b, Prepared(b), NEW n, n = Len(b.tripleIDs),
         NEW h, LoadsLines(h, Sized(b), b.tripleIDs, n)
  PROVE  \A k \in 0 .. n : HoldsAll(h[k], b, k)
<1>1. n \in Nat /\ DOMAIN b.tripleIDs = 1 .. n
  BY DEF Prepared
<1> DEFINE Bad == {k \in 0 .. n : ~ HoldsAll(h[k], b, k)}
<1> SUFFICES ASSUME Bad # {} PROVE FALSE
  OBVIOUS
<1>2. Bad \in SUBSET Nat
  BY <1>1
<1>3. PICK k \in Bad : \A j \in Bad : k <= j
  <2> HIDE DEF Bad
  <2>1. QED
    BY <1>2, LeastIndex
<1>4. k \in 0 .. n /\ ~ HoldsAll(h[k], b, k)
  OBVIOUS
<1>5. CASE k = 0
  BY <1>4, <1>5, NothingLoaded DEF LoadsLines
<1>6. CASE k # 0
  <2>1. PICK j : j = k - 1
    OBVIOUS
  <2>2. j \in Nat /\ k = j + 1 /\ j \in 0 .. n /\ k \in 1 .. n
    BY <1>1, <1>4, <1>6, <2>1
  <2>3. j \notin Bad
    BY <1>1, <1>3, <2>1, <2>2
  <2>4. HoldsAll(h[j], b, j)
    BY <2>2, <2>3
  <2>5. h[k] = LoadLine(h[j], b.tripleIDs[k])
    BY <2>1, <2>2, Zenon DEF LoadsLines
  <2>6. HoldsAll(LoadLine(h[j], b.tripleIDs[k]), b, k)
    BY <1>1, <2>2, <2>4, LineHolds
  <2>7. QED
    BY <1>4, <2>5, <2>6, Zenon
<1>7. QED
  BY <1>5, <1>6

\* What a node has read and what it holds of it, once all is loaded.
LEMMA NodeLoaded ==
  ASSUME NEW b, Prepared(b), NEW r, r = LoadLines(b, 0), NEW n, n = Len(b.tripleIDs)
  PROVE  /\ Loading(r) /\ r.at = "loaded" /\ r.runs = b.runs
         /\ r.tripleIDs = b.tripleIDs /\ r.myMolecules = b.myMolecules
         /\ r.nbTypes = b.nbTypes /\ r.templates = b.templates
         /\ HoldsElements(r, b, n) /\ HoldsIndex(r, b, n)
         /\ HoldsProvIdx(r, b, n) /\ HoldsTypes(r, b, n) /\ HoldsNoMore(r, b, n)
<1>1. PICK h : /\ LoadsLines(h, Sized(b), b.tripleIDs, n)
               /\ LoadLines(b, 0) = [h[n] EXCEPT !.at = "loaded"]
  BY LoadPasses
<1>2. n \in Nat
  BY DEF Prepared
<1>3. PICK m : m = h[n]
  OBVIOUS
<1>4. HoldsAll(m, b, n)
  <2>1. \A k \in 0 .. n : HoldsAll(h[k], b, k)
    BY <1>1, EveryLineHolds
  <2>2. QED
    BY <1>2, <1>3, <2>1
<1>5. r = [m EXCEPT !.at = "loaded"]
  BY <1>1, <1>3
<1>6. Loading(m) /\ SameFiles(m, b)
  BY <1>4 DEF HoldsAll
<1>7. r = [at |-> "loaded", runs |-> m.runs, tripleIDs |-> m.tripleIDs,
           myMolecules |-> m.myMolecules, nbTypes |-> m.nbTypes,
           templates |-> m.templates, TypesM |-> m.TypesM, molecules |-> m.molecules,
           edges |-> m.edges, inv_molecules |-> m.inv_molecules, ProvIdx |-> m.ProvIdx]
  BY <1>5, <1>6 DEF Loading
<1>8. Loading(r) /\ r.at = "loaded" /\ r.runs = b.runs
        /\ r.tripleIDs = b.tripleIDs /\ r.myMolecules = b.myMolecules
        /\ r.nbTypes = b.nbTypes /\ r.templates = b.templates
  BY <1>6, <1>7 DEF Loading, SameFiles
<1>9. r.molecules = m.molecules /\ r.inv_molecules = m.inv_molecules /\ r.ProvIdx = m.ProvIdx
        /\ r.TypesM = m.TypesM
  BY <1>7
<1>10. /\ HoldsElements(r, b, n) /\ HoldsIndex(r, b, n) /\ HoldsProvIdx(r, b, n)
       /\ HoldsTypes(r, b, n) /\ HoldsNoMore(r, b, n)
  <2>1. /\ HoldsElements(m, b, n) /\ HoldsIndex(m, b, n) /\ HoldsProvIdx(m, b, n)
        /\ HoldsTypes(m, b, n) /\ HoldsNoMore(m, b, n)
    BY <1>4 DEF HoldsAll
  <2>2. HoldsElements(r, b, n)
    <3>1. \A s \in KEY_ID : Elements(r.molecules[s]) = Elements(m.molecules[s])
      BY <1>9
    <3>2. \A s \in KEY_ID : \A e :
            e \in Elements(m.molecules[s]) <=>
              /\ s \in b.myMolecules
              /\ \E i \in 1 .. n : b.tripleIDs[i].subject = s /\ e = ElementOf(b.templates, b.tripleIDs[i])
      BY <2>1 DEF HoldsElements
    <3>3. ASSUME NEW s \in KEY_ID, NEW e
          PROVE  e \in Elements(r.molecules[s]) <=>
                   /\ s \in b.myMolecules
                   /\ \E i \in 1 .. n : b.tripleIDs[i].subject = s /\ e = ElementOf(b.templates, b.tripleIDs[i])
      <4>1. Elements(r.molecules[s]) = Elements(m.molecules[s])
        BY <3>1
      <4>2. QED
        BY <3>2, <4>1
    <3>4. QED
      BY <3>3 DEF HoldsElements
  <2>3. HoldsIndex(r, b, n) /\ HoldsProvIdx(r, b, n) /\ HoldsTypes(r, b, n) /\ HoldsNoMore(r, b, n)
    BY <1>9, <2>1 DEF HoldsIndex, HoldsProvIdx, HoldsTypes, HoldsNoMore
  <2>4. QED
    BY <2>2, <2>3
<1>11. QED
  BY <1>8, <1>10
------------------------------------------------------------------------------
(***************************************************************************)
(* The same lines, loaded by the master.                                   *)
(***************************************************************************)

\* G[k] is what the molecules of the master are after k lines.
GrowsBy(g, q, tm) ==
  IF Storable(q)
    THEN [g EXCEPT ![q.subject] = AddToMolecule(@, TemplateIn(tm, q), q.object, q.prov)]
    ELSE g

Grows(G, T, tm, n) ==
  /\ G[0] = [s \in KEY_ID |-> NoMolecule]
  /\ \A k \in 1 .. n : G[k] = GrowsBy(G[k - 1], T[k], tm)

\* A node with molecules M has those of g that are its own, and no other.
Alike(M, g, my) ==
  /\ DOMAIN g = KEY_ID
  /\ \A s \in KEY_ID : M[s] = IF s \in my THEN g[s] ELSE NoMolecule

\* One line, on a node and on the master.
LEMMA LineGrowsAlike ==
  ASSUME NEW m, Loading(m), NEW q \in TripleIDs, NEW g,
         \A s \in m.myMolecules : GetType(s) >= 2,
         Alike(m.molecules, g, m.myMolecules)
  PROVE  Alike(LoadLine(m, q).molecules, GrowsBy(g, q, m.templates), m.myMolecules)
<1> DEFINE r == LoadLine(m, q)
           my == m.myMolecules
           a == TemplateIn(m.templates, q)
<1>1. q.subject \in KEY_ID /\ m.molecules \in [KEY_ID -> Molecule]
  BY DEF TripleIDs, Loading
<1>2. q.subject \in my =>
        r.molecules = [m.molecules EXCEPT ![q.subject] = AddToMolecule(@, a, q.object, q.prov)]
  BY LineLoaded
<1>3. q.subject \notin my => r.molecules = m.molecules
  BY LineLoaded
<1>4. GrowsBy(g, q, m.templates) =
        IF GetType(q.subject) >= 2
          THEN [g EXCEPT ![q.subject] = AddToMolecule(@, a, q.object, q.prov)]
          ELSE g
  BY DEF GrowsBy, Storable
<1>5. DOMAIN g = KEY_ID /\ \A s \in KEY_ID : m.molecules[s] = IF s \in my THEN g[s] ELSE NoMolecule
  BY DEF Alike
<1> HIDE DEF r, a
<1>6. CASE q.subject \in my
  <2> DEFINE grown == AddToMolecule(g[q.subject], a, q.object, q.prov)
  <2>1. m.molecules[q.subject] = g[q.subject] /\ GetType(q.subject) >= 2
    BY <1>1, <1>5, <1>6
  <2>2. r.molecules = [m.molecules EXCEPT ![q.subject] = grown]
    BY <1>2, <1>6, <2>1
  <2>3. GrowsBy(g, q, m.templates) = [g EXCEPT ![q.subject] = grown]
    BY <1>4, <2>1
  <2> HIDE DEF grown
  <2>4. QED
    BY <1>1, <1>5, <1>6, <2>2, <2>3 DEF Alike, r
<1>7. CASE q.subject \notin my
  BY <1>1, <1>3, <1>4, <1>5, <1>7 DEF Alike, r
<1>8. QED
  BY <1>6, <1>7

\* All the lines: a node whose molecules are storable has exactly its own of
\* the molecules the master has after the same lines, with the same templates.
LEMMA NodeGrowsAlike ==
  ASSUME NEW b, Prepared(b), NEW n, n = Len(b.tripleIDs),
         NEW G, Grows(G, b.tripleIDs, b.templates, n),
         \A s \in b.myMolecules : GetType(s) >= 2
  PROVE  Alike(LoadLines(b, 0).molecules, G[n], b.myMolecules)
<1>1. PICK h : /\ LoadsLines(h, Sized(b), b.tripleIDs, n)
               /\ LoadLines(b, 0) = [h[n] EXCEPT !.at = "loaded"]
  BY LoadPasses
<1>2. n \in Nat /\ DOMAIN b.tripleIDs = 1 .. n /\ \A i \in 1 .. n : b.tripleIDs[i] \in TripleIDs
  BY LoadAssumption DEF Prepared
<1>3. \A k \in 0 .. n : HoldsAll(h[k], b, k)
  BY <1>1, EveryLineHolds
<1>4. \A k \in 0 .. n : Alike(h[k].molecules, G[k], b.myMolecules)
  <2> DEFINE Bad == {k \in 0 .. n : ~ Alike(h[k].molecules, G[k], b.myMolecules)}
  <2> SUFFICES ASSUME Bad # {} PROVE FALSE
    OBVIOUS
  <2>1. Bad \in SUBSET Nat
    BY <1>2
  <2>2. PICK k \in Bad : \A j \in Bad : k <= j
    <3> HIDE DEF Bad
    <3>1. QED
      BY <2>1, LeastIndex
  <2>3. k \in 0 .. n /\ ~ Alike(h[k].molecules, G[k], b.myMolecules)
    OBVIOUS
  <2>4. CASE k = 0
    <3>1. h[0].molecules = [s \in KEY_ID |-> NoMolecule]
      BY <1>1 DEF LoadsLines, Sized, Prepared, Blank
    <3>2. G[0] = [s \in KEY_ID |-> NoMolecule]
      BY DEF Grows
    <3>3. QED
      BY <2>3, <2>4, <3>1, <3>2 DEF Alike
  <2>5. CASE k # 0
    <3>1. PICK j : j = k - 1
      OBVIOUS
    <3>2. j \in 0 .. n /\ k \in 1 .. n /\ j < k
      BY <1>2, <2>3, <2>5, <3>1
    <3>3. Alike(h[j].molecules, G[j], b.myMolecules)
      BY <1>2, <2>2, <3>2
    <3>4. Loading(h[j]) /\ SameFiles(h[j], b)
      BY <1>3, <3>2 DEF HoldsAll
    <3>5. PICK m, g, q : m = h[j] /\ g = G[j] /\ q = b.tripleIDs[k]
      OBVIOUS
    <3>6. /\ Loading(m) /\ q \in TripleIDs /\ m.myMolecules = b.myMolecules
          /\ m.templates = b.templates
          /\ Alike(m.molecules, g, m.myMolecules)
      BY <1>2, <3>2, <3>3, <3>4, <3>5 DEF SameFiles
    <3>7. Alike(LoadLine(m, q).molecules, GrowsBy(g, q, m.templates), m.myMolecules)
      BY <3>6, LineGrowsAlike
    <3>8. h[k] = LoadLine(m, q) /\ G[k] = GrowsBy(g, q, b.templates)
      BY <1>1, <3>1, <3>2, <3>5 DEF LoadsLines, Grows
    <3>9. QED
      BY <2>3, <3>6, <3>7, <3>8
  <2>6. QED
    BY <2>4, <2>5
<1>5. PICK m : m = h[n]
  OBVIOUS
<1>6. Loading(m) /\ Alike(m.molecules, G[n], b.myMolecules)
  BY <1>2, <1>3, <1>4, <1>5 DEF HoldsAll
<1>7. LoadLines(b, 0).molecules = m.molecules
  BY <1>1, <1>5, <1>6 DEF Loading
<1>8. QED
  BY <1>6, <1>7
------------------------------------------------------------------------------
(***************************************************************************)
(* The inductive invariant: the master.                                    *)
(***************************************************************************)

\* Where the master is: files are stored once the templates are numbered, and
\* the molecules created once all are stored.
MasterOrder ==
  /\ run \in Nat \ {0}
  /\ sent \in Nat
  /\ saving \in {"triples", "partition", "nodes", "templates", "types", "saved"}
  /\ saving # "triples" => phase \in {"molecules", "loaded"}
  /\ phase = "loaded" => saving = "saved" /\ pos = Len(tripleIDs) + 1

\* A file of molecules has been written, or could not be.
Dealt == saving \in {"templates", "types", "saved"} \/ (saving = "nodes" /\ sent > 0)

\* The partitioner is called once in a run, with the molecules of its dataset,
\* and is done before the first file of molecules.
PartitionInv ==
  /\ PartitionTypeOK
  /\ OnOneNode
  /\ InRounds
  /\ saving \in {"triples", "partition"} => toPlace = {} /\ Placed = {} /\ sent = 0
  /\ saving \notin {"triples", "partition"} => Placed \union toPlace = MoleculesOf(tripleIDs)
  /\ Dealt => toPlace = {}

\* The molecules of the master have grown line by line, there are none but of
\* lines loaded, and the provenance index lists the subjects of these.
MasterGrown ==
  \E G : Grows(G, tripleIDs, templates, pos - 1) /\ molecules = G[pos - 1]

MasterHoldsNoMore ==
  \A s \in KEY_ID :
    molecules[s] # NoMolecule =>
      \E i \in 1 .. (pos - 1) : Storable(tripleIDs[i]) /\ tripleIDs[i].subject = s

MasterIndexed ==
  \A p, s \in KEY_ID :
    s \in ProvIdx[p] <=>
      \E i \in 1 .. (pos - 1) : tripleIDs[i].subject = s /\ tripleIDs[i].prov = p

MasterInv ==
  /\ LoadInv /\ MasterOrder /\ PartitionInv
  /\ MasterGrown /\ MasterHoldsNoMore /\ MasterIndexed
------------------------------------------------------------------------------
(***************************************************************************)
(* The inductive invariant: the files and the memory of the nodes.         *)
(***************************************************************************)

FileOK(f, S) == f = NoFile \/ f \in [run : 1 .. run, data : S]

DiskOK ==
  /\ disk = [triples |-> disk.triples, node |-> disk.node,
             templates |-> disk.templates, types |-> disk.types]
  /\ disk.node = [i \in Clients |-> disk.node[i]]
  /\ FileOK(disk.triples, Seq(Lines))
  /\ FileOK(disk.templates, Templates)
  /\ FileOK(disk.types, Nat)
  /\ \A i \in Clients : FileOK(disk.node[i], SUBSET KEY_ID)

\* A node that is reading: it holds what it has read, and no molecule.
Reading(m) ==
  /\ m = [at |-> m.at, runs |-> m.runs, tripleIDs |-> m.tripleIDs,
          myMolecules |-> m.myMolecules, nbTypes |-> m.nbTypes,
          templates |-> m.templates, TypesM |-> m.TypesM, molecules |-> m.molecules,
          edges |-> m.edges, inv_molecules |-> m.inv_molecules, ProvIdx |-> m.ProvIdx]
  /\ m.at \in {"triples", "node", "types", "templates", "molecules"}
  /\ m.tripleIDs \in Seq(Lines)
  /\ m.myMolecules \subseteq KEY_ID
  /\ m.nbTypes \in Nat
  /\ m.templates \in Templates
  /\ Blank(m)

\* A node that has loaded: it holds what LoadLines makes of what it had read.
HasLoaded(m) == \E b : Reading(b) /\ b.at = "molecules" /\ TypesFit(b) /\ m = LoadLines(b, 0)

\* One that has gone past the end of its type lists.
IsUndefined(m) ==
  \E b : Reading(b) /\ b.at = "molecules" /\ ~ TypesFit(b) /\ m = [b EXCEPT !.at = "undefined"]

NodeOK(m) ==
  /\ Reading(m) \/ HasLoaded(m) \/ IsUndefined(m)
  /\ m.runs \subseteq 1 .. run
  /\ m.at = "triples" => m = FreshNode
  /\ m.at # "triples" => m.runs # {} /\ AllStored

NodesOK ==
  /\ node = [i \in Clients |-> node[i]]
  /\ \A i \in Clients : NodeOK(node[i])
------------------------------------------------------------------------------
(***************************************************************************)
(* The inductive invariant: what each run of the master has stored.        *)
(***************************************************************************)

RunData == [triples : Seq(Lines), templates : Templates, nodes : [Clients -> SUBSET KEY_ID]]

\* Every line that has a molecule can be read back, and every molecule is on
\* one node.
Coherent(d) ==
  /\ \A i \in DOMAIN d.triples :
       Storable(d.triples[i]) =>
         GetPredicate(d.templates, GetType(d.triples[i].subject),
                      TemplateIn(d.templates, d.triples[i])) = d.triples[i].predicate
  /\ UNION {d.nodes[i] : i \in Clients} = MoleculesOf(d.triples)
  /\ \A i, j \in Clients : i # j => d.nodes[i] \intersect d.nodes[j] = {}

\* H is the data of the runs: the master has that of this run, as far as it
\* has got.
MasterHas(H) ==
  /\ saving # "triples" => H[run].triples = tripleIDs /\ H[run].templates = templates
  /\ Dealt => H[run].nodes = nodes

\* A file has the data of the run that wrote it.
DiskHas(H) ==
  /\ disk.triples # NoFile =>
       /\ disk.triples.data = H[disk.triples.run].triples
       /\ disk.triples.run = run => saving # "triples"
  /\ disk.templates # NoFile =>
       /\ disk.templates.data = H[disk.templates.run].templates
       /\ disk.templates.run = run => saving # "triples"
  /\ disk.types # NoFile =>
       /\ TypesBelow(disk.types.data, H[disk.types.run].triples)
       /\ disk.types.run = run => saving # "triples"
  /\ \A i \in Clients : disk.node[i] # NoFile =>
       /\ disk.node[i].data = H[disk.node[i].run].nodes[i]
       /\ disk.node[i].run = run => Dealt

\* A node that has read files of one run has the data of that run.
NodeHas(H, i) ==
  \A r \in Nat : node[i].runs = {r} =>
    /\ node[i].at # "triples" =>
         node[i].tripleIDs = H[r].triples /\ (r = run => saving # "triples")
    /\ node[i].at \in {"types", "templates", "molecules", "loaded"} =>
         node[i].myMolecules = H[r].nodes[i] /\ (r = run => Dealt)
    /\ node[i].at \in {"templates", "molecules", "loaded", "undefined"} =>
         TypesBelow(node[i].nbTypes, node[i].tripleIDs)
    /\ node[i].at \in {"molecules", "loaded"} => node[i].templates = H[r].templates

History(H) ==
  /\ H \in [Nat -> RunData]
  /\ \A r \in Nat : Coherent(H[r])
  /\ MasterHas(H)
  /\ DiskHas(H)
  /\ \A i \in Clients : NodeHas(H, i)

DeploymentInv == MasterInv /\ DiskOK /\ NodesOK /\ \E H : History(H)
------------------------------------------------------------------------------
(***************************************************************************)
(* The invariant implies what master and nodes promise.                    *)
(***************************************************************************)

\* A node that is reading and has come to the molecules is ready for LoadLines.
LEMMA ReadIsPrepared ==
  ASSUME NEW b, Reading(b), b.at = "molecules"
  PROVE  Prepared(b)
BY DEF Reading, Prepared

\* What a loaded node holds, of what it has read.
LEMMA LoadedIsLoaded ==
  ASSUME NEW m, HasLoaded(m)
  PROVE  m.at = "loaded"
<1>1. PICK b : Reading(b) /\ b.at = "molecules" /\ m = LoadLines(b, 0)
  BY DEF HasLoaded
<1>2. PICK n : n = Len(b.tripleIDs)
  OBVIOUS
<1>3. Prepared(b)
  BY <1>1, ReadIsPrepared
<1>4. QED
  BY <1>1, <1>2, <1>3, NodeLoaded

\* Nothing is claimed of a node that is past the end of its type lists, but that
\* its lines do not fit them.
LEMMA UndefinedIsBeyond ==
  ASSUME NEW m, IsUndefined(m)
  PROVE  m.at = "undefined" /\ ~ TypesFit(m)
<1>1. PICK b : Reading(b) /\ ~ TypesFit(b) /\ m = [b EXCEPT !.at = "undefined"]
  BY DEF IsUndefined
<1>2. /\ m.at = "undefined" /\ m.tripleIDs = b.tripleIDs /\ m.myMolecules = b.myMolecules
      /\ m.nbTypes = b.nbTypes
  BY <1>1 DEF Reading
<1>3. QED
  BY <1>1, <1>2 DEF TypesFit

LEMMA LoadedHolds ==
  ASSUME NodesOK, NEW i \in Clients, node[i].at = "loaded"
  PROVE  LET m == node[i]
             n == Len(node[i].tripleIDs)
         IN  /\ n \in Nat /\ DOMAIN m.tripleIDs = 1 .. n
             /\ \A k \in 1 .. n : m.tripleIDs[k] \in TripleIDs
             /\ Loading(m) /\ TypesFit(m)
             /\ HoldsElements(m, m, n) /\ HoldsIndex(m, m, n) /\ HoldsProvIdx(m, m, n)
             /\ HoldsTypes(m, m, n) /\ HoldsNoMore(m, m, n)
<1>1. PICK m : m = node[i]
  OBVIOUS
<1>2. HasLoaded(m)
  BY <1>1, UndefinedIsBeyond DEF NodesOK, NodeOK, Reading
<1>3. PICK b : Reading(b) /\ b.at = "molecules" /\ TypesFit(b) /\ m = LoadLines(b, 0)
  BY <1>2 DEF HasLoaded
<1>4. Prepared(b)
  BY <1>3, ReadIsPrepared
<1>5. PICK n : n = Len(b.tripleIDs)
  OBVIOUS
<1>6. /\ Loading(m) /\ m.tripleIDs = b.tripleIDs /\ m.myMolecules = b.myMolecules
      /\ m.nbTypes = b.nbTypes /\ m.templates = b.templates
      /\ HoldsElements(m, b, n) /\ HoldsIndex(m, b, n) /\ HoldsProvIdx(m, b, n)
      /\ HoldsTypes(m, b, n) /\ HoldsNoMore(m, b, n)
  BY <1>3, <1>4, <1>5, NodeLoaded
<1>7. HoldsElements(m, m, n)
  BY <1>6 DEF HoldsElements
<1>8. /\ HoldsIndex(m, m, n) /\ HoldsProvIdx(m, m, n) /\ HoldsTypes(m, m, n)
      /\ HoldsNoMore(m, m, n) /\ TypesFit(m)
  BY <1>3, <1>6 DEF HoldsIndex, HoldsProvIdx, HoldsTypes, HoldsNoMore, TypesFit
<1>9. /\ n \in Nat /\ DOMAIN m.tripleIDs = 1 .. n /\ n = Len(m.tripleIDs)
      /\ \A k \in 1 .. n : m.tripleIDs[k] \in TripleIDs
  BY <1>5, <1>6, LoadAssumption DEF Loading
<1>10. QED
  BY <1>1, <1>6, <1>7, <1>8, <1>9, Zenon

\* The indexes of a loaded node, whatever runs its files are of.
LEMMA InvImpliesIndexes == NodesOK => NodeIndexesAgree
<1> SUFFICES ASSUME NodesOK, NEW i \in Clients, node[i].at = "loaded"
             PROVE  /\ \A o \in KEY_ID : node[i].inv_molecules[o] =
                         {s \in KEY_ID : o \in ObjectsOf(node[i].molecules[s])}
                    /\ \A s \in node[i].myMolecules, p \in KEY_ID :
                         s \in node[i].ProvIdx[p] <=> p \in ProvenancesOf(node[i].molecules[s])
                    /\ \A s \in KEY_ID :
                         node[i].molecules[s] # NoMolecule => s \in node[i].TypesM[GetType(s)]
  BY Zenon DEF NodeIndexesAgree
<1>1. PICK m, n : m = node[i] /\ n = Len(node[i].tripleIDs)
  OBVIOUS
<1>2. /\ \A k \in 1 .. n : m.tripleIDs[k] \in TripleIDs
      /\ Loading(m) /\ TypesFit(m)
      /\ HoldsElements(m, m, n) /\ HoldsIndex(m, m, n) /\ HoldsProvIdx(m, m, n)
      /\ HoldsTypes(m, m, n) /\ HoldsNoMore(m, m, n)
  BY <1>1, LoadedHolds, Zenon
<1>3. m.myMolecules \subseteq KEY_ID /\ m.inv_molecules \in [KEY_ID -> SUBSET KEY_ID]
  BY <1>2 DEF Loading
<1>4. \A q : ElementOf(m.templates, q).obj = q.object /\ ElementOf(m.templates, q).prov = q.prov
  BY DEF ElementOf
<1>5. ASSUME NEW s \in KEY_ID, NEW o
      PROVE  o \in ObjectsOf(m.molecules[s]) <=>
               /\ s \in m.myMolecules
               /\ \E k \in 1 .. n : m.tripleIDs[k].subject = s /\ m.tripleIDs[k].object = o
  <2>1. \A e : e \in Elements(m.molecules[s]) <=>
          /\ s \in m.myMolecules
          /\ \E k \in 1 .. n : m.tripleIDs[k].subject = s /\ e = ElementOf(m.templates, m.tripleIDs[k])
    BY <1>2 DEF HoldsElements
  <2>2. o \in ObjectsOf(m.molecules[s]) <=> \E e \in Elements(m.molecules[s]) : o = e.obj
    BY DEF ObjectsOf
  <2>3. QED
    BY <1>4, <2>1, <2>2
<1>6. ASSUME NEW s \in KEY_ID, NEW p
      PROVE  p \in ProvenancesOf(m.molecules[s]) <=>
               /\ s \in m.myMolecules
               /\ \E k \in 1 .. n : m.tripleIDs[k].subject = s /\ m.tripleIDs[k].prov = p
  <2>1. \A e : e \in Elements(m.molecules[s]) <=>
          /\ s \in m.myMolecules
          /\ \E k \in 1 .. n : m.tripleIDs[k].subject = s /\ e = ElementOf(m.templates, m.tripleIDs[k])
    BY <1>2 DEF HoldsElements
  <2>2. p \in ProvenancesOf(m.molecules[s]) <=> \E e \in Elements(m.molecules[s]) : p = e.prov
    BY DEF ProvenancesOf
  <2>3. QED
    BY <1>4, <2>1, <2>2
<1>7. ASSUME NEW o \in KEY_ID
      PROVE  m.inv_molecules[o] = {s \in KEY_ID : o \in ObjectsOf(m.molecules[s])}
  <2>1. \A s \in KEY_ID : s \in m.inv_molecules[o] <=>
          /\ s \in m.myMolecules
          /\ \E k \in 1 .. n : m.tripleIDs[k].subject = s /\ m.tripleIDs[k].object = o
    BY <1>2 DEF HoldsIndex
  <2>2. \A s \in KEY_ID : s \in m.inv_molecules[o] <=> o \in ObjectsOf(m.molecules[s])
    BY <1>5, <2>1
  <2>3. m.inv_molecules[o] \subseteq KEY_ID
    BY <1>3
  <2>4. QED
    BY <2>2, <2>3
<1>8. ASSUME NEW s \in m.myMolecules, NEW p \in KEY_ID
      PROVE  s \in m.ProvIdx[p] <=> p \in ProvenancesOf(m.molecules[s])
  <2>1. s \in KEY_ID
    BY <1>3
  <2>2. s \in m.ProvIdx[p] <=>
          \E k \in 1 .. n : m.tripleIDs[k].subject = s /\ m.tripleIDs[k].prov = p
    BY <1>2, <2>1 DEF HoldsProvIdx
  <2>3. QED
    BY <1>6, <2>1, <2>2
<1>9. \A s \in KEY_ID : m.molecules[s] # NoMolecule => s \in m.TypesM[GetType(s)]
  BY <1>2 DEF HoldsTypes, HoldsNoMore
<1>10. QED
  BY <1>1, <1>7, <1>8, <1>9

\* A type list for every line, if the types file is of the run of the lines.
LEMMA InvImpliesBounds == DeploymentInv => OneRunIsInBounds
<1> SUFFICES ASSUME DeploymentInv, NEW i \in Clients, node[i].at = "undefined",
                    ~ Cardinality(node[i].runs) > 1
             PROVE  FALSE
  BY DEF OneRunIsInBounds
<1>1. PICK m : m = node[i]
  OBVIOUS
<1>2. NodeOK(m) /\ m.at = "undefined" /\ ~ Cardinality(m.runs) > 1
  BY <1>1 DEF DeploymentInv, NodesOK
<1>3. ~ Reading(m)
  BY <1>2 DEF Reading
<1>4. IsUndefined(m)
  BY <1>2, <1>3, LoadedIsLoaded DEF NodeOK
<1>5. ~ TypesFit(m)
  BY <1>4, UndefinedIsBeyond
<1>6. \E r \in Nat : m.runs = {r}
  <2>1. m.runs # {} /\ m.runs \subseteq 1 .. run /\ run \in Nat
    BY <1>2 DEF NodeOK, DeploymentInv, MasterInv, MasterOrder
  <2>2. IsFiniteSet(m.runs)
    <3>1. IsFiniteSet(1 .. run) /\ m.runs \in SUBSET (1 .. run)
      BY <2>1, FS_Interval
    <3>2. QED
      BY <3>1, FS_Subset
  <2>3. Cardinality(m.runs) \in Nat /\ Cardinality(m.runs) # 0
    BY <2>1, <2>2, FS_CardinalityType, FS_EmptySet
  <2>4. Cardinality(m.runs) = 1
    BY <1>2, <2>3
  <2>5. PICK r : m.runs = {r}
    BY <2>4, FS_Singleton, <2>2
  <2>6. QED
    BY <2>1, <2>5
<1>7. TypesBelow(m.nbTypes, m.tripleIDs)
  BY <1>1, <1>2, <1>6 DEF DeploymentInv, History, NodeHas
<1>8. QED
  BY <1>5, <1>7 DEF TypesBelow, TypesFit

\* A node whose files are of one run has the data of that run.
LEMMA LoadedHas ==
  ASSUME NodesOK, NEW H, History(H), NEW i \in Clients, NEW r \in Nat, LoadedFrom(i, r)
  PROVE  /\ node[i].tripleIDs = H[r].triples
         /\ node[i].templates = H[r].templates
         /\ node[i].myMolecules = H[r].nodes[i]
         /\ node[i].at = "loaded"
         /\ r = run => saving # "triples" /\ Dealt
BY DEF History, NodeHas, LoadedFrom

\* The molecules of a dataset are subjects of storable lines.
LEMMA MoleculesAreStorable ==
  ASSUME NEW T \in Seq(Lines), NEW s
  PROVE  s \in MoleculesOf(T) <=> \E k \in DOMAIN T : Storable(T[k]) /\ T[k].subject = s
<1>1. \A k \in DOMAIN T : T[k].subject \in KEY_ID
  BY LoadAssumption DEF TripleIDs
<1>2. \A k \in DOMAIN T : GetType(T[k].subject) \in Nat
  BY <1>1, TypesOfKeys
<1>3. \A k \in DOMAIN T : Storable(T[k]) <=> GetType(T[k].subject) > 1
  BY <1>2 DEF Storable
<1>4. Range(T) = {T[k] : k \in DOMAIN T}
  BY DEF Range
<1>5. QED
  BY <1>3, <1>4 DEF MoleculesOf

\* The elements of a loaded node, read back, are the lines of its molecules.
LEMMA NodeReadsBack ==
  ASSUME NodesOK, NEW H, History(H), NEW i \in Clients, NEW r \in Nat, LoadedFrom(i, r)
  PROVE  NodeQuads(node[i]) = {q \in Range(node[i].tripleIDs) : q.subject \in node[i].myMolecules}
<1>1. PICK m, n : m = node[i] /\ n = Len(node[i].tripleIDs)
  OBVIOUS
<1>2. /\ DOMAIN m.tripleIDs = 1 .. n
      /\ \A k \in 1 .. n : m.tripleIDs[k] \in TripleIDs
      /\ Loading(m)
      /\ HoldsElements(m, m, n)
  BY <1>1, LoadedHolds, Zenon DEF LoadedFrom
<1>3. /\ m.tripleIDs = H[r].triples /\ m.templates = H[r].templates
      /\ m.myMolecules = H[r].nodes[i]
  BY <1>1, LoadedHas
<1>4. Coherent(H[r]) /\ H[r] \in RunData
  BY DEF History
<1>5. m.myMolecules \subseteq MoleculesOf(m.tripleIDs) /\ m.tripleIDs \in Seq(Lines)
  BY <1>3, <1>4 DEF Coherent, RunData
<1>6. ASSUME NEW k \in 1 .. n, m.tripleIDs[k].subject \in m.myMolecules
      PROVE  GetPredicate(m.templates, GetType(m.tripleIDs[k].subject),
                          TemplateIn(m.templates, m.tripleIDs[k])) = m.tripleIDs[k].predicate
  <2>1. m.tripleIDs[k].subject \in MoleculesOf(m.tripleIDs)
    BY <1>5, <1>6
  <2>2. PICK j \in DOMAIN m.tripleIDs : Storable(m.tripleIDs[j]) /\ m.tripleIDs[j].subject = m.tripleIDs[k].subject
    BY <1>5, <2>1, MoleculesAreStorable
  <2>3. Storable(m.tripleIDs[k])
    BY <2>2 DEF Storable
  <2>4. QED
    BY <1>2, <1>3, <1>4, <2>3 DEF Coherent
<1> DEFINE Read(s, e) == [subject |-> s, predicate |-> GetPredicate(m.templates, GetType(s), e.tmpl),
                          object |-> e.obj, prov |-> e.prov]
<1>7. \A s \in KEY_ID : \A e : e \in Elements(m.molecules[s]) <=>
        /\ s \in m.myMolecules
        /\ \E k \in 1 .. n : m.tripleIDs[k].subject = s /\ e = ElementOf(m.templates, m.tripleIDs[k])
  BY <1>2 DEF HoldsElements
<1>8. ASSUME NEW k \in 1 .. n, m.tripleIDs[k].subject \in m.myMolecules
      PROVE  Read(m.tripleIDs[k].subject, ElementOf(m.templates, m.tripleIDs[k])) = m.tripleIDs[k]
  <2>1. PICK q : q = m.tripleIDs[k]
    OBVIOUS
  <2>2. q \in TripleIDs /\ GetPredicate(m.templates, GetType(q.subject), TemplateIn(m.templates, q)) = q.predicate
    BY <1>2, <1>6, <1>8, <2>1
  <2>3. q = [subject |-> q.subject, predicate |-> q.predicate, object |-> q.object, prov |-> q.prov]
    BY <2>2 DEF TripleIDs
  <2>4. QED
    BY <2>1, <2>2, <2>3 DEF ElementOf
<1>9. \A q : q \in NodeQuads(node[i]) <=> \E s \in KEY_ID : \E e \in Elements(m.molecules[s]) : q = Read(s, e)
  BY <1>1 DEF NodeQuads
<1> HIDE DEF Read
<1>10. \A q : q \in NodeQuads(node[i]) <=>
         \E k \in 1 .. n : m.tripleIDs[k].subject \in m.myMolecules /\ q = m.tripleIDs[k]
  <2>1. \A k \in 1 .. n : m.tripleIDs[k].subject \in KEY_ID
    BY <1>2 DEF TripleIDs
  <2>2. QED
    BY <1>7, <1>8, <1>9, <2>1
<1>11. \A q : q \in Range(m.tripleIDs) <=> \E k \in 1 .. n : q = m.tripleIDs[k]
  BY <1>2 DEF Range
<1>12. QED
  BY <1>1, <1>10, <1>11

LEMMA InvImpliesShare == DeploymentInv => NodeIsItsShare
<1> SUFFICES ASSUME DeploymentInv, NEW i \in Clients, NEW r \in 1 .. MaxRuns, LoadedFrom(i, r)
             PROVE  NodeQuads(node[i]) =
                      {q \in Range(node[i].tripleIDs) : q.subject \in node[i].myMolecules}
  BY DEF NodeIsItsShare
<1>1. PICK H : History(H)
  BY DEF DeploymentInv
<1>2. r \in Nat
  BY DeploymentAssumption
<1>3. QED
  BY <1>1, <1>2, NodeReadsBack DEF DeploymentInv

\* The nodes of one run together: its storable lines, each on one node.
LEMMA InvImpliesDataset == DeploymentInv => ClusterIsDataset
<1> SUFFICES ASSUME DeploymentInv, NEW r \in 1 .. MaxRuns, \A i \in Clients : LoadedFrom(i, r)
             PROVE  /\ UNION {NodeQuads(node[i]) : i \in Clients} =
                         {q \in Range(node[0].tripleIDs) : Storable(q)}
                    /\ \A i, j \in Clients : i # j => node[i].myMolecules \intersect node[j].myMolecules = {}
  BY DEF ClusterIsDataset
<1>1. PICK H : History(H)
  BY DEF DeploymentInv
<1>2. r \in Nat /\ NodesOK
  BY DeploymentAssumption DEF DeploymentInv
<1>3. 0 \in Clients
  BY PartitionAssumption DEF Clients
<1>4. PICK T : T = H[r].triples
  OBVIOUS
<1>5. \A i \in Clients : node[i].tripleIDs = T /\ node[i].myMolecules = H[r].nodes[i]
  BY <1>1, <1>2, <1>4, LoadedHas
<1>6. Coherent(H[r]) /\ T \in Seq(Lines)
  BY <1>1, <1>2, <1>4 DEF History, RunData
<1>7. \A i \in Clients : NodeQuads(node[i]) = {q \in Range(T) : q.subject \in H[r].nodes[i]}
  <2> SUFFICES ASSUME NEW i \in Clients
               PROVE  NodeQuads(node[i]) = {q \in Range(T) : q.subject \in H[r].nodes[i]}
    OBVIOUS
  <2>1. NodeQuads(node[i]) = {q \in Range(node[i].tripleIDs) : q.subject \in node[i].myMolecules}
    BY <1>1, <1>2, NodeReadsBack
  <2>2. QED
    BY <1>5, <2>1
<1>8. \A q \in Range(T) : (\E i \in Clients : q.subject \in H[r].nodes[i]) <=> Storable(q)
  <2>1. \A s : (\E i \in Clients : s \in H[r].nodes[i]) <=> s \in MoleculesOf(T)
    BY <1>4, <1>6 DEF Coherent
  <2>2. ASSUME NEW q \in Range(T)
        PROVE  q.subject \in MoleculesOf(T) <=> Storable(q)
    <3>1. PICK k \in DOMAIN T : q = T[k]
      BY DEF Range
    <3>2. q.subject \in MoleculesOf(T) <=> \E j \in DOMAIN T : Storable(T[j]) /\ T[j].subject = q.subject
      BY <1>6, MoleculesAreStorable
    <3>3. QED
      BY <3>1, <3>2 DEF Storable
  <2>3. QED
    BY <2>1, <2>2
<1>9. \A q : q \in UNION {NodeQuads(node[i]) : i \in Clients} <=>
        q \in Range(T) /\ \E i \in Clients : q.subject \in H[r].nodes[i]
  BY <1>7
<1>10. UNION {NodeQuads(node[i]) : i \in Clients} = {q \in Range(T) : Storable(q)}
  BY <1>8, <1>9
<1>11. \A i, j \in Clients : i # j => node[i].myMolecules \intersect node[j].myMolecules = {}
  BY <1>5, <1>6 DEF Coherent
<1>12. node[0].tripleIDs = T
  BY <1>3, <1>5
<1>13. QED
  BY <1>10, <1>11, <1>12

\* The molecules of a node are those of the master, once both have loaded the
\* same run.
LEMMA NodeIsAlike ==
  ASSUME MasterInv, NodesOK, NEW H, History(H), NEW i \in Clients,
         phase = "loaded", LoadedFrom(i, run)
  PROVE  /\ Alike(node[i].molecules, molecules, nodes[i])
         /\ node[i].ProvIdx = ProvIdx
<1>1. PICK m, n : m = node[i] /\ n = Len(tripleIDs)
  OBVIOUS
<1>2. run \in Nat
  BY DEF MasterInv, MasterOrder
<1>3. /\ m.tripleIDs = tripleIDs /\ m.templates = templates
      /\ m.myMolecules = nodes[i] /\ m.at = "loaded"
  BY <1>1, <1>2, LoadedHas DEF History, MasterHas
<1>4. pos - 1 = n /\ n \in Nat
  BY <1>1 DEF MasterInv, MasterOrder, LoadInv, TypeOK
<1>5. PICK b : Reading(b) /\ b.at = "molecules" /\ m = LoadLines(b, 0)
  BY <1>1, <1>3, UndefinedIsBeyond DEF NodesOK, NodeOK, Reading, HasLoaded
<1>6. Prepared(b)
  BY <1>5, ReadIsPrepared
<1>7. m.tripleIDs = b.tripleIDs /\ m.templates = b.templates /\ m.myMolecules = b.myMolecules
  BY <1>5, <1>6, NodeLoaded
<1>8. PICK G : Grows(G, tripleIDs, templates, n) /\ molecules = G[n]
  BY <1>4 DEF MasterInv, MasterGrown
<1>9. \A s \in nodes[i] : GetType(s) >= 2
  <2>1. nodes[i] \subseteq MoleculesOf(tripleIDs) /\ tripleIDs \in Seq(Lines)
    BY DEF MasterInv, MasterOrder, PartitionInv, Placed, LoadInv, TypeOK
  <2>2. QED
    BY <2>1, MoleculesAreStorable DEF Storable
<1>10. Alike(LoadLines(b, 0).molecules, G[n], b.myMolecules)
  BY <1>1, <1>3, <1>6, <1>7, <1>8, <1>9, NodeGrowsAlike
<1>11. Alike(m.molecules, molecules, nodes[i])
  BY <1>3, <1>5, <1>7, <1>8, <1>10
<1>12. HoldsProvIdx(m, m, n) /\ Loading(m)
  <2>1. LET k == Len(node[i].tripleIDs)
        IN  HoldsProvIdx(node[i], node[i], k) /\ Loading(node[i])
    BY <1>1, <1>3, LoadedHolds
  <2>2. QED
    BY <1>1, <1>3, <2>1
<1>13. \A p, s \in KEY_ID : s \in m.ProvIdx[p] <=> s \in ProvIdx[p]
  <2>1. \A p, s \in KEY_ID : s \in m.ProvIdx[p] <=>
          \E k \in 1 .. n : tripleIDs[k].subject = s /\ tripleIDs[k].prov = p
    BY <1>3, <1>12 DEF HoldsProvIdx
  <2>2. \A p, s \in KEY_ID : s \in ProvIdx[p] <=>
          \E k \in 1 .. n : tripleIDs[k].subject = s /\ tripleIDs[k].prov = p
    BY <1>4 DEF MasterInv, MasterIndexed
  <2>3. QED
    BY <2>1, <2>2
<1>14. m.ProvIdx \in [KEY_ID -> SUBSET KEY_ID] /\ ProvIdx \in [KEY_ID -> SUBSET KEY_ID]
  BY <1>12 DEF Loading, MasterInv, LoadInv, TypeOK
<1>15. m.ProvIdx = ProvIdx
  <2>1. PICK P : P = m.ProvIdx
    OBVIOUS
  <2>2. \A p \in KEY_ID : P[p] \subseteq KEY_ID /\ ProvIdx[p] \subseteq KEY_ID
    BY <1>14, <2>1
  <2>3. \A p \in KEY_ID : P[p] = ProvIdx[p]
    BY <1>13, <2>1, <2>2
  <2>4. QED
    BY <1>14, <2>1, <2>3
<1>16. QED
  BY <1>1, <1>11, <1>15

\* Once both have loaded it, the nodes hold what the master holds.
LEMMA InvImpliesMaster == DeploymentInv => ClusterIsMaster
<1> SUFFICES ASSUME DeploymentInv, phase = "loaded", \A i \in Clients : LoadedFrom(i, run)
             PROVE  /\ \A s \in KEY_ID : molecules[s] # NoMolecule =>
                         \E i \in Clients :
                           /\ node[i].molecules[s] = molecules[s]
                           /\ \A j \in Clients \ {i} : node[j].molecules[s] = NoMolecule
                    /\ \A i \in Clients : node[i].ProvIdx = ProvIdx
  BY Zenon DEF ClusterIsMaster
<1>1. PICK H : History(H)
  BY DEF DeploymentInv
<1>2. \A i \in Clients : Alike(node[i].molecules, molecules, nodes[i]) /\ node[i].ProvIdx = ProvIdx
  BY <1>1, NodeIsAlike DEF DeploymentInv
<1>3. ASSUME NEW s \in KEY_ID, molecules[s] # NoMolecule
      PROVE  \E i \in Clients :
               /\ node[i].molecules[s] = molecules[s]
               /\ \A j \in Clients \ {i} : node[j].molecules[s] = NoMolecule
  <2>1. tripleIDs \in Seq(Lines) /\ pos = Len(tripleIDs) + 1
    BY DEF DeploymentInv, MasterInv, MasterOrder, LoadInv, TypeOK
  <2>2. PICK k \in 1 .. (pos - 1) : Storable(tripleIDs[k]) /\ tripleIDs[k].subject = s
    BY <1>3 DEF DeploymentInv, MasterInv, MasterHoldsNoMore
  <2>3. s \in MoleculesOf(tripleIDs)
    BY <2>1, <2>2, MoleculesAreStorable
  <2>4. Placed = MoleculesOf(tripleIDs) /\ OnOneNode
    BY DEF DeploymentInv, MasterInv, MasterOrder, PartitionInv, Dealt
  <2>5. PICK i \in Clients : s \in nodes[i]
    BY <2>3, <2>4 DEF Placed
  <2>6. \A j \in Clients \ {i} : s \notin nodes[j]
    BY <2>4, <2>5 DEF OnOneNode
  <2>7. QED
    BY <1>2, <1>3, <2>5, <2>6 DEF Alike
<1>4. QED
  BY <1>2, <1>3
------------------------------------------------------------------------------
(***************************************************************************)
(* The master keeps its invariant.                                         *)
(***************************************************************************)

\* A line or a template is added while no line is loaded.
LEMMA LoadStepKinds ==
  ASSUME LoadInv, [LoadNext]_loadVars
  PROVE  \/ StoreLine
         \/ /\ pos = 1 /\ pos' = 1 /\ molecules' = molecules /\ ProvIdx' = ProvIdx
            /\ phase \in {"read", "templates"}
         \/ UNCHANGED <<tripleIDs, templates, pos, molecules, ProvIdx>>
<1>1. phase \in {"read", "templates"} => pos = 1
  BY DEF LoadInv, PhaseOrder
<1>2. CASE LoadNext
  BY <1>1, <1>2 DEF LoadNext, ReadLine, EndOfFiles, AddNextTemplate, TemplatesDone, LoadDone, store
<1>3. CASE UNCHANGED loadVars
  BY <1>3 DEF loadVars, store
<1>4. QED
  BY <1>2, <1>3

LEMMA StoreLineFacts ==
  ASSUME LoadInv, StoreLine
  PROVE  /\ pos \in 1 .. Len(tripleIDs) /\ pos \in Nat \ {0} /\ pos' = pos + 1
         /\ tripleIDs' = tripleIDs /\ templates' = templates
         /\ tripleIDs[pos] \in TripleIDs
         /\ molecules' = GrowsBy(molecules, tripleIDs[pos], templates)
         /\ ProvIdx' = [ProvIdx EXCEPT ![tripleIDs[pos].prov] = @ \union {tripleIDs[pos].subject}]
<1>1. tripleIDs \in Seq(Lines) /\ pos \in DOMAIN tripleIDs
  BY DEF LoadInv, TypeOK, StoreLine, IndexProvenance, CountTriple
<1>2. pos \in 1 .. Len(tripleIDs) /\ pos \in Nat \ {0} /\ tripleIDs[pos] \in TripleIDs
  BY <1>1, LoadAssumption
<1>3. pos' = pos + 1 /\ tripleIDs' = tripleIDs /\ templates' = templates
  BY DEF StoreLine, IndexProvenance, CountTriple
<1>4. \A q : TemplateFor(q) = TemplateIn(templates, q)
  BY DEF TemplateFor, TemplateIn
<1>5. PICK q : q = tripleIDs[pos]
  OBVIOUS
<1>6. IF Storable(q) THEN CreateMolecule(q) ELSE molecules' = molecules
  BY <1>5 DEF StoreLine, Storable, IndexProvenance, CountTriple
<1>7. molecules' = GrowsBy(molecules, q, templates)
  BY <1>4, <1>6 DEF CreateMolecule, GrowsBy
<1>8. ProvIdx' = [ProvIdx EXCEPT ![q.prov] = @ \union {q.subject}]
  BY <1>5 DEF StoreLine, IndexProvenance, CountTriple
<1>9. QED
  BY <1>2, <1>3, <1>5, <1>7, <1>8

LEMMA MasterGrownNext ==
  ASSUME LoadInv, MasterGrown, [LoadNext]_loadVars
  PROVE  MasterGrown'
<1>1. PICK G : Grows(G, tripleIDs, templates, pos - 1) /\ molecules = G[pos - 1]
  BY DEF MasterGrown
<1>2. CASE StoreLine
  <2>1. PICK n, T, tm : n = pos /\ T = tripleIDs /\ tm = templates
    OBVIOUS
  <2> DEFINE F == [k \in 0 .. n |-> IF k = n THEN GrowsBy(G[n - 1], T[n], tm) ELSE G[k]]
  <2>2. n \in Nat \ {0} /\ pos' - 1 = n /\ tripleIDs' = T /\ templates' = tm
    BY <1>2, <2>1, StoreLineFacts
  <2>3. G[0] = [s \in KEY_ID |-> NoMolecule] /\ \A k \in 1 .. (n - 1) : G[k] = GrowsBy(G[k - 1], T[k], tm)
    BY <1>1, <2>1 DEF Grows
  <2>4. F[0] = [s \in KEY_ID |-> NoMolecule]
    BY <2>2, <2>3
  <2>5. ASSUME NEW k \in 1 .. n
        PROVE  F[k] = GrowsBy(F[k - 1], T[k], tm)
    <3>1. F[k - 1] = G[k - 1]
      BY <2>2
    <3>2. CASE k = n
      BY <2>2, <3>1, <3>2
    <3>3. CASE k # n
      <4>1. k \in 1 .. (n - 1)
        BY <2>2, <3>3
      <4>2. F[k] = G[k]
        BY <3>3
      <4>3. QED
        BY <2>3, <3>1, <4>1, <4>2, Zenon
    <3>4. QED
      BY <3>2, <3>3
  <2>6. molecules' = F[n]
    <3>1. molecules' = GrowsBy(molecules, T[n], tm)
      BY <1>2, <2>1, StoreLineFacts
    <3>2. QED
      BY <1>1, <2>1, <2>2, <3>1
  <2> HIDE DEF F
  <2>7. Grows(F, T, tm, n)
    BY <2>4, <2>5 DEF Grows
  <2>8. QED
    BY <2>2, <2>6, <2>7 DEF MasterGrown
<1>3. CASE pos = 1 /\ pos' = 1 /\ molecules' = molecules
  <2>1. pos - 1 = 0 /\ pos' - 1 = 0
    BY <1>3
  <2>2. G[0] = [s \in KEY_ID |-> NoMolecule] /\ molecules' = G[0]
    BY <1>1, <1>3, <2>1 DEF Grows
  <2>3. Grows(G, tripleIDs', templates', 0)
    BY <2>2 DEF Grows
  <2>4. QED
    BY <2>1, <2>2, <2>3 DEF MasterGrown
<1>4. CASE UNCHANGED <<tripleIDs, templates, pos, molecules, ProvIdx>>
  BY <1>4 DEF MasterGrown
<1>5. QED
  BY <1>2, <1>3, <1>4, LoadStepKinds

LEMMA MasterIndexedNext ==
  ASSUME LoadInv, MasterIndexed, MasterHoldsNoMore, [LoadNext]_loadVars
  PROVE  MasterIndexed' /\ MasterHoldsNoMore'
<1>1. ProvIdx \in [KEY_ID -> SUBSET KEY_ID] /\ molecules \in [KEY_ID -> Molecule]
  BY DEF LoadInv, TypeOK
<1>2. CASE StoreLine
  <2>1. PICK n, T, q : n = pos /\ T = tripleIDs /\ q = tripleIDs[pos]
    OBVIOUS
  <2>2. /\ n \in Nat \ {0} /\ pos' - 1 = n /\ tripleIDs' = T /\ q \in TripleIDs /\ q = T[n]
        /\ molecules' = GrowsBy(molecules, q, templates)
        /\ ProvIdx' = [ProvIdx EXCEPT ![q.prov] = @ \union {q.subject}]
    BY <1>2, <2>1, StoreLineFacts
  <2>3. q.subject \in KEY_ID /\ q.prov \in KEY_ID
    BY <2>2 DEF TripleIDs
  <2>4. \A i : i \in 1 .. n <=> i \in 1 .. (n - 1) \/ i = n
    BY <2>2
  <2>5. ASSUME NEW p \in KEY_ID, NEW s \in KEY_ID
        PROVE  s \in ProvIdx'[p] <=> \E i \in 1 .. n : T[i].subject = s /\ T[i].prov = p
    <3>1. s \in ProvIdx'[p] <=> s \in ProvIdx[p] \/ (s = q.subject /\ p = q.prov)
      BY <1>1, <2>2, <2>3
    <3>2. s \in ProvIdx[p] <=> \E i \in 1 .. (n - 1) : T[i].subject = s /\ T[i].prov = p
      BY <2>1 DEF MasterIndexed
    <3>3. QED
      BY <2>2, <2>4, <3>1, <3>2, Zenon
  <2>6. ASSUME NEW s \in KEY_ID, molecules'[s] # NoMolecule
        PROVE  \E i \in 1 .. n : Storable(T[i]) /\ T[i].subject = s
    <3>1. molecules[s] # NoMolecule \/ (s = q.subject /\ Storable(q))
      BY <1>1, <2>2, <2>3, <2>6 DEF GrowsBy
    <3>2. molecules[s] # NoMolecule =>
            \E i \in 1 .. (n - 1) : Storable(T[i]) /\ T[i].subject = s
      BY <2>1 DEF MasterHoldsNoMore
    <3>3. QED
      BY <2>2, <2>4, <3>1, <3>2, Zenon
  <2>7. MasterIndexed'
    BY <2>2, <2>5 DEF MasterIndexed
  <2>8. MasterHoldsNoMore'
    BY <2>2, <2>6 DEF MasterHoldsNoMore, Storable
  <2>9. QED
    BY <2>7, <2>8
<1>3. CASE pos = 1 /\ pos' = 1 /\ molecules' = molecules /\ ProvIdx' = ProvIdx
  <2>1. \A i : i \notin 1 .. (pos - 1) /\ i \notin 1 .. (pos' - 1)
    BY <1>3
  <2>2. QED
    BY <1>3, <2>1, Zenon DEF MasterIndexed, MasterHoldsNoMore
<1>4. CASE UNCHANGED <<tripleIDs, templates, pos, molecules, ProvIdx>>
  BY <1>4 DEF MasterIndexed, MasterHoldsNoMore, Storable
<1>5. QED
  BY <1>2, <1>3, <1>4, LoadStepKinds

\* Where the master begins, the first time and every other.
MasterFresh ==
  /\ LoadInit /\ PartitionInit
  /\ run \in Nat \ {0} /\ saving = "triples" /\ sent = 0

LEMMA MasterBegins == MasterFresh => MasterInv
<1> SUFFICES ASSUME MasterFresh PROVE MasterInv
  OBVIOUS
<1>1. /\ tripleIDs = <<>> /\ pos = 1 /\ phase = "read"
      /\ molecules = [k \in KEY_ID |-> NoMolecule] /\ ProvIdx = [k \in KEY_ID |-> {}]
  BY DEF MasterFresh, LoadInit, Empty
<1>2. LoadInv
  BY LoadInitInv DEF MasterFresh
<1>3. MasterOrder
  BY <1>1 DEF MasterOrder, MasterFresh
<1>4. PartitionInv
  <2>1. PartitionTypeOK /\ OnOneNode /\ Placed = {} /\ toPlace = {}
    BY PartitionAssumption
       DEF MasterFresh, PartitionInit, PartitionTypeOK, Clients, OnOneNode, Placed
  <2>2. InRounds
    BY RoundsBegin DEF MasterFresh
  <2>3. QED
    BY <2>1, <2>2 DEF PartitionInv, MasterFresh, Dealt
<1>5. MasterGrown
  <2> DEFINE G == [k \in {0} |-> molecules]
  <2>1. G[0] = [s \in KEY_ID |-> NoMolecule] /\ molecules = G[0] /\ pos - 1 = 0
    BY <1>1
  <2> HIDE DEF G
  <2>2. Grows(G, tripleIDs, templates, 0)
    BY <2>1 DEF Grows
  <2>3. QED
    BY <2>1, <2>2 DEF MasterGrown
<1>6. MasterIndexed /\ MasterHoldsNoMore
  <2>1. \A i : i \notin 1 .. (pos - 1)
    BY <1>1
  <2>2. QED
    BY <1>1, <2>1 DEF MasterIndexed, MasterHoldsNoMore
<1>7. QED
  BY <1>2, <1>3, <1>4, <1>5, <1>6 DEF MasterInv

LEMMA RerunIsFresh ==
  ASSUME MasterInv, Rerun
  PROVE  MasterFresh'
BY DEF MasterInv, MasterOrder, Rerun, MasterFresh, LoadInit, PartitionInit

\* LoadData outside its middle part: nothing is placed, and the dataset is no
\* longer read once anything is stored.
LEMMA LoadStepKeeps ==
  ASSUME MasterInv, LoadStep
  PROVE  MasterInv'
<1>1. /\ LoadInv /\ MasterOrder /\ PartitionInv /\ MasterGrown /\ MasterIndexed
      /\ MasterHoldsNoMore
      /\ LoadNext /\ UNCHANGED <<partitionVars, run, saving, sent>>
      /\ phase = "molecules" => saving = "saved"
  BY DEF MasterInv, LoadStep
<1>2. LoadInv'
  BY <1>1, LoadNextInv
<1>3. MasterGrown' /\ MasterIndexed' /\ MasterHoldsNoMore'
  BY <1>1, MasterGrownNext, MasterIndexedNext
<1>4. saving # "triples" => tripleIDs' = tripleIDs /\ phase' \in {"molecules", "loaded"}
  BY <1>1 DEF MasterOrder, LoadNext, ReadLine, EndOfFiles, AddNextTemplate, TemplatesDone,
              StoreLine, LoadDone
<1>5. phase' = "loaded" => saving = "saved" /\ pos' = Len(tripleIDs') + 1
  <2>1. pos \in 1 .. Len(tripleIDs) + 1 /\ Len(tripleIDs) \in Nat
    BY <1>1 DEF LoadInv, TypeOK
  <2>2. CASE LoadDone
    BY <1>1, <2>1, <2>2 DEF LoadDone
  <2>3. CASE ~ LoadDone
    <3>1. phase' # "loaded"
      BY <1>1, <2>3 DEF MasterOrder, LoadNext, ReadLine, EndOfFiles, AddNextTemplate,
                        TemplatesDone, StoreLine
    <3>2. QED
      BY <3>1
  <2>4. QED
    BY <2>2, <2>3
<1>6. MasterOrder'
  BY <1>1, <1>4, <1>5 DEF MasterOrder
<1>7. PartitionInv'
  <2>1. UNCHANGED <<nodes, lastNetworkNode, toPlace, saving, sent>>
    BY <1>1 DEF partitionVars
  <2>2. PartitionTypeOK' /\ OnOneNode' /\ InRounds' /\ Placed' = Placed
    BY <1>1, <2>1 DEF PartitionInv, PartitionTypeOK, OnOneNode, InRounds, RoundsOf, Placed
  <2>3. QED
    BY <1>1, <1>4, <2>1, <2>2 DEF PartitionInv, Dealt
<1>8. QED
  BY <1>2, <1>3, <1>6, <1>7 DEF MasterInv

\* Steps that leave the memory of LoadData alone.
LEMMA UnchangedLoad ==
  ASSUME MasterInv, UNCHANGED loadVars
  PROVE  LoadInv' /\ MasterGrown' /\ MasterIndexed' /\ MasterHoldsNoMore'
BY LoadNextInv, MasterGrownNext, MasterIndexedNext DEF MasterInv

\* The partitioner is called, and deals the molecules out.
LEMMA PartitionKeeps ==
  ASSUME MasterInv, Partition
  PROVE  MasterInv'
<1>1. /\ UNCHANGED <<loadVars, run, sent>> /\ saving = "partition" /\ saving' = "nodes"
      /\ phase = "molecules"
      /\ PartitionMolecules(MoleculesOf(tripleIDs))
  BY DEF Partition, At
<1>2. LoadInv /\ MasterOrder /\ PartitionInv
  BY DEF MasterInv
<1>3. toPlace = {} /\ Placed = {} /\ sent = 0
  BY <1>1, <1>2 DEF PartitionInv
<1>4. UNCHANGED <<nodes, lastNetworkNode, tripleIDs, phase, pos>> /\ toPlace' = MoleculesOf(tripleIDs)
  BY <1>1 DEF PartitionMolecules, loadVars
<1>5. Placed' = {} /\ \A i \in Clients : nodes[i] = {}
  BY <1>3, <1>4 DEF Placed
<1>6. MoleculesOf(tripleIDs) \subseteq KEY_ID
  <2>1. tripleIDs \in Seq(Lines)
    BY <1>2 DEF LoadInv, TypeOK
  <2>2. \A k \in DOMAIN tripleIDs : tripleIDs[k].subject \in KEY_ID
    BY <2>1, LoadAssumption DEF TripleIDs
  <2>3. QED
    BY <2>1, <2>2, MoleculesAreStorable
<1>7. PartitionTypeOK'
  BY <1>2, <1>4, <1>6, DeploymentAssumption DEF PartitionInv, PartitionTypeOK
<1>8. OnOneNode'
  BY <1>4, <1>5 DEF OnOneNode
<1>9. InRounds'
  BY <1>1, <1>2, <1>3, CallKeepsRounds DEF PartitionInv
<1>10. PartitionInv'
  BY <1>1, <1>3, <1>4, <1>5, <1>7, <1>8, <1>9 DEF PartitionInv, Dealt
<1>11. MasterOrder'
  BY <1>1, <1>2, <1>4 DEF MasterOrder
<1>12. QED
  BY <1>1, <1>10, <1>11, UnchangedLoad DEF MasterInv

LEMMA PlaceKeeps ==
  ASSUME MasterInv, Place
  PROVE  MasterInv' /\ ~ Dealt /\ ~ Dealt'
<1>1. /\ UNCHANGED <<loadVars, run, saving, sent>> /\ saving = "nodes" /\ PlaceChunk
      /\ toPlace # {}
  BY DEF Place, At, PlaceChunk
<1>2. LoadInv /\ MasterOrder /\ PartitionInv
  BY DEF MasterInv
<1>3. PartitionTypeOK' /\ OnOneNode' /\ InRounds'
  BY <1>1, <1>2, PlaceChunkTypes, PlaceChunkOnOne, PlaceChunkRounds DEF PartitionInv
<1>4. (Placed \union toPlace)' = Placed \union toPlace
  BY <1>1, <1>2, PlaceChunkKeeps DEF PartitionInv
<1>5. UNCHANGED <<tripleIDs, phase, pos>>
  BY <1>1 DEF loadVars
<1>6. ~ Dealt /\ ~ Dealt'
  BY <1>1, <1>2 DEF PartitionInv, Dealt
<1>7. (MoleculesOf(tripleIDs))' = MoleculesOf(tripleIDs)
  BY <1>5
<1>8. PartitionInv'
  BY <1>1, <1>2, <1>3, <1>4, <1>6, <1>7 DEF PartitionInv
<1>9. MasterOrder'
  BY <1>1, <1>2, <1>5 DEF MasterOrder
<1>10. QED
  BY <1>1, <1>6, <1>8, <1>9, UnchangedLoad DEF MasterInv

\* The other steps that store a file.
Writes ==
  \/ At("triples") /\ saving' = "partition" /\ sent' = sent
  \/ At("nodes") /\ toPlace = {} /\ sent' = sent + 1 /\ saving' \in {"nodes", "templates"}
  \/ At("templates") /\ saving' = "types" /\ sent' = sent
  \/ At("types") /\ saving' = "saved" /\ sent' = sent

LEMMA WritesKeeps ==
  ASSUME MasterInv, Writes, UNCHANGED <<loadVars, partitionVars, run>>
  PROVE  MasterInv'
<1>1. LoadInv /\ MasterOrder /\ PartitionInv
  BY DEF MasterInv
<1>2. UNCHANGED <<nodes, lastNetworkNode, toPlace, tripleIDs, phase, pos>>
  BY DEF loadVars, partitionVars
<1>3. PartitionTypeOK' /\ OnOneNode' /\ InRounds' /\ Placed' = Placed
  BY <1>1, <1>2 DEF PartitionInv, PartitionTypeOK, OnOneNode, InRounds, RoundsOf, Placed
<1>4. MoleculesOf(tripleIDs)' = MoleculesOf(tripleIDs)
  BY <1>2
<1>5. PartitionInv'
  BY <1>1, <1>2, <1>3, <1>4 DEF PartitionInv, Writes, At, Dealt
<1>6. MasterOrder'
  BY <1>1, <1>2 DEF MasterOrder, Writes, At
<1>7. QED
  BY <1>5, <1>6, UnchangedLoad DEF MasterInv

\* Nodes leave the master alone.
LEMMA NodesKeepMaster ==
  ASSUME MasterInv, UNCHANGED masterVars
  PROVE  MasterInv'
<1>1. LoadInv /\ MasterOrder /\ PartitionInv
  BY DEF MasterInv
<1>2. UNCHANGED <<loadVars, nodes, lastNetworkNode, toPlace, tripleIDs, phase, pos, run, saving, sent>>
  BY DEF masterVars, loadVars, partitionVars
<1>3. PartitionTypeOK' /\ OnOneNode' /\ InRounds' /\ Placed' = Placed
  BY <1>1, <1>2 DEF PartitionInv, PartitionTypeOK, OnOneNode, InRounds, RoundsOf, Placed
<1>4. PartitionInv'
  BY <1>1, <1>2, <1>3 DEF PartitionInv, Dealt
<1>5. MasterOrder'
  BY <1>1, <1>2 DEF MasterOrder
<1>6. QED
  BY <1>2, <1>4, <1>5, UnchangedLoad DEF MasterInv
------------------------------------------------------------------------------
(***************************************************************************)
(* The files keep theirs.                                                  *)
(***************************************************************************)

\* A file keeps its type in later runs.
LEMMA FileStays ==
  ASSUME NEW f, NEW S, FileOK(f, S), run \in Nat, run' \in Nat, run <= run'
  PROVE  FileOK(f, S)'
<1>1. 1 .. run \subseteq 1 .. run'
  OBVIOUS
<1>2. QED
  BY <1>1 DEF FileOK

LEMMA DiskStays ==
  ASSUME DiskOK, disk' = disk, run \in Nat, run' \in Nat, run <= run'
  PROVE  DiskOK' /\ (AllStored => AllStored')
<1>1. PICK t, u, v, n : t = disk.triples /\ u = disk.templates /\ v = disk.types /\ n = disk.node
  OBVIOUS
<1>2. /\ FileOK(t, Seq(Lines)) /\ FileOK(u, Templates) /\ FileOK(v, Nat)
      /\ \A i \in Clients : FileOK(n[i], SUBSET KEY_ID)
  BY <1>1 DEF DiskOK
<1>3. /\ FileOK(t, Seq(Lines))' /\ FileOK(u, Templates)' /\ FileOK(v, Nat)'
      /\ \A i \in Clients : FileOK(n[i], SUBSET KEY_ID)'
  BY <1>2, FileStays
<1>4. DiskOK'
  BY <1>1, <1>3 DEF DiskOK
<1>5. QED
  BY <1>4 DEF AllStored

\* What is written is a file of this run, and there to stay.
LEMMA WrittenIsFile ==
  ASSUME NEW d, NEW S, d \in S, run \in Nat \ {0}
  PROVE  FileOK(File(d), S) /\ File(d) # NoFile /\ File(d).run = run /\ File(d).data = d
<1>1. File(d).run = run /\ File(d).data = d /\ NoFile.run = 0
  BY DEF File, NoFile
<1>2. FileOK(File(d), S)
  BY DEF File, FileOK
<1>3. QED
  BY <1>1, <1>2

LEMMA StoreTriplesDisk ==
  ASSUME DiskOK, MasterInv, run' = run, disk' = [disk EXCEPT !.triples = File(tripleIDs)]
  PROVE  /\ DiskOK' /\ (AllStored => AllStored')
         /\ disk'.triples # NoFile /\ disk'.triples.run = run /\ disk'.triples.data = tripleIDs
         /\ disk'.templates = disk.templates /\ disk'.node = disk.node
         /\ disk'.types = disk.types
<1>1. PICK f : f = File(tripleIDs)
  OBVIOUS
<1>2. tripleIDs \in Seq(Lines) /\ run \in Nat \ {0}
  BY DEF MasterInv, MasterOrder, LoadInv, TypeOK
<1>3. FileOK(f, Seq(Lines)) /\ f # NoFile /\ f.run = run /\ f.data = tripleIDs
  BY <1>1, <1>2, WrittenIsFile
<1>4. disk' = [triples |-> f, node |-> disk.node, templates |-> disk.templates, types |-> disk.types]
  BY <1>1 DEF DiskOK
<1>5. DiskOK'
  BY <1>3, <1>4 DEF DiskOK, FileOK
<1>6. QED
  BY <1>3, <1>4, <1>5 DEF AllStored

LEMMA StoreTemplatesDisk ==
  ASSUME DiskOK, MasterInv, run' = run, disk' = [disk EXCEPT !.templates = File(templates)]
  PROVE  /\ DiskOK' /\ (AllStored => AllStored')
         /\ disk'.templates # NoFile /\ disk'.templates.run = run /\ disk'.templates.data = templates
         /\ disk'.triples = disk.triples /\ disk'.node = disk.node
         /\ disk'.types = disk.types
<1>1. PICK f : f = File(templates)
  OBVIOUS
<1>2. templates \in Templates /\ run \in Nat \ {0}
  BY DEF MasterInv, MasterOrder, LoadInv, TypeOK
<1>3. FileOK(f, Templates) /\ f # NoFile /\ f.run = run /\ f.data = templates
  BY <1>1, <1>2, WrittenIsFile
<1>4. disk' = [triples |-> disk.triples, node |-> disk.node, templates |-> f, types |-> disk.types]
  BY <1>1 DEF DiskOK
<1>5. DiskOK'
  BY <1>3, <1>4 DEF DiskOK, FileOK
<1>6. QED
  BY <1>3, <1>4, <1>5 DEF AllStored

LEMMA StoreTypesDisk ==
  ASSUME DiskOK, MasterInv, run' = run, NEW nb \in Nat, disk' = [disk EXCEPT !.types = File(nb)]
  PROVE  /\ DiskOK' /\ (AllStored => AllStored')
         /\ disk'.types # NoFile /\ disk'.types.run = run /\ disk'.types.data = nb
         /\ disk'.templates = disk.templates /\ disk'.triples = disk.triples
         /\ disk'.node = disk.node
<1>1. PICK f : f = File(nb)
  OBVIOUS
<1>2. run \in Nat \ {0}
  BY DEF MasterInv, MasterOrder
<1>3. FileOK(f, Nat) /\ f # NoFile /\ f.run = run /\ f.data = nb
  BY <1>1, <1>2, WrittenIsFile
<1>4. disk' = [triples |-> disk.triples, node |-> disk.node, templates |-> disk.templates, types |-> f]
  BY <1>1 DEF DiskOK
<1>5. DiskOK'
  BY <1>3, <1>4 DEF DiskOK, FileOK
<1>6. QED
  BY <1>3, <1>4, <1>5 DEF AllStored

LEMMA SendMoleculesDisk ==
  ASSUME DiskOK, MasterInv, run' = run, sent \in Clients,
         disk' = [disk EXCEPT !.node[sent] = File(nodes[sent])]
  PROVE  /\ DiskOK' /\ (AllStored => AllStored')
         /\ disk'.node[sent] # NoFile /\ disk'.node[sent].run = run
         /\ disk'.node[sent].data = nodes[sent]
         /\ \A i \in Clients \ {sent} : disk'.node[i] = disk.node[i]
         /\ disk'.triples = disk.triples /\ disk'.templates = disk.templates
         /\ disk'.types = disk.types
<1>1. PICK f, n : f = File(nodes[sent]) /\ n = [disk.node EXCEPT ![sent] = f]
  OBVIOUS
<1>2. nodes[sent] \in SUBSET KEY_ID /\ run \in Nat \ {0}
  BY DeploymentAssumption DEF MasterInv, MasterOrder, PartitionInv, PartitionTypeOK
<1>3. FileOK(f, SUBSET KEY_ID) /\ f # NoFile /\ f.run = run /\ f.data = nodes[sent]
  BY <1>1, <1>2, WrittenIsFile
<1>4. disk' = [triples |-> disk.triples, node |-> n, templates |-> disk.templates, types |-> disk.types]
  BY <1>1 DEF DiskOK
<1>5. /\ n = [i \in Clients |-> n[i]] /\ n[sent] = f
      /\ \A i \in Clients \ {sent} : n[i] = disk.node[i]
  BY <1>1 DEF DiskOK
<1>6. DiskOK'
  BY <1>3, <1>4, <1>5 DEF DiskOK, FileOK
<1>7. QED
  BY <1>3, <1>4, <1>5, <1>6 DEF AllStored
------------------------------------------------------------------------------
(***************************************************************************)
(* The nodes keep theirs while the master goes on.                         *)
(***************************************************************************)

LEMMA NodesStay ==
  ASSUME NodesOK, node' = node, run \in Nat, run' \in Nat, run <= run', AllStored => AllStored'
  PROVE  NodesOK'
<1>1. 1 .. run \subseteq 1 .. run'
  OBVIOUS
<1>2. ASSUME NEW i \in Clients, NEW m, m = node[i]
      PROVE  NodeOK(m)'
  <2>1. NodeOK(m)
    BY <1>2 DEF NodesOK
  <2>2. QED
    BY <1>1, <2>1 DEF NodeOK
<1>3. \A i \in Clients : NodeOK(node[i])'
  <2> SUFFICES ASSUME NEW i \in Clients PROVE NodeOK(node[i])'
    OBVIOUS
  <2>1. PICK m : m = node[i]
    OBVIOUS
  <2>2. NodeOK(m)' /\ node'[i] = m
    BY <1>2, <2>1
  <2>3. QED
    BY <2>2 DEF NodeOK
<1>4. QED
  BY <1>3 DEF NodesOK
------------------------------------------------------------------------------
(***************************************************************************)
(* The history of the runs.                                                *)
(***************************************************************************)

\* Nothing is written, and the run goes on.
LEMMA HistoryStays ==
  ASSUME NEW H, History(H), UNCHANGED <<disk, node, run>>, MasterHas(H)',
         saving # "triples" => saving' # "triples", Dealt => Dealt'
  PROVE  History(H)'
<1>1. DiskHas(H)'
  BY DEF History, DiskHas
<1>2. \A i \in Clients : NodeHas(H, i)'
  BY DEF History, NodeHas
<1>3. QED
  BY <1>1, <1>2 DEF History

\* The next run has written nothing.
LEMMA RerunHistory ==
  ASSUME NEW H, History(H), MasterInv, DiskOK, NodesOK, Rerun
  PROVE  History(H)'
<1>1. /\ run \in Nat /\ run' = run + 1 /\ saving' = "triples" /\ UNCHANGED <<disk, node>>
  BY DEF Rerun, MasterInv, MasterOrder
<1>2. MasterHas(H)'
  BY <1>1 DEF MasterHas, Dealt
<1>3. \A f, S : FileOK(f, S) /\ f # NoFile => f.run # run'
  BY <1>1 DEF FileOK
<1>4. DiskHas(H)'
  <2>1. /\ disk.triples # NoFile => disk.triples.run # run'
        /\ disk.templates # NoFile => disk.templates.run # run'
        /\ disk.types # NoFile => disk.types.run # run'
        /\ \A i \in Clients : disk.node[i] # NoFile => disk.node[i].run # run'
    BY <1>3 DEF DiskOK
  <2>2. QED
    BY <1>1, <2>1 DEF History, DiskHas
<1>5. ASSUME NEW i \in Clients
      PROVE  NodeHas(H, i)'
  <2>1. node[i].runs \subseteq 1 .. run
    BY DEF NodesOK, NodeOK
  <2>2. \A r : node[i].runs = {r} => r # run'
    BY <1>1, <2>1
  <2>3. NodeHas(H, i)
    BY DEF History
  <2>4. QED
    BY <1>1, <2>2, <2>3 DEF NodeHas
<1>6. QED
  BY <1>2, <1>4, <1>5 DEF History

\* From StoreTriples on, the run has its data; whether the file is written or
\* not, no file and no node had any of it.
LEMMA StoreTriplesHistory ==
  ASSUME NEW H, History(H), MasterInv, DiskOK, NodesOK, StoreTriples
  PROVE  \E K : History(K)'
<1>1. /\ saving = "triples" /\ saving' = "partition" /\ phase = "molecules"
      /\ Stores([disk EXCEPT !.triples = File(tripleIDs)])
      /\ UNCHANGED <<loadVars, partitionVars, run, sent, node>>
  BY DEF StoreTriples, At
<1>2. PICK d : d = [triples |-> tripleIDs, templates |-> templates,
                    nodes |-> [i \in Clients |-> IF i = 0 THEN MoleculesOf(tripleIDs) ELSE {}]]
  OBVIOUS
<1>3. PICK R : R = run
  OBVIOUS
<1>4. R \in Nat /\ LoadInv /\ tripleIDs \in Seq(Lines) /\ templates \in Templates
  BY <1>3 DEF MasterInv, MasterOrder, LoadInv, TypeOK
<1>5. MoleculesOf(tripleIDs) \subseteq KEY_ID
  <2>1. \A k \in DOMAIN tripleIDs : tripleIDs[k].subject \in KEY_ID
    BY <1>4, LoadAssumption DEF TripleIDs
  <2>2. QED
    BY <1>4, <2>1, MoleculesAreStorable
<1>6. d \in RunData
  BY <1>2, <1>4, <1>5 DEF RunData
<1>7. Coherent(d)
  <2>1. ASSUME NEW i \in DOMAIN tripleIDs, Storable(tripleIDs[i])
        PROVE  GetPredicate(templates, GetType(tripleIDs[i].subject),
                            TemplateIn(templates, tripleIDs[i])) = tripleIDs[i].predicate
    <3>1. GetPredicate(templates, GetType(tripleIDs[i].subject),
                       TemplateFor(tripleIDs[i])) = tripleIDs[i].predicate
      BY <1>1, <1>4, <2>1, TemplateReadsBack
    <3>2. TemplateFor(tripleIDs[i]) = TemplateIn(templates, tripleIDs[i])
      BY DEF TemplateFor, TemplateIn
    <3>3. QED
      BY <3>1, <3>2
  <2>2. 0 \in Clients
    BY PartitionAssumption DEF Clients
  <2>3. UNION {d.nodes[i] : i \in Clients} = MoleculesOf(tripleIDs)
    <3>1. \A i \in Clients : d.nodes[i] = IF i = 0 THEN MoleculesOf(tripleIDs) ELSE {}
      BY <1>2
    <3>2. QED
      BY <2>2, <3>1
  <2>4. \A i, j \in Clients : i # j => d.nodes[i] \intersect d.nodes[j] = {}
    BY <1>2
  <2>5. d.triples = tripleIDs /\ d.templates = templates
    BY <1>2
  <2>6. QED
    BY <2>1, <2>3, <2>4, <2>5 DEF Coherent
<1>8. PICK K : K = [H EXCEPT ![R] = d]
  OBVIOUS
<1>9. /\ K \in [Nat -> RunData] /\ K[R] = d
      /\ \A r \in Nat \ {R} : K[r] = H[r]
  BY <1>4, <1>6, <1>8 DEF History
<1>10. \A r \in Nat : Coherent(K[r])
  <2>1. \A r \in Nat : K[r] = d \/ K[r] = H[r]
    BY <1>9
  <2>2. QED
    BY <1>7, <2>1 DEF History
<1>11. ~ Dealt /\ ~ Dealt'
  BY <1>1 DEF Dealt
<1>12. run' = R /\ tripleIDs' = tripleIDs /\ templates' = templates
  BY <1>1, <1>3 DEF loadVars
<1>13. MasterHas(K)'
  BY <1>2, <1>9, <1>11, <1>12 DEF MasterHas
<1>14. DiskHas(K)'
  <2>1. /\ disk.templates # NoFile => disk.templates.run \in Nat \ {R}
        /\ disk.triples # NoFile => disk.triples.run \in Nat \ {R}
        /\ disk.types # NoFile => disk.types.run \in Nat \ {R}
        /\ \A i \in Clients : disk.node[i] # NoFile => disk.node[i].run \in Nat \ {R}
    <3>1. \A f, S : FileOK(f, S) /\ f # NoFile => f.run \in Nat
      BY DEF FileOK
    <3>2. /\ disk.templates # NoFile => disk.templates.run \in Nat
          /\ disk.triples # NoFile => disk.triples.run \in Nat
          /\ disk.types # NoFile => disk.types.run \in Nat
          /\ \A i \in Clients : disk.node[i] # NoFile => disk.node[i].run \in Nat
      BY <3>1 DEF DiskOK
    <3>3. QED
      BY <1>1, <1>3, <1>11, <3>2 DEF History, DiskHas
  <2>2. \/ UNCHANGED disk
        \/ /\ disk'.triples # NoFile /\ disk'.triples.run = R /\ disk'.triples.data = tripleIDs
           /\ disk'.templates = disk.templates /\ disk'.node = disk.node
           /\ disk'.types = disk.types
    BY <1>1, <1>3, StoreTriplesDisk DEF Stores
  <2>3. /\ disk.templates # NoFile => disk.templates.data = K[disk.templates.run].templates
        /\ disk.triples # NoFile => disk.triples.data = K[disk.triples.run].triples
        /\ disk.types # NoFile => TypesBelow(disk.types.data, K[disk.types.run].triples)
        /\ \A i \in Clients : disk.node[i] # NoFile =>
             disk.node[i].data = K[disk.node[i].run].nodes[i]
    BY <1>9, <2>1 DEF History, DiskHas
  <2>4. K[R].triples = tripleIDs
    BY <1>2, <1>9
  <2>5. QED
    BY <1>1, <1>12, <2>1, <2>2, <2>3, <2>4 DEF DiskHas
<1>15. ASSUME NEW i \in Clients
       PROVE  NodeHas(K, i)'
  <2>1. NodeHas(H, i) /\ NodeOK(node[i])
    BY DEF History, NodesOK
  <2>2. ASSUME NEW r \in Nat, node[i].runs = {r}
        PROVE  node[i].at # "triples" /\ K[r] = H[r]
    <3>1. node[i].at # "triples"
      BY <2>1, <2>2 DEF NodeOK, FreshNode
    <3>2. r # R
      BY <1>1, <1>3, <2>1, <2>2, <3>1 DEF NodeHas
    <3>3. QED
      BY <1>9, <3>1, <3>2
  <2>3. ASSUME NEW r \in Nat, node[i].runs = {r}
        PROVE  r # R
    BY <1>1, <1>3, <2>1, <2>2, <2>3 DEF NodeHas
  <2>4. QED
    BY <1>1, <1>12, <2>1, <2>2, <2>3 DEF NodeHas
<1>16. History(K)'
  BY <1>9, <1>10, <1>13, <1>14, <1>15 DEF History
<1>17. QED
  BY <1>16

\* The shares of the run are settled by the time the first of them is stored.
LEMMA SendMoleculesHistory ==
  ASSUME NEW H, History(H), MasterInv, DiskOK, NodesOK, SendMolecules
  PROVE  \E K : History(K)'
<1>1. /\ saving = "nodes" /\ saving' \in {"nodes", "templates"} /\ toPlace = {}
      /\ sent < nbOfClients /\ sent' = sent + 1
      /\ Stores([disk EXCEPT !.node[sent] = File(nodes[sent])])
      /\ UNCHANGED <<loadVars, partitionVars, run, node>>
  BY DEF SendMolecules, At
<1>2. PICK R, sh : R = run /\ sh = nodes
  OBVIOUS
<1>3. R \in Nat /\ sent \in Nat /\ sent \in Clients
  BY <1>1, <1>2, PartitionAssumption DEF MasterInv, MasterOrder, Clients
<1>4. sh \in [Clients -> SUBSET KEY_ID] /\ OnOneNode /\ Placed = MoleculesOf(tripleIDs)
  BY <1>1, <1>2, DeploymentAssumption DEF MasterInv, PartitionInv, PartitionTypeOK
<1>5. H \in [Nat -> RunData] /\ H[R].triples = tripleIDs /\ H[R].templates = templates
  BY <1>1, <1>2 DEF History, MasterHas
<1>6. PICK d : d = [triples |-> tripleIDs, templates |-> templates, nodes |-> sh]
  OBVIOUS
<1>7. d \in RunData /\ d.triples = H[R].triples /\ d.templates = H[R].templates /\ d.nodes = sh
  BY <1>3, <1>4, <1>5, <1>6 DEF RunData
<1>8. Coherent(d)
  <2>1. Coherent(H[R])
    BY <1>3 DEF History
  <2>2. UNION {sh[i] : i \in Clients} = MoleculesOf(tripleIDs)
    BY <1>2, <1>4 DEF Placed
  <2>3. \A i, j \in Clients : i # j => sh[i] \intersect sh[j] = {}
    BY <1>2, <1>4 DEF OnOneNode
  <2>4. QED
    BY <1>5, <1>7, <2>1, <2>2, <2>3 DEF Coherent
<1>9. PICK K : K = [H EXCEPT ![R] = d]
  OBVIOUS
<1>10. /\ K \in [Nat -> RunData] /\ K[R] = d
       /\ \A r \in Nat \ {R} : K[r] = H[r]
  BY <1>3, <1>5, <1>7, <1>9
<1>11. \A r \in Nat : Coherent(K[r])
  <2>1. \A r \in Nat : K[r] = d \/ K[r] = H[r]
    BY <1>10
  <2>2. QED
    BY <1>8, <2>1 DEF History
<1>12. Dealt'
  BY <1>1, <1>3 DEF Dealt
<1>13. run' = R /\ tripleIDs' = tripleIDs /\ templates' = templates /\ nodes' = sh
  BY <1>1, <1>2 DEF loadVars, partitionVars
<1>14. MasterHas(K)'
  BY <1>5, <1>7, <1>10, <1>13 DEF MasterHas
<1>15. /\ \A r \in Nat : K[r].triples = H[r].triples /\ K[r].templates = H[r].templates
       /\ \A r \in Nat : r # R \/ Dealt => K[r].nodes = H[r].nodes
  <2>1. K[R].triples = H[R].triples /\ K[R].templates = H[R].templates
    BY <1>7, <1>10
  <2>2. Dealt => K[R].nodes = H[R].nodes
    BY <1>2, <1>7, <1>10 DEF History, MasterHas
  <2>3. QED
    BY <1>10, <2>1, <2>2
<1>16. DiskHas(K)'
  <2>1. /\ disk.templates # NoFile => disk.templates.run \in Nat
        /\ disk.triples # NoFile => disk.triples.run \in Nat
        /\ disk.types # NoFile => disk.types.run \in Nat
        /\ \A i \in Clients : disk.node[i] # NoFile => disk.node[i].run \in Nat
    <3>1. \A f, S : FileOK(f, S) /\ f # NoFile => f.run \in Nat
      BY DEF FileOK
    <3>2. QED
      BY <3>1 DEF DiskOK
  <2>2. /\ disk.templates # NoFile => disk.templates.data = K[disk.templates.run].templates
        /\ disk.triples # NoFile => disk.triples.data = K[disk.triples.run].triples
        /\ disk.types # NoFile => TypesBelow(disk.types.data, K[disk.types.run].triples)
    BY <1>15, <2>1 DEF History, DiskHas
  <2>3. \A i \in Clients : disk.node[i] # NoFile =>
          disk.node[i].data = K[disk.node[i].run].nodes[i]
    BY <1>2, <1>15, <2>1 DEF History, DiskHas
  <2>4. \/ UNCHANGED disk
        \/ /\ disk'.node[sent].run = R /\ disk'.node[sent].data = sh[sent]
           /\ \A i \in Clients \ {sent} : disk'.node[i] = disk.node[i]
           /\ disk'.triples = disk.triples /\ disk'.templates = disk.templates
           /\ disk'.types = disk.types
    BY <1>1, <1>2, <1>3, SendMoleculesDisk DEF Stores
  <2>5. K[R].nodes = sh
    BY <1>7, <1>10
  <2>6. \A i \in Clients : disk'.node[i] # NoFile => disk'.node[i].data = K[disk'.node[i].run].nodes[i]
    BY <2>3, <2>4, <2>5
  <2>7. disk'.triples = disk.triples /\ disk'.templates = disk.templates /\ disk'.types = disk.types
    BY <2>4
  <2>8. saving' # "triples"
    BY <1>1
  <2>9. QED
    BY <1>12, <2>2, <2>6, <2>7, <2>8 DEF DiskHas
<1>17. ASSUME NEW i \in Clients
       PROVE  NodeHas(K, i)'
  <2>1. NodeHas(H, i)
    BY DEF History
  <2>2. node' = node /\ saving' # "triples"
    BY <1>1
  <2>3. \A r \in Nat : node[i].runs = {r} =>
          /\ node[i].at # "triples" => node[i].tripleIDs = K[r].triples
          /\ node[i].at \in {"types", "templates", "molecules", "loaded"} =>
               node[i].myMolecules = K[r].nodes[i]
          /\ node[i].at \in {"templates", "molecules", "loaded", "undefined"} =>
               TypesBelow(node[i].nbTypes, node[i].tripleIDs)
          /\ node[i].at \in {"molecules", "loaded"} => node[i].templates = K[r].templates
    BY <1>2, <1>15, <2>1 DEF NodeHas
  <2>4. QED
    BY <1>12, <2>2, <2>3 DEF NodeHas
<1>18. History(K)'
  BY <1>10, <1>11, <1>14, <1>16, <1>17 DEF History
<1>19. QED
  BY <1>18

\* The templates are those of the run; the types are enough for its lines.
LEMMA StoreTemplatesHistory ==
  ASSUME NEW H, History(H), MasterInv, DiskOK, StoreTemplates \/ StoreTypes
  PROVE  History(H)'
<1>1. /\ saving \in {"templates", "types"} /\ saving' \in {"types", "saved"}
      /\ UNCHANGED <<loadVars, partitionVars, run, sent, node>>
      /\ \/ disk' = disk
         \/ disk' = [disk EXCEPT !.templates = File(templates)]
         \/ \E nb \in GetNbOfTypes(tripleIDs) : disk' = [disk EXCEPT !.types = File(nb)]
  BY DEF StoreTemplates, StoreTypes, At, Stores
<1>2. Dealt /\ Dealt' /\ saving # "triples" /\ saving' # "triples"
  BY <1>1 DEF Dealt
<1>3. H[run].triples = tripleIDs /\ H[run].templates = templates /\ H[run].nodes = nodes
  BY <1>2 DEF History, MasterHas
<1>4. UNCHANGED <<run, tripleIDs, templates, nodes>>
  BY <1>1 DEF loadVars, partitionVars
<1>5. MasterHas(H)'
  BY <1>3, <1>4 DEF MasterHas
<1>6. /\ disk'.triples = disk.triples /\ disk'.node = disk.node
      /\ \/ disk'.templates = disk.templates
         \/ disk'.templates.run = run /\ disk'.templates.data = templates
      /\ \/ disk'.types = disk.types
         \/ disk'.types.run = run /\ TypesBelow(disk'.types.data, tripleIDs)
  <2>1. CASE disk' = disk \/ disk' = [disk EXCEPT !.templates = File(templates)]
    BY <1>4, <2>1, StoreTemplatesDisk
  <2>2. CASE \E nb \in GetNbOfTypes(tripleIDs) : disk' = [disk EXCEPT !.types = File(nb)]
    <3>1. PICK nb \in GetNbOfTypes(tripleIDs) : disk' = [disk EXCEPT !.types = File(nb)]
      BY <2>2
    <3>2. nb \in Nat /\ TypesBelow(nb, tripleIDs)
      BY DeploymentAssumption DEF GetNbOfTypes
    <3>3. QED
      BY <1>4, <3>1, <3>2, StoreTypesDisk
  <2>3. QED
    BY <1>1, <2>1, <2>2
<1>7. DiskHas(H)'
  BY <1>2, <1>3, <1>4, <1>6 DEF History, DiskHas
<1>8. \A i \in Clients : NodeHas(H, i)'
  BY <1>1, <1>2 DEF History, NodeHas
<1>9. QED
  BY <1>5, <1>7, <1>8 DEF History
------------------------------------------------------------------------------
(***************************************************************************)
(* A node reads, loads, or is started again.                               *)
(***************************************************************************)

\* What a step of node i makes of it: m reads on as b, having read file f.
ReadsOn(m, f, b, next) ==
  /\ b.at = next /\ b.runs = m.runs \union {f.run}
  /\ Reading(b)

\* A node that has not loaded is reading.
LEMMA NotLoaded ==
  ASSUME NEW m, NodeOK(m), m.at \notin {"loaded", "undefined"}
  PROVE  Reading(m)
BY LoadedIsLoaded, UndefinedIsBeyond DEF NodeOK

\* The fields of a node.
Whole(m) ==
  m = [at |-> m.at, runs |-> m.runs, tripleIDs |-> m.tripleIDs,
       myMolecules |-> m.myMolecules, nbTypes |-> m.nbTypes,
       templates |-> m.templates, TypesM |-> m.TypesM, molecules |-> m.molecules,
       edges |-> m.edges, inv_molecules |-> m.inv_molecules, ProvIdx |-> m.ProvIdx]

\* The record Reads makes.
ReadFrom(m, rs, next) == [m EXCEPT !.runs = rs, !.at = next]

LEMMA RunsAndAt ==
  ASSUME NEW m, NEW rs, NEW next, Whole(m),
         NEW b, b = ReadFrom(m, rs, next)
  PROVE  /\ Whole(b) /\ b.at = next /\ b.runs = rs
         /\ b.tripleIDs = m.tripleIDs /\ b.myMolecules = m.myMolecules
         /\ b.nbTypes = m.nbTypes /\ b.templates = m.templates
         /\ Blank(m) => Blank(b)
<1>1. PICK c : c = [m EXCEPT !.runs = rs]
  OBVIOUS
<1>2. c = [at |-> m.at, runs |-> rs, tripleIDs |-> m.tripleIDs,
           myMolecules |-> m.myMolecules, nbTypes |-> m.nbTypes,
           templates |-> m.templates, TypesM |-> m.TypesM, molecules |-> m.molecules,
           edges |-> m.edges, inv_molecules |-> m.inv_molecules, ProvIdx |-> m.ProvIdx]
  BY <1>1 DEF Whole
<1>3. b = [at |-> next, runs |-> rs, tripleIDs |-> m.tripleIDs,
           myMolecules |-> m.myMolecules, nbTypes |-> m.nbTypes,
           templates |-> m.templates, TypesM |-> m.TypesM, molecules |-> m.molecules,
           edges |-> m.edges, inv_molecules |-> m.inv_molecules, ProvIdx |-> m.ProvIdx]
  BY <1>1, <1>2 DEF ReadFrom
<1>4. QED
  BY <1>3 DEF Whole, Blank

LEMMA ReadTriplesMakes ==
  ASSUME NodesOK, DiskOK, NEW i \in Clients, ReadTriples(i)
  PROVE  \E b : /\ node' = [node EXCEPT ![i] = b]
                /\ disk.triples # NoFile /\ ReadsOn(node[i], disk.triples, b, "node")
                /\ b.tripleIDs = disk.triples.data
<1>1. PICK m, f : m = node[i] /\ f = disk.triples
  OBVIOUS
<1>2. m.at = "triples" /\ AllStored
  BY <1>1 DEF ReadTriples
<1>3. NodeOK(m) /\ FileOK(f, Seq(Lines)) /\ f # NoFile
  BY <1>1, <1>2 DEF NodesOK, DiskOK, AllStored
<1>4. Reading(m) /\ Whole(m)
  BY <1>2, <1>3, NotLoaded DEF Reading, Whole
<1>5. PICK c : c = [m EXCEPT !.tripleIDs = f.data]
  OBVIOUS
<1>6. /\ Whole(c) /\ c.runs = m.runs /\ c.tripleIDs = f.data /\ c.myMolecules = m.myMolecules
      /\ c.nbTypes = m.nbTypes /\ c.templates = m.templates
      /\ Blank(m) => Blank(c)
  BY <1>4, <1>5 DEF Whole, Blank
<1>7. PICK rs, b : rs = c.runs \union {f.run} /\ b = ReadFrom(c, c.runs \union {f.run}, "node")
  OBVIOUS
<1>8. /\ Whole(b) /\ b.at = "node" /\ b.runs = m.runs \union {f.run}
      /\ b.tripleIDs = f.data /\ b.myMolecules = m.myMolecules
      /\ b.nbTypes = m.nbTypes /\ b.templates = m.templates
      /\ Blank(m) => Blank(b)
  BY <1>6, <1>7, RunsAndAt
<1>9. node' = [node EXCEPT ![i] = b]
  BY <1>1, <1>5, <1>7 DEF ReadTriples, Reads, ReadFrom
<1>10. f.data \in Seq(Lines)
  BY <1>3 DEF FileOK
<1>11. Reading(b)
  BY <1>4, <1>8, <1>10 DEF Reading, Whole
<1>12. QED
  BY <1>1, <1>3, <1>8, <1>9, <1>11 DEF ReadsOn

LEMMA readMyMoleculesMakes ==
  ASSUME NodesOK, DiskOK, NEW i \in Clients, readMyMolecules(i)
  PROVE  \E b : /\ node' = [node EXCEPT ![i] = b]
                /\ node[i].at = "node" /\ disk.node[i] # NoFile
                /\ ReadsOn(node[i], disk.node[i], b, "types")
                /\ b.tripleIDs = node[i].tripleIDs
                /\ b.myMolecules = disk.node[i].data
<1>1. PICK m, f : m = node[i] /\ f = disk.node[i]
  OBVIOUS
<1>2. m.at = "node"
  BY <1>1 DEF readMyMolecules
<1>3. NodeOK(m) /\ FileOK(f, SUBSET KEY_ID) /\ f # NoFile
  BY <1>1, <1>2 DEF NodesOK, NodeOK, DiskOK, AllStored
<1>4. Reading(m) /\ Whole(m)
  BY <1>2, <1>3, NotLoaded DEF Reading, Whole
<1>5. PICK c : c = [m EXCEPT !.myMolecules = f.data]
  OBVIOUS
<1>6. /\ Whole(c) /\ c.runs = m.runs /\ c.tripleIDs = m.tripleIDs
      /\ c.myMolecules = f.data
      /\ c.nbTypes = m.nbTypes
      /\ c.templates = m.templates
      /\ Blank(m) => Blank(c)
  BY <1>4, <1>5 DEF Whole, Blank
<1>7. PICK rs, b : rs = c.runs \union {f.run} /\ b = ReadFrom(c, c.runs \union {f.run}, "types")
  OBVIOUS
<1>8. /\ Whole(b) /\ b.at = "types" /\ b.runs = m.runs \union {f.run}
      /\ b.tripleIDs = m.tripleIDs
      /\ b.myMolecules = f.data
      /\ b.nbTypes = m.nbTypes
      /\ b.templates = m.templates
      /\ Blank(m) => Blank(b)
  BY <1>6, <1>7, RunsAndAt
<1>9. node' = [node EXCEPT ![i] = b]
  BY <1>1, <1>5, <1>7 DEF readMyMolecules, Reads, ReadFrom
<1>10. f.data \in SUBSET KEY_ID
  BY <1>3 DEF FileOK
<1>11. Reading(b)
  BY <1>2, <1>4, <1>8, <1>10 DEF Reading, Whole
<1>12. QED
  BY <1>1, <1>2, <1>3, <1>8, <1>9, <1>11 DEF ReadsOn

LEMMA RestoreTypesMakes ==
  ASSUME NodesOK, DiskOK, NEW i \in Clients, RestoreTypes(i)
  PROVE  \E b : /\ node' = [node EXCEPT ![i] = b]
                /\ node[i].at = "types" /\ disk.types # NoFile
                /\ ReadsOn(node[i], disk.types, b, "templates")
                /\ b.tripleIDs = node[i].tripleIDs
                /\ b.myMolecules = node[i].myMolecules
                /\ b.nbTypes = disk.types.data
<1>1. PICK m, f : m = node[i] /\ f = disk.types
  OBVIOUS
<1>2. m.at = "types"
  BY <1>1 DEF RestoreTypes
<1>3. NodeOK(m) /\ FileOK(f, Nat) /\ f # NoFile
  BY <1>1, <1>2 DEF NodesOK, NodeOK, DiskOK, AllStored
<1>4. Reading(m) /\ Whole(m)
  BY <1>2, <1>3, NotLoaded DEF Reading, Whole
<1>5. PICK c : c = [m EXCEPT !.nbTypes = f.data]
  OBVIOUS
<1>6. /\ Whole(c) /\ c.runs = m.runs /\ c.tripleIDs = m.tripleIDs
      /\ c.myMolecules = m.myMolecules
      /\ c.nbTypes = f.data
      /\ c.templates = m.templates
      /\ Blank(m) => Blank(c)
  BY <1>4, <1>5 DEF Whole, Blank
<1>7. PICK rs, b : rs = c.runs \union {f.run} /\ b = ReadFrom(c, c.runs \union {f.run}, "templates")
  OBVIOUS
<1>8. /\ Whole(b) /\ b.at = "templates" /\ b.runs = m.runs \union {f.run}
      /\ b.tripleIDs = m.tripleIDs
      /\ b.myMolecules = m.myMolecules
      /\ b.nbTypes = f.data
      /\ b.templates = m.templates
      /\ Blank(m) => Blank(b)
  BY <1>6, <1>7, RunsAndAt
<1>9. node' = [node EXCEPT ![i] = b]
  BY <1>1, <1>5, <1>7 DEF RestoreTypes, Reads, ReadFrom
<1>10. f.data \in Nat
  BY <1>3 DEF FileOK
<1>11. Reading(b)
  BY <1>2, <1>4, <1>8, <1>10 DEF Reading, Whole
<1>12. QED
  BY <1>1, <1>2, <1>3, <1>8, <1>9, <1>11 DEF ReadsOn

LEMMA RestoreTemplatesMakes ==
  ASSUME NodesOK, DiskOK, NEW i \in Clients, RestoreTemplates(i)
  PROVE  \E b : /\ node' = [node EXCEPT ![i] = b]
                /\ node[i].at = "templates" /\ disk.templates # NoFile
                /\ ReadsOn(node[i], disk.templates, b, "molecules")
                /\ b.tripleIDs = node[i].tripleIDs
                /\ b.myMolecules = node[i].myMolecules
                /\ b.nbTypes = node[i].nbTypes
                /\ b.templates = disk.templates.data
<1>1. PICK m, f : m = node[i] /\ f = disk.templates
  OBVIOUS
<1>2. m.at = "templates"
  BY <1>1 DEF RestoreTemplates
<1>3. NodeOK(m) /\ FileOK(f, Templates) /\ f # NoFile
  BY <1>1, <1>2 DEF NodesOK, NodeOK, DiskOK, AllStored
<1>4. Reading(m) /\ Whole(m)
  BY <1>2, <1>3, NotLoaded DEF Reading, Whole
<1>5. PICK c : c = [m EXCEPT !.templates = f.data]
  OBVIOUS
<1>6. /\ Whole(c) /\ c.runs = m.runs /\ c.tripleIDs = m.tripleIDs
      /\ c.myMolecules = m.myMolecules
      /\ c.nbTypes = m.nbTypes
      /\ c.templates = f.data
      /\ Blank(m) => Blank(c)
  BY <1>4, <1>5 DEF Whole, Blank
<1>7. PICK rs, b : rs = c.runs \union {f.run} /\ b = ReadFrom(c, c.runs \union {f.run}, "molecules")
  OBVIOUS
<1>8. /\ Whole(b) /\ b.at = "molecules" /\ b.runs = m.runs \union {f.run}
      /\ b.tripleIDs = m.tripleIDs
      /\ b.myMolecules = m.myMolecules
      /\ b.nbTypes = m.nbTypes
      /\ b.templates = f.data
      /\ Blank(m) => Blank(b)
  BY <1>6, <1>7, RunsAndAt
<1>9. node' = [node EXCEPT ![i] = b]
  BY <1>1, <1>5, <1>7 DEF RestoreTemplates, Reads, ReadFrom
<1>10. f.data \in Templates
  BY <1>3 DEF FileOK
<1>11. Reading(b)
  BY <1>2, <1>4, <1>8, <1>10 DEF Reading, Whole
<1>12. QED
  BY <1>1, <1>2, <1>3, <1>8, <1>9, <1>11 DEF ReadsOn

\* A node that has read one more file.
LEMMA ReadsOnOK ==
  ASSUME NEW m, NEW f, NEW b, NEW S,
         NEW next \in {"node", "types", "templates", "molecules"},
         NodeOK(m), FileOK(f, S), f # NoFile, AllStored, ReadsOn(m, f, b, next)
  PROVE  NodeOK(b)
<1>1. f.run \in 1 .. run
  BY DEF FileOK
<1>2. QED
  BY <1>1 DEF NodeOK, ReadsOn

LEMMA LoadMoleculesMakes ==
  ASSUME NodesOK, NEW i \in Clients, LoadMolecules(i)
  PROVE  \E b : /\ node' = [node EXCEPT ![i] = b] /\ NodeOK(b)
                /\ node[i].at = "molecules" /\ b.at \in {"loaded", "undefined"}
                /\ b.runs = node[i].runs
                /\ b.tripleIDs = node[i].tripleIDs /\ b.myMolecules = node[i].myMolecules
                /\ b.nbTypes = node[i].nbTypes /\ b.templates = node[i].templates
<1>1. PICK m, n : m = node[i] /\ n = Len(node[i].tripleIDs)
  OBVIOUS
<1>2. m.at = "molecules" /\ NodeOK(m)
  BY <1>1 DEF LoadMolecules, NodesOK
<1>3. Reading(m)
  BY <1>2, NotLoaded
<1>4. Prepared(m)
  BY <1>2, <1>3, ReadIsPrepared
<1>5. CASE TypesFit(m)
  <2>1. PICK b : b = LoadLines(m, 0)
    OBVIOUS
  <2>2. /\ b.at = "loaded" /\ b.runs = m.runs /\ b.tripleIDs = m.tripleIDs
        /\ b.myMolecules = m.myMolecules /\ b.nbTypes = m.nbTypes /\ b.templates = m.templates
    BY <1>1, <1>4, <2>1, NodeLoaded
  <2>3. HasLoaded(b)
    BY <1>2, <1>3, <1>5, <2>1 DEF HasLoaded
  <2>4. NodeOK(b)
    BY <1>2, <2>2, <2>3 DEF NodeOK
  <2>5. node' = [node EXCEPT ![i] = b]
    BY <1>1, <1>5, <2>1 DEF LoadMolecules
  <2>6. QED
    BY <1>1, <1>2, <2>2, <2>4, <2>5
<1>6. CASE ~ TypesFit(m)
  <2>1. PICK b : b = [m EXCEPT !.at = "undefined"]
    OBVIOUS
  <2>2. /\ b.at = "undefined" /\ b.runs = m.runs /\ b.tripleIDs = m.tripleIDs
        /\ b.myMolecules = m.myMolecules /\ b.nbTypes = m.nbTypes /\ b.templates = m.templates
    BY <1>3, <2>1 DEF Reading
  <2>3. IsUndefined(b)
    BY <1>2, <1>3, <1>6, <2>1 DEF IsUndefined
  <2>4. NodeOK(b)
    BY <1>2, <2>2, <2>3 DEF NodeOK
  <2>5. node' = [node EXCEPT ![i] = b]
    BY <1>1, <1>6, <2>1 DEF LoadMolecules
  <2>6. QED
    BY <1>1, <1>2, <2>2, <2>4, <2>5
<1>7. QED
  BY <1>5, <1>6

LEMMA FreshIsOK == NodeOK(FreshNode) /\ FreshNode.at = "triples" /\ FreshNode.runs = {}
<1>1. PICK m : m = FreshNode
  OBVIOUS
<1>2. /\ m.at = "triples" /\ m.runs = {} /\ m.tripleIDs = <<>> /\ m.myMolecules = {}
      /\ m.nbTypes = 0 /\ m.templates = NoTemplates /\ Whole(m)
      /\ m.molecules = [k \in KEY_ID |-> NoMolecule] /\ m.inv_molecules = Empty
      /\ m.ProvIdx = Empty
  BY <1>1 DEF FreshNode, Whole
<1>3. m.templates \in Templates
  BY <1>2 DEF Templates, NoTemplates
<1>4. Reading(m)
  BY <1>2, <1>3 DEF Reading, Whole, Blank
<1>5. QED
  BY <1>1, <1>2, <1>4 DEF NodeOK

\* One node goes on, the others and the master do not.
LEMMA OneNodeGoesOn ==
  ASSUME NodesOK, UNCHANGED <<masterVars, disk>>, NEW i \in Clients, NEW b,
         node' = [node EXCEPT ![i] = b], NodeOK(b)
  PROVE  /\ NodesOK' /\ node'[i] = b
         /\ \A j \in Clients \ {i} : node'[j] = node[j]
<1>1. /\ node'[i] = b
      /\ \A j \in Clients \ {i} : node'[j] = node[j]
      /\ node' = [j \in Clients |-> node'[j]]
  BY DEF NodesOK
<1>2. run' = run /\ disk' = disk
  BY DEF masterVars
<1>3. ASSUME NEW m, NodeOK(m)
      PROVE  NodeOK(m)'
  BY <1>2, <1>3 DEF NodeOK, AllStored
<1>4. ASSUME NEW j \in Clients
      PROVE  NodeOK(node[j])'
  <2>1. PICK m : m = node'[j]
    OBVIOUS
  <2>2. NodeOK(m)
    BY <1>1, <2>1 DEF NodesOK
  <2>3. NodeOK(m)'
    BY <1>3, <2>2
  <2>4. QED
    BY <2>1, <2>3 DEF NodeOK
<1>5. QED
  BY <1>1, <1>4 DEF NodesOK

\* NodeHas of what node i is about to be.
HasDataOf(H, i, b) ==
  \A r \in Nat : b.runs = {r} =>
    /\ b.at # "triples" => b.tripleIDs = H[r].triples /\ (r = run => saving # "triples")
    /\ b.at \in {"types", "templates", "molecules", "loaded"} =>
         b.myMolecules = H[r].nodes[i] /\ (r = run => Dealt)
    /\ b.at \in {"templates", "molecules", "loaded", "undefined"} =>
         TypesBelow(b.nbTypes, b.tripleIDs)
    /\ b.at \in {"molecules", "loaded"} => b.templates = H[r].templates

\* All that has to be shown of a step of node i is that it has the data of the
\* run its files are of, if they are of one.
LEMMA OneNodeKeeps ==
  ASSUME MasterInv, DiskOK, NodesOK, NEW H, History(H), UNCHANGED <<masterVars, disk>>,
         NEW i \in Clients, NEW b, node' = [node EXCEPT ![i] = b], NodeOK(b),
         HasDataOf(H, i, b)
  PROVE  DeploymentInv'
<1>1. /\ NodesOK' /\ node'[i] = b
      /\ \A j \in Clients \ {i} : node'[j] = node[j]
  BY OneNodeGoesOn
<1>2. UNCHANGED <<run, saving, sent, tripleIDs, templates, nodes>> /\ disk' = disk
  BY DEF masterVars, loadVars, partitionVars
<1>3. MasterInv'
  BY NodesKeepMaster
<1>4. DiskOK'
  BY <1>2, DiskStays DEF MasterInv, MasterOrder
<1>5. MasterHas(H)' /\ (Dealt' <=> Dealt)
  BY <1>2 DEF History, MasterHas, Dealt
<1>6. DiskHas(H)'
  BY <1>2, <1>5 DEF History, DiskHas
<1>7. ASSUME NEW j \in Clients
      PROVE  NodeHas(H, j)'
  <2>1. CASE j = i
    BY <1>1, <1>2, <1>5, <2>1 DEF NodeHas, HasDataOf
  <2>2. CASE j # i
    <3>1. NodeHas(H, j) /\ node'[j] = node[j]
      BY <1>1, <2>2 DEF History
    <3>2. QED
      BY <1>2, <1>5, <3>1 DEF NodeHas
  <2>3. QED
    BY <2>1, <2>2
<1>8. History(H)'
  BY <1>5, <1>6, <1>7 DEF History
<1>9. QED
  BY <1>1, <1>3, <1>4, <1>8 DEF DeploymentInv

\* A set of runs that had one and has one more, and is one run, was that run.
LEMMA OneRun ==
  ASSUME NEW A, NEW x, NEW r, A \union {x} = {r}
  PROVE  x = r /\ (A # {} => A = {r})
OBVIOUS

LEMMA NodeStepKeeps ==
  ASSUME DeploymentInv, NEW i \in Clients, NodeStep(i)
  PROVE  DeploymentInv'
<1>1. MasterInv /\ DiskOK /\ NodesOK
  BY DEF DeploymentInv
<1>2. PICK H : History(H)
  BY DEF DeploymentInv
<1>3. PICK m : m = node[i]
  OBVIOUS
<1>4. NodeOK(m) /\ NodeHas(H, i) /\ DiskHas(H)
  BY <1>1, <1>2, <1>3 DEF NodesOK, History
<1>5. UNCHANGED <<masterVars, disk>>
  BY DEF NodeStep, ReadTriples, readMyMolecules, RestoreTypes, RestoreTemplates, LoadMolecules,
         RestartNode
<1>6. m.at # "triples" => m.runs # {} /\ AllStored
  BY <1>4 DEF NodeOK
<1>7. CASE ReadTriples(i)
  <2>1. PICK b : /\ node' = [node EXCEPT ![i] = b]
                 /\ disk.triples # NoFile /\ ReadsOn(m, disk.triples, b, "node")
                 /\ b.tripleIDs = disk.triples.data
    BY <1>1, <1>3, <1>7, ReadTriplesMakes
  <2>2. AllStored /\ FileOK(disk.triples, Seq(Lines))
    BY <1>1, <1>7 DEF ReadTriples, DiskOK
  <2>3. NodeOK(b)
    BY <1>4, <2>1, <2>2, ReadsOnOK
  <2>4. ASSUME NEW r \in Nat, b.runs = {r}
        PROVE  b.tripleIDs = H[r].triples /\ (r = run => saving # "triples")
    <3>1. disk.triples.run = r
      BY <2>1, <2>4 DEF ReadsOn
    <3>2. QED
      BY <1>4, <2>1, <3>1 DEF DiskHas
  <2>5. b.at = "node"
    BY <2>1 DEF ReadsOn
  <2>6. HasDataOf(H, i, b)
    BY <2>4, <2>5 DEF HasDataOf
  <2>7. QED
    BY <1>1, <1>2, <1>5, <2>1, <2>3, <2>6, OneNodeKeeps
<1>8. CASE readMyMolecules(i)
  <2>1. PICK b : /\ node' = [node EXCEPT ![i] = b]
                 /\ m.at = "node" /\ disk.node[i] # NoFile /\ ReadsOn(m, disk.node[i], b, "types")
                 /\ b.tripleIDs = m.tripleIDs /\ b.myMolecules = disk.node[i].data
    BY <1>1, <1>3, <1>8, readMyMoleculesMakes
  <2>2. FileOK(disk.node[i], SUBSET KEY_ID)
    BY <1>1 DEF DiskOK
  <2>3. NodeOK(b)
    BY <1>4, <1>6, <2>1, <2>2, ReadsOnOK
  <2>4. ASSUME NEW r \in Nat, b.runs = {r}
        PROVE  /\ b.tripleIDs = H[r].triples /\ (r = run => saving # "triples")
               /\ b.myMolecules = H[r].nodes[i] /\ (r = run => Dealt)
    <3>1. disk.node[i].run = r /\ m.runs = {r}
      BY <1>6, <2>1, <2>4, OneRun DEF ReadsOn
    <3>2. m.tripleIDs = H[r].triples /\ (r = run => saving # "triples")
      BY <1>3, <1>4, <2>1, <3>1 DEF NodeHas
    <3>3. disk.node[i].data = H[r].nodes[i] /\ (r = run => Dealt)
      BY <1>4, <2>1, <3>1 DEF DiskHas
    <3>4. QED
      BY <2>1, <3>2, <3>3
  <2>5. b.at = "types"
    BY <2>1 DEF ReadsOn
  <2>6. HasDataOf(H, i, b)
    BY <2>4, <2>5 DEF HasDataOf
  <2>7. QED
    BY <1>1, <1>2, <1>5, <2>1, <2>3, <2>6, OneNodeKeeps
<1>9. CASE RestoreTypes(i)
  <2>1. PICK b : /\ node' = [node EXCEPT ![i] = b]
                 /\ m.at = "types" /\ disk.types # NoFile /\ ReadsOn(m, disk.types, b, "templates")
                 /\ b.tripleIDs = m.tripleIDs /\ b.myMolecules = m.myMolecules
                 /\ b.nbTypes = disk.types.data
    BY <1>1, <1>3, <1>9, RestoreTypesMakes
  <2>2. FileOK(disk.types, Nat)
    BY <1>1 DEF DiskOK
  <2>3. NodeOK(b)
    BY <1>4, <1>6, <2>1, <2>2, ReadsOnOK
  <2>4. ASSUME NEW r \in Nat, b.runs = {r}
        PROVE  /\ b.tripleIDs = H[r].triples /\ (r = run => saving # "triples")
               /\ b.myMolecules = H[r].nodes[i] /\ (r = run => Dealt)
               /\ TypesBelow(b.nbTypes, b.tripleIDs)
    <3>1. disk.types.run = r /\ m.runs = {r}
      BY <1>6, <2>1, <2>4, OneRun DEF ReadsOn
    <3>2. /\ m.tripleIDs = H[r].triples /\ (r = run => saving # "triples")
          /\ m.myMolecules = H[r].nodes[i] /\ (r = run => Dealt)
      BY <1>3, <1>4, <2>1, <3>1 DEF NodeHas
    <3>3. TypesBelow(disk.types.data, H[r].triples)
      BY <1>4, <2>1, <3>1 DEF DiskHas
    <3>4. QED
      BY <2>1, <3>2, <3>3
  <2>5. b.at = "templates"
    BY <2>1 DEF ReadsOn
  <2>6. HasDataOf(H, i, b)
    BY <2>4, <2>5 DEF HasDataOf
  <2>7. QED
    BY <1>1, <1>2, <1>5, <2>1, <2>3, <2>6, OneNodeKeeps
<1>10. CASE RestoreTemplates(i)
  <2>1. PICK b : /\ node' = [node EXCEPT ![i] = b]
                 /\ m.at = "templates" /\ disk.templates # NoFile
                 /\ ReadsOn(m, disk.templates, b, "molecules")
                 /\ b.tripleIDs = m.tripleIDs /\ b.myMolecules = m.myMolecules
                 /\ b.nbTypes = m.nbTypes /\ b.templates = disk.templates.data
    BY <1>1, <1>3, <1>10, RestoreTemplatesMakes
  <2>2. FileOK(disk.templates, Templates)
    BY <1>1 DEF DiskOK
  <2>3. NodeOK(b)
    BY <1>4, <1>6, <2>1, <2>2, ReadsOnOK
  <2>4. ASSUME NEW r \in Nat, b.runs = {r}
        PROVE  /\ b.tripleIDs = H[r].triples /\ (r = run => saving # "triples")
               /\ b.myMolecules = H[r].nodes[i] /\ (r = run => Dealt)
               /\ TypesBelow(b.nbTypes, b.tripleIDs) /\ b.templates = H[r].templates
    <3>1. disk.templates.run = r /\ m.runs = {r}
      BY <1>6, <2>1, <2>4, OneRun DEF ReadsOn
    <3>2. /\ m.tripleIDs = H[r].triples /\ (r = run => saving # "triples")
          /\ m.myMolecules = H[r].nodes[i] /\ (r = run => Dealt)
          /\ TypesBelow(m.nbTypes, m.tripleIDs)
      BY <1>3, <1>4, <2>1, <3>1 DEF NodeHas
    <3>3. disk.templates.data = H[r].templates
      BY <1>4, <2>1, <3>1 DEF DiskHas
    <3>4. QED
      BY <2>1, <3>2, <3>3
  <2>5. b.at = "molecules"
    BY <2>1 DEF ReadsOn
  <2>6. HasDataOf(H, i, b)
    BY <2>4, <2>5 DEF HasDataOf
  <2>7. QED
    BY <1>1, <1>2, <1>5, <2>1, <2>3, <2>6, OneNodeKeeps
<1>11. CASE LoadMolecules(i)
  <2>1. PICK b : /\ node' = [node EXCEPT ![i] = b] /\ NodeOK(b)
                 /\ m.at = "molecules" /\ b.at \in {"loaded", "undefined"} /\ b.runs = m.runs
                 /\ b.tripleIDs = m.tripleIDs /\ b.myMolecules = m.myMolecules
                 /\ b.nbTypes = m.nbTypes /\ b.templates = m.templates
    BY <1>1, <1>3, <1>11, LoadMoleculesMakes
  <2>2. ASSUME NEW r \in Nat, b.runs = {r}
        PROVE  /\ b.tripleIDs = H[r].triples /\ (r = run => saving # "triples")
               /\ b.myMolecules = H[r].nodes[i] /\ (r = run => Dealt)
               /\ TypesBelow(b.nbTypes, b.tripleIDs) /\ b.templates = H[r].templates
    BY <1>3, <1>4, <2>1, <2>2 DEF NodeHas
  <2>3. HasDataOf(H, i, b)
    BY <2>1, <2>2 DEF HasDataOf
  <2>4. QED
    BY <1>1, <1>2, <1>5, <2>1, <2>3, OneNodeKeeps
<1>12. CASE RestartNode(i)
  <2>1. PICK b : b = FreshNode
    OBVIOUS
  <2>2. NodeOK(b) /\ b.runs = {} /\ b.at = "triples" /\ node' = [node EXCEPT ![i] = b]
    BY <1>12, <2>1, FreshIsOK DEF RestartNode
  <2>3. HasDataOf(H, i, b)
    BY <2>2 DEF HasDataOf
  <2>4. QED
    BY <1>1, <1>2, <1>5, <2>2, <2>3, OneNodeKeeps
<1>13. QED
  BY <1>7, <1>8, <1>9, <1>10, <1>11, <1>12 DEF NodeStep
------------------------------------------------------------------------------
(***************************************************************************)
(* The invariant is inductive.                                             *)
(***************************************************************************)

LEMMA InitInv == DeploymentInit => DeploymentInv
<1> SUFFICES ASSUME DeploymentInit PROVE DeploymentInv
  OBVIOUS
<1>1. /\ run = 1 /\ saving = "triples" /\ sent = 0
      /\ disk = [triples |-> NoFile, node |-> [i \in Clients |-> NoFile],
                 templates |-> NoFile, types |-> NoFile]
      /\ node = [i \in Clients |-> FreshNode]
  BY DEF DeploymentInit
<1>2. MasterInv
  BY <1>1, MasterBegins DEF DeploymentInit, MasterFresh
<1>3. /\ disk.triples = NoFile /\ disk.templates = NoFile /\ disk.types = NoFile
      /\ disk.node = [i \in Clients |-> NoFile]
  BY <1>1
<1>4. DiskOK
  BY <1>1, <1>3 DEF DiskOK, FileOK
<1>5. \A i \in Clients : node[i] = FreshNode
  BY <1>1
<1>6. NodesOK
  <2>1. \A i \in Clients : NodeOK(node[i])
    BY <1>5, FreshIsOK
  <2>2. node = [i \in Clients |-> node[i]]
    BY <1>1, <1>5
  <2>3. QED
    BY <2>1, <2>2 DEF NodesOK
<1>7. PICK d : d = [triples |-> <<>>, templates |-> NoTemplates, nodes |-> [i \in Clients |-> {}]]
  OBVIOUS
<1>8. d \in RunData
  BY <1>7 DEF RunData, Templates, NoTemplates
<1>9. Coherent(d)
  <2>1. d.triples = <<>> /\ \A i \in Clients : d.nodes[i] = {}
    BY <1>7
  <2>2. PICK T : T = d.triples
    OBVIOUS
  <2>3. T \in Seq(Lines) /\ DOMAIN T = {}
    BY <2>1, <2>2
  <2>4. \A s : s \notin MoleculesOf(T)
    BY <2>3, MoleculesAreStorable
  <2>5. QED
    BY <2>1, <2>2, <2>3, <2>4 DEF Coherent
<1>10. PICK H : H = [r \in Nat |-> d]
  OBVIOUS
<1>11. H \in [Nat -> RunData] /\ \A r \in Nat : H[r] = d
  BY <1>8, <1>10
<1>12. MasterHas(H) /\ DiskHas(H)
  BY <1>1, <1>3 DEF MasterHas, DiskHas, Dealt
<1>13. \A i \in Clients : NodeHas(H, i)
  BY <1>5, FreshIsOK DEF NodeHas
<1>14. History(H)
  BY <1>9, <1>11, <1>12, <1>13 DEF History
<1>15. QED
  BY <1>2, <1>4, <1>6, <1>14 DEF DeploymentInv

\* The steps of the master.
LEMMA LoadStepInv ==
  ASSUME DeploymentInv, LoadStep
  PROVE  DeploymentInv'
<1>1. MasterInv /\ DiskOK /\ NodesOK /\ run \in Nat
  BY DEF DeploymentInv, MasterInv, MasterOrder
<1>2. PICK H : History(H)
  BY DEF DeploymentInv
<1>3. UNCHANGED <<partitionVars, run, saving, sent, failures, disk, node>> /\ LoadNext
  BY DEF LoadStep
<1>4. MasterInv'
  BY <1>1, LoadStepKeeps
<1>5. DiskOK' /\ (AllStored => AllStored')
  BY <1>1, <1>3, DiskStays
<1>6. NodesOK'
  BY <1>1, <1>3, <1>5, NodesStay
<1>7. saving # "triples" => UNCHANGED <<tripleIDs, templates>>
  BY <1>1, <1>3 DEF MasterInv, MasterOrder, LoadNext, ReadLine, EndOfFiles, AddNextTemplate,
                    TemplatesDone, StoreLine, LoadDone, store, IndexProvenance, CountTriple
<1>8. MasterHas(H)' /\ (Dealt' <=> Dealt)
  BY <1>2, <1>3, <1>7 DEF History, MasterHas, Dealt, partitionVars
<1>9. History(H)'
  BY <1>2, <1>3, <1>8, HistoryStays
<1>10. QED
  BY <1>4, <1>5, <1>6, <1>9 DEF DeploymentInv

\* Steps that only deal molecules out.
LEMMA DealingInv ==
  ASSUME DeploymentInv, Partition \/ Place
  PROVE  DeploymentInv'
<1>1. MasterInv /\ DiskOK /\ NodesOK /\ run \in Nat
  BY DEF DeploymentInv, MasterInv, MasterOrder
<1>2. PICK H : History(H)
  BY DEF DeploymentInv
<1>3. /\ UNCHANGED <<loadVars, run, sent, disk, node>>
      /\ saving \in {"partition", "nodes"} /\ saving' = "nodes"
  BY DEF Partition, Place, At
<1>4. MasterInv'
  BY <1>1, PartitionKeeps, PlaceKeeps
<1>5. DiskOK' /\ (AllStored => AllStored')
  BY <1>1, <1>3, DiskStays
<1>6. NodesOK'
  BY <1>1, <1>3, <1>5, NodesStay
<1>7. ~ Dealt /\ ~ Dealt'
  <2>1. CASE Place
    BY <1>1, <2>1, PlaceKeeps
  <2>2. CASE Partition
    <3>1. saving = "partition" /\ sent = 0 /\ sent' = 0
      BY <1>1, <1>3, <2>2 DEF Partition, At, MasterInv, PartitionInv
    <3>2. QED
      BY <1>3, <3>1 DEF Dealt
  <2>3. QED
    BY <2>1, <2>2
<1>8. MasterHas(H)'
  BY <1>2, <1>3, <1>7 DEF History, MasterHas, loadVars
<1>9. History(H)'
  BY <1>2, <1>3, <1>7, <1>8, HistoryStays
<1>10. QED
  BY <1>4, <1>5, <1>6, <1>9 DEF DeploymentInv

LEMMA StoringInv ==
  ASSUME DeploymentInv, StoreTriples \/ SendMolecules \/ StoreTemplates \/ StoreTypes
  PROVE  DeploymentInv'
<1>1. MasterInv /\ DiskOK /\ NodesOK /\ run \in Nat
  BY DEF DeploymentInv, MasterInv, MasterOrder
<1>2. PICK H : History(H)
  BY DEF DeploymentInv
<1>3. UNCHANGED <<loadVars, partitionVars, run, node>> /\ Writes
  BY DEF StoreTriples, SendMolecules, StoreTemplates, StoreTypes, Writes, At
<1>4. MasterInv'
  BY <1>1, <1>3, WritesKeeps
<1>5. DiskOK' /\ (AllStored => AllStored')
  <2>1. CASE UNCHANGED disk
    BY <1>1, <1>3, <2>1, DiskStays
  <2>2. CASE SendMolecules /\ disk' = [disk EXCEPT !.node[sent] = File(nodes[sent])]
    <3>1. sent \in Clients
      BY <1>1, <2>2, PartitionAssumption DEF SendMolecules, MasterInv, MasterOrder, Clients
    <3>2. QED
      BY <1>1, <1>3, <2>2, <3>1, SendMoleculesDisk
  <2>3. CASE disk' = [disk EXCEPT !.triples = File(tripleIDs)]
    BY <1>1, <1>3, <2>3, StoreTriplesDisk
  <2>4. CASE disk' = [disk EXCEPT !.templates = File(templates)]
    BY <1>1, <1>3, <2>4, StoreTemplatesDisk
  <2>5. CASE \E nb \in GetNbOfTypes(tripleIDs) : disk' = [disk EXCEPT !.types = File(nb)]
    <3>1. PICK nb \in GetNbOfTypes(tripleIDs) : disk' = [disk EXCEPT !.types = File(nb)]
      BY <2>5
    <3>2. nb \in Nat
      BY DeploymentAssumption DEF GetNbOfTypes
    <3>3. QED
      BY <1>1, <1>3, <3>1, <3>2, StoreTypesDisk
  <2>6. QED
    BY <2>1, <2>2, <2>3, <2>4, <2>5 DEF StoreTriples, SendMolecules, StoreTemplates, StoreTypes, Stores
<1>6. NodesOK'
  BY <1>1, <1>3, <1>5, NodesStay
<1>7. \E K : History(K)'
  BY <1>1, <1>2, StoreTriplesHistory, SendMoleculesHistory, StoreTemplatesHistory
<1>8. QED
  BY <1>4, <1>5, <1>6, <1>7 DEF DeploymentInv

LEMMA RerunInv ==
  ASSUME DeploymentInv, Rerun
  PROVE  DeploymentInv'
<1>1. MasterInv /\ DiskOK /\ NodesOK /\ run \in Nat
  BY DEF DeploymentInv, MasterInv, MasterOrder
<1>2. PICK H : History(H)
  BY DEF DeploymentInv
<1>3. run' = run + 1 /\ UNCHANGED <<disk, node>>
  BY DEF Rerun
<1>4. MasterInv'
  <2>1. MasterFresh'
    BY <1>1, RerunIsFresh
  <2>2. QED
    BY <2>1, MasterBegins, PTL
<1>5. DiskOK' /\ (AllStored => AllStored')
  BY <1>1, <1>3, DiskStays
<1>6. NodesOK'
  BY <1>1, <1>3, <1>5, NodesStay
<1>7. History(H)'
  BY <1>1, <1>2, RerunHistory
<1>8. QED
  BY <1>4, <1>5, <1>6, <1>7 DEF DeploymentInv

LEMMA StutterInv ==
  ASSUME DeploymentInv, UNCHANGED deploymentVars
  PROVE  DeploymentInv'
<1>1. MasterInv /\ DiskOK /\ NodesOK /\ run \in Nat
  BY DEF DeploymentInv, MasterInv, MasterOrder
<1>2. PICK H : History(H)
  BY DEF DeploymentInv
<1>3. UNCHANGED masterVars
  BY DEF deploymentVars
<1>4. UNCHANGED <<run, saving, sent, disk, node, tripleIDs, templates, nodes>>
  BY DEF deploymentVars, masterVars, loadVars, partitionVars
<1>5. MasterInv'
  BY <1>1, <1>3, NodesKeepMaster
<1>6. DiskOK' /\ (AllStored => AllStored')
  BY <1>1, <1>4, DiskStays
<1>7. NodesOK'
  BY <1>1, <1>4, <1>6, NodesStay
<1>8. MasterHas(H)' /\ (Dealt' <=> Dealt)
  BY <1>2, <1>4 DEF History, MasterHas, Dealt
<1>9. History(H)'
  BY <1>2, <1>4, <1>8, HistoryStays
<1>10. QED
  BY <1>5, <1>6, <1>7, <1>9 DEF DeploymentInv

LEMMA NextInv == DeploymentInv /\ [DeploymentNext]_deploymentVars => DeploymentInv'
<1> SUFFICES ASSUME DeploymentInv, [DeploymentNext]_deploymentVars
             PROVE  DeploymentInv'
  OBVIOUS
<1>1. CASE LoadStep
  BY <1>1, LoadStepInv
<1>2. CASE Partition \/ Place
  BY <1>2, DealingInv
<1>3. CASE StoreTriples \/ SendMolecules \/ StoreTemplates \/ StoreTypes
  BY <1>3, StoringInv
<1>4. CASE Rerun
  BY <1>4, RerunInv
<1>5. CASE \E i \in Clients : NodeStep(i)
  BY <1>5, NodeStepKeeps
<1>6. CASE UNCHANGED deploymentVars
  BY <1>6, StutterInv
<1>7. QED
  BY <1>1, <1>2, <1>3, <1>4, <1>5, <1>6 DEF DeploymentNext
------------------------------------------------------------------------------
(***************************************************************************)
(* The theorems.                                                           *)
(***************************************************************************)

\* The inductive invariant holds in every state of master, files and nodes.
THEOREM Inductive == DeploymentSpec => []DeploymentInv
<1>1. DeploymentInit => DeploymentInv
  BY InitInv
<1>2. DeploymentInv /\ [DeploymentNext]_deploymentVars => DeploymentInv'
  BY NextInv
<1>3. QED
  BY <1>1, <1>2, PTL DEF DeploymentSpec

\* However the master is run, stopped and run again, over whatever data, and
\* whichever of its files could not be written, a node that has loaded files of
\* one run holds exactly the storable lines of the molecules dealt to it, read
\* back through the templates it restored (ConductorNode::LoadData over what
\* Conductor::LoadData and Partitioner::SendMolecules stored).
THEOREM SharesAreKept == DeploymentSpec => []NodeIsItsShare
BY Inductive, InvImpliesShare, PTL

\* Nodes that have all loaded one run hold every storable line of its dataset,
\* and no subject twice, though the master may be on another run by now.
THEOREM ClusterHoldsDataset == DeploymentSpec => []ClusterIsDataset
BY Inductive, InvImpliesDataset, PTL

\* Once master and nodes have loaded the same run, the nodes hold together the
\* molecules of the master, group for group, each on one node; and each node
\* has its whole provenance index.
THEOREM ClusterHoldsMaster == DeploymentSpec => []ClusterIsMaster
BY Inductive, InvImpliesMaster, PTL

\* A node that has read files of one run only never indexes past the end of its
\* type lists (TypesManager::AddElement, over what TypesHierarchy::Store wrote),
\* whatever number of classes the other runs had and whichever writes failed.
THEOREM OneRunStaysInBounds == DeploymentSpec => []OneRunIsInBounds
BY Inductive, InvImpliesBounds, PTL

\* The indexes of a node that has loaded agree with its molecules, even when its
\* files are of different runs with different numbers of types; the mixtures
\* whose lines do not fit the type lists are not loaded nodes.
THEOREM IndexesAgree == DeploymentSpec => []NodeIndexesAgree
<1>1. DeploymentInv => NodesOK
  BY DEF DeploymentInv
<1>2. QED
  BY <1>1, Inductive, InvImpliesIndexes, PTL

\* The rounds of Partitioner::PartitionMolecules stay balanced, and a molecule
\* on one node, when the partitioner is called as LoadData of the master calls
\* it, once in every run.
THEOREM DealtInRounds == DeploymentSpec => [](OnOneNode /\ Balanced)
<1>1. DeploymentInv => OnOneNode /\ InRounds /\ PartitionTypeOK
  BY DEF DeploymentInv, MasterInv, PartitionInv
<1>2. DeploymentInv => OnOneNode /\ Balanced
  BY <1>1, RoundsAreBalanced
<1>3. QED
  BY <1>2, Inductive, PTL
------------------------------------------------------------------------------
(***************************************************************************)
(* The provenance queries.  A block asks the store; its branches are       *)
(* solutions of pattern lists over the lines.  Both are brought down to    *)
(* the subjects and objects of the lines that match one pattern.           *)
(***************************************************************************)

(***************************************************************************)
(* Solutions of the pattern lists that occur.                              *)
(***************************************************************************)

\* A binding of a single variable.
One(v, k) == [x \in {v} |-> k]
Ones(v, S) == {One(v, s) : s \in S}

\* The subjects of the quads with a predicate and an object, the objects of the
\* quads with a subject and a predicate.
Saying(quads, p, o) ==
  {q.subject : q \in {r \in quads : r.predicate = p /\ r.object = o}}
Said(quads, s, p) ==
  {q.object : q \in {r \in quads : r.subject = s /\ r.predicate = p}}

\* A pattern with one variable, not bound yet.
LEMMA MatchFirst ==
  ASSUME NEW quads, NEW v \in Vars, NEW p, p \notin Vars, NEW o, o \notin Vars
  PROVE  Match(quads, <<>>, <<v, p, o>>) = Ones(v, Saying(quads, KM(p), KM(o)))
<1>1. DOMAIN <<>> = {}
  OBVIOUS
<1> DEFINE hits == {q \in quads : /\ Fits(<<>>, v, q.subject)
                                  /\ Fits(<<>>, p, q.predicate)
                                  /\ Fits(<<>>, o, q.object)}
<1>2. hits = {r \in quads : r.predicate = KM(p) /\ r.object = KM(o)}
  BY <1>1 DEF Fits
<1>3. \A q \in hits : Bind(Bind(Bind(<<>>, v, q.subject), p, q.predicate), o, q.object)
                        = One(v, q.subject)
  BY <1>1 DEF Bind, One
<1>4. Match(quads, <<>>, <<v, p, o>>) =
        {Bind(Bind(Bind(<<>>, v, q.subject), p, q.predicate), o, q.object) : q \in hits}
  BY DEF Match
<1> HIDE DEF hits
<1>5. Match(quads, <<>>, <<v, p, o>>) = {One(v, q.subject) : q \in hits}
  BY <1>3, <1>4
<1>6. Saying(quads, KM(p), KM(o)) = {q.subject : q \in hits}
  BY <1>2 DEF Saying
<1>7. QED
  BY <1>5, <1>6 DEF Ones

\* The pattern for a variable that is bound: it keeps the binding or drops it.
LEMMA MatchBound ==
  ASSUME NEW quads, NEW v \in Vars, NEW p, p \notin Vars, NEW o, o \notin Vars,
         NEW b, v \in DOMAIN b, IsBinding(b)
  PROVE  Match(quads, b, <<v, p, o>>) = {x \in {b} : b[v] \in Saying(quads, KM(p), KM(o))}
<1> DEFINE hits == {q \in quads : Fits(b, v, q.subject) /\ Fits(b, p, q.predicate)
                                    /\ Fits(b, o, q.object)}
<1>1. hits = {r \in quads : b[v] = r.subject /\ r.predicate = KM(p) /\ r.object = KM(o)}
  BY DEF Fits
<1>2. \A q \in hits : Bind(Bind(Bind(b, v, q.subject), p, q.predicate), o, q.object) = b
  BY <1>1 DEF Bind, IsBinding
<1>3. Match(quads, b, <<v, p, o>>) =
        {Bind(Bind(Bind(b, v, q.subject), p, q.predicate), o, q.object) : q \in hits}
  BY DEF Match
<1> HIDE DEF hits
<1>4. Match(quads, b, <<v, p, o>>) = {x \in {b} : hits # {}}
  BY <1>2, <1>3
<1>5. hits # {} <=> b[v] \in Saying(quads, KM(p), KM(o))
  BY <1>1 DEF Saying
<1>6. QED
  BY <1>4, <1>5

\* A pattern with a bound subject and another variable in its object: one
\* binding for each object.
LEMMA MatchObjects ==
  ASSUME NEW quads, NEW v \in Vars, NEW p, p \notin Vars, NEW w \in Vars,
         NEW b, v \in DOMAIN b, w \notin DOMAIN b, IsBinding(b)
  PROVE  Match(quads, b, <<v, p, w>>) = {Bind(b, w, k) : k \in Said(quads, b[v], KM(p))}
<1> DEFINE hits == {q \in quads : Fits(b, v, q.subject) /\ Fits(b, p, q.predicate)
                                    /\ Fits(b, w, q.object)}
<1>1. hits = {r \in quads : b[v] = r.subject /\ r.predicate = KM(p)}
  BY DEF Fits
<1>2. \A q \in hits : Bind(Bind(b, v, q.subject), p, q.predicate) = b
  BY <1>1 DEF Bind, IsBinding
<1>3. Match(quads, b, <<v, p, w>>) =
        {Bind(Bind(Bind(b, v, q.subject), p, q.predicate), w, q.object) : q \in hits}
  BY DEF Match
<1> HIDE DEF hits
<1>4. Match(quads, b, <<v, p, w>>) = {Bind(b, w, q.object) : q \in hits}
  BY <1>2, <1>3
<1>5. Said(quads, b[v], KM(p)) = {q.object : q \in hits}
  BY <1>1 DEF Said
<1>6. QED
  BY <1>4, <1>5

\* The same with the variable of the object bound: the object has to be that.
LEMMA MatchBoth ==
  ASSUME NEW quads, NEW v \in Vars, NEW p, p \notin Vars, NEW w \in Vars,
         NEW b, v \in DOMAIN b, w \in DOMAIN b, IsBinding(b)
  PROVE  Match(quads, b, <<v, p, w>>) = {x \in {b} : b[w] \in Said(quads, b[v], KM(p))}
<1> DEFINE hits == {q \in quads : Fits(b, v, q.subject) /\ Fits(b, p, q.predicate)
                                    /\ Fits(b, w, q.object)}
<1>1. hits = {r \in quads : b[v] = r.subject /\ r.predicate = KM(p) /\ b[w] = r.object}
  BY DEF Fits
<1>2. \A q \in hits : Bind(Bind(Bind(b, v, q.subject), p, q.predicate), w, q.object) = b
  BY <1>1 DEF Bind, IsBinding
<1>3. Match(quads, b, <<v, p, w>>) =
        {Bind(Bind(Bind(b, v, q.subject), p, q.predicate), w, q.object) : q \in hits}
  BY DEF Match
<1> HIDE DEF hits
<1>4. Match(quads, b, <<v, p, w>>) = {x \in {b} : hits # {}}
  BY <1>2, <1>3
<1>5. hits # {} <=> b[w] \in Said(quads, b[v], KM(p))
  BY <1>1 DEF Said
<1>6. QED
  BY <1>4, <1>5

\* The bindings of a star of patterns are those of the common subjects.
LEMMA StarNext ==
  ASSUME NEW quads, NEW v \in Vars, NEW p, p \notin Vars, NEW o, o \notin Vars, NEW S
  PROVE  Joined(quads, Ones(v, S), <<v, p, o>>) =
           Ones(v, S \intersect Saying(quads, KM(p), KM(o)))
<1>1. PICK T, bs, X : /\ T = Saying(quads, KM(p), KM(o)) /\ bs = Ones(v, S)
                      /\ X = Joined(quads, bs, <<v, p, o>>)
  OBVIOUS
<1>2. ASSUME NEW s
      PROVE  Match(quads, One(v, s), <<v, p, o>>) = {x \in {One(v, s)} : s \in T}
  <2>1. PICK b : b = One(v, s)
    OBVIOUS
  <2>2. DOMAIN b = {v} /\ b[v] = s /\ IsBinding(b)
    BY <2>1 DEF One, IsBinding
  <2>3. QED
    BY <1>1, <2>1, <2>2, MatchBound
<1>3. X = UNION {Match(quads, b, <<v, p, o>>) : b \in bs}
  BY <1>1 DEF Joined
<1>4. \A x : x \in X <=> \E s \in S : x \in Match(quads, One(v, s), <<v, p, o>>)
  BY <1>1, <1>3 DEF Ones
<1>5. \A x : x \in X <=> \E s \in S \intersect T : x = One(v, s)
  BY <1>2, <1>4
<1>6. QED
  BY <1>1, <1>5 DEF Ones

\* The first pattern of any list starts from the empty binding.
LEMMA StarFirst ==
  ASSUME NEW quads, NEW v \in Vars, NEW p, p \notin Vars, NEW o, o \notin Vars
  PROVE  Joined(quads, {<<>>}, <<v, p, o>>) = Ones(v, Saying(quads, KM(p), KM(o)))
<1>1. Joined(quads, {<<>>}, <<v, p, o>>) = Match(quads, <<>>, <<v, p, o>>)
  BY DEF Joined
<1>2. QED
  BY <1>1, MatchFirst

\* What a variable is bound to.
ValuesAt(v, bs) == {b[v] : b \in bs}

LEMMA OneColumn ==
  ASSUME NEW v, NEW S, NEW bs, bs = Ones(v, S)
  PROVE  ValuesAt(v, bs) = S
<1>1. \A s : One(v, s)[v] = s
  BY DEF One
<1>2. QED
  BY <1>1 DEF ValuesAt, Ones

\* Lists of one, two and three patterns.
LEMMA SolutionsOfOne ==
  ASSUME NEW quads, NEW a
  PROVE  Solutions(quads, <<a>>) = Joined(quads, {<<>>}, a)
<1>1. PICK T, n : T = <<a>> /\ n = 1
  OBVIOUS
<1>2. DOMAIN T = 1 .. n /\ n \in Nat /\ T[1] = a
  BY <1>1
<1>3. PICK h : Solves(h, quads, T, n) /\ Solutions(quads, T) = h[n]
  BY <1>2, SolutionsByPattern
<1>4. h[0] = {<<>>} /\ h[1] = Joined(quads, h[0], T[1])
  <2>1. 1 \in 1 .. n /\ 1 - 1 = 0
    BY <1>1
  <2>2. h[0] = {<<>>} /\ h[1] = Joined(quads, h[1 - 1], T[1])
    BY <1>3, <2>1, Zenon DEF Solves
  <2>3. QED
    BY <2>1, <2>2
<1>5. QED
  BY <1>1, <1>2, <1>3, <1>4

LEMMA SolutionsOfTwo ==
  ASSUME NEW quads, NEW a, NEW b
  PROVE  Solutions(quads, <<a, b>>) = Joined(quads, Joined(quads, {<<>>}, a), b)
<1>1. PICK T, n : T = <<a, b>> /\ n = 2
  OBVIOUS
<1>2. DOMAIN T = 1 .. n /\ n \in Nat /\ T[1] = a /\ T[2] = b
  BY <1>1
<1>3. PICK h : Solves(h, quads, T, n) /\ Solutions(quads, T) = h[n]
  BY <1>2, SolutionsByPattern
<1>4. h[0] = {<<>>} /\ h[1] = Joined(quads, h[0], T[1]) /\ h[2] = Joined(quads, h[1], T[2])
  <2>1. 1 \in 1 .. n /\ 2 \in 1 .. n /\ 1 - 1 = 0 /\ 2 - 1 = 1
    BY <1>1
  <2>2. h[0] = {<<>>} /\ h[1] = Joined(quads, h[1 - 1], T[1]) /\ h[2] = Joined(quads, h[2 - 1], T[2])
    BY <1>3, <2>1, Zenon DEF Solves
  <2>3. QED
    BY <2>1, <2>2
<1>5. QED
  BY <1>1, <1>2, <1>3, <1>4

LEMMA SolutionsOfThree ==
  ASSUME NEW quads, NEW a, NEW b, NEW c
  PROVE  Solutions(quads, <<a, b, c>>) =
           Joined(quads, Joined(quads, Joined(quads, {<<>>}, a), b), c)
<1>1. PICK T, n : T = <<a, b, c>> /\ n = 3
  OBVIOUS
<1>2. DOMAIN T = 1 .. n /\ n \in Nat /\ T[1] = a /\ T[2] = b /\ T[3] = c
  BY <1>1
<1>3. PICK h : Solves(h, quads, T, n) /\ Solutions(quads, T) = h[n]
  BY <1>2, SolutionsByPattern
<1>4. /\ h[0] = {<<>>} /\ h[1] = Joined(quads, h[0], T[1])
      /\ h[2] = Joined(quads, h[1], T[2]) /\ h[3] = Joined(quads, h[2], T[3])
  <2>1. 1 \in 1 .. n /\ 2 \in 1 .. n /\ 3 \in 1 .. n /\ 1 - 1 = 0 /\ 2 - 1 = 1 /\ 3 - 1 = 2
    BY <1>1
  <2>2. /\ h[0] = {<<>>} /\ h[1] = Joined(quads, h[1 - 1], T[1])
        /\ h[2] = Joined(quads, h[2 - 1], T[2]) /\ h[3] = Joined(quads, h[3 - 1], T[3])
    BY <1>3, <2>1, Zenon DEF Solves
  <2>3. QED
    BY <2>1, <2>2
<1>5. QED
  BY <1>1, <1>2, <1>3, <1>4

LEMMA SolutionsOfFive ==
  ASSUME NEW quads, NEW a, NEW b, NEW c, NEW d, NEW e
  PROVE  Solutions(quads, <<a, b, c, d, e>>) =
           Joined(quads, Joined(quads, Solutions(quads, <<a, b, c>>), d), e)
<1>1. PICK T, n : T = <<a, b, c, d, e>> /\ n = 5
  OBVIOUS
<1>2. DOMAIN T = 1 .. n /\ n \in Nat /\ T[1] = a /\ T[2] = b /\ T[3] = c /\ T[4] = d /\ T[5] = e
  BY <1>1
<1>3. PICK h : Solves(h, quads, T, n) /\ Solutions(quads, T) = h[n]
  BY <1>2, SolutionsByPattern
<1>4. /\ h[0] = {<<>>} /\ h[1] = Joined(quads, h[0], T[1])
      /\ h[2] = Joined(quads, h[1], T[2]) /\ h[3] = Joined(quads, h[2], T[3])
      /\ h[4] = Joined(quads, h[3], T[4]) /\ h[5] = Joined(quads, h[4], T[5])
  <2>1. /\ {1, 2, 3, 4, 5} \subseteq 1 .. n
        /\ 1 - 1 = 0 /\ 2 - 1 = 1 /\ 3 - 1 = 2 /\ 4 - 1 = 3 /\ 5 - 1 = 4
    BY <1>1
  <2>2. h[0] = {<<>>} /\ \A k \in {1, 2, 3, 4, 5} : h[k] = Joined(quads, h[k - 1], T[k])
    BY <1>3, <2>1, Zenon DEF Solves
  <2>3. /\ h[1] = Joined(quads, h[1 - 1], T[1]) /\ h[2] = Joined(quads, h[2 - 1], T[2])
        /\ h[3] = Joined(quads, h[3 - 1], T[3]) /\ h[4] = Joined(quads, h[4 - 1], T[4])
        /\ h[5] = Joined(quads, h[5 - 1], T[5])
    BY <2>2, Zenon
  <2>4. QED
    BY <2>1, <2>2, <2>3
<1>5. h[3] = Solutions(quads, <<a, b, c>>)
  BY <1>2, <1>4, SolutionsOfThree
<1>6. QED
  BY <1>1, <1>2, <1>3, <1>4, <1>5

\* A branch with one pattern.
LEMMA ColumnOfSelects ==
  ASSUME NEW quads, NEW p, p \notin Vars, NEW o, o \notin Vars
  PROVE  Column(quads, Selects(p, o)) = Saying(quads, KM(p), KM(o))
<1>1. PICK v, S, Z : /\ v = "?s" /\ S = Saying(quads, KM(p), KM(o))
                     /\ Z = Solutions(quads, <<<<"?s", p, o>>>>)
  OBVIOUS
<1>2. v \in Vars
  BY <1>1 DEF Vars
<1>3. Z = Ones(v, S)
  BY <1>1, <1>2, SolutionsOfOne, StarFirst
<1>4. Column(quads, Selects(p, o)) = ValuesAt(v, Z)
  BY <1>1 DEF ValuesAt, Column, Selects, Select
<1>5. QED
  BY <1>1, <1>3, <1>4, OneColumn

\* Branches with two and three patterns about one subject.
LEMMA ColumnOfTwo ==
  ASSUME NEW quads, NEW v \in Vars, NEW p1, NEW p2, NEW o1, NEW o2,
         {p1, p2, o1, o2} \intersect Vars = {}
  PROVE  Column(quads, Select(<<v>>, <<<<v, p1, o1>>, <<v, p2, o2>>>>)) =
           Saying(quads, KM(p1), KM(o1)) \intersect Saying(quads, KM(p2), KM(o2))
<1>1. PICK S, T, Z : /\ S = Saying(quads, KM(p1), KM(o1)) /\ T = Saying(quads, KM(p2), KM(o2))
                     /\ Z = Solutions(quads, <<<<v, p1, o1>>, <<v, p2, o2>>>>)
  OBVIOUS
<1>2. p1 \notin Vars /\ p2 \notin Vars /\ o1 \notin Vars /\ o2 \notin Vars
  OBVIOUS
<1>3. Joined(quads, {<<>>}, <<v, p1, o1>>) = Ones(v, S)
  BY <1>1, <1>2, StarFirst
<1>4. Z = Ones(v, S \intersect T)
  BY <1>1, <1>2, <1>3, SolutionsOfTwo, StarNext
<1>5. Column(quads, Select(<<v>>, <<<<v, p1, o1>>, <<v, p2, o2>>>>)) = ValuesAt(v, Z)
  BY <1>1 DEF ValuesAt, Column, Select
<1>6. QED
  BY <1>1, <1>4, <1>5, OneColumn

LEMMA StarOfThree ==
  ASSUME NEW quads, NEW v \in Vars, NEW p1, NEW p2, NEW p3, NEW o1, NEW o2, NEW o3,
         {p1, p2, p3, o1, o2, o3} \intersect Vars = {}
  PROVE  Solutions(quads, <<<<v, p1, o1>>, <<v, p2, o2>>, <<v, p3, o3>>>>) =
           Ones(v, (Saying(quads, KM(p1), KM(o1)) \intersect Saying(quads, KM(p2), KM(o2)))
                     \intersect Saying(quads, KM(p3), KM(o3)))
<1>1. PICK S, T, R, Z : /\ S = Saying(quads, KM(p1), KM(o1)) /\ T = Saying(quads, KM(p2), KM(o2))
                        /\ R = Saying(quads, KM(p3), KM(o3))
                        /\ Z = Solutions(quads, <<<<v, p1, o1>>, <<v, p2, o2>>, <<v, p3, o3>>>>)
  OBVIOUS
<1>2. /\ p1 \notin Vars /\ p2 \notin Vars /\ p3 \notin Vars
      /\ o1 \notin Vars /\ o2 \notin Vars /\ o3 \notin Vars
  OBVIOUS
<1>3. Joined(quads, {<<>>}, <<v, p1, o1>>) = Ones(v, S)
  BY <1>1, <1>2, StarFirst
<1>4. Joined(quads, Ones(v, S), <<v, p2, o2>>) = Ones(v, S \intersect T)
  BY <1>1, <1>2, StarNext
<1>5. PICK U : U = S \intersect T
  OBVIOUS
<1>6. Joined(quads, Ones(v, U), <<v, p3, o3>>) = Ones(v, U \intersect R)
  BY <1>1, <1>2, StarNext
<1>7. Z = Ones(v, U \intersect R)
  BY <1>1, <1>3, <1>4, <1>5, <1>6, SolutionsOfThree
<1>8. QED
  BY <1>1, <1>5, <1>7

LEMMA ColumnOfThree ==
  ASSUME NEW quads, NEW v \in Vars, NEW p1, NEW p2, NEW p3, NEW o1, NEW o2, NEW o3,
         {p1, p2, p3, o1, o2, o3} \intersect Vars = {}
  PROVE  Column(quads, Select(<<v>>, <<<<v, p1, o1>>, <<v, p2, o2>>, <<v, p3, o3>>>>)) =
           (Saying(quads, KM(p1), KM(o1)) \intersect Saying(quads, KM(p2), KM(o2)))
             \intersect Saying(quads, KM(p3), KM(o3))
<1>1. PICK S, Z : /\ S = (Saying(quads, KM(p1), KM(o1)) \intersect Saying(quads, KM(p2), KM(o2)))
                          \intersect Saying(quads, KM(p3), KM(o3))
                  /\ Z = Solutions(quads, <<<<v, p1, o1>>, <<v, p2, o2>>, <<v, p3, o3>>>>)
  OBVIOUS
<1>2. Z = Ones(v, S)
  BY <1>1, StarOfThree
<1>3. Column(quads, Select(<<v>>, <<<<v, p1, o1>>, <<v, p2, o2>>, <<v, p3, o3>>>>))
        = ValuesAt(v, Z)
  BY <1>1 DEF ValuesAt, Column, Select
<1>4. QED
  BY <1>1, <1>2, <1>3, OneColumn

\* A binding and one variable more.
LEMMA BindMore ==
  ASSUME NEW b, NEW x \in Vars, NEW k
  PROVE  /\ DOMAIN Bind(b, x, k) = DOMAIN b \union {x} /\ x \in DOMAIN Bind(b, x, k)
         /\ Bind(b, x, k)[x] = k
         /\ DOMAIN b \subseteq Vars => IsBinding(Bind(b, x, k))
BY DEF Bind, IsBinding

LEMMA BindKeeps ==
  ASSUME NEW b, NEW x \in Vars, NEW k, NEW y \in DOMAIN b, y # x
  PROVE  Bind(b, x, k)[y] = b[y]
BY DEF Bind

\* The last two variables bound.
LEMMA BindTwo ==
  ASSUME NEW a, NEW x \in Vars, NEW y \in Vars, x # y, NEW i, NEW j
  PROVE  Bind(Bind(a, x, i), y, j)[x] = i /\ Bind(Bind(a, x, i), y, j)[y] = j
<1>1. x \in DOMAIN Bind(a, x, i) /\ Bind(a, x, i)[x] = i
  BY BindMore, Zenon
<1>2. Bind(Bind(a, x, i), y, j)[x] = Bind(a, x, i)[x]
  BY <1>1, BindKeeps, Zenon
<1>3. Bind(Bind(a, x, i), y, j)[y] = j
  BY BindMore, Zenon
<1>4. QED
  BY <1>1, <1>2, <1>3

\* One pattern more about the subject, with a new variable.
LEMMA ObjectsNext ==
  ASSUME NEW quads, NEW v \in Vars, NEW w \in Vars, v # w, NEW p, p \notin Vars,
         NEW S
  PROVE  \A x : x \in Joined(quads, Ones(v, S), <<v, p, w>>)
           <=> \E s \in S : \E k \in Said(quads, s, KM(p)) : x = Bind(One(v, s), w, k)
<1>1. PICK X, bs : X = Joined(quads, bs, <<v, p, w>>) /\ bs = Ones(v, S)
  OBVIOUS
<1>2. ASSUME NEW s
      PROVE  Match(quads, One(v, s), <<v, p, w>>)
               = {Bind(One(v, s), w, k) : k \in Said(quads, s, KM(p))}
  <2>1. PICK b : b = One(v, s)
    OBVIOUS
  <2>2. DOMAIN b = {v} /\ b[v] = s /\ IsBinding(b)
    BY <2>1 DEF One, IsBinding
  <2>3. QED
    BY <2>1, <2>2, MatchObjects
<1>3. X = UNION {Match(quads, b, <<v, p, w>>) : b \in bs}
  BY <1>1 DEF Joined
<1>4. \A x : x \in X <=> \E s \in S : x \in Match(quads, One(v, s), <<v, p, w>>)
  BY <1>1, <1>3 DEF Ones
<1>5. QED
  BY <1>1, <1>2, <1>4

\* Two patterns more, with a variable each, behind a star of three.
LEMMA SolutionsOfActivity ==
  ASSUME NEW quads, NEW v \in Vars, NEW p1, NEW p2, NEW p3, NEW o1, NEW o2, NEW o3,
         {p1, p2, p3, o1, o2, o3} \intersect Vars = {},
         NEW p4, p4 \notin Vars, NEW p5, p5 \notin Vars, NEW x \in Vars, NEW y \in Vars,
         v # x, v # y, x # y, NEW z, NEW S,
         S = (Saying(quads, KM(p1), KM(o1)) \intersect Saying(quads, KM(p2), KM(o2)))
               \intersect Saying(quads, KM(p3), KM(o3))
  PROVE  z \in Solutions(quads, <<<<v, p1, o1>>, <<v, p2, o2>>, <<v, p3, o3>>,
                                  <<v, p4, x>>, <<v, p5, y>>>>)
           <=> \E s \in S : \E k \in Said(quads, s, KM(p4)) : \E l \in Said(quads, s, KM(p5)) :
                 z = Bind(Bind(One(v, s), x, k), y, l)
<1>1. PICK star, four, all :
        /\ star = Solutions(quads, <<<<v, p1, o1>>, <<v, p2, o2>>, <<v, p3, o3>>>>)
        /\ four = Joined(quads, star, <<v, p4, x>>)
        /\ all = Joined(quads, four, <<v, p5, y>>)
  OBVIOUS
<1>2. star = Ones(v, S)
  BY <1>1, StarOfThree
<1>3. \A b : b \in four
               <=> \E s \in S : \E k \in Said(quads, s, KM(p4)) : b = Bind(One(v, s), x, k)
  <2>1. \A b : b \in Joined(quads, Ones(v, S), <<v, p4, x>>)
                 <=> \E s \in S : \E k \in Said(quads, s, KM(p4)) : b = Bind(One(v, s), x, k)
    BY ObjectsNext
  <2>2. QED
    BY <1>1, <1>2, <2>1
<1>4. ASSUME NEW s, NEW k
      PROVE  Match(quads, Bind(One(v, s), x, k), <<v, p5, y>>)
               = {Bind(Bind(One(v, s), x, k), y, l) : l \in Said(quads, s, KM(p5))}
  <2>1. PICK a, b : a = One(v, s) /\ b = Bind(a, x, k)
    OBVIOUS
  <2>2. DOMAIN a = {v} /\ a[v] = s
    BY <2>1 DEF One
  <2>3. DOMAIN b = DOMAIN a \union {x} /\ IsBinding(b)
    <3>1. DOMAIN a \subseteq Vars
      BY <2>2
    <3>2. QED
      BY <2>1, <3>1, BindMore, Zenon
  <2>4. v \in DOMAIN a
    BY <2>2
  <2>5. b[v] = a[v]
    BY <2>1, <2>4, BindKeeps, Zenon
  <2>6. QED
    BY <2>1, <2>2, <2>3, <2>5, MatchObjects
<1>5. all = UNION {Match(quads, b, <<v, p5, y>>) : b \in four}
  BY <1>1 DEF Joined
<1>6. z \in all <=> \E b \in four : z \in Match(quads, b, <<v, p5, y>>)
  BY <1>5
<1>7. z \in all <=> \E s \in S : \E k \in Said(quads, s, KM(p4)) :
                      z \in Match(quads, Bind(One(v, s), x, k), <<v, p5, y>>)
  BY <1>3, <1>6
<1>8. z \in all <=> \E s \in S : \E k \in Said(quads, s, KM(p4)) : \E l \in Said(quads, s, KM(p5)) :
                      z = Bind(Bind(One(v, s), x, k), y, l)
  BY <1>4, <1>7
<1>9. QED
  BY <1>1, <1>8, SolutionsOfFive

\* Two patterns more, with one variable for both.
LEMMA SolutionsOfJoin ==
  ASSUME NEW quads, NEW v \in Vars, NEW p1, NEW p2, NEW p3, NEW o1, NEW o2, NEW o3,
         {p1, p2, p3, o1, o2, o3} \intersect Vars = {},
         NEW p4, p4 \notin Vars, NEW p5, p5 \notin Vars, NEW x \in Vars, v # x, NEW z, NEW S,
         S = (Saying(quads, KM(p1), KM(o1)) \intersect Saying(quads, KM(p2), KM(o2)))
               \intersect Saying(quads, KM(p3), KM(o3))
  PROVE  z \in Solutions(quads, <<<<v, p1, o1>>, <<v, p2, o2>>, <<v, p3, o3>>,
                                  <<v, p4, x>>, <<v, p5, x>>>>)
           <=> \E s \in S : \E k \in Said(quads, s, KM(p4)) :
                 k \in Said(quads, s, KM(p5)) /\ z = Bind(One(v, s), x, k)
<1>1. PICK star, four, all :
        /\ star = Solutions(quads, <<<<v, p1, o1>>, <<v, p2, o2>>, <<v, p3, o3>>>>)
        /\ four = Joined(quads, star, <<v, p4, x>>)
        /\ all = Joined(quads, four, <<v, p5, x>>)
  OBVIOUS
<1>2. star = Ones(v, S)
  BY <1>1, StarOfThree
<1>3. \A b : b \in four
               <=> \E s \in S : \E k \in Said(quads, s, KM(p4)) : b = Bind(One(v, s), x, k)
  <2>1. \A b : b \in Joined(quads, Ones(v, S), <<v, p4, x>>)
                 <=> \E s \in S : \E k \in Said(quads, s, KM(p4)) : b = Bind(One(v, s), x, k)
    BY ObjectsNext
  <2>2. QED
    BY <1>1, <1>2, <2>1
<1>4. ASSUME NEW s, NEW k
      PROVE  z \in Match(quads, Bind(One(v, s), x, k), <<v, p5, x>>)
               <=> k \in Said(quads, s, KM(p5)) /\ z = Bind(One(v, s), x, k)
  <2>1. PICK a, b : a = One(v, s) /\ b = Bind(a, x, k)
    OBVIOUS
  <2>2. DOMAIN a = {v} /\ a[v] = s
    BY <2>1 DEF One
  <2>3. DOMAIN b = DOMAIN a \union {x} /\ b[x] = k /\ IsBinding(b)
    <3>1. DOMAIN a \subseteq Vars
      BY <2>2
    <3>2. DOMAIN b = DOMAIN a \union {x} /\ IsBinding(b)
      BY <2>1, <3>1, BindMore, Zenon
    <3>3. b[x] = k
      BY <2>1, BindMore, Zenon
    <3>4. QED
      BY <3>2, <3>3
  <2>4. x \in DOMAIN b /\ v \in DOMAIN b /\ b[v] = a[v]
    <3>1. v \in DOMAIN a
      BY <2>2
    <3>2. b[v] = a[v]
      BY <2>1, <3>1, BindKeeps, Zenon
    <3>3. QED
      BY <2>2, <2>3, <3>2
  <2>5. Match(quads, b, <<v, p5, x>>) = {w \in {b} : b[x] \in Said(quads, b[v], KM(p5))}
    BY <2>3, <2>4, MatchBoth
  <2>6. QED
    BY <2>1, <2>2, <2>3, <2>4, <2>5
<1>5. all = UNION {Match(quads, b, <<v, p5, x>>) : b \in four}
  BY <1>1 DEF Joined
<1>6. z \in all <=> \E b \in four : z \in Match(quads, b, <<v, p5, x>>)
  BY <1>5
<1>7. z \in all <=> \E s \in S : \E k \in Said(quads, s, KM(p4)) :
                      z \in Match(quads, Bind(One(v, s), x, k), <<v, p5, x>>)
  BY <1>3, <1>6
<1>8. z \in all <=> \E s \in S : \E k \in Said(quads, s, KM(p4)) :
                      k \in Said(quads, s, KM(p5)) /\ z = Bind(One(v, s), x, k)
  BY <1>4, <1>7
<1>9. QED
  BY <1>1, <1>8, SolutionsOfFive

\* The subjects of the activity, and what either variable may be.
Acting(quads) ==
  (Saying(quads, KM("SoftwareAgent"), KM("imagination"))
     \intersect Saying(quads, KM("activity"), KM("Activity1123")))
     \intersect Saying(quads, KM("atLocation"), KM("Fribourg"))
Generated(quads, s) == Said(quads, s, KM("generated"))
Associated(quads, s) == Said(quads, s, KM("wasAssociatedWith"))

LEMMA ColumnsOfActivity ==
  ASSUME NEW quads, NEW k
  PROVE  /\ k \in Column(quads, ActivityHas("?s", "?d"))
              <=> \E s \in Acting(quads) : k \in Generated(quads, s) /\ Associated(quads, s) # {}
         /\ k \in Column(quads, ActivityHas("?d", "?s"))
              <=> \E s \in Acting(quads) : Generated(quads, s) # {} /\ k \in Associated(quads, s)
<1>1. /\ "?a" \in Vars /\ "?s" \in Vars /\ "?d" \in Vars
      /\ "?a" # "?s" /\ "?a" # "?d" /\ "?s" # "?d" /\ "?d" # "?s"
  BY DEF Vars
<1>2. {"SoftwareAgent", "activity", "atLocation", "imagination", "Activity1123", "Fribourg"}
        \intersect Vars = {}
      /\ "generated" \notin Vars /\ "wasAssociatedWith" \notin Vars
  BY DEF Vars
<1> DEFINE Binding(s, x, i, y, j) == Bind(Bind(One("?a", s), x, i), y, j)
<1>3. ASSUME NEW x \in {"?s", "?d"}, NEW y \in {"?s", "?d"}, x # y, NEW s, NEW i, NEW j
      PROVE  Binding(s, x, i, y, j)[x] = i /\ Binding(s, x, i, y, j)[y] = j
  BY <1>1, <1>3, BindTwo
<1>4. ASSUME NEW x \in {"?s", "?d"}, NEW y \in {"?s", "?d"}, x # y, NEW z
      PROVE  z \in Solutions(quads, ActivityHas(x, y).patterns)
               <=> \E s \in Acting(quads) : \E i \in Generated(quads, s) :
                     \E j \in Associated(quads, s) : z = Binding(s, x, i, y, j)
  <2>1. PICK S : S = Acting(quads)
    OBVIOUS
  <2>2. S = (Saying(quads, KM("SoftwareAgent"), KM("imagination"))
               \intersect Saying(quads, KM("activity"), KM("Activity1123")))
               \intersect Saying(quads, KM("atLocation"), KM("Fribourg"))
    BY <2>1 DEF Acting
  <2>3. z \in Solutions(quads, <<<<"?a", "SoftwareAgent", "imagination">>,
                                 <<"?a", "activity", "Activity1123">>,
                                 <<"?a", "atLocation", "Fribourg">>,
                                 <<"?a", "generated", x>>, <<"?a", "wasAssociatedWith", y>>>>)
          <=> \E s \in S : \E i \in Said(quads, s, KM("generated")) :
                \E j \in Said(quads, s, KM("wasAssociatedWith")) :
                  z = Bind(Bind(One("?a", s), x, i), y, j)
    BY <1>1, <1>2, <1>4, <2>2, SolutionsOfActivity
  <2>4. ActivityHas(x, y).patterns =
          <<<<"?a", "SoftwareAgent", "imagination">>, <<"?a", "activity", "Activity1123">>,
            <<"?a", "atLocation", "Fribourg">>, <<"?a", "generated", x>>,
            <<"?a", "wasAssociatedWith", y>>>>
    BY DEF ActivityHas, Select, About
  <2>5. QED
    BY <2>1, <2>3, <2>4 DEF Generated, Associated
<1>5. \A x, y : k \in Column(quads, ActivityHas(x, y))
                  <=> \E z \in Solutions(quads, ActivityHas(x, y).patterns) : k = z["?s"]
  BY DEF Column, ActivityHas, Select
<1> HIDE DEF Binding
<1>6. k \in Column(quads, ActivityHas("?s", "?d"))
        <=> \E s \in Acting(quads) : k \in Generated(quads, s) /\ Associated(quads, s) # {}
  <2>1. \A s, i, j : Binding(s, "?s", i, "?d", j)["?s"] = i
    BY <1>1, <1>3
  <2>2. \A z : z \in Solutions(quads, ActivityHas("?s", "?d").patterns)
               <=> \E s \in Acting(quads) : \E i \in Generated(quads, s) :
                     \E j \in Associated(quads, s) : z = Binding(s, "?s", i, "?d", j)
    BY <1>1, <1>4
  <2>3. k \in Column(quads, ActivityHas("?s", "?d"))
          <=> \E s \in Acting(quads) : \E i \in Generated(quads, s) :
                \E j \in Associated(quads, s) : k = i
    <3>1. ASSUME NEW z \in Solutions(quads, ActivityHas("?s", "?d").patterns), k = z["?s"]
          PROVE  \E s \in Acting(quads) : \E i \in Generated(quads, s) :
                   \E j \in Associated(quads, s) : k = i
      BY <2>1, <2>2, <3>1
    <3>2. ASSUME NEW s \in Acting(quads), NEW i \in Generated(quads, s),
                 NEW j \in Associated(quads, s), k = i
          PROVE  \E z \in Solutions(quads, ActivityHas("?s", "?d").patterns) : k = z["?s"]
      <4>1. Binding(s, "?s", i, "?d", j) \in Solutions(quads, ActivityHas("?s", "?d").patterns)
        BY <2>2
      <4>2. QED
        BY <2>1, <3>2, <4>1
    <3>3. QED
      BY <1>5, <3>1, <3>2
  <2>4. QED
    BY <2>3
<1>7. k \in Column(quads, ActivityHas("?d", "?s"))
        <=> \E s \in Acting(quads) : Generated(quads, s) # {} /\ k \in Associated(quads, s)
  <2>1. \A s, i, j : Binding(s, "?d", i, "?s", j)["?s"] = j
    BY <1>1, <1>3
  <2>2. \A z : z \in Solutions(quads, ActivityHas("?d", "?s").patterns)
               <=> \E s \in Acting(quads) : \E i \in Generated(quads, s) :
                     \E j \in Associated(quads, s) : z = Binding(s, "?d", i, "?s", j)
    BY <1>1, <1>4
  <2>3. k \in Column(quads, ActivityHas("?d", "?s"))
          <=> \E s \in Acting(quads) : \E i \in Generated(quads, s) :
                \E j \in Associated(quads, s) : k = j
    <3>1. ASSUME NEW z \in Solutions(quads, ActivityHas("?d", "?s").patterns), k = z["?s"]
          PROVE  \E s \in Acting(quads) : \E i \in Generated(quads, s) :
                   \E j \in Associated(quads, s) : k = j
      BY <2>1, <2>2, <3>1
    <3>2. ASSUME NEW s \in Acting(quads), NEW i \in Generated(quads, s),
                 NEW j \in Associated(quads, s), k = j
          PROVE  \E z \in Solutions(quads, ActivityHas("?d", "?s").patterns) : k = z["?s"]
      <4>1. Binding(s, "?d", i, "?s", j) \in Solutions(quads, ActivityHas("?d", "?s").patterns)
        BY <2>2
      <4>2. QED
        BY <2>1, <3>2, <4>1
    <3>3. QED
      BY <1>5, <3>1, <3>2
  <2>4. QED
    BY <2>3
<1>8. QED
  BY <1>6, <1>7

\* The branch as the comments have it, with one variable.
LEMMA ColumnOfBoth ==
  ASSUME NEW quads, NEW k
  PROVE  k \in Column(quads, ActivityHas("?s", "?s"))
           <=> \E s \in Acting(quads) : k \in Generated(quads, s) /\ k \in Associated(quads, s)
<1>1. "?a" \in Vars /\ "?s" \in Vars /\ "?a" # "?s"
  BY DEF Vars
<1>2. {"SoftwareAgent", "activity", "atLocation", "imagination", "Activity1123", "Fribourg"}
        \intersect Vars = {}
      /\ "generated" \notin Vars /\ "wasAssociatedWith" \notin Vars
  BY DEF Vars
<1>3. ASSUME NEW z
      PROVE  z \in Solutions(quads, ActivityHas("?s", "?s").patterns)
               <=> \E s \in Acting(quads) : \E i \in Generated(quads, s) :
                     i \in Associated(quads, s) /\ z = Bind(One("?a", s), "?s", i)
  <2>1. PICK S : S = Acting(quads)
    OBVIOUS
  <2>2. S = (Saying(quads, KM("SoftwareAgent"), KM("imagination"))
               \intersect Saying(quads, KM("activity"), KM("Activity1123")))
               \intersect Saying(quads, KM("atLocation"), KM("Fribourg"))
    BY <2>1 DEF Acting
  <2>3. z \in Solutions(quads, <<<<"?a", "SoftwareAgent", "imagination">>,
                                 <<"?a", "activity", "Activity1123">>,
                                 <<"?a", "atLocation", "Fribourg">>,
                                 <<"?a", "generated", "?s">>,
                                 <<"?a", "wasAssociatedWith", "?s">>>>)
          <=> \E s \in S : \E i \in Said(quads, s, KM("generated")) :
                i \in Said(quads, s, KM("wasAssociatedWith"))
                  /\ z = Bind(One("?a", s), "?s", i)
    BY <1>1, <1>2, <2>2, SolutionsOfJoin
  <2>4. ActivityHas("?s", "?s").patterns =
          <<<<"?a", "SoftwareAgent", "imagination">>, <<"?a", "activity", "Activity1123">>,
            <<"?a", "atLocation", "Fribourg">>, <<"?a", "generated", "?s">>,
            <<"?a", "wasAssociatedWith", "?s">>>>
    BY DEF ActivityHas, Select, About
  <2>5. QED
    BY <2>1, <2>3, <2>4 DEF Generated, Associated
<1>4. k \in Column(quads, ActivityHas("?s", "?s"))
        <=> \E z \in Solutions(quads, ActivityHas("?s", "?s").patterns) : k = z["?s"]
  BY DEF Column, ActivityHas, Select
<1>5. \A s, i : Bind(One("?a", s), "?s", i)["?s"] = i
  BY <1>1, BindMore, Zenon
<1>6. QED
  BY <1>3, <1>4, <1>5

\* The branch of the fifth WDC block: the object of one pattern is the subject
\* of another.
LEMMA ColumnOfContainers ==
  ASSUME NEW quads, NEW k
  PROVE  k \in Column(quads, Select(<<"?s">>, <<About("has_creator", "node"),
                                               About("has_container", "?s"),
                                               <<"?s", "prefLabel", "Announcements">>>>))
           <=> /\ \E s \in Saying(quads, KM("has_creator"), KM("node")) :
                    k \in Said(quads, s, KM("has_container"))
               /\ k \in Saying(quads, KM("prefLabel"), KM("Announcements"))
<1>1. PICK S, T, one, two, all :
        /\ S = Saying(quads, KM("has_creator"), KM("node"))
        /\ T = Saying(quads, KM("prefLabel"), KM("Announcements"))
        /\ one = Joined(quads, {<<>>}, <<"?a", "has_creator", "node">>)
        /\ two = Joined(quads, one, <<"?a", "has_container", "?s">>)
        /\ all = Joined(quads, two, <<"?s", "prefLabel", "Announcements">>)
  OBVIOUS
<1>2. /\ "?a" \in Vars /\ "?s" \in Vars /\ "?a" # "?s"
      /\ "has_creator" \notin Vars /\ "node" \notin Vars /\ "has_container" \notin Vars
      /\ "prefLabel" \notin Vars /\ "Announcements" \notin Vars
  BY DEF Vars
<1>3. one = Ones("?a", S)
  BY <1>1, <1>2, StarFirst
<1>4. \A b : b \in two <=> \E s \in S : \E i \in Said(quads, s, KM("has_container")) :
                             b = Bind(One("?a", s), "?s", i)
  BY <1>1, <1>2, <1>3, ObjectsNext
<1>5. ASSUME NEW s, NEW i
      PROVE  /\ Match(quads, Bind(One("?a", s), "?s", i), <<"?s", "prefLabel", "Announcements">>)
                  = {x \in {Bind(One("?a", s), "?s", i)} : i \in T}
             /\ Bind(One("?a", s), "?s", i)["?s"] = i
  <2>1. PICK b : b = Bind(One("?a", s), "?s", i)
    OBVIOUS
  <2>2. "?s" \in DOMAIN b /\ b["?s"] = i /\ IsBinding(b)
    <3>1. PICK a : a = One("?a", s)
      OBVIOUS
    <3>2. DOMAIN a = {"?a"}
      BY <3>1 DEF One
    <3>3. DOMAIN a \subseteq Vars
      BY <1>2, <3>2
    <3>4. b = Bind(a, "?s", i)
      BY <2>1, <3>1
    <3>5. "?s" \in DOMAIN b /\ b["?s"] = i
      BY <1>2, <3>4, BindMore, Zenon
    <3>6. DOMAIN a \subseteq Vars => IsBinding(b)
      BY <1>2, <3>4, BindMore, Zenon
    <3>7. QED
      BY <3>3, <3>5, <3>6
  <2>3. QED
    BY <1>1, <1>2, <2>1, <2>2, MatchBound
<1>6. all = UNION {Match(quads, b, <<"?s", "prefLabel", "Announcements">>) : b \in two}
  BY <1>1 DEF Joined
<1>7. \A b : b \in all <=> \E c \in two : b \in Match(quads, c, <<"?s", "prefLabel", "Announcements">>)
  BY <1>6
<1>8. \A b : b \in all <=> \E s \in S : \E i \in Said(quads, s, KM("has_container")) :
                             b = Bind(One("?a", s), "?s", i) /\ i \in T
  BY <1>4, <1>5, <1>7
<1>9. all = Solutions(quads, <<<<"?a", "has_creator", "node">>, <<"?a", "has_container", "?s">>,
                               <<"?s", "prefLabel", "Announcements">>>>)
  BY <1>1, SolutionsOfThree
<1>10. k \in Column(quads, Select(<<"?s">>, <<About("has_creator", "node"),
                                              About("has_container", "?s"),
                                              <<"?s", "prefLabel", "Announcements">>>>))
         <=> \E b \in all : k = b["?s"]
  BY <1>9 DEF Column, Select, About
<1>11. (\E b \in all : k = b["?s"])
         <=> (\E s \in S : k \in Said(quads, s, KM("has_container"))) /\ k \in T
  BY <1>5, <1>8
<1>12. QED
  BY <1>1, <1>10, <1>11
------------------------------------------------------------------------------
(***************************************************************************)
(* What the blocks get from the store.                                     *)
(***************************************************************************)

\* A constraint with an object is matched by the molecules that say so.
LEMMA ConstraintSaying ==
  ASSUME StoreInv, NEW c, c.predicate # Wild, c.object # Wild, NEW s \in KEY_ID
  PROVE  ConstraintProv(s, c, FALSE, {}) # {} <=> s \in Saying(StoredQuads, c.predicate, c.object)
<1>1. ConstraintProv(s, c, FALSE, {})
        = {q.prov : q \in MatchingQuads(s, c.predicate, c.object, FALSE, {})}
  BY ConstraintQuads
<1>2. MatchingQuads(s, c.predicate, c.object, FALSE, {})
        = {q \in StoredQuads : q.subject = s /\ q.predicate = c.predicate /\ q.object = c.object}
  BY DEF MatchingQuads
<1>3. QED
  BY <1>1, <1>2 DEF Saying

\* GetSubjects finds the subjects of a predicate and an object.
LEMMA SubjectsOfQuads ==
  ASSUME StoreInv, NEW p, NEW o
  PROVE  SubjectsOf(p, o) = Saying(StoredQuads, KM(p), KM(o))
<1>1. PICK c : c = [predicate |-> KM(p), object |-> KM(o)]
  OBVIOUS
<1>2. c.predicate = KM(p) /\ c.object = KM(o) /\ c.predicate # Wild /\ c.object # Wild
  BY <1>1, WordType
<1>3. \A s : SubjectProv(s, c.object, c.predicate, FALSE, {}) = ConstraintProv(s, c, FALSE, {})
  BY <1>2 DEF SubjectProv, ConstraintProv
<1>4. SubjectsOf(p, o) = {s \in GetMoleculesFromInvertedIdx(c.object) :
                            ConstraintProv(s, c, FALSE, {}) # {}}
  BY <1>2, <1>3 DEF SubjectsOf, GetSubjects
<1>5. \A s \in KEY_ID : ConstraintProv(s, c, FALSE, {}) # {}
                          <=> s \in Saying(StoredQuads, c.predicate, c.object)
  BY <1>2, ConstraintSaying
<1>6. \A s \in Saying(StoredQuads, c.predicate, c.object) : s \in GetMoleculesFromInvertedIdx(c.object)
  BY SubjectsAreFound DEF Saying
<1>7. QED
  BY <1>2, <1>4, <1>5, <1>6, IndexedType

\* A projection finds the objects of a subject and a predicate.
LEMMA ProjectedSaid ==
  ASSUME StoreInv, NEW p, p.predicate # Wild, NEW s \in KEY_ID
  PROVE  /\ ObjectsProjected(s, p, FALSE, {}) = Said(StoredQuads, s, p.predicate)
         /\ Projected(s, p, FALSE, {}) # {} <=> Said(StoredQuads, s, p.predicate) # {}
<1>1. ObjectsProjected(s, p, FALSE, {})
        = {q.object : q \in MatchingQuads(s, p.predicate, Wild, FALSE, {})}
  BY ProjectedQuads
<1>2. MatchingQuads(s, p.predicate, Wild, FALSE, {})
        = {q \in StoredQuads : q.subject = s /\ q.predicate = p.predicate}
  BY DEF MatchingQuads
<1>3. ObjectsProjected(s, p, FALSE, {}) = Said(StoredQuads, s, p.predicate)
  BY <1>1, <1>2 DEF Said
<1>4. Projected(s, p, FALSE, {}) # {} <=> ObjectsProjected(s, p, FALSE, {}) # {}
  BY DEF ObjectsProjected
<1>5. QED
  BY <1>3, <1>4

\* A pattern as the blocks write them: constraints with an object, nothing
\* optional, no subject.
PlainPattern(cs, ps) ==
  /\ cs # <<>> /\ 1 \in DOMAIN cs
  /\ \A i \in DOMAIN cs : /\ cs[i].subject = 0 /\ cs[i].prov = 0
                          /\ cs[i].predicate # Wild /\ cs[i].object # Wild
  /\ Len(ps) \in Nat /\ DOMAIN ps = 1 .. Len(ps)
  /\ \A i \in DOMAIN ps : ps[i].prov = 0 /\ ps[i].predicate # Wild

\* The subject matches all constraints and has a value for all projections.
Matching(s, cs, ps) ==
  /\ \A i \in DOMAIN cs : s \in Saying(StoredQuads, cs[i].predicate, cs[i].object)
  /\ \A i \in DOMAIN ps : Said(StoredQuads, s, ps[i].predicate) # {}

\* The values of its rows are the objects of such subjects.
LEMMA ValuesOfPattern ==
  ASSUME StoreInv, NEW cs, NEW ps, PlainPattern(cs, ps), NEW k
  PROVE  k \in Values(cs, ps)
           <=> \E s \in KEY_ID : /\ Matching(s, cs, ps)
                                 /\ \E i \in DOMAIN ps : k \in Said(StoredQuads, s, ps[i].predicate)
<1>1. PICK C, rows : C = Candidates(cs, ps) /\ rows = TriplePatern(cs, ps, FALSE, {})
  OBVIOUS
<1>2. C = GetMoleculesFromInvertedIdx(cs[1].object)
  BY <1>1 DEF Candidates, PlainPattern
<1>3. ASSUME NEW s \in KEY_ID
      PROVE  Answers(s, cs, ps, FALSE, {}) <=> Matching(s, cs, ps)
  <2>1. \A i \in DOMAIN cs : ConstraintProv(s, cs[i], FALSE, {}) # {}
                               <=> s \in Saying(StoredQuads, cs[i].predicate, cs[i].object)
    BY ConstraintSaying DEF PlainPattern
  <2>2. \A i \in DOMAIN ps : Projected(s, ps[i], FALSE, {}) # {}
                               <=> Said(StoredQuads, s, ps[i].predicate) # {}
    BY ProjectedSaid DEF PlainPattern
  <2>3. QED
    BY <2>1, <2>2 DEF Answers, Matching, PlainPattern
<1>4. \A s : s \in DOMAIN rows <=> s \in KEY_ID /\ Matching(s, cs, ps)
  <2>1. DOMAIN rows = {t \in C : Answers(t, cs, ps, FALSE, {})}
    BY <1>1 DEF TriplePatern
  <2>2. C \subseteq KEY_ID
    BY <1>2, IndexedType
  <2>3. ASSUME NEW s \in KEY_ID, Matching(s, cs, ps)
        PROVE  s \in C
    <3>1. s \in Saying(StoredQuads, cs[1].predicate, cs[1].object)
      BY <2>3 DEF Matching, PlainPattern
    <3>2. QED
      BY <1>2, <3>1, SubjectsAreFound DEF Saying
  <2>4. QED
    BY <1>3, <2>1, <2>2, <2>3
<1>5. ASSUME NEW s \in DOMAIN rows
      PROVE  k \in UNION Range(rows[s].results)
               <=> \E i \in DOMAIN ps : k \in Said(StoredQuads, s, ps[i].predicate)
  <2>1. s \in KEY_ID
    BY <1>4
  <2>2. PICK res : res = RowResults(s, ps, FALSE, {})
    OBVIOUS
  <2>3. rows[s].results = res
    BY <1>1, <2>2 DEF TriplePatern
  <2>4. /\ DOMAIN res = 1 .. (Len(ps) + 1)
        /\ \A i \in DOMAIN ps : i \in DOMAIN res /\ res[i] = ObjectsProjected(s, ps[i], FALSE, {})
        /\ \A i \in DOMAIN res : i \notin DOMAIN ps => res[i] = {}
    <3>1. PICK n : n = Len(ps)
      OBVIOUS
    <3>2. res = [i \in 1 .. (n + 1) |->
                   IF i \in DOMAIN ps THEN ObjectsProjected(s, ps[i], FALSE, {}) ELSE {}]
      BY <2>2, <3>1, Zenon DEF RowResults, ObjectsProjected
    <3>3. n \in Nat /\ DOMAIN ps = 1 .. n
      BY <3>1 DEF PlainPattern
    <3>4. PICK D : D = 1 .. (n + 1)
      OBVIOUS
    <3>5. DOMAIN ps \subseteq D
      BY <3>3, <3>4
    <3>6. DOMAIN res = D /\ \A i \in D : res[i] =
            IF i \in DOMAIN ps THEN ObjectsProjected(s, ps[i], FALSE, {}) ELSE {}
      BY <3>2, <3>4, Zenon
    <3>7. QED
      BY <3>1, <3>4, <3>5, <3>6, Zenon
  <2>5. \A i \in DOMAIN ps : res[i] = Said(StoredQuads, s, ps[i].predicate)
    BY <2>1, <2>4, ProjectedSaid DEF PlainPattern
  <2>6. k \in UNION Range(res) <=> \E i \in DOMAIN res : k \in res[i]
    BY DEF Range
  <2>7. QED
    BY <2>3, <2>4, <2>5, <2>6
<1>6. k \in Values(cs, ps) <=> \E s \in DOMAIN rows : k \in UNION Range(rows[s].results)
  BY <1>1 DEF Values, ValuesOf
<1>7. QED
  BY <1>4, <1>5, <1>6
------------------------------------------------------------------------------
(***************************************************************************)
(* Blocks and branches.                                                    *)
(***************************************************************************)

\* The branches of a block, by its number.
LEMMA BranchesOfBTC ==
  /\ Branches["BTC"][1] = {Selects("wikipediaArticle", "Eiffel-toring")}
  /\ Branches["BTC"][2] = {Selects("website", "www.w3.org"),
                           Selects("primaryTopic", "Tim_Berners-Lee")}
  /\ Branches["BTC"][3] = Activities
  /\ Branches["BTC"][4] =
       {Select(<<"?a">>, <<About("reference", "swr.de"), About("sterbedatum", "31._Marz"),
                           About("wikilink", "sinologist")>>),
        Selects("inCountry", "DE")}
  /\ Branches["BTC"][5] = {Selects("wasGeneratedBy", "mwylot.net")}
  /\ Branches["BTC"][6] = {Selects("sameAs", "2643576")}
BY DEF Branches

LEMMA BranchesOfWDC ==
  /\ Branches["WDC"][1] = {Selects("type", "company")}
  /\ Branches["WDC"][2] =
       {Select(<<"?s">>, <<<<"?s", "fbmladmins", "500386069">>, <<"?s", "og:url", "35-under-35">>>>)}
  /\ Branches["WDC"][3] =
       {Select(<<"?s">>, <<<<"?s", "email", "empty">>, <<"?s", "type", "Hotel">>,
                           <<"?s", "country-name", "United States">>>>)}
  /\ Branches["WDC"][4] = Activities
  /\ Branches["WDC"][5] =
       {Select(<<"?s">>, <<About("has_creator", "node"), About("has_container", "?s"),
                           <<"?s", "prefLabel", "Announcements">>>>)}
  /\ Branches["WDC"][6] =
       {Selects("og:url", "velika-krada"), Selects("fbmlapp_id", "274726392563373"),
        Selects("og:url", "milijun-dolara")}
BY DEF Branches

\* What a block selects, branch by branch.
LEMMA SelectedColumns ==
  ASSUME NEW i, NEW k
  PROVE  k \in Selected(i)
           <=> \/ (\E sel \in Branches[benchmark][i] : k \in Column(Stored, sel)) /\ TypeFits(i, k)
               \/ k \in Typed(i)
<1>1. PICK B : B = Branches[benchmark][i]
  OBVIOUS
<1>2. PICK sols : sols = UNION {Column(Stored, sel) : sel \in B}
  OBVIOUS
<1>3. Selected(i) = {x \in sols : TypeFits(i, x)} \union Typed(i)
  BY <1>1, <1>2, Zenon DEF Selected
<1>4. k \in sols <=> \E sel \in B : k \in Column(Stored, sel)
  BY <1>2
<1>5. QED
  BY <1>1, <1>3, <1>4

\* The branch behind one call of GetSubjects.
LEMMA SubjectsSelected ==
  ASSUME StoreInv, Stored = StoredQuads, NEW p, p \notin Vars, NEW o, o \notin Vars
  PROVE  SubjectsOf(p, o) = Column(Stored, Selects(p, o))
BY SubjectsOfQuads, ColumnOfSelects

\* What the block of the activity takes: its branch, the two branches added to
\* it, and what an activity has in one role only.
LEMMA ActivitySelected ==
  ASSUME StoreInv, Stored = StoredQuads, NEW k
  PROVE  k \in Activity <=> \/ \E sel \in Activities : k \in Column(Stored, sel)
                           \/ k \in Column(Stored, ActivityHas("?s", "?d"))
                           \/ k \in Column(Stored, ActivityHas("?d", "?s"))
<1>1. PICK cs, ps : /\ cs = <<Has("SoftwareAgent", "imagination"), Has("activity", "Activity1123"),
                              Has("atLocation", "Fribourg")>>
                    /\ ps = <<Wanted("generated"), Wanted("wasAssociatedWith")>>
  OBVIOUS
<1>2. PlainPattern(cs, ps)
  <2>1. \A w : KM(w) # Wild
    BY WordType
  <2>2. QED
    BY <1>1, <2>1 DEF PlainPattern, Has, Wanted, Says
<1>3. \A s : Matching(s, cs, ps)
               <=> /\ s \in Acting(StoredQuads)
                   /\ Generated(StoredQuads, s) # {} /\ Associated(StoredQuads, s) # {}
  BY <1>1 DEF Matching, Acting, Generated, Associated, Has, Wanted, Says
<1>4. \A s : (\E i \in DOMAIN ps : k \in Said(StoredQuads, s, ps[i].predicate))
               <=> k \in Generated(StoredQuads, s) \/ k \in Associated(StoredQuads, s)
  BY <1>1 DEF Generated, Associated, Wanted, Says
<1>5. \A s \in Acting(StoredQuads) : s \in KEY_ID
  BY StoredQuadsDecoded DEF Acting, Saying, Decoded
<1>6. k \in Values(cs, ps)
        <=> \/ k \in Column(Stored, ActivityHas("?s", "?d"))
            \/ k \in Column(Stored, ActivityHas("?d", "?s"))
  BY <1>2, <1>3, <1>4, <1>5, ValuesOfPattern, ColumnsOfActivity
<1>7. /\ SubjectsOf("homepage", "whc.unesco.org") = Column(Stored, Selects("homepage", "whc.unesco.org"))
      /\ SubjectsOf("skos#subject", "FIFA_World_Cup_stadiums")
           = Column(Stored, Selects("skos#subject", "FIFA_World_Cup_stadiums"))
  <2>1. /\ "homepage" \notin Vars /\ "whc.unesco.org" \notin Vars
        /\ "skos#subject" \notin Vars /\ "FIFA_World_Cup_stadiums" \notin Vars
    BY DEF Vars
  <2>2. QED
    BY <2>1, SubjectsSelected
<1>8. k \in Column(Stored, ActivityHas("?s", "?s")) => k \in Column(Stored, ActivityHas("?s", "?d"))
  BY ColumnOfBoth, ColumnsOfActivity
<1>9. k \in Activity <=> \/ k \in Values(cs, ps)
                        \/ k \in Column(Stored, Selects("homepage", "whc.unesco.org"))
                        \/ k \in Column(Stored, Selects("skos#subject", "FIFA_World_Cup_stadiums"))
  BY <1>1, <1>7, Zenon DEF Activity
<1>10. (\E sel \in Activities : k \in Column(Stored, sel))
         <=> \/ k \in Column(Stored, ActivityHas("?s", "?s"))
             \/ k \in Column(Stored, Selects("homepage", "whc.unesco.org"))
             \/ k \in Column(Stored, Selects("skos#subject", "FIFA_World_Cup_stadiums"))
  BY Zenon DEF Activities
<1>11. QED
  BY <1>6, <1>8, <1>9, <1>10

\* All that block i takes.
Taken(i) == Selected(i) \union EitherRole(i)

\* The query of block i takes the selected of that block to what it is given:
\* the blocks of BTCprov.
LEMMA BlocksOfBTC ==
  ASSUME StoreInv, Stored = StoredQuads, benchmark = "BTC", NEW uris
  PROVE  /\ p01(uris) = uris \union Selected(1)
         /\ p02(uris) = uris \union Selected(2)
         /\ p03(uris) = uris \union Taken(3)
         /\ p04(uris) = uris \union Selected(4)
         /\ p06(uris) = uris \union Selected(5)
         /\ p07(uris) = uris \union Selected(6)
<1>1. \A i, k : TypeFits(i, k)
  BY DEF TypeFits
<1>2. \A i : i # 6 => Typed(i) = {}
  BY DEF Typed
<1> DEFINE Chosen(i) == Branches["BTC"][i]
<1>3. \A i, k : k \in Selected(i)
                  <=> (\E sel \in Chosen(i) : k \in Column(Stored, sel)) \/ k \in Typed(i)
  BY <1>1, SelectedColumns
<1> HIDE DEF Chosen
<1>4. /\ "wikipediaArticle" \notin Vars /\ "Eiffel-toring" \notin Vars /\ "website" \notin Vars
      /\ "www.w3.org" \notin Vars /\ "primaryTopic" \notin Vars /\ "Tim_Berners-Lee" \notin Vars
      /\ "reference" \notin Vars /\ "swr.de" \notin Vars /\ "sterbedatum" \notin Vars
      /\ "31._Marz" \notin Vars /\ "wikilink" \notin Vars /\ "sinologist" \notin Vars
      /\ "inCountry" \notin Vars /\ "DE" \notin Vars /\ "wasGeneratedBy" \notin Vars
      /\ "mwylot.net" \notin Vars /\ "sameAs" \notin Vars /\ "2643576" \notin Vars
  BY DEF Vars
<1>5. p01(uris) = uris \union Selected(1)
  <2>1. Chosen(1) = {Selects("wikipediaArticle", "Eiffel-toring")}
    BY BranchesOfBTC DEF Chosen
  <2>2. SubjectsOf("wikipediaArticle", "Eiffel-toring")
          = Column(Stored, Selects("wikipediaArticle", "Eiffel-toring"))
    BY <1>4, SubjectsSelected
  <2>3. QED
    BY <1>2, <1>3, <2>1, <2>2 DEF p01
<1>6. p02(uris) = uris \union Selected(2)
  <2>1. Chosen(2) = {Selects("website", "www.w3.org"), Selects("primaryTopic", "Tim_Berners-Lee")}
    BY BranchesOfBTC DEF Chosen
  <2>2. /\ SubjectsOf("website", "www.w3.org") = Column(Stored, Selects("website", "www.w3.org"))
        /\ SubjectsOf("primaryTopic", "Tim_Berners-Lee")
             = Column(Stored, Selects("primaryTopic", "Tim_Berners-Lee"))
    BY <1>4, SubjectsSelected
  <2>3. QED
    BY <1>2, <1>3, <2>1, <2>2 DEF p02
<1>7. p03(uris) = uris \union Taken(3)
  <2>1. Chosen(3) = Activities
    BY BranchesOfBTC DEF Chosen
  <2>2. \A k : k \in Selected(3) <=> \E sel \in Activities : k \in Column(Stored, sel)
    BY <1>2, <1>3, <2>1
  <2>3. EitherRole(3) = Column(Stored, ActivityHas("?s", "?d"))
                          \union Column(Stored, ActivityHas("?d", "?s"))
    BY DEF EitherRole
  <2>4. \A k : k \in Activity <=> k \in Taken(3)
    BY <2>2, <2>3, ActivitySelected DEF Taken
  <2>5. QED
    BY <2>4 DEF p03
<1>8. p04(uris) = uris \union Selected(4)
  <2>1. PICK sel : sel = Select(<<"?a">>, <<About("reference", "swr.de"),
                                            About("sterbedatum", "31._Marz"),
                                            About("wikilink", "sinologist")>>)
    OBVIOUS
  <2>2. Chosen(4) = {sel, Selects("inCountry", "DE")}
    BY <2>1, BranchesOfBTC DEF Chosen
  <2>3. SubjectsOf("inCountry", "DE") = Column(Stored, Selects("inCountry", "DE"))
    BY <1>4, SubjectsSelected
  <2>4. "?a" \in Vars
    BY DEF Vars
  <2>5. {"reference", "sterbedatum", "wikilink", "swr.de", "31._Marz", "sinologist"}
          \intersect Vars = {}
    BY <1>4
  <2>6. Column(Stored, sel) =
          (Saying(Stored, KM("reference"), KM("swr.de"))
             \intersect Saying(Stored, KM("sterbedatum"), KM("31._Marz")))
             \intersect Saying(Stored, KM("wikilink"), KM("sinologist"))
    BY <2>1, <2>4, <2>5, ColumnOfThree DEF About
  <2>7. p04(uris) = (uris \union
                       (SubjectsOf("wikilink", "sinologist") \intersect
                          (SubjectsOf("reference", "swr.de") \intersect
                             SubjectsOf("sterbedatum", "31._Marz"))))
                      \union SubjectsOf("inCountry", "DE")
    BY DEF p04, Intersection
  <2>8. p04(uris) = (uris \union Column(Stored, sel)) \union SubjectsOf("inCountry", "DE")
    BY <2>6, <2>7, SubjectsOfQuads
  <2>9. QED
    BY <1>2, <1>3, <2>2, <2>3, <2>8
<1>9. p06(uris) = uris \union Selected(5)
  <2>1. Chosen(5) = {Selects("wasGeneratedBy", "mwylot.net")}
    BY BranchesOfBTC DEF Chosen
  <2>2. SubjectsOf("wasGeneratedBy", "mwylot.net")
          = Column(Stored, Selects("wasGeneratedBy", "mwylot.net"))
    BY <1>4, SubjectsSelected
  <2>3. QED
    BY <1>2, <1>3, <2>1, <2>2 DEF p06
<1>10. p07(uris) = uris \union Selected(6)
  <2>1. Chosen(6) = {Selects("sameAs", "2643576")}
    BY BranchesOfBTC DEF Chosen
  <2>2. SubjectsOf("sameAs", "2643576") = Column(Stored, Selects("sameAs", "2643576"))
    BY <1>4, SubjectsSelected
  <2>3. Typed(6) = GetElementsOfType(GetSeq(KM("LivingPeople")))
    BY DEF Typed, GetElementsOfType, GetSeq
  <2>4. QED
    BY <1>3, <2>1, <2>2, <2>3 DEF p07
<1>11. QED
  BY <1>5, <1>6, <1>7, <1>8, <1>9, <1>10

\* The blocks of WDCqueries.
LEMMA BlocksOfWDC ==
  ASSUME StoreInv, Stored = StoredQuads, benchmark = "WDC", NEW uris
  PROVE  /\ v01(uris) = uris \union Selected(1)
         /\ v02(uris) = uris \union Selected(2)
         /\ v03(uris) = uris \union Selected(3)
         /\ v04(uris) = uris \union Taken(4)
         /\ v05(uris) = uris \union Selected(5)
         /\ v06(uris) = uris \union Selected(6)
<1>1. \A i, k : i # 5 => TypeFits(i, k)
  BY DEF TypeFits
<1>2. \A i : Typed(i) = {}
  BY DEF Typed
<1> DEFINE Chosen(i) == Branches["WDC"][i]
<1>3. \A i, k : k \in Selected(i)
                  <=> (\E sel \in Chosen(i) : k \in Column(Stored, sel)) /\ TypeFits(i, k)
  BY <1>2, SelectedColumns
<1> HIDE DEF Chosen
<1>4. /\ "type" \notin Vars /\ "company" \notin Vars /\ "fbmladmins" \notin Vars
      /\ "500386069" \notin Vars /\ "og:url" \notin Vars /\ "35-under-35" \notin Vars
      /\ "email" \notin Vars /\ "empty" \notin Vars /\ "Hotel" \notin Vars
      /\ "country-name" \notin Vars /\ "United States" \notin Vars
      /\ "velika-krada" \notin Vars /\ "fbmlapp_id" \notin Vars
      /\ "274726392563373" \notin Vars /\ "milijun-dolara" \notin Vars
      /\ "?s" \in Vars
  BY DEF Vars
<1>5. v01(uris) = uris \union Selected(1)
  <2>1. Chosen(1) = {Selects("type", "company")}
    BY BranchesOfWDC DEF Chosen
  <2>2. SubjectsOf("type", "company") = Column(Stored, Selects("type", "company"))
    BY <1>4, SubjectsSelected
  <2>3. QED
    BY <1>1, <1>3, <2>1, <2>2 DEF v01
<1>6. v02(uris) = uris \union Selected(2)
  <2>1. PICK sel : sel = Select(<<"?s">>, <<<<"?s", "fbmladmins", "500386069">>,
                                            <<"?s", "og:url", "35-under-35">>>>)
    OBVIOUS
  <2>2. Chosen(2) = {sel}
    BY <2>1, BranchesOfWDC DEF Chosen
  <2>3. {"fbmladmins", "og:url", "500386069", "35-under-35"} \intersect Vars = {}
    BY <1>4
  <2>4. "?s" \in Vars
    BY <1>4
  <2>5. Column(Stored, sel) = Saying(Stored, KM("fbmladmins"), KM("500386069"))
                                \intersect Saying(Stored, KM("og:url"), KM("35-under-35"))
    BY <2>1, <2>3, <2>4, ColumnOfTwo
  <2>6. v02(uris) = uris \union Column(Stored, sel)
    BY <2>5, SubjectsOfQuads DEF v02, Intersection
  <2>7. QED
    BY <1>1, <1>3, <2>2, <2>6
<1>7. v03(uris) = uris \union Selected(3)
  <2>1. PICK sel : sel = Select(<<"?s">>, <<<<"?s", "email", "empty">>, <<"?s", "type", "Hotel">>,
                                            <<"?s", "country-name", "United States">>>>)
    OBVIOUS
  <2>2. Chosen(3) = {sel}
    BY <2>1, BranchesOfWDC DEF Chosen
  <2>3. {"email", "type", "country-name", "empty", "Hotel", "United States"} \intersect Vars = {}
    BY <1>4
  <2>4. "?s" \in Vars
    BY <1>4
  <2>5. Column(Stored, sel) =
          (Saying(Stored, KM("email"), KM("empty")) \intersect Saying(Stored, KM("type"), KM("Hotel")))
            \intersect Saying(Stored, KM("country-name"), KM("United States"))
    <3>1. PICK p1, p2, p3, o1, o2, o3 :
            /\ p1 = "email" /\ p2 = "type" /\ p3 = "country-name"
            /\ o1 = "empty" /\ o2 = "Hotel" /\ o3 = "United States"
      OBVIOUS
    <3>2. {p1, p2, p3, o1, o2, o3} \intersect Vars = {}
      BY <2>3, <3>1
    <3>3. Column(Stored, Select(<<"?s">>, <<<<"?s", p1, o1>>, <<"?s", p2, o2>>, <<"?s", p3, o3>>>>))
            = (Saying(Stored, KM(p1), KM(o1)) \intersect Saying(Stored, KM(p2), KM(o2)))
                \intersect Saying(Stored, KM(p3), KM(o3))
      BY <2>4, <3>2, ColumnOfThree
    <3>4. QED
      BY <2>1, <3>1, <3>3
  <2>6. v03(uris) = uris \union (SubjectsOf("country-name", "United States") \intersect
                                   (SubjectsOf("email", "empty") \intersect SubjectsOf("type", "Hotel")))
    BY DEF v03, Intersection
  <2>7. v03(uris) = uris \union Column(Stored, sel)
    BY <2>5, <2>6, SubjectsOfQuads
  <2>8. QED
    BY <1>1, <1>3, <2>2, <2>7
<1>8. v04(uris) = uris \union Taken(4)
  <2>1. Chosen(4) = Activities
    BY BranchesOfWDC DEF Chosen
  <2>2. \A k : k \in Selected(4) <=> \E sel \in Activities : k \in Column(Stored, sel)
    BY <1>1, <1>3, <2>1
  <2>3. EitherRole(4) = Column(Stored, ActivityHas("?s", "?d"))
                          \union Column(Stored, ActivityHas("?d", "?s"))
    BY DEF EitherRole
  <2>4. \A k : k \in Activity <=> k \in Taken(4)
    BY <2>2, <2>3, ActivitySelected DEF Taken
  <2>5. QED
    BY <2>4 DEF v04
<1>9. v05(uris) = uris \union Selected(5)
  <2>1. PICK sel, cs, ps, S :
          /\ sel = Select(<<"?s">>, <<About("has_creator", "node"), About("has_container", "?s"),
                                      <<"?s", "prefLabel", "Announcements">>>>)
          /\ cs = <<Has("has_creator", "node")>> /\ ps = <<Wanted("has_container")>>
          /\ S = Saying(StoredQuads, KM("has_creator"), KM("node"))
    OBVIOUS
  <2>2. Chosen(5) = {sel}
    BY <2>1, BranchesOfWDC DEF Chosen
  <2>3. PlainPattern(cs, ps)
    <3>1. \A w : KM(w) # Wild
      BY WordType
    <3>2. QED
      BY <2>1, <3>1 DEF PlainPattern, Has, Wanted, Says
  <2>4. \A s : Matching(s, cs, ps)
                 <=> s \in S /\ Said(StoredQuads, s, KM("has_container")) # {}
    BY <2>1 DEF Matching, Has, Wanted, Says
  <2>5. \A s, k : (\E i \in DOMAIN ps : k \in Said(StoredQuads, s, ps[i].predicate))
                    <=> k \in Said(StoredQuads, s, KM("has_container"))
    BY <2>1 DEF Wanted, Says
  <2>6. \A s \in S : s \in KEY_ID
    BY <2>1, StoredQuadsDecoded DEF Saying, Decoded
  <2>7. \A k : k \in Values(cs, ps) <=> \E s \in S : k \in Said(StoredQuads, s, KM("has_container"))
    BY <2>3, <2>4, <2>5, <2>6, ValuesOfPattern
  <2>8. \A k : k \in Column(Stored, sel)
                 <=> k \in Values(cs, ps) /\ k \in SubjectsOf("prefLabel", "Announcements")
    BY <2>1, <2>7, ColumnOfContainers, SubjectsOfQuads
  <2>9. \A k : TypeFits(5, k) <=> GetType(k) = GetSeq(KM("Forum"))
    BY DEF TypeFits, GetSeq
  <2>10. v05(uris) = uris \union {k \in Values(cs, ps) : /\ GetType(k) = GetSeq(KM("Forum"))
                                                        /\ k \in SubjectsOf("prefLabel", "Announcements")}
    BY <2>1 DEF v05
  <2>11. \A k : k \in Selected(5) <=> k \in Column(Stored, sel) /\ TypeFits(5, k)
    BY <1>3, <2>2
  <2>12. QED
    BY <2>8, <2>9, <2>10, <2>11
<1>10. v06(uris) = uris \union Selected(6)
  <2>1. Chosen(6) = {Selects("og:url", "velika-krada"), Selects("fbmlapp_id", "274726392563373"),
                     Selects("og:url", "milijun-dolara")}
    BY BranchesOfWDC DEF Chosen
  <2>2. /\ SubjectsOf("og:url", "velika-krada") = Column(Stored, Selects("og:url", "velika-krada"))
        /\ SubjectsOf("fbmlapp_id", "274726392563373")
             = Column(Stored, Selects("fbmlapp_id", "274726392563373"))
        /\ SubjectsOf("og:url", "milijun-dolara") = Column(Stored, Selects("og:url", "milijun-dolara"))
    BY <1>4, SubjectsSelected
  <2>3. QED
    BY <1>1, <1>3, <2>1, <2>2 DEF v06
<1>11. QED
  BY <1>5, <1>6, <1>7, <1>8, <1>9, <1>10
------------------------------------------------------------------------------
(***************************************************************************)
(* The inductive invariant and the theorem.                                *)
(***************************************************************************)

\* A query starts from a whole store, and runs its blocks in order.
TakenSoFar == ProvUris = UNION {Taken(i) : i \in 1 .. block}

BlocksInv ==
  /\ StoreInv
  /\ benchmark \in {"BTC", "WDC"}
  /\ block \in 0 .. 6
  /\ phase # "loaded" => block = 0
  /\ TakenSoFar

\* A block leaves ProvUris with what it selects added, and the lines alone.
LEMMA BlockAdds ==
  ASSUME StoreInv, benchmark \in {"BTC", "WDC"}, block \in 0 .. 6, RunBlock
  PROVE  ProvUris' = ProvUris \union Taken(block + 1)
<1>1. phase = "loaded" /\ block < 6 /\ block' = block + 1
  BY DEF RunBlock, Blocks
<1>2. Stored = StoredQuads
  BY <1>1, StoredIsStore
<1>3. PICK n : n = block + 1
  OBVIOUS
<1>4. n = 1 \/ n = 2 \/ n = 3 \/ n = 4 \/ n = 5 \/ n = 6
  BY <1>1, <1>3
<1> DEFINE at == [BTC |-> 3, WDC |-> 4][benchmark]
<1>8. \A i : i # at => Taken(i) = Selected(i)
  BY DEF Taken, EitherRole
<1>5. CASE benchmark = "BTC"
  <2>1. ProvUris' = <<p01(ProvUris), p02(ProvUris), p03(ProvUris),
                      p04(ProvUris), p06(ProvUris), p07(ProvUris)>>[n]
    BY <1>1, <1>3, <1>5 DEF RunBlock
  <2>2. ProvUris' = ProvUris \union Taken(n)
    <3>1. \A i : i # 3 => Taken(i) = Selected(i)
      BY <1>5, <1>8
    <3>2. QED
      BY <1>2, <1>4, <1>5, <2>1, <3>1, BlocksOfBTC
  <2>3. QED
    BY <1>3, <2>2
<1>6. CASE benchmark = "WDC"
  <2>1. ProvUris' = <<v01(ProvUris), v02(ProvUris), v03(ProvUris),
                      v04(ProvUris), v05(ProvUris), v06(ProvUris)>>[n]
    BY <1>1, <1>3, <1>6 DEF RunBlock
  <2>2. ProvUris' = ProvUris \union Taken(n)
    <3>1. \A i : i # 4 => Taken(i) = Selected(i)
      BY <1>6, <1>8
    <3>2. QED
      BY <1>2, <1>4, <1>6, <2>1, <3>1, BlocksOfWDC
  <2>3. QED
    BY <1>3, <2>2
<1>7. QED
  BY <1>5, <1>6

\* What a block takes depends on the lines and the benchmark only.
LEMMA TakenStays ==
  ASSUME tripleIDs' = tripleIDs, benchmark' = benchmark
  PROVE  \A i : Taken(i)' = Taken(i)
BY DEF Taken, Selected, EitherRole, Stored, TypeFits, Typed

LEMMA BlocksInvInit == Init => BlocksInv
<1> SUFFICES ASSUME Init PROVE BlocksInv
  OBVIOUS
<1>1. StoreInv
  BY StoreInvInit DEF Init
<1>2. UNION {Taken(i) : i \in 1 .. 0} = {}
  OBVIOUS
<1>3. TakenSoFar
  BY <1>2 DEF Init, TakenSoFar
<1>4. QED
  BY <1>1, <1>3 DEF Init, BlocksInv

LEMMA BlocksInvNext == BlocksInv /\ [Next]_vars => BlocksInv'
<1> SUFFICES ASSUME BlocksInv, [Next]_vars PROVE BlocksInv'
  OBVIOUS
<1> USE DEF BlocksInv
<1>1. CASE LoadNext /\ UNCHANGED provVars
  <2>1. StoreInv'
    BY <1>1, StoreInvNext
  <2>2. phase # "loaded" /\ block = 0
    BY <1>1 DEF LoadNext, ReadLine, EndOfFiles, AddNextTemplate, TemplatesDone, StoreLine, LoadDone
  <2>3. ProvUris = {} /\ ProvUris' = {} /\ block' = 0 /\ benchmark' = benchmark
    BY <1>1, <2>2 DEF TakenSoFar, provVars
  <2>4. TakenSoFar'
    BY <2>3 DEF TakenSoFar
  <2>5. QED
    BY <2>1, <2>3, <2>4
<1>2. CASE RunBlock
  <2>1. /\ block' = block + 1 /\ block + 1 \in 1 .. 6 /\ phase' = "loaded"
        /\ UNCHANGED <<loadVars, benchmark>>
    BY <1>2 DEF RunBlock, Blocks, loadVars
  <2>2. StoreInv'
    BY <2>1, StoreInvNext
  <2>3. ProvUris' = ProvUris \union Taken(block + 1)
    BY <1>2, BlockAdds
  <2>4. \A i : Taken(i)' = Taken(i)
    BY <2>1, TakenStays DEF loadVars
  <2>5. \A k : k \in ProvUris' <=> \E i \in 1 .. (block + 1) : k \in Taken(i)
    <3>1. \A k : k \in ProvUris <=> \E i \in 1 .. block : k \in Taken(i)
      BY DEF TakenSoFar
    <3>2. \A i : i \in 1 .. (block + 1) <=> i \in 1 .. block \/ i = block + 1
      OBVIOUS
    <3>3. QED
      BY <2>3, <3>1, <3>2
  <2>6. TakenSoFar'
    BY <2>1, <2>4, <2>5 DEF TakenSoFar
  <2>7. QED
    BY <2>1, <2>2, <2>6
<1>3. CASE UNCHANGED vars
  <2>1. UNCHANGED loadVars /\ UNCHANGED <<benchmark, block, ProvUris>>
    BY <1>3 DEF vars, provVars
  <2>2. StoreInv'
    BY <2>1, StoreInvNext
  <2>3. \A i : Taken(i)' = Taken(i)
    BY <2>1, TakenStays DEF loadVars
  <2>4. TakenSoFar'
    BY <2>1, <2>3 DEF TakenSoFar
  <2>5. QED
    BY <2>1, <2>2, <2>4 DEF loadVars
<1>4. QED
  BY <1>1, <1>2, <1>3 DEF Next

\* BTCprov::ProvQuery and WDCqueries::ProvQuery: after every block, on any dataset,
\* ProvUris has all that the SPARQL branches of the blocks so far select, and
\* beyond it only what activities have generated or are associated with.
THEOREM SelectionsAddUp == Spec => []SelectedSoFar
<1>1. Init => BlocksInv
  BY BlocksInvInit
<1>2. BlocksInv /\ [Next]_vars => BlocksInv'
  BY BlocksInvNext
<1>3. BlocksInv => SelectedSoFar
  <2>1. \A i : Selected(i) \subseteq Taken(i) /\ Taken(i) \ Selected(i) \subseteq EitherRole(i)
    BY DEF Taken
  <2>2. SUFFICES ASSUME BlocksInv PROVE SelectedSoFar
    OBVIOUS
  <2>3. ProvUris = UNION {Taken(i) : i \in 1 .. block}
    BY <2>2, Zenon DEF BlocksInv, TakenSoFar
  <2>4. \A k : k \in ProvUris <=> \E i \in 1 .. block : k \in Taken(i)
    BY <2>3, Zenon
  <2>5. QED
    BY <2>1, <2>4 DEF SelectedSoFar
<1>4. QED
  BY <1>1, <1>2, <1>3, PTL DEF Spec
------------------------------------------------------------------------------
(***************************************************************************)
(* The copy: the sequences its loop goes through.                          *)
(***************************************************************************)

\* The parts of Visible, and what they have.
TypedElement == [prov : KEY_ID, tmpl : Nat, obj : KEY_ID]
Part(m, i) ==
  IF provenanceTriger(TRUE, ProvUris, m[i].prov)
    THEN [j \in DOMAIN m[i].next |-> ElementAt(m, i, j)]
    ELSE <<>>

LEMMA VisibleElements ==
  ASSUME NEW m \in Molecule
  PROVE  /\ Visible(m) \in Seq(TypedElement)
         /\ \A e : e \in Range(Visible(m)) <=> e \in Elements(m) /\ e.prov \in ProvUris
<1>1. PICK seqs : seqs = [i \in DOMAIN m |-> Part(m, i)]
  OBVIOUS
<1>2. Visible(m) = FlattenSeq(seqs)
  BY <1>1, Zenon DEF Visible, Part, ElementAt
<1>3. /\ \A i \in DOMAIN m : m[i].prov \in KEY_ID /\ m[i].next \in Seq(Element)
      /\ Len(m) \in Nat /\ DOMAIN m = 1 .. Len(m)
  <2>1. \A i \in DOMAIN m : m[i] \in Group
    BY DEF Molecule
  <2>2. QED
    BY <2>1 DEF Group, Molecule
<1>4. ASSUME NEW i \in DOMAIN m
      PROVE  /\ Part(m, i) \in Seq(TypedElement)
             /\ \A e : e \in Range(Part(m, i))
                         <=> m[i].prov \in ProvUris /\ \E j \in DOMAIN m[i].next : e = ElementAt(m, i, j)
  <2>1. PICK next, part : next = m[i].next /\ part = [j \in DOMAIN next |-> ElementAt(m, i, j)]
    OBVIOUS
  <2>2. next \in Seq(Element) /\ Len(next) \in Nat /\ DOMAIN next = 1 .. Len(next)
    BY <1>3, <2>1
  <2>3. \A j \in DOMAIN next : ElementAt(m, i, j) \in TypedElement
    <3>1. \A j \in DOMAIN next : next[j] \in Element
      BY <2>2
    <3>2. QED
      BY <1>3, <2>1, <3>1 DEF ElementAt, TypedElement, Element
  <2>4. part \in Seq(TypedElement)
    BY <2>1, <2>2, <2>3
  <2>5. \A e : e \in Range(part) <=> \E j \in DOMAIN next : e = ElementAt(m, i, j)
    BY <2>1 DEF Range
  <2>6. CASE m[i].prov \in ProvUris
    <3>1. Part(m, i) = part
      BY <2>1, <2>6, Zenon DEF Part, provenanceTriger
    <3>2. QED
      BY <2>1, <2>4, <2>5, <2>6, <3>1, Zenon
  <2>7. CASE m[i].prov \notin ProvUris
    <3>1. Part(m, i) = <<>>
      BY <2>7 DEF Part, provenanceTriger
    <3>2. QED
      BY <2>7, <3>1 DEF Range
  <2>8. QED
    BY <2>6, <2>7
<1>5. seqs \in Seq(Seq(TypedElement)) /\ DOMAIN seqs = DOMAIN m
  BY <1>1, <1>3, <1>4
<1>6. \A e : e \in Range(Visible(m)) <=> \E i \in DOMAIN m : e \in Range(Part(m, i))
  BY <1>1, <1>2, <1>5, FlattenElements
<1>7. \A e : e \in Range(Visible(m))
        <=> \E i \in DOMAIN m : /\ m[i].prov \in ProvUris
                                /\ \E j \in DOMAIN m[i].next : e = ElementAt(m, i, j)
  BY <1>4, <1>6
<1>8. ASSUME NEW e
      PROVE  e \in Range(Visible(m)) <=> e \in Elements(m) /\ e.prov \in ProvUris
  <2>1. \A i, j : ElementAt(m, i, j).prov = m[i].prov
    BY DEF ElementAt
  <2>2. e \in Elements(m) <=> \E i \in DOMAIN m : \E j \in DOMAIN m[i].next : e = ElementAt(m, i, j)
    BY ElementsByPosition DEF Positions
  <2>3. \A i : (\E j \in DOMAIN m[i].next : e = ElementAt(m, i, j)) => m[i].prov = e.prov
    BY <2>1
  <2>4. ASSUME NEW i \in DOMAIN m, \E j \in DOMAIN m[i].next : e = ElementAt(m, i, j)
        PROVE  m[i].prov \in ProvUris <=> e.prov \in ProvUris
    BY <2>3, <2>4
  <2>5. QED
    BY <1>7, <2>2, <2>4
<1>9. QED
  BY <1>2, <1>5, <1>8, FlattenElements

\* One element more, and the function FoldLeft computes with, on the subsets of
\* the first n positions.
WithElement(m, e) == AddToMolecule(m, e.tmpl, e.obj, e.prov)
FoldsElements(g, b, T, n) ==
  g = [s \in SUBSET (1 .. n) |->
         IF s = {} THEN b ELSE WithElement(g[s \ {Max(s)}], T[Max(s)])]

\* There is such a function.
LEMMA ElementFoldExists ==
  ASSUME NEW b, NEW T, NEW n \in Nat
  PROVE  \E g : FoldsElements(g, b, T, n)
<1> DEFINE Bad == {k \in Nat : ~ \E g : FoldsElements(g, b, T, k)}
<1> SUFFICES ASSUME Bad # {} PROVE FALSE
  OBVIOUS
<1>1. PICK k \in Bad : \A j \in Bad : k <= j
  BY LeastIndex
<1>2. k \in Nat /\ ~ \E g : FoldsElements(g, b, T, k)
  OBVIOUS
<1>3. CASE k = 0
  <2> DEFINE f == [s \in SUBSET (1 .. k) |-> b]
  <2>1. \A s \in SUBSET (1 .. k) : s = {}
    BY <1>3
  <2>2. \A s \in SUBSET (1 .. k) :
          f[s] = IF s = {} THEN b ELSE WithElement(f[s \ {Max(s)}], T[Max(s)])
    BY <2>1
  <2>3. f = [s \in SUBSET (1 .. k) |-> f[s]]
    OBVIOUS
  <2> HIDE DEF f
  <2>4. f = [s \in SUBSET (1 .. k) |->
               IF s = {} THEN b ELSE WithElement(f[s \ {Max(s)}], T[Max(s)])]
    BY <2>2, <2>3, Zenon
  <2>5. QED
    BY <1>2, <2>4, Zenon DEF FoldsElements
<1>4. CASE k # 0
  <2>1. k - 1 \in Nat /\ k - 1 \notin Bad
    BY <1>1, <1>2, <1>4
  <2>2. PICK g : FoldsElements(g, b, T, k - 1)
    BY <2>1
  <2> DEFINE f == [s \in SUBSET (1 .. k) |->
                     IF k \in s THEN WithElement(g[s \ {k}], T[k]) ELSE g[s]]
  <2>3. \A s \in SUBSET (1 .. (k - 1)) :
          g[s] = IF s = {} THEN b ELSE WithElement(g[s \ {Max(s)}], T[Max(s)])
    BY <2>2, Zenon DEF FoldsElements
  <2>4. ASSUME NEW s \in SUBSET (1 .. k)
        PROVE  f[s] = IF s = {} THEN b ELSE WithElement(f[s \ {Max(s)}], T[Max(s)])
    <3>1. CASE k \in s
      <4>1. Max(s) = k
        BY <1>2, <1>4, <3>1, MaxOfPrefix
      <4>2. s \ {k} \in SUBSET (1 .. k) /\ k \notin s \ {k} /\ s # {}
        BY <3>1
      <4>3. f[s \ {k}] = g[s \ {k}]
        BY <4>2, Zenon
      <4>4. f[s] = WithElement(g[s \ {k}], T[k])
        BY <3>1, Zenon
      <4> HIDE DEF f
      <4>5. QED
        BY <4>1, <4>2, <4>3, <4>4, Zenon
    <3>2. CASE k \notin s
      <4>1. s \in SUBSET (1 .. (k - 1))
        BY <1>2, <1>4, <3>2
      <4>2. s \ {Max(s)} \in SUBSET (1 .. k) /\ k \notin s \ {Max(s)}
        BY <3>2
      <4>3. f[s] = g[s] /\ f[s \ {Max(s)}] = g[s \ {Max(s)}]
        BY <3>2, <4>2, Zenon
      <4> HIDE DEF f
      <4>4. QED
        BY <2>3, <4>1, <4>3, Zenon
    <3>3. QED
      BY <3>1, <3>2
  <2>5. f = [s \in SUBSET (1 .. k) |-> f[s]]
    OBVIOUS
  <2> HIDE DEF f
  <2>6. f = [s \in SUBSET (1 .. k) |->
               IF s = {} THEN b ELSE WithElement(f[s \ {Max(s)}], T[Max(s)])]
    BY <2>4, <2>5, Zenon
  <2>7. QED
    BY <1>2, <2>6, Zenon DEF FoldsElements
<1>5. QED
  BY <1>3, <1>4

\* The loop of ReconstructMolecule adds what it is given.
LEMMA ReconstructedElements ==
  ASSUME NEW b \in Molecule, NEW T \in Seq(TypedElement)
  PROVE  /\ Reconstructed(b, T) \in Molecule
         /\ Elements(Reconstructed(b, T)) = Elements(b) \union Range(T)
<1>1. PICK n \in Nat : DOMAIN T = 1 .. n
  OBVIOUS
<1> DEFINE g == CHOOSE iter : iter = [s \in SUBSET (DOMAIN T) |->
                  IF s = {} THEN b ELSE WithElement(iter[s \ {Max(s)}], T[Max(s)])]
<1>2. Reconstructed(b, T) = g[DOMAIN T]
  BY Zenon DEF Reconstructed, FoldLeft, MapThenFoldSet, WithElement
<1>3. PICK f : FoldsElements(f, b, T, n)
  BY <1>1, ElementFoldExists
<1>4. f = [s \in SUBSET (DOMAIN T) |->
             IF s = {} THEN b ELSE WithElement(f[s \ {Max(s)}], T[Max(s)])]
  BY <1>1, <1>3, Zenon DEF FoldsElements
<1>5. g = [s \in SUBSET (DOMAIN T) |->
             IF s = {} THEN b ELSE WithElement(g[s \ {Max(s)}], T[Max(s)])]
  BY <1>4, Zenon
<1> HIDE DEF g
<1>6. \A s \in SUBSET (1 .. n) :
        g[s] = IF s = {} THEN b ELSE WithElement(g[s \ {Max(s)}], T[Max(s)])
  BY <1>1, <1>5, Zenon
<1> DEFINE Right(k) == /\ g[1 .. k] \in Molecule
                       /\ \A e : e \in Elements(g[1 .. k])
                                   <=> e \in Elements(b) \/ \E i \in 1 .. k : T[i] = e
<1>7. Right(0)
  <2>1. 1 .. 0 = {} /\ {} \in SUBSET (1 .. n)
    BY <1>1
  <2>2. g[1 .. 0] = b
    BY <1>6, <2>1
  <2>3. QED
    BY <2>1, <2>2
<1>8. ASSUME NEW k \in 1 .. n, Right(k - 1)
      PROVE  Right(k)
  <2>1. PICK j, m, e : j = k - 1 /\ m = g[1 .. j] /\ e = T[k]
    OBVIOUS
  <2>2. 1 .. k \in SUBSET (1 .. n) /\ k \in 1 .. k /\ k \in Nat \ {0} /\ 1 .. k # {}
    <3>1. k \in Nat \ {0} /\ k \in 1 .. k
      OBVIOUS
    <3>2. \A i : i \in 1 .. k => i \in 1 .. n
      OBVIOUS
    <3>3. QED
      BY <3>1, <3>2, Zenon
  <2>3. Max(1 .. k) = k
    <3>1. 1 .. k \in SUBSET (1 .. k)
      OBVIOUS
    <3>2. QED
      BY <2>2, <3>1, MaxOfPrefix
  <2>4. (1 .. k) \ {k} = 1 .. j /\ \A i : i \in 1 .. k <=> i \in 1 .. j \/ i = k
    BY <1>1, <2>1
  <2>5. g[1 .. k] = WithElement(m, e)
    BY <1>6, <2>1, <2>2, <2>3, <2>4, Zenon
  <2>6. e \in TypedElement
    BY <1>1, <2>1
  <2>7. e.prov \in KEY_ID /\ e.tmpl \in Nat /\ e.obj \in KEY_ID
        /\ e = [prov |-> e.prov, tmpl |-> e.tmpl, obj |-> e.obj]
    BY <2>6 DEF TypedElement
  <2>8. m \in Molecule
    BY <1>8, <2>1
  <2>9. WithElement(m, e) \in Molecule /\ Elements(WithElement(m, e)) = Elements(m) \union {e}
    BY <2>7, <2>8, AddToMoleculeType, AddToMoleculeElements DEF WithElement
  <2>10. \A x : x \in Elements(m) <=> x \in Elements(b) \/ \E i \in 1 .. j : T[i] = x
    BY <1>8, <2>1
  <2>11. \A x : x \in Elements(g[1 .. k]) <=> x \in Elements(b) \/ \E i \in 1 .. k : T[i] = x
    BY <2>1, <2>4, <2>5, <2>9, <2>10
  <2>12. QED
    BY <2>5, <2>9, <2>11
<1>9. Right(n)
  <2> HIDE DEF Right
  <2> DEFINE Bad == {k \in 1 .. n : ~ Right(k)}
  <2>1. Bad = {}
    <3>1. SUFFICES ASSUME Bad # {} PROVE FALSE
      OBVIOUS
    <3>2. Bad \in SUBSET Nat
      BY <1>1
    <3>3. PICK k \in Bad : \A j \in Bad : k <= j
      BY <3>1, <3>2, LeastIndex
    <3>4. k \in 1 .. n /\ ~ Right(k)
      OBVIOUS
    <3>5. k = 1 \/ k - 1 \in 1 .. n
      BY <1>1, <3>4
    <3>6. Right(k - 1)
      BY <1>1, <1>7, <3>3, <3>4, <3>5
    <3>7. QED
      BY <1>8, <3>4, <3>6
  <2>2. QED
    BY <1>1, <1>7, <2>1
<1>10. \A e : e \in Range(T) <=> \E i \in 1 .. n : T[i] = e
  BY <1>1 DEF Range
<1>11. QED
  BY <1>1, <1>2, <1>9, <1>10
------------------------------------------------------------------------------
(***************************************************************************)
(* The copy: what is asked of it.                                          *)
(***************************************************************************)

\* The look-ups of the copy are those of the original, over its own molecules.
LEMMA CopyOperators ==
  /\ Copy!NoMolecule = NoMolecule /\ Copy!Wild = Wild
  /\ \A k : Copy!GetType(k) = GetType(k)
  /\ \A t, s, p, o, scope : Copy!GetTemplates(t, s, p, o, scope) = GetTemplates(t, s, p, o, scope)
  /\ \A m : Copy!ObjectsOf(m) = ObjectsOf(m) /\ Copy!ProvenancesOf(m) = ProvenancesOf(m)
  /\ \A m, tmpls, o, on, uris :
       Copy!CheckIfEntityExists(m, tmpls, o, on, uris) = CheckIfEntityExists(m, tmpls, o, on, uris)
  /\ \A m, tmpls, on, uris : Copy!GetEntity(m, tmpls, on, uris) = GetEntity(m, tmpls, on, uris)
<1>1. Copy!NoMolecule = NoMolecule /\ Copy!Wild = Wild
  BY DEF Copy!NoMolecule, NoMolecule, Copy!Wild, Wild
<1>2. \A k : Copy!GetType(k) = GetType(k)
  BY DEF Copy!GetType, GetType
<1>3. \A m : Copy!Elements(m) = Elements(m)
  BY Zenon DEF Copy!Elements, Elements
<1>4. \A m : Copy!ObjectsOf(m) = ObjectsOf(m) /\ Copy!ProvenancesOf(m) = ProvenancesOf(m)
  BY <1>3, Zenon DEF Copy!ObjectsOf, ObjectsOf, Copy!ProvenancesOf, ProvenancesOf
<1>5. \A on, uris, p : Copy!provenanceTriger(on, uris, p) = provenanceTriger(on, uris, p)
  BY Zenon DEF Copy!provenanceTriger, provenanceTriger
<1>6. \A m, tmpls, o, on, uris :
        Copy!CheckIfEntityExists(m, tmpls, o, on, uris) = CheckIfEntityExists(m, tmpls, o, on, uris)
  BY <1>1, <1>3, Zenon DEF Copy!CheckIfEntityExists, CheckIfEntityExists,
                           Copy!provenanceTriger, provenanceTriger
<1>7. \A m, tmpls, on, uris : Copy!GetEntity(m, tmpls, on, uris) = GetEntity(m, tmpls, on, uris)
  BY <1>1, <1>3, Zenon DEF Copy!GetEntity, GetEntity, Copy!provenanceTriger, provenanceTriger
<1>8. \A t, s, p, o, scope : Copy!GetTemplates(t, s, p, o, scope) = GetTemplates(t, s, p, o, scope)
  BY Zenon DEF Copy!GetTemplates, GetTemplates, Copy!GetTemplatesByRoot, GetTemplatesByRoot,
               Copy!Wild, Wild
<1>9. QED
  BY <1>1, <1>2, <1>4, <1>6, <1>7, <1>8, Zenon

\* A molecule and one that has its visible elements.
LEMMA LookAlike ==
  ASSUME NEW m, NEW c, \A e : e \in Elements(c) <=> e \in Elements(m) /\ e.prov \in ProvUris,
         NEW tmpls, NEW o
  PROVE  /\ CheckIfEntityExists(c, tmpls, o, FALSE, {})
              = CheckIfEntityExists(m, tmpls, o, TRUE, ProvUris)
         /\ GetEntity(c, tmpls, FALSE, {}) = GetEntity(m, tmpls, TRUE, ProvUris)
<1>1. PICK A, B : A = Elements(c) /\ B = Elements(m)
  OBVIOUS
<1>2. \A e : e \in A <=> e \in B /\ e.prov \in ProvUris
  BY <1>1
<1>3. {e \in A : e.tmpl \in tmpls /\ (FALSE => e.prov \in {})}
        = {e \in B : e.tmpl \in tmpls /\ (TRUE => e.prov \in ProvUris)}
  BY <1>2
<1>4. {e \in A : e.tmpl \in tmpls /\ o \in {Wild, e.obj} /\ (FALSE => e.prov \in {})}
        = {e \in B : e.tmpl \in tmpls /\ o \in {Wild, e.obj} /\ (TRUE => e.prov \in ProvUris)}
  BY <1>2
<1>5. QED
  BY <1>1, <1>3, <1>4, Zenon DEF CheckIfEntityExists, GetEntity, provenanceTriger

\* What a subject whose visible elements have been copied is asked for.
IsCopied(s) == \A e : e \in Elements(molecules2[s]) <=> e \in Elements(molecules[s]) /\ e.prov \in ProvUris

LEMMA ConstraintsAlike ==
  ASSUME NEW s, IsCopied(s), NEW c
  PROVE  Copy!ConstraintProv(s, c, FALSE, {}) = ConstraintProv(s, c, TRUE, ProvUris)
<1>1. PICK tt, tmpls : /\ tt = IF c.object = Wild THEN Wild ELSE GetType(c.object)
                       /\ tmpls = GetTemplates(templates, GetType(s), c.predicate, tt, 0)
  OBVIOUS
<1>2. ConstraintProv(s, c, TRUE, ProvUris)
        = CheckIfEntityExists(molecules[s], tmpls, c.object, TRUE, ProvUris)
  BY <1>1, Zenon DEF ConstraintProv
<1>3. tt = IF c.object = Copy!Wild THEN Copy!Wild ELSE Copy!GetType(c.object)
  BY <1>1, CopyOperators, Zenon
<1>4. tmpls = Copy!GetTemplates(templates, Copy!GetType(s), c.predicate, tt, 0)
  BY <1>1, CopyOperators, Zenon
<1>5. Copy!ConstraintProv(s, c, FALSE, {})
        = Copy!CheckIfEntityExists(molecules2[s], tmpls, c.object, FALSE, {})
  BY <1>3, <1>4, Zenon DEF Copy!ConstraintProv
<1>6. Copy!CheckIfEntityExists(molecules2[s], tmpls, c.object, FALSE, {})
        = CheckIfEntityExists(molecules2[s], tmpls, c.object, FALSE, {})
  BY CopyOperators, Zenon
<1>7. CheckIfEntityExists(molecules2[s], tmpls, c.object, FALSE, {})
        = CheckIfEntityExists(molecules[s], tmpls, c.object, TRUE, ProvUris)
  BY LookAlike DEF IsCopied
<1>8. QED
  BY <1>2, <1>5, <1>6, <1>7

LEMMA SubjectsAlike ==
  ASSUME NEW s, IsCopied(s), NEW o, NEW p
  PROVE  Copy!SubjectProv(s, o, p, FALSE, {}) = SubjectProv(s, o, p, TRUE, ProvUris)
<1>1. PICK tmpls : tmpls = GetTemplates(templates, GetType(s), p, GetType(o), 0)
  OBVIOUS
<1>2. tmpls = Copy!GetTemplates(templates, Copy!GetType(s), p, Copy!GetType(o), 0)
  BY <1>1, CopyOperators, Zenon
<1>3. SubjectProv(s, o, p, TRUE, ProvUris) = CheckIfEntityExists(molecules[s], tmpls, o, TRUE, ProvUris)
  BY <1>1, Zenon DEF SubjectProv
<1>4. Copy!SubjectProv(s, o, p, FALSE, {})
        = Copy!CheckIfEntityExists(molecules2[s], tmpls, o, FALSE, {})
  BY <1>2, Zenon DEF Copy!SubjectProv
<1>5. Copy!CheckIfEntityExists(molecules2[s], tmpls, o, FALSE, {})
        = CheckIfEntityExists(molecules2[s], tmpls, o, FALSE, {})
  BY CopyOperators, Zenon
<1>6. CheckIfEntityExists(molecules2[s], tmpls, o, FALSE, {})
        = CheckIfEntityExists(molecules[s], tmpls, o, TRUE, ProvUris)
  BY LookAlike DEF IsCopied
<1>7. QED
  BY <1>3, <1>4, <1>5, <1>6

\* GetEntity, as a projection and as GetObjects call it.
LEMMA EntitiesAlike ==
  ASSUME NEW s, IsCopied(s), NEW p
  PROVE  Copy!GetEntity(molecules2[s], Copy!GetTemplates(templates, Copy!GetType(s), p, Copy!Wild, 0),
                        FALSE, {})
           = GetEntity(molecules[s], GetTemplates(templates, GetType(s), p, Wild, 0), TRUE, ProvUris)
<1>1. PICK tmpls : tmpls = GetTemplates(templates, GetType(s), p, Wild, 0)
  OBVIOUS
<1>2. tmpls = Copy!GetTemplates(templates, Copy!GetType(s), p, Copy!Wild, 0)
  BY <1>1, CopyOperators, Zenon
<1>3. Copy!GetEntity(molecules2[s], tmpls, FALSE, {}) = GetEntity(molecules2[s], tmpls, FALSE, {})
  BY CopyOperators, Zenon
<1>4. GetEntity(molecules2[s], tmpls, FALSE, {}) = GetEntity(molecules[s], tmpls, TRUE, ProvUris)
  BY LookAlike DEF IsCopied
<1>5. QED
  BY <1>1, <1>2, <1>3, <1>4

LEMMA ProjectionsAlike ==
  ASSUME NEW s, IsCopied(s), NEW p
  PROVE  Copy!Projected(s, p, FALSE, {}) = Projected(s, p, TRUE, ProvUris)
BY EntitiesAlike, Zenon DEF Copy!Projected, Projected

LEMMA ObjectsAlike ==
  ASSUME NEW s \in KEY_ID, IsCopied(s), NEW p
  PROVE  Copy!GetObjects(s, p, FALSE, {}) = GetObjects(s, p, TRUE, ProvUris)
<1>1. PICK X : X = GetEntity(molecules[s], GetTemplates(templates, GetType(s), p, Wild, 0), TRUE, ProvUris)
  OBVIOUS
<1>2. \A e : e \in X => e \in Elements(molecules[s]) /\ e.prov \in ProvUris
  BY <1>1 DEF GetEntity, provenanceTriger
<1>3. Elements(NoMolecule) = {}
  BY DEF Elements, NoMolecule
<1>4. GetObjects(s, p, TRUE, ProvUris) = X
  <2>1. CASE molecules[s] = NoMolecule
    <3>1. X = {}
      BY <1>2, <1>3, <2>1
    <3>2. QED
      BY <2>1, <3>1 DEF GetObjects, GetPair
  <2>2. CASE molecules[s] # NoMolecule
    BY <1>1, <2>2 DEF GetObjects, GetPair
  <2>3. QED
    BY <2>1, <2>2
<1>5. X = Copy!GetEntity(molecules2[s], Copy!GetTemplates(templates, Copy!GetType(s), p, Copy!Wild, 0),
                         FALSE, {})
  BY <1>1, EntitiesAlike
<1>6. Copy!GetObjects(s, p, FALSE, {}) = X
  <2>1. CASE molecules2[s] = NoMolecule
    <3>1. X = {}
      BY <1>2, <1>3, <2>1 DEF IsCopied
    <3>2. QED
      BY <2>1, <3>1, CopyOperators DEF Copy!GetObjects, Copy!GetPair
  <2>2. CASE molecules2[s] # NoMolecule
    <3>1. Copy!GetPair(s) # {}
      BY <2>2, CopyOperators DEF Copy!GetPair
    <3>2. QED
      BY <1>5, <3>1 DEF Copy!GetObjects
  <2>3. QED
    BY <2>1, <2>2
<1>7. QED
  BY <1>4, <1>6

\* Every molecule copied, and both inverted indexes exact.
AllCopied ==
  /\ \A s \in KEY_ID : IsCopied(s)
  /\ InvertedIndexExact
  /\ Copy!InvertedIndexExact

\* Whoever has an object under a visible context is in both indexes.
LEMMA IndexesAlike ==
  ASSUME AllCopied, NEW o \in KEY_ID, NEW s \in KEY_ID,
         NEW e \in Elements(molecules[s]), e.obj = o, e.prov \in ProvUris
  PROVE  s \in GetMoleculesFromInvertedIdx(o) /\ s \in Copy!GetMoleculesFromInvertedIdx(o)
<1>1. e \in Elements(molecules2[s])
  BY DEF AllCopied, IsCopied
<1>2. o \in ObjectsOf(molecules[s]) /\ o \in ObjectsOf(molecules2[s])
  BY <1>1 DEF ObjectsOf
<1>3. s \in inv_molecules[o]
  BY <1>2 DEF AllCopied, InvertedIndexExact
<1>4. s \in inv_molecules2[o]
  BY <1>2, CopyOperators DEF AllCopied, Copy!InvertedIndexExact
<1>5. QED
  BY <1>3, <1>4 DEF GetMoleculesFromInvertedIdx, Copy!GetMoleculesFromInvertedIdx

\* Only subjects are in an index.
LEMMA IndexesOfKeys ==
  ASSUME AllCopied, NEW o \in KEY_ID
  PROVE  /\ GetMoleculesFromInvertedIdx(o) \subseteq KEY_ID
         /\ Copy!GetMoleculesFromInvertedIdx(o) \subseteq KEY_ID
<1>1. inv_molecules[o] \subseteq KEY_ID
  BY DEF AllCopied, InvertedIndexExact
<1>2. inv_molecules2[o] \subseteq KEY_ID
  BY DEF AllCopied, Copy!InvertedIndexExact
<1>3. QED
  BY <1>1, <1>2 DEF GetMoleculesFromInvertedIdx, Copy!GetMoleculesFromInvertedIdx

LEMMA GetSubjectsAlike ==
  ASSUME AllCopied, NEW o \in KEY_ID, NEW p
  PROVE  Copy!GetSubjectsProv(o, p, FALSE, {}) = GetSubjectsProv(o, p, TRUE, ProvUris)
<1>1. \A s \in KEY_ID : Copy!SubjectProv(s, o, p, FALSE, {}) = SubjectProv(s, o, p, TRUE, ProvUris)
  BY SubjectsAlike DEF AllCopied
<1>2. ASSUME NEW s \in KEY_ID, SubjectProv(s, o, p, TRUE, ProvUris) # {}
      PROVE  s \in GetMoleculesFromInvertedIdx(o) /\ s \in Copy!GetMoleculesFromInvertedIdx(o)
  <2>1. o # Wild
    BY KeyAssumption DEF Wild
  <2>2. \E e \in Elements(molecules[s]) : e.obj = o /\ e.prov \in ProvUris
    BY <1>2, <2>1 DEF SubjectProv, CheckIfEntityExists, provenanceTriger
  <2>3. QED
    BY <2>2, IndexesAlike
<1>3. \A s : s \in GetSubjects(o, p, TRUE, ProvUris)
               <=> s \in KEY_ID /\ SubjectProv(s, o, p, TRUE, ProvUris) # {}
  BY <1>2, IndexesOfKeys DEF GetSubjects
<1>4. \A s : s \in Copy!GetSubjects(o, p, FALSE, {})
               <=> s \in KEY_ID /\ SubjectProv(s, o, p, TRUE, ProvUris) # {}
  BY <1>1, <1>2, IndexesOfKeys DEF Copy!GetSubjects
<1>5. PICK S : S = GetSubjects(o, p, TRUE, ProvUris)
  OBVIOUS
<1>6. S = Copy!GetSubjects(o, p, FALSE, {}) /\ S \subseteq KEY_ID
  BY <1>3, <1>4, <1>5
<1>7. GetSubjectsProv(o, p, TRUE, ProvUris) = UNION {SubjectProv(s, o, p, TRUE, ProvUris) : s \in S}
  BY <1>5, Zenon DEF GetSubjectsProv
<1>8. Copy!GetSubjectsProv(o, p, FALSE, {}) = UNION {Copy!SubjectProv(s, o, p, FALSE, {}) : s \in S}
  BY <1>6, Zenon DEF Copy!GetSubjectsProv
<1>9. QED
  BY <1>1, <1>6, <1>7, <1>8

\* Rows, for any constraints and projections.
LEMMA AnswersAlike ==
  ASSUME NEW s, IsCopied(s), NEW cs, NEW ps
  PROVE  Copy!Answers(s, cs, ps, FALSE, {}) <=> Answers(s, cs, ps, TRUE, ProvUris)
<1>1. \A c : Copy!ConstraintProv(s, c, FALSE, {}) = ConstraintProv(s, c, TRUE, ProvUris)
  BY ConstraintsAlike
<1>2. \A p : Copy!Projected(s, p, FALSE, {}) = Projected(s, p, TRUE, ProvUris)
  BY ProjectionsAlike
<1>3. QED
  BY <1>1, <1>2 DEF Copy!Answers, Answers

LEMMA RowsAlike ==
  ASSUME NEW s, IsCopied(s), NEW cs, NEW ps
  PROVE  /\ Copy!RowResults(s, ps, FALSE, {}) = RowResults(s, ps, TRUE, ProvUris)
         /\ Copy!RowProv(s, cs, ps, FALSE, {}) = RowProv(s, cs, ps, TRUE, ProvUris)
<1>1. \A i : Copy!ConstraintProv(s, cs[i], FALSE, {}) = ConstraintProv(s, cs[i], TRUE, ProvUris)
  BY ConstraintsAlike
<1>2. \A i : Copy!Projected(s, ps[i], FALSE, {}) = Projected(s, ps[i], TRUE, ProvUris)
  BY ProjectionsAlike
<1>3. \A i : /\ {e.obj : e \in Copy!Projected(s, ps[i], FALSE, {})}
                  = {e.obj : e \in Projected(s, ps[i], TRUE, ProvUris)}
             /\ {e.prov : e \in Copy!Projected(s, ps[i], FALSE, {})}
                  = {e.prov : e \in Projected(s, ps[i], TRUE, ProvUris)}
  BY <1>2, Zenon
<1>4. Copy!RowResults(s, ps, FALSE, {}) = RowResults(s, ps, TRUE, ProvUris)
  BY <1>3, Zenon DEF Copy!RowResults, RowResults
<1>5. [i \in DOMAIN cs |-> Copy!ConstraintProv(s, cs[i], FALSE, {})]
        = [i \in DOMAIN cs |-> ConstraintProv(s, cs[i], TRUE, ProvUris)]
  BY <1>1, Zenon
<1>6. [i \in DOMAIN ps |-> {e.prov : e \in Copy!Projected(s, ps[i], FALSE, {})}]
        = [i \in DOMAIN ps |-> {e.prov : e \in Projected(s, ps[i], TRUE, ProvUris)}]
  BY <1>3, Zenon
<1>7. QED
  BY <1>4, <1>5, <1>6, Zenon DEF Copy!RowProv, RowProv

\* A pattern that starts from a constraint on an object.
LEMMA PatternsAlike ==
  ASSUME AllCopied, NEW c, c.subject = 0, c.object \in KEY_ID, c.prov = 0, NEW ps
  PROVE  Copy!TriplePatern(<<c>>, ps, FALSE, {}) = TriplePatern(<<c>>, ps, TRUE, ProvUris)
<1>1. PICK cs, o : cs = <<c>> /\ o = c.object
  OBVIOUS
<1>2. o \in KEY_ID /\ o # Wild /\ cs # <<>> /\ cs[1] = c /\ DOMAIN cs = {1}
  BY <1>1, KeyAssumption DEF Wild
<1>3. Candidates(cs, ps) = GetMoleculesFromInvertedIdx(o)
  BY <1>1, <1>2 DEF Candidates
<1>4. Copy!Candidates(cs, ps) = Copy!GetMoleculesFromInvertedIdx(o)
  BY <1>1, <1>2, CopyOperators DEF Copy!Candidates
<1>5. \A s \in KEY_ID : Copy!Answers(s, cs, ps, FALSE, {}) <=> Answers(s, cs, ps, TRUE, ProvUris)
  BY AnswersAlike DEF AllCopied
<1>6. ASSUME NEW s \in KEY_ID, Answers(s, cs, ps, TRUE, ProvUris)
      PROVE  s \in GetMoleculesFromInvertedIdx(o) /\ s \in Copy!GetMoleculesFromInvertedIdx(o)
  <2>1. ConstraintProv(s, c, TRUE, ProvUris) # {}
    BY <1>2, <1>6 DEF Answers
  <2>2. PICK tmpls : ConstraintProv(s, c, TRUE, ProvUris)
                       = CheckIfEntityExists(molecules[s], tmpls, o, TRUE, ProvUris)
    BY <1>1, Zenon DEF ConstraintProv
  <2>3. \E e \in Elements(molecules[s]) : e.obj = o /\ e.prov \in ProvUris
    BY <1>2, <2>1, <2>2 DEF CheckIfEntityExists, provenanceTriger
  <2>4. QED
    BY <1>2, <2>3, IndexesAlike
<1>7. PICK S : S = {s \in Candidates(cs, ps) : Answers(s, cs, ps, TRUE, ProvUris)}
  OBVIOUS
<1>8. \A s : s \in S <=> s \in KEY_ID /\ Answers(s, cs, ps, TRUE, ProvUris)
  BY <1>2, <1>3, <1>6, <1>7, IndexesOfKeys
<1>9. S = {s \in Copy!Candidates(cs, ps) : Copy!Answers(s, cs, ps, FALSE, {})}
  <2>1. \A s : s \in Copy!Candidates(cs, ps) => s \in KEY_ID
    BY <1>2, <1>4, IndexesOfKeys
  <2>2. QED
    BY <1>4, <1>5, <1>6, <1>8, <2>1
<1>10. \A s \in S :
         [results |-> Copy!RowResults(s, ps, FALSE, {}), prov |-> Copy!RowProv(s, cs, ps, FALSE, {})]
           = [results |-> RowResults(s, ps, TRUE, ProvUris), prov |-> RowProv(s, cs, ps, TRUE, ProvUris)]
  BY <1>8, RowsAlike DEF AllCopied
<1>11. TriplePatern(cs, ps, TRUE, ProvUris) =
         [s \in S |-> [results |-> RowResults(s, ps, TRUE, ProvUris),
                       prov |-> RowProv(s, cs, ps, TRUE, ProvUris)]]
  BY <1>7, Zenon DEF TriplePatern
<1>12. Copy!TriplePatern(cs, ps, FALSE, {}) =
         [s \in S |-> [results |-> Copy!RowResults(s, ps, FALSE, {}),
                       prov |-> Copy!RowProv(s, cs, ps, FALSE, {})]]
  BY <1>9, Zenon DEF Copy!TriplePatern
<1>13. QED
  BY <1>1, <1>10, <1>11, <1>12, Zenon

\* The copy, once nothing is left to copy.
LEMMA AllAsksAlike ==
  ASSUME AllCopied, Copy!ProvIdxExact, tripleIDs \in Seq(Lines)
  PROVE  CopyAnswersAlike
<1>1. \A q \in Stored : q.subject \in KEY_ID /\ q.object \in KEY_ID
  <2>1. \A q \in Range(tripleIDs) : q \in TripleIDs
    BY LoadAssumption DEF Range
  <2>2. QED
    BY <2>1 DEF Stored, TripleIDs
<1>2. \A s \in KEY_ID : \A p : Copy!GetObjects(s, p, FALSE, {}) = GetObjects(s, p, TRUE, ProvUris)
  BY ObjectsAlike DEF AllCopied
<1>3. \A o \in KEY_ID : \A p :
        Copy!GetSubjectsProv(o, p, FALSE, {}) = GetSubjectsProv(o, p, TRUE, ProvUris)
  BY GetSubjectsAlike
<1>4. \A o \in KEY_ID : \A p, ps :
        Copy!TriplePatern(<<[subject |-> 0, predicate |-> p, object |-> o, prov |-> 0]>>, ps, FALSE, {})
          = TriplePatern(<<[subject |-> 0, predicate |-> p, object |-> o, prov |-> 0]>>, ps,
                         TRUE, ProvUris)
  BY PatternsAlike
<1>5. Copy!InvertedIndexExact
  BY DEF AllCopied
<1>6. QED
  BY <1>1, <1>2, <1>3, <1>4, <1>5, Zenon DEF CopyAnswersAlike
------------------------------------------------------------------------------
(***************************************************************************)
(* The copy: the loop.                                                     *)
(***************************************************************************)

\* A molecule that has left toCopy is copied, the others are not begun, and the
\* indexes are those of the molecules copied.
Copying ==
  /\ phase = "loaded"
  /\ toCopy \subseteq KEY_ID
  /\ tripleIDs \in Seq(Lines)
  /\ molecules \in [KEY_ID -> Molecule]
  /\ InvertedIndexExact
  /\ \A s \in KEY_ID :
       Elements(molecules2[s]) =
         IF s \in toCopy THEN {} ELSE {e \in Elements(molecules[s]) : e.prov \in ProvUris}
  /\ Copy!InvertedIndexExact
  /\ Copy!ProvIdxExact

CopyInv ==
  /\ copied \in BOOLEAN
  /\ molecules2 \in [KEY_ID -> Molecule]
  /\ ~ copied => /\ StoreInv
                 /\ toCopy = {}
                 /\ molecules2 = [k \in KEY_ID |-> NoMolecule]
                 /\ inv_molecules2 = Empty
  /\ copied => Copying

\* Nothing is there.
LEMMA NothingCopied ==
  /\ NoMolecule \in Molecule
  /\ Elements(NoMolecule) = {}
  /\ ObjectsOf(NoMolecule) = {} /\ ProvenancesOf(NoMolecule) = {}
  /\ [k \in KEY_ID |-> NoMolecule] \in [KEY_ID -> Molecule]
<1>1. NoMolecule \in Molecule
  BY DEF NoMolecule, Molecule
<1>2. Elements(NoMolecule) = {}
  BY DEF Elements, NoMolecule
<1>3. ObjectsOf(NoMolecule) = {} /\ ProvenancesOf(NoMolecule) = {}
  BY <1>2 DEF ObjectsOf, ProvenancesOf
<1>4. QED
  BY <1>1, <1>2, <1>3

LEMMA CopyInvInit == MaterializeInit => CopyInv
BY NothingCopied, StoreInvInit DEF MaterializeInit, Init, CopyInv

\* The call clears the provenance index, and all molecules are to be copied.
LEMMA CopyStarts ==
  ASSUME CopyInv, Materialize
  PROVE  CopyInv'
<1>1. /\ StoreInv /\ phase = "loaded" /\ copied' = TRUE /\ ProvIdx' = Empty
      /\ molecules2 = [k \in KEY_ID |-> NoMolecule] /\ inv_molecules2 = Empty
      /\ toCopy' = {s \in KEY_ID : molecules[s] # NoMolecule}
      /\ UNCHANGED <<phase, tripleIDs, molecules, inv_molecules, ProvUris, molecules2, inv_molecules2>>
  BY DEF CopyInv, Materialize, provVars
<1>2. tripleIDs \in Seq(Lines) /\ molecules \in [KEY_ID -> Molecule] /\ InvertedIndexExact
  BY <1>1 DEF StoreInv, LoadInv, TypeOK, IndexesExact
<1>3. \A s \in KEY_ID : molecules2[s] = NoMolecule
  BY <1>1
<1>4. ASSUME NEW s \in KEY_ID
      PROVE  Elements(molecules2[s]) =
               IF s \in toCopy' THEN {} ELSE {e \in Elements(molecules[s]) : e.prov \in ProvUris}
  <2>1. s \notin toCopy' => Elements(molecules[s]) = {}
    BY <1>1, NothingCopied
  <2>2. Elements(molecules2[s]) = {}
    BY <1>3, NothingCopied
  <2>3. QED
    BY <2>1, <2>2
<1>5. Copy!InvertedIndexExact'
  <2>1. \A o \in KEY_ID : inv_molecules2'[o] = {} /\ \A s \in KEY_ID : ObjectsOf(molecules2'[s]) = {}
    BY <1>1, <1>3, NothingCopied DEF Empty
  <2>2. QED
    BY <2>1, CopyOperators DEF Copy!InvertedIndexExact
<1>6. Copy!ProvIdxExact'
  <2>1. \A p, s \in KEY_ID : ProvIdx'[p] = {} /\ ProvenancesOf(molecules2'[s]) = {}
    BY <1>1, <1>3, NothingCopied DEF Empty
  <2>2. QED
    BY <2>1, CopyOperators DEF Copy!ProvIdxExact
<1>7. InvertedIndexExact'
  BY <1>1, <1>2 DEF InvertedIndexExact
<1>8. Copying'
  BY <1>1, <1>2, <1>4, <1>5, <1>6, <1>7 DEF Copying
<1>9. QED
  BY <1>1, <1>8 DEF CopyInv

\* One turn: the molecule of s is there, in the copy and in both indexes.
LEMMA CopyGoesOn ==
  ASSUME CopyInv, NEW s \in toCopy, CopyMolecule(s)
  PROVE  CopyInv'
<1>1. PICK elems : elems = Visible(molecules[s])
  OBVIOUS
<1>2. /\ toCopy' = toCopy \ {s}
      /\ ReconstructMolecule(s, elems)
      /\ UNCHANGED <<phase, tripleIDs, molecules, inv_molecules, ProvUris, copied>>
  BY <1>1 DEF CopyMolecule, provVars
<1>3. copied = TRUE /\ Copying /\ molecules2 \in [KEY_ID -> Molecule]
  BY DEF CopyInv
<1>4. s \in KEY_ID /\ molecules[s] \in Molecule /\ molecules2[s] \in Molecule
      /\ Elements(molecules2[s]) = {}
  BY <1>3 DEF Copying
<1>5. /\ elems \in Seq(TypedElement)
      /\ \A e : e \in Range(elems) <=> e \in Elements(molecules[s]) /\ e.prov \in ProvUris
  BY <1>1, <1>4, VisibleElements
<1>6. PICK m : m = Reconstructed(molecules2[s], elems)
  OBVIOUS
<1>7. m \in Molecule /\ Elements(m) = Range(elems)
  BY <1>4, <1>5, <1>6, ReconstructedElements
<1>8. /\ molecules2' = [molecules2 EXCEPT ![s] = m]
      /\ inv_molecules2' = [o \in KEY_ID |->
           inv_molecules2[o] \union {t \in {s} : \E e \in Range(elems) : e.obj = o}]
      /\ ProvIdx' = [p \in KEY_ID |->
           ProvIdx[p] \union {t \in {s} : \E e \in Range(elems) : e.prov = p}]
  BY <1>2, <1>6 DEF ReconstructMolecule
<1>9. molecules2' \in [KEY_ID -> Molecule] /\ molecules2'[s] = m
      /\ \A t \in KEY_ID : t # s => molecules2'[t] = molecules2[t]
  BY <1>3, <1>4, <1>7, <1>8
<1>10. ASSUME NEW t \in KEY_ID
       PROVE  Elements(molecules2'[t]) =
                IF t \in toCopy' THEN {} ELSE {e \in Elements(molecules[t]) : e.prov \in ProvUris}
  <2>1. CASE t = s
    BY <1>2, <1>5, <1>7, <1>9, <2>1
  <2>2. CASE t # s
    <3>1. t \in toCopy' <=> t \in toCopy
      BY <1>2, <2>2
    <3>2. QED
      BY <1>3, <1>9, <2>2, <3>1 DEF Copying
  <2>3. QED
    BY <2>1, <2>2
<1>11. ObjectsOf(molecules2[s]) = {} /\ ProvenancesOf(molecules2[s]) = {}
  BY <1>4 DEF ObjectsOf, ProvenancesOf
<1>12. /\ \A o : o \in ObjectsOf(m) <=> \E e \in Range(elems) : e.obj = o
       /\ \A p : p \in ProvenancesOf(m) <=> \E e \in Range(elems) : e.prov = p
  BY <1>7 DEF ObjectsOf, ProvenancesOf
<1>13. Copy!InvertedIndexExact'
  <2>1. \A o, t \in KEY_ID : t \in inv_molecules2[o] <=> o \in ObjectsOf(molecules2[t])
    BY <1>3, CopyOperators DEF Copying, Copy!InvertedIndexExact
  <2>2. \A o \in KEY_ID : inv_molecules2[o] \subseteq KEY_ID
    BY <1>3 DEF Copying, Copy!InvertedIndexExact
  <2>3. \A o \in KEY_ID : \A t :
          t \in inv_molecules2'[o]
            <=> t \in inv_molecules2[o] \/ (t = s /\ \E e \in Range(elems) : e.obj = o)
    BY <1>8
  <2>4. \A o, t \in KEY_ID : t \in inv_molecules2'[o] <=> o \in ObjectsOf(molecules2'[t])
    BY <1>4, <1>9, <1>11, <1>12, <2>1, <2>3
  <2>5. \A o \in KEY_ID : inv_molecules2'[o] \subseteq KEY_ID
    BY <1>4, <2>2, <2>3
  <2>6. \A o \in KEY_ID : inv_molecules2'[o] = {t \in KEY_ID : o \in ObjectsOf(molecules2'[t])}
    BY <2>4, <2>5
  <2>7. QED
    BY <2>6, CopyOperators DEF Copy!InvertedIndexExact
<1>14. Copy!ProvIdxExact'
  <2>1. \A p, t \in KEY_ID :
          GetType(t) >= 2 => (t \in ProvIdx[p] <=> p \in ProvenancesOf(molecules2[t]))
    BY <1>3, CopyOperators DEF Copying, Copy!ProvIdxExact
  <2>2. \A p \in KEY_ID : \A t :
          t \in ProvIdx'[p] <=> t \in ProvIdx[p] \/ (t = s /\ \E e \in Range(elems) : e.prov = p)
    BY <1>8
  <2>3. \A p, t \in KEY_ID :
          GetType(t) >= 2 => (t \in ProvIdx'[p] <=> p \in ProvenancesOf(molecules2'[t]))
    BY <1>4, <1>9, <1>11, <1>12, <2>1, <2>2
  <2>4. QED
    BY <2>3, CopyOperators DEF Copy!ProvIdxExact
<1>15. Copying'
  <2>1. InvertedIndexExact'
    BY <1>2, <1>3 DEF Copying, InvertedIndexExact
  <2>2. QED
    BY <1>2, <1>3, <1>10, <1>13, <1>14, <2>1 DEF Copying
<1>16. QED
  BY <1>2, <1>3, <1>9, <1>15 DEF CopyInv

LEMMA CopyInvNext == CopyInv /\ [MaterializeNext]_<<vars, copyVars>> => CopyInv'
<1> SUFFICES ASSUME CopyInv, [MaterializeNext]_<<vars, copyVars>> PROVE CopyInv'
  OBVIOUS
<1>1. CASE ~ copied /\ Next /\ UNCHANGED copyVars
  <2>1. [LoadNext]_loadVars
    BY <1>1 DEF Next, RunBlock
  <2>2. StoreInv'
    BY <1>1, <2>1, StoreInvNext DEF CopyInv
  <2>3. QED
    BY <1>1, <2>2 DEF CopyInv, copyVars
<1>2. CASE Materialize
  BY <1>2, CopyStarts
<1>3. ASSUME NEW s \in toCopy, CopyMolecule(s) PROVE CopyInv'
  BY <1>3, CopyGoesOn
<1>4. CASE UNCHANGED <<vars, copyVars>>
  <2>1. UNCHANGED loadVars /\ UNCHANGED provVars /\ UNCHANGED copyVars
    BY <1>4 DEF vars
  <2>2. ~ copied => StoreInv'
    BY <2>1, StoreInvNext DEF CopyInv
  <2>3. Copying => Copying'
    BY <2>1 DEF Copying, loadVars, provVars, copyVars, store, InvertedIndexExact,
                Copy!InvertedIndexExact, Copy!ProvIdxExact
  <2>4. QED
    BY <2>1, <2>2, <2>3 DEF CopyInv, copyVars
<1>5. QED
  BY <1>1, <1>2, <1>3, <1>4 DEF MaterializeNext

\* MaterializeMoleculesForProvenance: the copy it leaves answers every look-up
\* without the trigger as the original does with it, and its indexes are exact.
THEOREM CopyStandsIn == MaterializeSpec => []CopyAnswersAlike
<1>1. MaterializeInit => CopyInv
  BY CopyInvInit
<1>2. CopyInv /\ [MaterializeNext]_<<vars, copyVars>> => CopyInv'
  BY CopyInvNext
<1>3. CopyInv => CopyAnswersAlike
  <2> SUFFICES ASSUME CopyInv PROVE CopyAnswersAlike
    OBVIOUS
  <2>1. CASE copied /\ toCopy = {}
    <3>1. Copying
      BY <2>1 DEF CopyInv
    <3>2. \A s \in KEY_ID : IsCopied(s)
      BY <2>1, <3>1 DEF Copying, IsCopied
    <3>3. AllCopied
      BY <3>1, <3>2 DEF Copying, AllCopied
    <3>4. QED
      BY <3>1, <3>3, AllAsksAlike DEF Copying
  <2>2. CASE ~ (copied /\ toCopy = {})
    BY <2>2, Zenon DEF CopyAnswersAlike
  <2>3. QED
    BY <2>1, <2>2
<1>4. QED
  BY <1>1, <1>2, <1>3, PTL DEF MaterializeSpec
==============================================================================
