----------------------------- MODULE Partitioner -----------------------------
(***************************************************************************)
(* Partitioner.cpp: the master deals the molecules out to the nodes of the *)
(* cluster, PartitionerRange at a time, one node after the other.  The     *)
(* molecules come from an unordered_set, so in any order; what a node gets *)
(* is a vector in the code and a set here, for it holds no molecule twice  *)
(* and the node reads it back into a set.                                  *)
(***************************************************************************)
EXTENDS Integers, FiniteSets

CONSTANTS
  Subjects,         \* the identifiers there can be a molecule for
  nbOfClients,      \* how many nodes the cluster has
  PartitionerRange  \* how many molecules a node gets at a turn

ASSUME PartitionAssumption ==
  /\ IsFiniteSet(Subjects)
  /\ nbOfClients \in Nat \ {0}
  /\ PartitionerRange \in Nat \ {0}

Clients == 0 .. (nbOfClients - 1)

VARIABLES
  nodes,            \* Partitioner::nodes: what each node has got
  lastNetworkNode,  \* the node whose turn is next
  toPlace           \* the molecules the iterator has not come to

partitionVars == <<nodes, lastNetworkNode, toPlace>>

PartitionInit ==
  /\ nodes = [i \in Clients |-> {}]
  /\ lastNetworkNode = 0
  /\ toPlace = {}

\* Mutant of NextNetworkNode: the last node gets no turn.
NextNodeEarly ==
  IF lastNetworkNode < nbOfClients - 2 THEN lastNetworkNode + 1 ELSE 0

\* The node whose turn it is after a call of getNextNetworkNode.
NextNetworkNode ==
  IF lastNetworkNode < nbOfClients - 1 THEN lastNetworkNode + 1 ELSE 0

\* PartitionMolecules is called with the molecules of the dataset.
PartitionMolecules(molecules) ==
  /\ toPlace' = molecules
  /\ UNCHANGED <<nodes, lastNetworkNode>>

\* What one turn of PartitionMolecules takes from the iterator: a full range,
\* or all that is left of it.
Chunks ==
  {c \in SUBSET toPlace : \/ Cardinality(c) = PartitionerRange
                          \/ Cardinality(c) < PartitionerRange /\ c = toPlace}

\* Mutant of PlaceChunk: the iterator moves once too often at the end of a range.
PlaceChunkPassing ==
  /\ toPlace # {}
  /\ \E c \in Chunks : \E passed \in SUBSET (toPlace \ c) :
       /\ Cardinality(passed) <= 1
       /\ nodes' = [nodes EXCEPT ![lastNetworkNode] = @ \union c]
       /\ toPlace' = toPlace \ (c \union passed)
  /\ lastNetworkNode' = NextNetworkNode

\* One turn of the loop of PartitionMolecules, the inner loop included: it ends
\* with the range or, by the early return, with the molecules.
PlaceChunk ==
  /\ toPlace # {}
  /\ \E c \in Chunks :
       /\ nodes' = [nodes EXCEPT ![lastNetworkNode] = @ \union c]
       /\ toPlace' = toPlace \ c
  /\ lastNetworkNode' = NextNetworkNode

Placed == UNION {nodes[i] : i \in Clients}

\* The partitioner on its own, called once with any set of molecules.
PartitionNext ==
  \/ /\ toPlace = {} /\ Placed = {}
     /\ \E molecules \in SUBSET Subjects : PartitionMolecules(molecules)
  \/ PlaceChunk

PartitionSpec == PartitionInit /\ [][PartitionNext]_partitionVars
------------------------------------------------------------------------------
(***************************************************************************)
(* What the partitioner promises.                                          *)
(***************************************************************************)

PartitionTypeOK ==
  /\ nodes \in [Clients -> SUBSET Subjects]
  /\ lastNetworkNode \in Clients
  /\ toPlace \subseteq Subjects

\* A molecule is on one node at most, and on none before its turn: two nodes
\* never answer for the same subject.
OnOneNode ==
  /\ \A i, j \in Clients : i # j => nodes[i] \intersect nodes[j] = {}
  /\ Placed \intersect toPlace = {}

\* A turn of the loop loses and invents no molecule.
NothingLost == [][toPlace # {} => (Placed \union toPlace)' = Placed \union toPlace]_partitionVars

\* No node has more than a range of molecules more than another, whatever the
\* number of molecules: the early return inside a range included.
Balanced ==
  \A i, j \in Clients : Cardinality(nodes[i]) <= Cardinality(nodes[j]) + PartitionerRange
==============================================================================
