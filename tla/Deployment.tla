----------------------------- MODULE Deployment -----------------------------
(***************************************************************************)
(* The master and the nodes of the network mode, which meet in files only. *)
(* LoadData of the master (Conductor) stores, between the templates and    *)
(* the molecules, the files triples, node0, node1, ..., templates, types;  *)
(* LoadData of a node (ConductorNode) reads them and builds the molecules  *)
(* it was given.  The master can stop anywhere and be run again over other *)
(* data; no open or write is checked, so a file that cannot be written     *)
(* keeps what an earlier run left in it; and nodes start when they like.   *)
(*                                                                         *)
(* A file is written, and read, in one step.                               *)
(***************************************************************************)
EXTENDS Conductor, ConductorNode, Partitioner

CONSTANTS
  NbsOfTypes, \* bound: what KM.GetNbOfTypes() may be
  MaxRuns,    \* bound: runs of the master
  MaxFailures \* bound: files that cannot be written

ASSUME DeploymentAssumption ==
  /\ Subjects = KEY_ID
  /\ NbsOfTypes \subseteq Nat
  /\ \E nb \in NbsOfTypes : \A t \in TYPE_ID : t < nb
  /\ MaxRuns \in Nat /\ MaxFailures \in Nat

VARIABLES
  run,      \* history: which run of the master this is
  saving,   \* what the master stores next: "triples", "partition" (no file
            \* yet), "nodes", "templates", "types", or "saved"
  sent,     \* how many node files SendMolecules has written
  failures, \* how many files could not be written
  disk,     \* the files, each with the run that wrote it (0: not there)
  node      \* the memory of the nodes

masterVars == <<loadVars, partitionVars, run, saving, sent, failures>>
deploymentVars == <<masterVars, disk, node>>

NoFile == [run |-> 0]
File(data) == [run |-> run, data |-> data]

DeploymentInit ==
  /\ LoadInit
  /\ PartitionInit
  /\ run = 1 /\ saving = "triples" /\ sent = 0 /\ failures = 0
  /\ disk = [triples |-> NoFile, node |-> [i \in Clients |-> NoFile],
             templates |-> NoFile, types |-> NoFile]
  /\ node = [i \in Clients |-> FreshNode]
------------------------------------------------------------------------------
(* The master.                                                             *)

\* LoadData outside its middle part, where it stores the files.
LoadStep ==
  /\ phase = "molecules" => saving = "saved"
  /\ LoadNext
  /\ UNCHANGED <<partitionVars, run, saving, sent, failures, disk, node>>

At(save) == phase = "molecules" /\ saving = save

\* The file is written, or it cannot be opened and nobody notices.
Stores(written) ==
  \/ disk' = written /\ UNCHANGED failures
  \/ failures < MaxFailures /\ failures' = failures + 1 /\ UNCHANGED disk

StoreTriples ==
  /\ At("triples")
  /\ Stores([disk EXCEPT !.triples = File(tripleIDs)])
  /\ saving' = "partition"
  /\ UNCHANGED <<loadVars, partitionVars, run, sent, node>>

\* molecules_tmp: every subject that is neither an error nor a class.
MoleculesOf(ds) == {q.subject : q \in {l \in Range(ds) : GetType(l.subject) > 1}}

Partition ==
  /\ At("partition")
  /\ PartitionMolecules(MoleculesOf(tripleIDs))
  /\ saving' = "nodes"
  /\ UNCHANGED <<loadVars, run, sent, failures, disk, node>>

Place ==
  /\ At("nodes")
  /\ PlaceChunk
  /\ UNCHANGED <<loadVars, run, saving, sent, failures, disk, node>>

\* One turn of the loop of SendMolecules.
SendMolecules ==
  /\ At("nodes")
  /\ toPlace = {}
  /\ sent < nbOfClients
  /\ Stores([disk EXCEPT !.node[sent] = File(nodes[sent])])
  /\ sent' = sent + 1
  /\ saving' = IF sent + 1 = nbOfClients THEN "templates" ELSE saving
  /\ UNCHANGED <<loadVars, partitionVars, run, node>>

\* TM.Store and TH.Store.
StoreTemplates ==
  /\ At("templates")
  /\ Stores([disk EXCEPT !.templates = File(templates)])
  /\ saving' = "types"
  /\ UNCHANGED <<loadVars, partitionVars, run, sent, node>>

\* Every identifier of the lines ds is of a type below nb.
TypesBelow(nb, ds) ==
  \A i \in DOMAIN ds :
    \A k \in {ds[i].subject, ds[i].predicate, ds[i].object, ds[i].prov} : GetType(k) < nb

\* Mutant of GetNbOfTypes: the highest type is not counted.
GetNbOfTypesOneLess(ds) == {nb \in NbsOfTypes : TypesBelow(nb + 1, ds)}

\* KM.GetNbOfTypes: the classes of the dataset and the three reserved types.
\* The rdf:type lines the classes come from are none of ds, so a dataset can
\* have any number above the types it uses, and another run another number.
GetNbOfTypes(ds) == {nb \in NbsOfTypes : TypesBelow(nb, ds)}

StoreTypes ==
  /\ At("types")
  /\ \E nb \in GetNbOfTypes(tripleIDs) : Stores([disk EXCEPT !.types = File(nb)])
  /\ saving' = "saved"
  /\ UNCHANGED <<loadVars, partitionVars, run, sent, node>>

\* The master ends, where it likes, and is started again: all it had in
\* memory is gone, the files stay.
Rerun ==
  /\ run < MaxRuns
  /\ run' = run + 1
  /\ phase' = "read" /\ tripleIDs' = <<>> /\ toAdd' = {}
  /\ templates' = NoTemplates /\ pos' = 1
  /\ molecules' = [k \in KEY_ID |-> NoMolecule]
  /\ inv_molecules' = Empty /\ ProvIdx' = Empty
  /\ contextTriples' = [k \in KEY_ID |-> 0]
  /\ nodes' = [i \in Clients |-> {}] /\ lastNetworkNode' = 0 /\ toPlace' = {}
  /\ saving' = "triples" /\ sent' = 0
  /\ UNCHANGED <<failures, disk, node>>
------------------------------------------------------------------------------
(* A node.  It is started over files that are there.                       *)

AllStored ==
  /\ disk.triples # NoFile /\ disk.templates # NoFile /\ disk.types # NoFile
  /\ \A i \in Clients : disk.node[i] # NoFile

\* Node i reads file and goes on with the next.
Reads(i, file, memory, next) ==
  node' = [node EXCEPT ![i] = [memory EXCEPT !.runs = @ \union {file.run}, !.at = next]]

ReadTriples(i) ==
  /\ node[i].at = "triples"
  /\ AllStored
  /\ Reads(i, disk.triples, [node[i] EXCEPT !.tripleIDs = disk.triples.data], "node")
  /\ UNCHANGED <<masterVars, disk>>

readMyMolecules(i) ==
  /\ node[i].at = "node"
  /\ Reads(i, disk.node[i], [node[i] EXCEPT !.myMolecules = disk.node[i].data], "types")
  /\ UNCHANGED <<masterVars, disk>>

\* TH.Restore also sizes the type lists.
RestoreTypes(i) ==
  /\ node[i].at = "types"
  /\ Reads(i, disk.types, [node[i] EXCEPT !.nbTypes = disk.types.data], "templates")
  /\ UNCHANGED <<masterVars, disk>>

RestoreTemplates(i) ==
  /\ node[i].at = "templates"
  /\ Reads(i, disk.templates, [node[i] EXCEPT !.templates = disk.templates.data], "molecules")
  /\ UNCHANGED <<masterVars, disk>>

\* The lines of the molecules of n index within the type lists of n.
TypesFit(n) ==
  \A k \in DOMAIN n.tripleIDs : n.tripleIDs[k].subject \in n.myMolecules =>
    GetType(n.tripleIDs[k].subject) < n.nbTypes /\ GetType(n.tripleIDs[k].object) < n.nbTypes

\* The loop over the lines, at the maxScope of main; nothing outside the node is
\* looked at any more.  AddElement does not check its index: past the end of the
\* lists the behaviour of the node is undefined, and "undefined" stands for all
\* that may come of it, the node's end included.
LoadMolecules(i) ==
  /\ node[i].at = "molecules"
  /\ \/ TypesFit(node[i]) /\ node' = [node EXCEPT ![i] = LoadLines(@, 0)]
     \/ ~ TypesFit(node[i]) /\ node' = [node EXCEPT ![i].at = "undefined"]
  /\ UNCHANGED <<masterVars, disk>>

\* A node ends and is started again.
RestartNode(i) ==
  /\ node[i] # FreshNode
  /\ node' = [node EXCEPT ![i] = FreshNode]
  /\ UNCHANGED <<masterVars, disk>>

NodeStep(i) ==
  \/ ReadTriples(i) \/ readMyMolecules(i) \/ RestoreTypes(i)
  \/ RestoreTemplates(i) \/ LoadMolecules(i) \/ RestartNode(i)

DeploymentNext ==
  \/ LoadStep
  \/ StoreTriples \/ Partition \/ Place \/ SendMolecules
  \/ StoreTemplates \/ StoreTypes
  \/ Rerun
  \/ \E i \in Clients : NodeStep(i)

DeploymentSpec == DeploymentInit /\ [][DeploymentNext]_deploymentVars
------------------------------------------------------------------------------
(***************************************************************************)
(* What master and nodes promise together.                                 *)
(***************************************************************************)

\* A node that has loaded the files of run r and of no other.
LoadedFrom(i, r) == node[i].at = "loaded" /\ node[i].runs = {r}

\* What the molecules of a node hold, read back through the templates it has
\* restored: StoredQuads of its memory.
NodeQuads(n) ==
  UNION {{[subject |-> s, predicate |-> GetPredicate(n.templates, GetType(s), e.tmpl),
           object |-> e.obj, prov |-> e.prov] : e \in Elements(n.molecules[s])} : s \in KEY_ID}

\* A node whose files are all of one run has its share of that run's data,
\* read back through the templates it has restored: the storable lines of its
\* molecules, no more and no fewer, whatever the master has done since.
NodeIsItsShare ==
  \A i \in Clients : \A r \in 1 .. MaxRuns :
    LoadedFrom(i, r) =>
      NodeQuads(node[i]) = {q \in Range(node[i].tripleIDs) : q.subject \in node[i].myMolecules}

\* Nodes that have loaded the same run hold its data together: every storable
\* line, and no subject twice.
ClusterIsDataset ==
  \A r \in 1 .. MaxRuns :
    (\A i \in Clients : LoadedFrom(i, r)) =>
      /\ UNION {NodeQuads(node[i]) : i \in Clients} = {q \in Range(node[0].tripleIDs) : Storable(q)}
      /\ \A i, j \in Clients : i # j => node[i].myMolecules \intersect node[j].myMolecules = {}

\* The cluster holds what the master holds: once both have loaded a run, each
\* of its molecules is on one node, the same to the order of its groups and
\* the numbers of its templates, and every node has the whole provenance index.
ClusterIsMaster ==
  (phase = "loaded" /\ \A i \in Clients : LoadedFrom(i, run)) =>
    /\ \A s \in KEY_ID : molecules[s] # NoMolecule =>
         \E i \in Clients : /\ node[i].molecules[s] = molecules[s]
                            /\ \A j \in Clients \ {i} : node[j].molecules[s] = NoMolecule
    /\ \A i \in Clients : node[i].ProvIdx = ProvIdx

\* Files of one run never lead a node past the end of its type lists, whichever
\* writes failed before and whatever number of classes other runs had.  A types
\* file of one run beside the lines of another does: TH.Restore sizes the lists
\* by the classes of its own run only.
OneRunIsInBounds ==
  \A i \in Clients : node[i].at = "undefined" => Cardinality(node[i].runs) > 1

\* The indexes of a node that has loaded agree with its molecules, even when its
\* files are of different runs: the inverted index, the provenance index for
\* its own subjects, and the type lists from which Molecules::AddTriple
\* preselects molecules.  A mixture may also be "undefined": this is only of
\* those whose lines fit the type lists they came with.
NodeIndexesAgree ==
  \A i \in Clients : node[i].at = "loaded" =>
    /\ \A o \in KEY_ID :
         node[i].inv_molecules[o] = {s \in KEY_ID : o \in ObjectsOf(node[i].molecules[s])}
    /\ \A s \in node[i].myMolecules, p \in KEY_ID :
         s \in node[i].ProvIdx[p] <=> p \in ProvenancesOf(node[i].molecules[s])
    /\ \A s \in KEY_ID :
         node[i].molecules[s] # NoMolecule => s \in node[i].TypesM[GetType(s)]
==============================================================================
