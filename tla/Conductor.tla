------------------------------ MODULE Conductor ------------------------------
(***************************************************************************)
(* Conductor::LoadData from the point where every URI of the second pass   *)
(* has its KEY_ID: the triple templates are collected and numbered, then   *)
(* every line of the dataset, in file order, is put into the molecule of   *)
(* its subject, into the inverted index, the provenance index and the      *)
(* per-context counter.  Scopes above 0 are off, as main sets them         *)
(* (minScope = maxScope = 0).                                              *)
(***************************************************************************)
EXTENDS Molecules, SequencesExt

CONSTANTS
  Lines,      \* the quads a line of the dataset can stand for
  MaxLines    \* bound: length of the dataset

TripleIDs ==
  [subject : KEY_ID, predicate : KEY_ID, object : KEY_ID, prov : KEY_ID]

ASSUME LoadAssumption ==
  /\ Lines \subseteq TripleIDs
  /\ MaxLines \in Nat
  /\ TmplSpan \in Nat
  /\ MaxLines < TmplSpan

VARIABLES
  phase,           \* where LoadData is
  tripleIDs,       \* the dataset, one element per line
  toAdd,           \* tripleTemplatesTypes, what AddTemplate has not seen yet
  templates,       \* diplo::TM
  pos,             \* the line CreateMolecule comes to next
  molecules,       \* diplo::M.molecules: KEY_ID -> molecule
  inv_molecules,   \* diplo::M.inv_molecules: object -> molecules, by subject
  ProvIdx,         \* provenance -> subjects
  contextTriples   \* provenance -> number of lines

store == <<molecules, inv_molecules, ProvIdx, contextTriples>>
loadVars == <<phase, tripleIDs, toAdd, templates, pos, store>>

\* Read, number the templates, create the molecules, done.
LoadPhases == {"read", "templates", "molecules", "loaded"}

LoadInit ==
  /\ phase = "read"
  /\ tripleIDs = <<>>
  /\ toAdd = {}
  /\ templates = NoTemplates
  /\ pos = 1
  /\ molecules = [k \in KEY_ID |-> NoMolecule]
  /\ inv_molecules = Empty
  /\ ProvIdx = Empty
  /\ contextTriples = [k \in KEY_ID |-> 0]

\* A line of the dataset in the second pass.
ReadLine(q) ==
  /\ phase = "read"
  /\ Len(tripleIDs) < MaxLines
  /\ tripleIDs' = Append(tripleIDs, q)
  /\ UNCHANGED <<phase, toAdd, templates, pos, store>>

\* End of the last file: the set of templates to create.
EndOfFiles ==
  /\ phase = "read"
  /\ phase' = "templates"
  /\ toAdd' = {TemplateOf(tripleIDs[i]) : i \in DOMAIN tripleIDs}
  /\ UNCHANGED <<tripleIDs, templates, pos, store>>

\* One turn of the loop over tripleTemplatesTypes, a set ordered by operator<.
AddNextTemplate(t) ==
  /\ phase = "templates"
  /\ t \in toAdd
  /\ \A u \in toAdd \ {t} : Before(t, u)
  /\ templates' = AddTemplate(templates, t)
  /\ toAdd' = toAdd \ {t}
  /\ UNCHANGED <<phase, tripleIDs, pos, store>>

TemplatesDone ==
  /\ phase = "templates"
  /\ toAdd = {}
  /\ phase' = "molecules"
  /\ UNCHANGED <<tripleIDs, toAdd, templates, pos, store>>

\* The template CreateMolecule stores: GetTemplate cut to 16 bits, so that its
\* comparison with -1 never holds.
TemplateFor(q) ==
  GetTemplate(templates, GetType(q.subject), GetType(q.subject), q.predicate,
              GetType(q.object)) % TmplSpan

\* Mutant of CreateMolecule: an object keeps only its last molecule.
CreateMoleculeOverwriting(q) ==
  /\ molecules' = [molecules EXCEPT ![q.subject] =
                     AddToMolecule(@, TemplateFor(q), q.object, q.prov)]
  /\ inv_molecules' = [inv_molecules EXCEPT ![q.object] = {q.subject}]

\* Molecules::CreateMolecule.
CreateMolecule(q) ==
  /\ molecules' = [molecules EXCEPT ![q.subject] =
                     AddToMolecule(@, TemplateFor(q), q.object, q.prov)]
  /\ inv_molecules' = [inv_molecules EXCEPT ![q.object] = @ \union {q.subject}]

\* Mutant of IndexProvenance: a context keeps its last subject.
IndexLastSubject(q) == ProvIdx' = [ProvIdx EXCEPT ![q.prov] = {q.subject}]

\* The provenance index and the counter of the context of a line.
IndexProvenance(q) == ProvIdx' = [ProvIdx EXCEPT ![q.prov] = @ \union {q.subject}]
CountTriple(q) == contextTriples' = [contextTriples EXCEPT ![q.prov] = @ + 1]

\* One turn of the last loop of LoadData.  Subjects of type 0 (error) and 1
\* (classes) get no molecule, but they do enter the provenance index.
StoreLine ==
  LET q == tripleIDs[pos]
  IN  /\ phase = "molecules"
      /\ pos \in DOMAIN tripleIDs
      /\ IF GetType(q.subject) >= 2
           THEN CreateMolecule(q)
           ELSE UNCHANGED <<molecules, inv_molecules>>
      /\ IndexProvenance(q)
      /\ CountTriple(q)
      /\ pos' = pos + 1
      /\ UNCHANGED <<phase, tripleIDs, toAdd, templates>>

LoadDone ==
  /\ phase = "molecules"
  /\ pos > Len(tripleIDs)
  /\ phase' = "loaded"
  /\ UNCHANGED <<tripleIDs, toAdd, templates, pos, store>>

LoadNext ==
  \/ \E q \in Lines : ReadLine(q)
  \/ EndOfFiles
  \/ \E t \in toAdd : AddNextTemplate(t)
  \/ TemplatesDone
  \/ StoreLine
  \/ LoadDone

LoadSpec == LoadInit /\ [][LoadNext]_loadVars
------------------------------------------------------------------------------
(***************************************************************************)
(* What the load promises.                                                 *)
(***************************************************************************)

TypeOK ==
  /\ phase \in LoadPhases
  /\ tripleIDs \in Seq(Lines)
  /\ Len(tripleIDs) <= MaxLines
  /\ toAdd \subseteq TripleTemplate
  /\ templates \in Templates
  /\ pos \in 1 .. (Len(tripleIDs) + 1)
  /\ molecules \in [KEY_ID -> Molecule]
  /\ inv_molecules \in [KEY_ID -> SUBSET KEY_ID]
  /\ ProvIdx \in [KEY_ID -> SUBSET KEY_ID]
  /\ contextTriples \in [KEY_ID -> Nat]

\* The lines LoadData has put into the store so far.
Loaded == {tripleIDs[i] : i \in 1 .. (pos - 1)}

\* Lines whose subject is neither an error (0) nor a class (1): the quads the
\* store is to answer queries about.
Storable(q) == GetType(q.subject) >= 2

\* The inverted index names exactly the molecules an object occurs in: a query
\* that starts from an object (TriplePatern, GetSubjects) finds every molecule
\* that can match and never one that cannot.
InvertedIndexExact ==
  \A o \in KEY_ID : inv_molecules[o] = {s \in KEY_ID : o \in ObjectsOf(molecules[s])}

\* The provenance index and the molecules agree: for a subject that can have a
\* molecule, being listed under a context is having a group of that context.
ProvIdxExact ==
  \A p, s \in KEY_ID :
    GetType(s) >= 2 => (s \in ProvIdx[p] <=> p \in ProvenancesOf(molecules[s]))

\* A molecule has one group per provenance: AddTriple's search for the group
\* never misses it, so the group of a context is all the molecule has of it.
OneGroupPerProvenance ==
  \A s \in KEY_ID : \A i, j \in DOMAIN molecules[s] :
    molecules[s][i].prov = molecules[s][j].prov => i = j

\* Within a root, a template ID stands for one template, so what a molecule
\* stores can be read back; IDs run from 1 to the number of templates.
TemplatesWellFormed == \A root \in TYPE_ID : WellFormed(root, templates[root])

\* Every storable line has its template when CreateMolecule asks for it: the
\* -1 that 16 bits would turn into template 65535 is never returned.
LinesCovered ==
  phase # "read" =>
    \A i \in DOMAIN tripleIDs :
      Storable(tripleIDs[i]) =>
        LET t == TemplateOf(tripleIDs[i])
        IN  t \in toAdd \/ \E u \in templates[t.subjectType] : SameTemplate(u, t)

\* What the molecule of s holds, read back through the templates of its type.
QuadsOf(s) ==
  {[subject |-> s, predicate |-> GetPredicate(templates, GetType(s), e.tmpl),
    object |-> e.obj, prov |-> e.prov] : e \in Elements(molecules[s])}

StoredQuads == UNION {QuadsOf(s) : s \in KEY_ID}

\* The molecules, decoded, are exactly the storable lines loaded so far: no
\* quad is lost, invented, or filed under another predicate or context.
StoreIsDataset == StoredQuads = {q \in Loaded : Storable(q)}

\* The objects a molecule has under a context, in its own order.
GroupObjects(m, prov) ==
  FlattenSeq([i \in DOMAIN m |->
    IF m[i].prov = prov THEN [j \in DOMAIN m[i].next |-> m[i].next[j].obj] ELSE <<>>])

\* The objects of a subject under a context in the first n lines, in file order.
ObjectsInLines(s, prov, n) ==
  FlattenSeq([i \in 1 .. n |->
    IF tripleIDs[i].subject = s /\ tripleIDs[i].prov = prov THEN <<tripleIDs[i].object>> ELSE <<>>])

\* Repeated lines are kept: what a molecule has under a context are the objects
\* of the lines loaded of that subject and context, line by line.
RepetitionsKept ==
  \A s, p \in KEY_ID :
    GetType(s) >= 2 => GroupObjects(molecules[s], p) = ObjectsInLines(s, p, pos - 1)

\* The rest of the inductive invariant: templates come from lines (so a root
\* has no more of them than there are lines), and the molecules are created
\* only when all of them are numbered.
TemplatesFromLines ==
  /\ \A t \in toAdd : \E i \in DOMAIN tripleIDs : t = TemplateOf(tripleIDs[i])
  /\ \A root \in TYPE_ID : \A u \in templates[root] :
       \E i \in DOMAIN tripleIDs : SameTemplate(u, TemplateOf(tripleIDs[i]))

PhaseOrder ==
  /\ phase \in {"molecules", "loaded"} => toAdd = {}
  /\ phase \in {"read", "templates"} =>
       pos = 1 /\ \A s \in KEY_ID : molecules[s] = NoMolecule

LoadInv ==
  /\ TypeOK
  /\ TemplatesWellFormed
  /\ LinesCovered
  /\ TemplatesFromLines
  /\ PhaseOrder

\* The abstract store: it takes the dataset line by line.
Abstract == INSTANCE QuadStore WITH
  Quads <- Lines, Keeps <- {q \in Lines : Storable(q)}, stored <- StoredQuads

RefinesQuadStore == Abstract!Spec
==============================================================================
