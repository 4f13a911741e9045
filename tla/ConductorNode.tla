---------------------------- MODULE ConductorNode ----------------------------
(***************************************************************************)
(* The memory of a node process, and the part of ConductorNode::LoadData   *)
(* that fills it once the files are read.  A node is a record; the modules *)
(* that extend this one say where its files come from (Deployment) and     *)
(* what it is asked (NodeQueries).                                         *)
(***************************************************************************)
EXTENDS Molecules, SequencesExt

\* A node that has not read anything; at is the file it reads next.
FreshNode ==
  [at |-> "triples", runs |-> {}, tripleIDs |-> <<>>, myMolecules |-> {},
   nbTypes |-> 0, templates |-> NoTemplates, TypesM |-> <<>>,
   molecules |-> [k \in KEY_ID |-> NoMolecule], edges |-> Empty, inv_molecules |-> Empty,
   ProvIdx |-> Empty]

\* TypesManager::AddElement.
AddElement(types, e) == [types EXCEPT ![GetType(e)] = @ \union {e}]

\* CreateMolecule with the templates the node has read.
TemplateAt(n, q) ==
  GetTemplate(n.templates, GetType(q.subject), GetType(q.subject), q.predicate,
              GetType(q.object)) % TmplSpan

\* Mutants of CreateMoleculeAt: only the object is listed under its type; the
\* template is always the first one.
CreateMoleculeUnlisted(n, q) ==
  [n EXCEPT
     !.TypesM = AddElement(@, q.object),
     !.molecules[q.subject] = AddToMolecule(@, TemplateAt(n, q), q.object, q.prov),
     !.inv_molecules[q.object] = @ \union {q.subject}]
CreateMoleculeFirstTemplate(n, q) ==
  [n EXCEPT
     !.TypesM = AddElement(AddElement(@, q.subject), q.object),
     !.molecules[q.subject] = AddToMolecule(@, 1, q.object, q.prov),
     !.inv_molecules[q.object] = @ \union {q.subject}]

\* A line of a molecule of this node.
CreateMoleculeAt(n, q) ==
  [n EXCEPT
     !.TypesM = AddElement(AddElement(@, q.subject), q.object),
     !.molecules[q.subject] = AddToMolecule(@, TemplateAt(n, q), q.object, q.prov),
     !.inv_molecules[q.object] = @ \union {q.subject}]

\* Mutant of LoadLine: the index, too, is only of this node's molecules.
LoadLineLocal(n, q) ==
  IF q.subject \in n.myMolecules
    THEN [CreateMoleculeAt(n, q) EXCEPT !.ProvIdx[q.prov] = @ \union {q.subject}]
    ELSE n

\* One turn of the loop over the lines: every line enters the provenance
\* index, those of other nodes' molecules included.
LoadLine(n, q) ==
  [IF q.subject \in n.myMolecules THEN CreateMoleculeAt(n, q) ELSE n
     EXCEPT !.ProvIdx[q.prov] = @ \union {q.subject}]

\* Molecules::AddTriple: any line, of this node's molecules or not, is added to
\* those in which its subject is an object, if their root has a template for it
\* at this scope.  The index takes the object of all of these, though the
\* subject may be there at another scope only.
AddTripleAt(n, q, scope) ==
  LET tmpls == GetTemplatesByRoot(n.templates, GetType(q.subject), q.predicate, GetType(q.object), scope)
      types == AddElement(AddElement(n.TypesM, q.subject), q.object)
      Of(r) == {t[2] : t \in {u \in tmpls : r \in types[u[1]]}}
      hosts == {r \in n.inv_molecules[q.subject] : Of(r) # {}}
      Grown(r) == FindEntityAndAddNext(n.molecules[r], n.edges[r], CHOOSE t \in Of(r) : TRUE,
                                       q.object, q.subject, q.prov, scope)
  IN  IF n.inv_molecules[q.subject] = {} \/ tmpls = {}
        THEN n
        ELSE [n EXCEPT !.TypesM = types,
                       !.edges = [r \in KEY_ID |-> IF r \in hosts THEN Grown(r) ELSE @[r]],
                       !.inv_molecules[q.object] = @ \union hosts]

\* The loop over the lines, into the type lists TH.Restore has sized, and that
\* for one scope above 0.
LoadScope0(n) ==
  FoldLeft(LoadLine, [n EXCEPT !.TypesM = [t \in 0 .. (n.nbTypes - 1) |-> {}]], n.tripleIDs)
LoadScope(n, scope) == FoldLeft(LAMBDA m, q : AddTripleAt(m, q, scope), n, n.tripleIDs)

\* The molecules, scope by scope.
LoadLines(n, maxScope) ==
  [FoldLeft(LoadScope, LoadScope0(n), [i \in 1 .. maxScope |-> i]) EXCEPT !.at = "loaded"]
==============================================================================
