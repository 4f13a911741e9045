----------------------------- MODULE NodeQueries -----------------------------
(***************************************************************************)
(* What the distributed queries of LUBMnetwork.cpp and DBPnetwork.cpp have *)
(* in common.  A query has a half _n that every node runs over its own     *)
(* molecules and a half _m of the master, which sends the identifiers of   *)
(* the words, receives from the nodes in their order and joins.            *)
(*                                                                         *)
(* The queries use an earlier interface of Molecule: CheckIfEntityExists   *)
(* of one template, true or false; GetEntity into a set of objects;        *)
(* GetAllEntities.  They are the present ones with provenance left out.    *)
(***************************************************************************)
EXTENDS ConductorNode, Scopes, Sparql

\* KeyManager::GetSeq: of a class, the number that is the type of its members.
GetSeq(word) == KM(word) % SeqSpan
------------------------------------------------------------------------------
(* Look-ups at node n.                                                     *)

\* GetElementsOfType for several types: subjects and objects of n's molecules.
ElementsOf(n, types) == UNION {n.TypesM[t] : t \in types \intersect DOMAIN n.TypesM}

\* IsItMyObject, and M.Get(s) != NULL.
IsItMyObject(n, s) == s \in KEY_ID /\ n.molecules[s] # NoMolecule

\* Elements of some types that have a molecule here.
LocalOf(n, types) == {s \in ElementsOf(n, types) : IsItMyObject(n, s)}

\* CheckIfEntityExists for one template.
Exists(n, s, tmpl, o) == CheckIfEntityExists(n.molecules[s], {tmpl}, o, FALSE, {}) # {}

\* The template of (type of s, p, type): 0 for any type.
TemplateTo(n, s, p, type) ==
  GetTripleTemplate(n.templates, GetType(s), GetType(s), KM(p), type, 0)

\* GetMoleculesFromInvertedIdx; NULL is no molecule.
Mentioning(n, o) == IF o \in KEY_ID THEN n.inv_molecules[o] ELSE {}

\* Mutant of Subjects: being mentioned is enough.
SubjectsMentioned(n, types, p, o) == {s \in Mentioning(n, o) : GetType(s) \in types}

\* The subjects of (p, o) among the molecules of some types.
Subjects(n, types, p, o) ==
  {s \in Mentioning(n, o) : GetType(s) \in types /\ Exists(n, s, TemplateTo(n, s, p, GetType(o)), o)}

\* The objects GetEntity collects for some template IDs.
Objects(n, s, tmpls) == {e.obj : e \in GetEntity(n.molecules[s], tmpls, FALSE, {})}

\* The objects of s and p, one template for each type.
Values(n, s, p, types) == Objects(n, s, {TemplateTo(n, s, p, t) : t \in types})

\* equal_range in the multimap of GetTemplates: the IDs for one root.
RootTemplates(n, root, p, o) ==
  {ri[2] : ri \in {t \in GetTemplatesByRoot(n.templates, Wild, KM(p), o, 0) : t[1] = root}}

\* GetAllEntities at scope 0, the templates turned into predicates by GetPredicate.
Everything(n, s) ==
  {<<GetPredicate(n.templates, GetType(s), e.tmpl), e.obj>> : e \in Elements(n.molecules[s])}

\* GetTripleTemplate at scope 1 of the molecules of a root type.
TemplateAt1(n, root, s, p, o) == GetTripleTemplate(n.templates, root, s, KM(p), o, 1)

\* GetEntity at scope 1: what the molecule of r has of entity s.
ObjectsAt1(n, r, tmpls, s) ==
  {e.obj : e \in {c \in ChildrenAt1(n.edges[r], s, FALSE, {}) : c.tmpl \in tmpls}}

\* GetAllEntities at scope 1.
EverythingAt1(n, r, s) ==
  {<<GetPredicate(n.templates, GetType(r), e.tmpl), e.obj>> : e \in ChildrenAt1(n.edges[r], s, FALSE, {})}
------------------------------------------------------------------------------
(* Picks the standard containers leave open.                             *)

\* What the code would read behind the begin() of an empty set or an end().
Undefined == -2

\* *(s.begin()) of an unordered_set.
Begin(S) == IF S = {} THEN {Undefined} ELSE S

\* One element of every F[x].
Picks(F) ==
  {f \in [DOMAIN F -> UNION Range(F)] : \A x \in DOMAIN F : f[x] \in F[x]}

\* The maps an unordered_map can be after the pairs are inserted in any order:
\* the first one of a key stays.
Maps(pairs) ==
  Picks([k \in {p[1] : p \in pairs} |-> {p[2] : p \in {q \in pairs : q[1] = k}}])

\* Rows whose j-th field is what the map has for their i-th.  The code does not
\* compare the result of find() with end().
Matching(map, rows, i, j) ==
  {r \in rows : r[i] \in DOMAIN map /\ map[r[i]] = r[j]} \union
  {<<Undefined>> : r \in {q \in rows : q[i] \notin DOMAIN map}}

\* What a node sends in a round: rows that are ready, what other nodes or the
\* master need to know, and rows left to the join of the master.
Message(ready, known, pending) == [ready |-> ready, known |-> known, pending |-> pending]
Ready(rows) == Message(rows, {}, {})
Known(rows) == Message({}, rows, {})

\* Rows of one column.
RowsOf(S) == {<<x>> : x \in S}

\* The vectors the master has after receiving from every node.
ReadyOf(messages) == UNION {messages[i].ready : i \in DOMAIN messages}
KnownOf(messages) == UNION {messages[i].known : i \in DOMAIN messages}
PendingOf(messages) == UNION {messages[i].pending : i \in DOMAIN messages}
==============================================================================
