--------------------------- MODULE ConductorProofs ---------------------------
(***************************************************************************)
(* Proofs about LoadData.  First what the operators on one molecule and on *)
(* one template table return, then the inductive invariant of the load.    *)
(***************************************************************************)
EXTENDS Queries, SequenceLemmas, FiniteSetTheorems, TLAPS

\* The group AddTriple appends to exists and is one of this provenance.
LEMMA FirstGroupFound ==
  ASSUME NEW m \in Molecule, NEW prov, GroupsOf(m, prov) # {}
  PROVE  FirstGroup(m, prov) \in DOMAIN m /\ m[FirstGroup(m, prov)].prov = prov
<1>1. GroupsOf(m, prov) \in SUBSET Nat
  BY SMT DEF Molecule, GroupsOf
<1>2. \E i \in GroupsOf(m, prov) : \A j \in GroupsOf(m, prov) : i <= j
  BY <1>1, LeastIndex
<1>3. FirstGroup(m, prov) \in GroupsOf(m, prov)
  BY <1>2, Zenon DEF FirstGroup
<1>4. QED
  BY <1>3 DEF GroupsOf

\* AddTriple keeps a molecule a molecule.
LEMMA AddToMoleculeType ==
  ASSUME NEW m \in Molecule, NEW tmpl \in Nat, NEW o \in KEY_ID,
         NEW prov \in KEY_ID
  PROVE  AddToMolecule(m, tmpl, o, prov) \in Molecule
<1> DEFINE elem == [tmpl |-> tmpl, obj |-> o]
           f == FirstGroup(m, prov)
<1>1. elem \in Element
  BY DEF Element
<1>2. CASE GroupsOf(m, prov) # {}
  <2>1. f \in DOMAIN m
    BY <1>2, FirstGroupFound
  <2>2. m[f] \in Group
    BY <2>1, SMT DEF Molecule
  <2>3. GrownGroup(m, prov, elem) \in Group
    BY <1>1, <2>2 DEF Group, GrownGroup
  <2>4. [m EXCEPT ![f] = GrownGroup(m, prov, elem)] \in Seq(Group)
    BY <2>1, <2>3, SMT DEF Molecule
  <2>5. QED
    BY <1>2, <2>4 DEF AddToMolecule, Molecule
<1>3. CASE GroupsOf(m, prov) = {}
  <2>1. [prov |-> prov, next |-> <<elem>>] \in Group
    BY <1>1 DEF Group
  <2>2. Append(m, [prov |-> prov, next |-> <<elem>>]) \in Seq(Group)
    BY <2>1 DEF Molecule
  <2>3. QED
    BY <1>3, <2>2 DEF AddToMolecule, Molecule
<1>4. QED
  BY <1>2, <1>3

\* The element at position j of group i.
ElementAt(m, i, j) ==
  [prov |-> m[i].prov, tmpl |-> m[i].next[j].tmpl, obj |-> m[i].next[j].obj]

Positions(m, e) == \E i \in DOMAIN m : \E j \in DOMAIN m[i].next : e = ElementAt(m, i, j)

\* The elements of a molecule, as the positions they are stored at.
LEMMA ElementsByPosition ==
  ASSUME NEW m, NEW e
  PROVE  e \in Elements(m) <=> Positions(m, e)
<1> DEFINE Of(i) == {ElementAt(m, i, j) : j \in DOMAIN m[i].next}
<1>1. Elements(m) = UNION {Of(i) : i \in DOMAIN m}
  BY Zenon DEF Elements, ElementAt
<1>2. e \in UNION {Of(i) : i \in DOMAIN m} <=> \E i \in DOMAIN m : e \in Of(i)
  OBVIOUS
<1>3. \A i \in DOMAIN m : e \in Of(i) <=> \E j \in DOMAIN m[i].next : e = ElementAt(m, i, j)
  OBVIOUS
<1>4. QED
  BY <1>1, <1>2, <1>3 DEF Positions

\* AddTriple adds the element it is given and touches no other.
LEMMA AddToMoleculeElements ==
  ASSUME NEW m \in Molecule, NEW tmpl \in Nat, NEW o \in KEY_ID,
         NEW prov \in KEY_ID
  PROVE  Elements(AddToMolecule(m, tmpl, o, prov))
           = Elements(m) \union {[prov |-> prov, tmpl |-> tmpl, obj |-> o]}
<1> DEFINE elem == [tmpl |-> tmpl, obj |-> o]
           added == [prov |-> prov, tmpl |-> tmpl, obj |-> o]
           f == FirstGroup(m, prov)
           r == AddToMolecule(m, tmpl, o, prov)
<1>1. SUFFICES \A e : Positions(r, e) <=> Positions(m, e) \/ e = added
  BY ElementsByPosition, Zenon
<1>2. CASE GroupsOf(m, prov) # {}
  <2> DEFINE old == m[f].next
             g == GrownGroup(m, prov, elem)
  <2>1. f \in DOMAIN m /\ m[f].prov = prov
    BY <1>2, FirstGroupFound
  <2>2. old \in Seq(Element)
    <3>1. m[f] \in Group
      BY <2>1, SMT DEF Molecule
    <3>2. QED
      BY <3>1 DEF Group
  <2>3. r = [m EXCEPT ![f] = g]
    BY <1>2, Zenon DEF AddToMolecule
  <2>4. g.prov = prov /\ g.next = Append(old, elem)
    BY Zenon DEF GrownGroup
  <2>5. /\ DOMAIN g.next = DOMAIN old \union {Len(old) + 1}
        /\ \A j \in DOMAIN old : g.next[j] = old[j]
        /\ g.next[Len(old) + 1] = elem
    <3> HIDE DEF g, old, elem
    <3>1. elem \in Element
      BY DEF Element, elem
    <3>2. QED
      BY <2>2, <2>4, <3>1, SMT
  <2>6. /\ DOMAIN r = DOMAIN m
        /\ r[f] = g
        /\ \A i \in DOMAIN m : i # f => r[i] = m[i]
    BY <2>1, <2>3, Zenon
  <2> HIDE DEF g, old, r, f, elem
  <2>7. \A j \in DOMAIN old : ElementAt(r, f, j) = ElementAt(m, f, j)
    BY <2>1, <2>4, <2>5, <2>6 DEF ElementAt, old
  <2>8. ElementAt(r, f, Len(old) + 1) = added
    BY <2>4, <2>5, <2>6 DEF ElementAt, elem
  <2>9. ASSUME NEW e, Positions(r, e)
        PROVE  Positions(m, e) \/ e = added
    <3>1. PICK i \in DOMAIN r : \E j \in DOMAIN r[i].next : e = ElementAt(r, i, j)
      BY <2>9, Zenon DEF Positions
    <3>1a. PICK j \in DOMAIN r[i].next : e = ElementAt(r, i, j)
      BY <3>1
    <3>2. CASE i # f
      BY <3>1a, <3>2, <2>6 DEF ElementAt, Positions
    <3>3. CASE i = f /\ j \in DOMAIN old
      BY <3>1a, <3>3, <2>1, <2>7, Zenon DEF Positions, old
    <3>4. CASE i = f /\ j \notin DOMAIN old
      BY <3>1a, <3>4, <2>5, <2>6, <2>8
    <3>5. QED
      BY <3>2, <3>3, <3>4
  <2>10. ASSUME NEW e, Positions(m, e)
         PROVE  Positions(r, e)
    <3>1. PICK i \in DOMAIN m : \E j \in DOMAIN m[i].next : e = ElementAt(m, i, j)
      BY <2>10, Zenon DEF Positions
    <3>1a. PICK j \in DOMAIN m[i].next : e = ElementAt(m, i, j)
      BY <3>1
    <3>2. CASE i # f
      BY <3>1a, <3>2, <2>6 DEF ElementAt, Positions
    <3>3. CASE i = f
      <4>1. j \in DOMAIN r[f].next
        BY <3>1a, <3>3, <2>5, <2>6 DEF old
      <4>2. e = ElementAt(r, f, j)
        BY <3>1a, <3>3, <2>7 DEF old
      <4>3. QED
        BY <4>1, <4>2, <2>1, <2>6, Zenon DEF Positions
    <3>4. QED
      BY <3>2, <3>3
  <2>11. Positions(r, added)
    <3>1. Len(old) + 1 \in DOMAIN r[f].next
      BY <2>5, <2>6
    <3>2. QED
      BY <3>1, <2>1, <2>6, <2>8, Zenon DEF Positions
  <2>12. QED
    BY <2>9, <2>10, <2>11
<1>3. CASE GroupsOf(m, prov) = {}
  <2> DEFINE g == [prov |-> prov, next |-> <<elem>>]
             n == Len(m) + 1
  <2>1. r = Append(m, g)
    BY <1>3, Zenon DEF AddToMolecule
  <2>2. g \in Group
    BY DEF Group, Element
  <2>3. /\ DOMAIN r = DOMAIN m \union {n}
        /\ n \notin DOMAIN m
        /\ \A i \in DOMAIN m : r[i] = m[i]
        /\ r[n] = g
    <3> HIDE DEF g, r
    <3>1. QED
      BY <2>1, <2>2, SMT DEF Molecule
  <2>4. g.prov = prov /\ DOMAIN g.next = {1} /\ g.next[1] = elem
    BY SMT
  <2> HIDE DEF g, r, n, elem
  <2>5. ElementAt(r, n, 1) = added
    BY <2>3, <2>4 DEF ElementAt, elem
  <2>6. ASSUME NEW e
        PROVE  Positions(r, e) <=> Positions(m, e) \/ e = added
    <3>1. ASSUME Positions(r, e)
          PROVE  Positions(m, e) \/ e = added
      <4>1. PICK i \in DOMAIN r : \E j \in DOMAIN r[i].next : e = ElementAt(r, i, j)
        BY <3>1, Zenon DEF Positions
      <4>1a. PICK j \in DOMAIN r[i].next : e = ElementAt(r, i, j)
        BY <4>1
      <4>2. CASE i = n
        BY <4>1a, <4>2, <2>3, <2>4, <2>5
      <4>3. CASE i \in DOMAIN m
        BY <4>1a, <4>3, <2>3 DEF ElementAt, Positions
      <4>4. QED
        BY <4>1a, <4>2, <4>3, <2>3
    <3>2. ASSUME Positions(m, e)
          PROVE  Positions(r, e)
      BY <3>2, <2>3 DEF ElementAt, Positions
    <3>3. Positions(r, added)
      BY <2>3, <2>4, <2>5 DEF Positions
    <3>4. QED
      BY <3>1, <3>2, <3>3
  <2>7. QED
    BY <2>6
<1>4. QED
  BY <1>2, <1>3
------------------------------------------------------------------------------
(***************************************************************************)
(* The template tables.                                                    *)
(***************************************************************************)

\* Inserting into a well-formed table gives one, keeps the old templates with
\* their IDs, and adds nothing but the template asked for.
LEMMA InsertWellFormed ==
  ASSUME NEW root, NEW S, WellFormed(root, S),
         NEW t \in TripleTemplate, t.subjectType = root, t.scope = 0
  PROVE  /\ WellFormed(root, InsertTemplate(S, t))
         /\ S \subseteq InsertTemplate(S, t)
         /\ \E u \in InsertTemplate(S, t) : SameTemplate(u, t)
         /\ \A u \in InsertTemplate(S, t) : u \in S \/ SameTemplate(u, t)
<1> DEFINE n == Cardinality(S)
           x == [t EXCEPT !.ID = n + 1]
<1>1. n \in Nat
  BY FS_CardinalityType DEF WellFormed
<1>2. CASE \E u \in S : SameTemplate(u, t)
  <2>1. InsertTemplate(S, t) = S
    BY <1>2 DEF InsertTemplate
  <2>2. QED
    BY <1>2, <2>1
<1>3. CASE ~ \E u \in S : SameTemplate(u, t)
  <2>1. InsertTemplate(S, t) = S \union {x}
    BY <1>3 DEF InsertTemplate
  <2>2. /\ x \in TripleTemplate
        /\ x.ID = n + 1
        /\ x.subjectType = root
        /\ x.scope = 0
        /\ SameTemplate(x, t)
    <3> HIDE DEF n
    <3>1. QED
      BY <1>1 DEF TripleTemplate, SameTemplate
  <2> HIDE DEF x
  <2>3. x \notin S
    BY <1>3, <2>2
  <2>4. IsFiniteSet(S \union {x}) /\ Cardinality(S \union {x}) = n + 1
    BY <2>3, FS_AddElement DEF WellFormed
  <2>5. \A u \in S : ~ SameTemplate(u, x) /\ ~ SameTemplate(x, u)
    BY <1>3, <2>2 DEF SameTemplate
  <2>6. \A u \in S : u.ID \in 1 .. n
    BY DEF WellFormed
  <2>7. \A u \in S \union {x} : u.ID \in 1 .. (n + 1)
    <3> HIDE DEF n
    <3>1. QED
      BY <1>1, <2>2, <2>6
  <2>8. \A u \in S : u.ID # x.ID
    <3> HIDE DEF n
    <3>1. QED
      BY <1>1, <2>2, <2>6
  <2>9. WellFormed(root, S \union {x})
    <3>1. \A u \in S \union {x} : u.subjectType = root /\ u.scope = 0
      BY <2>2 DEF WellFormed
    <3>2. \A u, v \in S \union {x} : u.ID = v.ID => u = v
      BY <2>8 DEF WellFormed
    <3>3. \A u, v \in S \union {x} : SameTemplate(u, v) => u = v
      BY <2>5 DEF WellFormed
    <3>4. S \union {x} \subseteq TripleTemplate
      BY <2>2 DEF WellFormed
    <3>5. QED
      BY <2>4, <2>7, <3>1, <3>2, <3>3, <3>4 DEF WellFormed
  <2>10. QED
    BY <2>1, <2>2, <2>9
<1>4. QED
  BY <1>2, <1>3

\* In a well-formed table, GetTemplate finds a template by its fields and
\* GetPredicate finds its predicate by the ID.
LEMMA TemplateFound ==
  ASSUME NEW tm \in Templates, NEW root \in TYPE_ID, WellFormed(root, tm[root]),
         NEW u \in tm[root]
  PROVE  /\ GetTemplate(tm, root, root, u.predicateID, u.objectType) = u.ID
         /\ GetPredicate(tm, root, u.ID) = u.predicateID
<1> DEFINE hit == {v \in tm[root] : /\ v.subjectType = root
                                    /\ v.predicateID = u.predicateID
                                    /\ v.objectType = u.objectType
                                    /\ v.scope = 0}
           byID == {v \in tm[root] : v.ID = u.ID}
<1>1. u \in hit /\ \A v \in hit : v = u
  BY DEF WellFormed, SameTemplate
<1>2. u \in byID /\ \A v \in byID : v = u
  BY DEF WellFormed
<1>3. root \in DOMAIN tm
  BY DEF Templates
<1>4. (CHOOSE v \in hit : TRUE) = u
  BY <1>1
<1>5. (CHOOSE v \in byID : TRUE) = u
  BY <1>2
<1>6. GetTemplate(tm, root, root, u.predicateID, u.objectType)
        = IF root \in DOMAIN tm /\ hit # {} THEN (CHOOSE v \in hit : TRUE).ID
          ELSE NoTemplate
  BY DEF GetTemplate
<1>7. GetPredicate(tm, root, u.ID)
        = IF byID = {} THEN 0 ELSE (CHOOSE v \in byID : TRUE).predicateID
  BY DEF GetPredicate
<1> HIDE DEF hit, byID
<1>8. QED
  BY <1>1, <1>2, <1>3, <1>4, <1>5, <1>6, <1>7
------------------------------------------------------------------------------
(***************************************************************************)
(* The inductive invariant of LoadData.                                    *)
(***************************************************************************)

\* The types of subjects and objects are naturals.
LEMMA TypesOfKeys ==
  \A k \in KEY_ID : GetType(k) \in TYPE_ID /\ GetType(k) \in Nat
<1>1. \A k \in KEY_ID : k \in Nat
  BY KeyAssumption
<1>2. \A k \in Nat : k \div SeqSpan \in Nat
  BY KeyAssumption, SMT
<1>3. QED
  BY <1>1, <1>2 DEF GetType, TYPE_ID

\* The template LoadData makes of a line is a template.
LEMMA TemplateOfType ==
  ASSUME NEW q \in TripleIDs
  PROVE  /\ TemplateOf(q) \in TripleTemplate
         /\ TemplateOf(q).scope = 0
         /\ TemplateOf(q).subjectType = GetType(q.subject)
BY TypesOfKeys DEF TemplateOf, TripleTemplate, TripleIDs

\* A line read is a quad of KEY_IDs.
LEMMA LineType ==
  ASSUME TypeOK, NEW i \in DOMAIN tripleIDs
  PROVE  tripleIDs[i] \in TripleIDs
BY LoadAssumption DEF TypeOK

\* The template ID CreateMolecule stores is a natural.
LEMMA TemplateForType ==
  ASSUME TypeOK, NEW q \in TripleIDs
  PROVE  TemplateFor(q) \in Nat
<1> DEFINE root == GetType(q.subject)
           hit == {u \in templates[root] : /\ u.subjectType = root
                                           /\ u.predicateID = q.predicate
                                           /\ u.objectType = GetType(q.object)
                                           /\ u.scope = 0}
           g == GetTemplate(templates, root, root, q.predicate, GetType(q.object))
<1>1. root \in TYPE_ID
  BY TypesOfKeys DEF TripleIDs
<1>2. \A u \in templates[root] : u.ID \in Nat
  BY <1>1 DEF TypeOK, Templates, TripleTemplate
<1>3. g = IF root \in DOMAIN templates /\ hit # {} THEN (CHOOSE u \in hit : TRUE).ID
          ELSE NoTemplate
  BY DEF GetTemplate
<1>4. hit # {} => (CHOOSE u \in hit : TRUE).ID \in Nat
  BY <1>2
<1> HIDE DEF hit, g
<1>5. g \in Int
  BY <1>3, <1>4 DEF NoTemplate
<1>6. \A a \in Int : a % TmplSpan \in Nat
  BY LoadAssumption, SMT
<1>7. QED
  BY <1>5, <1>6 DEF TemplateFor, g

\* The state LoadData starts from is well typed.
LEMMA LoadInitTypeOK == LoadInit => TypeOK
<1> SUFFICES ASSUME LoadInit PROVE TypeOK
  OBVIOUS
<1> USE DEF LoadInit
<1>1. molecules \in [KEY_ID -> Molecule]
  BY DEF NoMolecule, Molecule
<1>2. inv_molecules \in [KEY_ID -> SUBSET KEY_ID] /\ ProvIdx \in [KEY_ID -> SUBSET KEY_ID]
  BY DEF Empty
<1>3. templates \in Templates
  BY DEF Templates, NoTemplates
<1>4. tripleIDs \in Seq(Lines) /\ Len(tripleIDs) <= MaxLines /\ pos \in 1 .. Len(tripleIDs) + 1
  BY LoadAssumption
<1>5. QED
  BY <1>1, <1>2, <1>3, <1>4 DEF TypeOK, LoadPhases

\* Every step of LoadData keeps the types.
LEMMA LoadNextTypeOK ==
  ASSUME TypeOK, TemplatesWellFormed, TemplatesFromLines, [LoadNext]_loadVars
  PROVE  TypeOK'
<1> USE DEF TypeOK
<1>1. ASSUME NEW q \in Lines, ReadLine(q)
      PROVE  TypeOK'
  <2>1. tripleIDs' \in Seq(Lines) /\ Len(tripleIDs') = Len(tripleIDs) + 1
    BY <1>1 DEF ReadLine
  <2>2. Len(tripleIDs') <= MaxLines /\ pos \in 1 .. Len(tripleIDs') + 1
    BY <1>1, <2>1, LoadAssumption DEF ReadLine
  <2>3. QED
    BY <1>1, <2>1, <2>2 DEF ReadLine, store
<1>2. CASE EndOfFiles
  <2>1. toAdd' \subseteq TripleTemplate
    BY <1>2, LineType, TemplateOfType DEF EndOfFiles
  <2>2. QED
    BY <1>2, <2>1 DEF EndOfFiles, store, LoadPhases
<1>3. ASSUME NEW t \in toAdd, AddNextTemplate(t)
      PROVE  TypeOK'
  <2>1. t \in TripleTemplate
    OBVIOUS
  <2>2. ASSUME t.subjectType >= 2
        PROVE  InsertTemplate(templates[t.subjectType], t) \subseteq TripleTemplate
    <3>1. t.subjectType \in TYPE_ID
      BY <2>1 DEF TripleTemplate
    <3>2. t.scope = 0
      BY <3>1, LineType, TemplateOfType DEF TemplatesFromLines
    <3>3. WellFormed(t.subjectType, InsertTemplate(templates[t.subjectType], t))
      BY <2>1, <3>1, <3>2, InsertWellFormed DEF TemplatesWellFormed
    <3>4. QED
      BY <3>3 DEF WellFormed
  <2>3. t.subjectType \in TYPE_ID /\ t.subjectType \in Nat
    BY <2>1, TypesOfKeys DEF TripleTemplate, TYPE_ID
  <2>4. templates' \in Templates
    BY <1>3, <2>2, <2>3 DEF AddNextTemplate, AddTemplate, Templates
  <2>5. QED
    BY <1>3, <2>4 DEF AddNextTemplate, store
<1>4. CASE TemplatesDone
  BY <1>4 DEF TemplatesDone, store, LoadPhases
<1>5. CASE StoreLine
  <2> DEFINE q == tripleIDs[pos]
  <2>1. pos \in DOMAIN tripleIDs /\ q \in TripleIDs
    BY <1>5, LineType DEF StoreLine, IndexProvenance, CountTriple
  <2>2. /\ q.subject \in KEY_ID /\ q.object \in KEY_ID /\ q.prov \in KEY_ID
        /\ TemplateFor(q) \in Nat
    BY <2>1, TemplateForType DEF TripleIDs
  <2>3. AddToMolecule(molecules[q.subject], TemplateFor(q), q.object, q.prov) \in Molecule
    BY <2>2, AddToMoleculeType
  <2>4. molecules' \in [KEY_ID -> Molecule] /\ inv_molecules' \in [KEY_ID -> SUBSET KEY_ID]
    <3> HIDE DEF q
    <3>1. CASE GetType(q.subject) >= 2
      <4>1. /\ molecules' = [molecules EXCEPT ![q.subject] =
                  AddToMolecule(molecules[q.subject], TemplateFor(q), q.object, q.prov)]
            /\ inv_molecules' = [inv_molecules EXCEPT ![q.object] =
                  inv_molecules[q.object] \union {q.subject}]
        BY <1>5, <3>1 DEF StoreLine, IndexProvenance, CountTriple, CreateMolecule, q
      <4>2. QED
        BY <4>1, <2>2, <2>3
    <3>2. CASE ~ GetType(q.subject) >= 2
      BY <1>5, <3>2 DEF StoreLine, IndexProvenance, CountTriple, q
    <3>3. QED
      BY <3>1, <3>2
  <2>5. ProvIdx' \in [KEY_ID -> SUBSET KEY_ID] /\ contextTriples' \in [KEY_ID -> Nat]
    BY <1>5, <2>2 DEF StoreLine, IndexProvenance, CountTriple
  <2>6. pos' \in 1 .. Len(tripleIDs') + 1
    BY <1>5, <2>1 DEF StoreLine, IndexProvenance, CountTriple
  <2>7. QED
    BY <1>5, <2>4, <2>5, <2>6 DEF StoreLine, IndexProvenance, CountTriple
<1>6. CASE LoadDone
  BY <1>6 DEF LoadDone, store, LoadPhases
<1>7. CASE UNCHANGED loadVars
  BY <1>7 DEF loadVars, store
<1>8. QED
  BY <1>1, <1>2, <1>3, <1>4, <1>5, <1>6, <1>7 DEF LoadNext

\* The inductive invariant holds before the first line.
LEMMA LoadInitInv == LoadInit => LoadInv
<1> SUFFICES ASSUME LoadInit PROVE LoadInv
  OBVIOUS
<1>1. \A root \in TYPE_ID : templates[root] = {}
  BY DEF LoadInit, NoTemplates
<1>2. TemplatesWellFormed
  BY <1>1, FS_EmptySet DEF TemplatesWellFormed, WellFormed
<1>3. TemplatesFromLines
  BY <1>1 DEF TemplatesFromLines, LoadInit
<1>4. LinesCovered /\ PhaseOrder
  BY DEF LinesCovered, PhaseOrder, LoadInit
<1>5. QED
  BY <1>2, <1>3, <1>4, LoadInitTypeOK DEF LoadInv

\* Adding the next template keeps every table well formed, keeps what was in
\* it, and puts that template in.
LEMMA AddTemplateStep ==
  ASSUME TypeOK, TemplatesWellFormed, TemplatesFromLines,
         NEW t \in toAdd, AddNextTemplate(t)
  PROVE  /\ t \in TripleTemplate
         /\ TemplatesWellFormed'
         /\ \A root \in TYPE_ID : templates[root] \subseteq templates'[root]
         /\ t.subjectType >= 2 =>
              \E u \in templates'[t.subjectType] : SameTemplate(u, t)
         /\ \A root \in TYPE_ID : \A u \in templates'[root] :
              u \in templates[root] \/ SameTemplate(u, t)
<1> DEFINE r == t.subjectType
           new == InsertTemplate(templates[r], t)
<1>1. t \in TripleTemplate
  BY DEF TypeOK
<1>2. r \in TYPE_ID /\ t.scope = 0 /\ r \in Nat
  BY <1>1, LineType, TemplateOfType, TypesOfKeys
     DEF TemplatesFromLines, TripleTemplate, TYPE_ID
<1>3. /\ WellFormed(r, new)
      /\ templates[r] \subseteq new
      /\ \E u \in new : SameTemplate(u, t)
      /\ \A u \in new : u \in templates[r] \/ SameTemplate(u, t)
  BY <1>1, <1>2, InsertWellFormed DEF TemplatesWellFormed
<1>4. templates' = IF r < 2 THEN templates ELSE [templates EXCEPT ![r] = new]
  BY DEF AddNextTemplate, AddTemplate
<1>5. DOMAIN templates = TYPE_ID
  BY DEF TypeOK, Templates
<1> HIDE DEF new, r
<1>6. CASE r < 2
  BY <1>1, <1>2, <1>4, <1>6 DEF TemplatesWellFormed, r
<1>7. CASE ~ r < 2
  <2>1. \A root \in TYPE_ID : templates'[root] = IF root = r THEN new ELSE templates[root]
    BY <1>4, <1>5, <1>7
  <2>2. QED
    BY <1>1, <1>2, <1>3, <2>1 DEF TemplatesWellFormed, r
<1>8. QED
  BY <1>6, <1>7

\* Every step of LoadData keeps the inductive invariant.
LEMMA LoadNextInv == LoadInv /\ [LoadNext]_loadVars => LoadInv'
<1> SUFFICES ASSUME LoadInv, [LoadNext]_loadVars PROVE LoadInv'
  OBVIOUS
<1> USE DEF LoadInv
<1>1. TypeOK'
  BY LoadNextTypeOK
<1>2. ASSUME NEW q \in Lines, ReadLine(q)
      PROVE  LoadInv'
  <2>1. /\ DOMAIN tripleIDs \subseteq DOMAIN tripleIDs'
        /\ \A i \in DOMAIN tripleIDs : tripleIDs'[i] = tripleIDs[i]
    BY <1>2 DEF ReadLine, TypeOK
  <2>2. TemplatesWellFormed' /\ LinesCovered'
    BY <1>2 DEF ReadLine, TemplatesWellFormed, LinesCovered
  <2>3. TemplatesFromLines'
    <3>1. \A i \in DOMAIN tripleIDs : TemplateOf(tripleIDs'[i]) = TemplateOf(tripleIDs[i])
      BY <2>1
    <3>2. QED
      BY <1>2, <2>1, <3>1 DEF ReadLine, TemplatesFromLines
  <2>4. PhaseOrder'
    BY <1>2 DEF ReadLine, PhaseOrder, store
  <2>5. QED
    BY <1>1, <2>2, <2>3, <2>4
<1>3. CASE EndOfFiles
  <2>1. TemplatesWellFormed' /\ PhaseOrder'
    BY <1>3 DEF EndOfFiles, TemplatesWellFormed, PhaseOrder, store
  <2>2. LinesCovered' /\ TemplatesFromLines'
    BY <1>3 DEF EndOfFiles, LinesCovered, TemplatesFromLines
  <2>3. QED
    BY <1>1, <2>1, <2>2
<1>4. ASSUME NEW t \in toAdd, AddNextTemplate(t)
      PROVE  LoadInv'
  <2>1. t \in TripleTemplate
    BY <1>4, AddTemplateStep
  <2>2. TemplatesWellFormed'
    BY <1>4, AddTemplateStep
  <2>3. \A root \in TYPE_ID : templates[root] \subseteq templates'[root]
    BY <1>4, AddTemplateStep
  <2>4. t.subjectType >= 2 => \E u \in templates'[t.subjectType] : SameTemplate(u, t)
    BY <1>4, AddTemplateStep
  <2>5. \A root \in TYPE_ID : \A u \in templates'[root] :
          u \in templates[root] \/ SameTemplate(u, t)
    BY <1>4, AddTemplateStep
  <2>6. phase' = phase /\ tripleIDs' = tripleIDs /\ toAdd' = toAdd \ {t}
    BY <1>4 DEF AddNextTemplate
  <2>7. LinesCovered'
    <3> SUFFICES ASSUME phase # "read", NEW i \in DOMAIN tripleIDs, Storable(tripleIDs[i])
                 PROVE  LET x == TemplateOf(tripleIDs[i])
                        IN  \/ x \in toAdd \ {t}
                            \/ \E u \in templates'[x.subjectType] : SameTemplate(u, x)
      BY <2>6 DEF LinesCovered
    <3> DEFINE x == TemplateOf(tripleIDs[i])
    <3>1. x.subjectType \in TYPE_ID /\ x.subjectType >= 2
      BY LineType, TemplateOfType, TypesOfKeys DEF Storable, TripleIDs
    <3>2. x \in toAdd \/ \E u \in templates[x.subjectType] : SameTemplate(u, x)
      BY DEF LinesCovered
    <3> HIDE DEF x
    <3>3. QED
      BY <2>3, <2>4, <3>1, <3>2 DEF x
  <2>8. TemplatesFromLines'
    <3>1. PICK k \in DOMAIN tripleIDs : t = TemplateOf(tripleIDs[k])
      BY <1>4 DEF TemplatesFromLines
    <3>2. \A root \in TYPE_ID : \A u \in templates'[root] :
            \E i \in DOMAIN tripleIDs : SameTemplate(u, TemplateOf(tripleIDs[i]))
      BY <2>5, <3>1 DEF TemplatesFromLines
    <3>3. QED
      BY <2>6, <3>2 DEF TemplatesFromLines
  <2>9. PhaseOrder'
    BY <1>4 DEF AddNextTemplate, PhaseOrder, store
  <2>10. QED
    BY <1>1, <2>2, <2>7, <2>8, <2>9
<1>5. CASE TemplatesDone
  BY <1>1, <1>5 DEF TemplatesDone, TemplatesWellFormed, LinesCovered,
                    TemplatesFromLines, PhaseOrder
<1>6. CASE StoreLine
  BY <1>1, <1>6 DEF StoreLine, IndexProvenance, CountTriple, TemplatesWellFormed, LinesCovered,
                    TemplatesFromLines, PhaseOrder
<1>7. CASE LoadDone
  BY <1>1, <1>7 DEF LoadDone, TemplatesWellFormed, LinesCovered,
                    TemplatesFromLines, PhaseOrder
<1>8. CASE UNCHANGED loadVars
  BY <1>1, <1>8 DEF loadVars, store, TemplatesWellFormed, LinesCovered,
                    TemplatesFromLines, PhaseOrder
<1>9. QED
  BY <1>2, <1>3, <1>4, <1>5, <1>6, <1>7, <1>8 DEF LoadNext

\* The inductive invariant holds throughout the load.
LEMMA LoadInvariant == LoadSpec => []LoadInv
BY LoadInitInv, LoadNextInv, PTL DEF LoadSpec

\* Type correctness of the load: identifiers, tables and molecules stay in
\* their types through every step of LoadData.
THEOREM LoadTypeOK == LoadSpec => []TypeOK
<1>1. LoadInv => TypeOK
  BY DEF LoadInv
<1>2. QED
  BY <1>1, LoadInvariant, PTL

\* Template IDs are unique within a root and run from 1 to its size, whatever
\* the dataset (TemplateManager::AddTemplate, IDs from size() + 1).
THEOREM TemplatesStayWellFormed == LoadSpec => []TemplatesWellFormed
<1>1. LoadInv => TemplatesWellFormed
  BY DEF LoadInv
<1>2. QED
  BY <1>1, LoadInvariant, PTL

\* CreateMolecule never asks for a template that is not there.
THEOREM LinesStayCovered == LoadSpec => []LinesCovered
<1>1. LoadInv => LinesCovered
  BY DEF LoadInv
<1>2. QED
  BY <1>1, LoadInvariant, PTL
------------------------------------------------------------------------------
(***************************************************************************)
(* The store holds the dataset.                                            *)
(***************************************************************************)

\* A root has at most one template per line, so an ID fits in 16 bits.
LEMMA IDsFit ==
  ASSUME LoadInv, NEW root \in TYPE_ID, NEW u \in templates[root]
  PROVE  u.ID \in 1 .. (TmplSpan - 1)
<1> DEFINE S == templates[root]
           n == Len(tripleIDs)
           Made(i, v) == SameTemplate(v, TemplateOf(tripleIDs[i]))
           D == {i \in 1 .. n : \E v \in S : Made(i, v)}
           f == [i \in D |-> CHOOSE v \in S : Made(i, v)]
<1>1. n \in Nat /\ DOMAIN tripleIDs = 1 .. n /\ n <= MaxLines
  BY LoadAssumption DEF LoadInv, TypeOK
<1>2. WellFormed(root, S)
  BY DEF LoadInv, TemplatesWellFormed
<1>3. \A v \in S : \E i \in 1 .. n : Made(i, v)
  BY <1>1 DEF LoadInv, TemplatesFromLines
<1>4. \A i \in D : f[i] \in S /\ Made(i, f[i])
  BY Zenon
<1>5. \A i \in D, v \in S : Made(i, v) => f[i] = v
  <2> SUFFICES ASSUME NEW i \in D, NEW v \in S, Made(i, v)
               PROVE  f[i] = v
    OBVIOUS
  <2>1. SameTemplate(f[i], v)
    BY <1>4 DEF SameTemplate
  <2>2. QED
    BY <1>2, <1>4, <2>1 DEF WellFormed
<1>6. \A v \in S : \E i \in D : f[i] = v
  BY <1>3, <1>5
<1> HIDE DEF f
<1>7. f \in Surjection(D, S)
  <2>1. f \in [D -> S]
    BY <1>4 DEF f
  <2>2. QED
    BY <1>6, <2>1 DEF Surjection
<1>8. IsFiniteSet(1 .. n) /\ Cardinality(1 .. n) = n
  <2> HIDE DEF n
  <2>1. QED
    BY <1>1, FS_Interval
<1>9. IsFiniteSet(D) /\ Cardinality(D) <= n
  BY <1>8, FS_Subset
<1>10. Cardinality(S) <= Cardinality(D)
  BY <1>7, <1>9, FS_Surjection
<1>11. Cardinality(S) \in Nat /\ Cardinality(D) \in Nat
  BY <1>2, <1>9, FS_CardinalityType DEF WellFormed
<1>12. u.ID \in 1 .. Cardinality(S)
  BY <1>2 DEF WellFormed
<1> HIDE DEF S, D, n
<1>13. QED
  BY <1>1, <1>9, <1>10, <1>11, <1>12, LoadAssumption

\* CreateMolecule stores, for a storable line, the ID of the template of that line.
LEMMA TemplateForLine ==
  ASSUME LoadInv, phase = "molecules", NEW i \in DOMAIN tripleIDs,
         Storable(tripleIDs[i])
  PROVE  \E u \in templates[GetType(tripleIDs[i].subject)] :
           /\ u.ID = TemplateFor(tripleIDs[i])
           /\ u.predicateID = tripleIDs[i].predicate
           /\ u.objectType = GetType(tripleIDs[i].object)
<1> DEFINE q == tripleIDs[i]
           root == GetType(q.subject)
<1>1. q \in TripleIDs
  BY LineType DEF LoadInv
<1>2. root \in TYPE_ID
  BY <1>1, TypesOfKeys DEF TripleIDs
<1>3. PICK u \in templates[root] : SameTemplate(u, TemplateOf(q))
  BY DEF LoadInv, LinesCovered, PhaseOrder, TemplateOf
<1>4. u.predicateID = q.predicate /\ u.objectType = GetType(q.object)
  BY <1>3 DEF SameTemplate, TemplateOf
<1>5. GetTemplate(templates, root, root, q.predicate, GetType(q.object)) = u.ID
  <2>1. templates \in Templates /\ WellFormed(root, templates[root])
    BY <1>2 DEF LoadInv, TypeOK, TemplatesWellFormed
  <2>2. QED
    BY <1>2, <1>4, <2>1, TemplateFound
<1>6. u.ID \in 1 .. (TmplSpan - 1)
  BY <1>2, IDsFit
<1>7. \A a \in 1 .. (TmplSpan - 1) : a % TmplSpan = a
  BY LoadAssumption, SMT
<1>8. TemplateFor(q) = u.ID
  BY <1>5, <1>6, <1>7 DEF TemplateFor
<1>9. QED
  BY <1>4, <1>8

\* What CreateMolecule stores for a storable line reads back as its predicate.
LEMMA TemplateReadsBack ==
  ASSUME LoadInv, phase = "molecules", NEW i \in DOMAIN tripleIDs,
         Storable(tripleIDs[i])
  PROVE  GetPredicate(templates, GetType(tripleIDs[i].subject),
                      TemplateFor(tripleIDs[i])) = tripleIDs[i].predicate
<1> DEFINE root == GetType(tripleIDs[i].subject)
<1>1. root \in TYPE_ID
  BY LineType, TypesOfKeys DEF LoadInv, TripleIDs
<1>2. PICK u \in templates[root] : /\ u.ID = TemplateFor(tripleIDs[i])
                                   /\ u.predicateID = tripleIDs[i].predicate
  BY TemplateForLine
<1>3. templates \in Templates /\ WellFormed(root, templates[root])
  BY <1>1 DEF LoadInv, TypeOK, TemplatesWellFormed
<1>4. GetPredicate(templates, root, u.ID) = u.predicateID
  BY <1>1, <1>3, TemplateFound
<1>5. QED
  BY <1>2, <1>4

\* One turn of the loop adds exactly the element of its line to the molecule
\* of its subject, or nothing when the subject is a class.
LEMMA StoreLineElements ==
  ASSUME LoadInv, StoreLine, NEW s \in KEY_ID
  PROVE  LET q == tripleIDs[pos]
         IN  Elements(molecules'[s]) =
               IF Storable(q) /\ s = q.subject
                 THEN Elements(molecules[s]) \union
                        {[prov |-> q.prov, tmpl |-> TemplateFor(q), obj |-> q.object]}
                 ELSE Elements(molecules[s])
<1> DEFINE q == tripleIDs[pos]
           added == [prov |-> q.prov, tmpl |-> TemplateFor(q), obj |-> q.object]
<1>1. q \in TripleIDs /\ TemplateFor(q) \in Nat
  BY LineType, TemplateForType DEF LoadInv, StoreLine, IndexProvenance, CountTriple
<1>2. molecules \in [KEY_ID -> Molecule]
  BY DEF LoadInv, TypeOK
<1>3. q.subject \in KEY_ID /\ q.object \in KEY_ID /\ q.prov \in KEY_ID
  BY <1>1 DEF TripleIDs
<1>4. molecules' = IF Storable(q)
                     THEN [molecules EXCEPT ![q.subject] =
                             AddToMolecule(molecules[q.subject], TemplateFor(q),
                                           q.object, q.prov)]
                     ELSE molecules
  BY DEF StoreLine, IndexProvenance, CountTriple, CreateMolecule, Storable
<1> HIDE DEF q
<1>5. Elements(AddToMolecule(molecules[q.subject], TemplateFor(q), q.object, q.prov))
        = Elements(molecules[q.subject]) \union {added}
  BY <1>1, <1>2, <1>3, AddToMoleculeElements
<1>6. Elements(molecules'[s]) =
        IF Storable(q) /\ s = q.subject
          THEN Elements(molecules[s]) \union {added}
          ELSE Elements(molecules[s])
  BY <1>2, <1>3, <1>4, <1>5
<1>7. QED
  BY <1>6 DEF q

\* The decoded store grows by the line, if it is storable.
LEMMA StoreLineQuads ==
  ASSUME LoadInv, StoreLine
  PROVE  StoredQuads' = StoredQuads \union {x \in {tripleIDs[pos]} : Storable(x)}
<1> DEFINE q == tripleIDs[pos]
           added == [prov |-> q.prov, tmpl |-> TemplateFor(q), obj |-> q.object]
           Read(s, e) == [subject |-> s,
                          predicate |-> GetPredicate(templates, GetType(s), e.tmpl),
                          object |-> e.obj, prov |-> e.prov]
<1>1. q \in TripleIDs /\ pos \in DOMAIN tripleIDs /\ phase = "molecules"
  BY LineType DEF LoadInv, StoreLine, IndexProvenance, CountTriple
<1>2. q.subject \in KEY_ID
  BY <1>1 DEF TripleIDs
<1>3. templates' = templates
  BY DEF StoreLine, IndexProvenance, CountTriple
<1>4. \A s : QuadsOf(s) = {Read(s, e) : e \in Elements(molecules[s])}
  BY DEF QuadsOf
<1>5. \A s : QuadsOf(s)' = {Read(s, e) : e \in Elements(molecules'[s])}
  BY <1>3 DEF QuadsOf
<1>6. Storable(q) => Read(q.subject, added) = q
  <2> SUFFICES ASSUME Storable(q) PROVE Read(q.subject, added) = q
    OBVIOUS
  <2>1. GetPredicate(templates, GetType(q.subject), TemplateFor(q)) = q.predicate
    BY <1>1, TemplateReadsBack
  <2>2. QED
    BY <1>1, <2>1 DEF TripleIDs
<1> HIDE DEF Read
<1>7. \A s \in KEY_ID :
        QuadsOf(s)' = IF Storable(q) /\ s = q.subject THEN QuadsOf(s) \union {q}
                      ELSE QuadsOf(s)
  <2> SUFFICES ASSUME NEW s \in KEY_ID
               PROVE  QuadsOf(s)' = IF Storable(q) /\ s = q.subject
                                      THEN QuadsOf(s) \union {q} ELSE QuadsOf(s)
    OBVIOUS
  <2>1. Elements(molecules'[s]) =
          IF Storable(q) /\ s = q.subject THEN Elements(molecules[s]) \union {added}
          ELSE Elements(molecules[s])
    BY StoreLineElements
  <2>2. CASE Storable(q) /\ s = q.subject
    <3> HIDE DEF added, q
    <3>1. Elements(molecules'[s]) = Elements(molecules[s]) \union {added}
      BY <2>1, <2>2
    <3>2. {Read(s, e) : e \in Elements(molecules[s]) \union {added}}
            = {Read(s, e) : e \in Elements(molecules[s])} \union {Read(s, added)}
      OBVIOUS
    <3>3. QED
      BY <1>4, <1>5, <1>6, <2>2, <3>1, <3>2
  <2>3. CASE ~ (Storable(q) /\ s = q.subject)
    BY <1>4, <1>5, <2>1, <2>3
  <2>4. QED
    BY <2>2, <2>3
<1>8. StoredQuads' = UNION {QuadsOf(s)' : s \in KEY_ID}
  BY DEF StoredQuads
<1>9. \A x : x \in StoredQuads' <=> \E s \in KEY_ID : x \in QuadsOf(s)'
  BY <1>8
<1>10. \A x : x \in StoredQuads <=> \E s \in KEY_ID : x \in QuadsOf(s)
  BY DEF StoredQuads
<1> HIDE DEF q
<1>11. \A x : x \in StoredQuads' <=> x \in StoredQuads \/ (x = q /\ Storable(q))
  BY <1>2, <1>7, <1>9, <1>10
<1>12. QED
  BY <1>11 DEF q

\* Until the first molecule, nothing is stored and no line counts as loaded.
LEMMA NothingStoredYet ==
  ASSUME LoadInv, phase \in {"read", "templates"}
  PROVE  StoredQuads = {} /\ Loaded = {}
<1>1. \A s \in KEY_ID : Elements(molecules[s]) = {}
  BY DEF LoadInv, PhaseOrder, NoMolecule, Elements
<1>2. StoredQuads = {}
  BY <1>1 DEF StoredQuads, QuadsOf
<1>3. Loaded = {}
  BY DEF LoadInv, PhaseOrder, Loaded
<1>4. QED
  BY <1>2, <1>3

\* One turn of the loop loads one more line, the one at pos.
LEMMA StoreLineLoaded ==
  ASSUME LoadInv, StoreLine
  PROVE  Loaded' = Loaded \union {tripleIDs[pos]}
<1>1. pos \in Nat \ {0} /\ pos' = pos + 1 /\ tripleIDs' = tripleIDs
  BY DEF LoadInv, TypeOK, StoreLine, IndexProvenance, CountTriple
<1>2. 1 .. (pos' - 1) = (1 .. (pos - 1)) \union {pos}
  BY <1>1
<1>3. QED
  BY <1>1, <1>2 DEF Loaded

\* The steps that are not StoreLine neither load a line nor store a quad.
LEMMA OtherSteps ==
  ASSUME LoadInv, LoadInv', StoreIsDataset, [LoadNext]_loadVars, ~ StoreLine
  PROVE  StoredQuads' = StoredQuads /\ Loaded' = Loaded
<1>1. CASE phase \in {"read", "templates"} /\ phase' \in {"read", "templates"}
  <2>1. StoredQuads' = {} /\ Loaded' = {}
    <3>1. \A s \in KEY_ID : Elements(molecules'[s]) = {}
      BY <1>1 DEF LoadInv, PhaseOrder, NoMolecule, Elements
    <3>2. StoredQuads' = {}
      BY <3>1 DEF StoredQuads, QuadsOf
    <3>3. Loaded' = {}
      BY <1>1 DEF LoadInv, PhaseOrder, Loaded
    <3>4. QED
      BY <3>2, <3>3
  <2>2. QED
    BY <1>1, <2>1, NothingStoredYet
<1>2. CASE TemplatesDone \/ LoadDone \/ UNCHANGED loadVars
  BY <1>2 DEF TemplatesDone, LoadDone, loadVars, store, StoredQuads, QuadsOf, Loaded
<1>3. CASE (\E q \in Lines : ReadLine(q)) \/ EndOfFiles \/ \E t \in toAdd : AddNextTemplate(t)
  BY <1>1, <1>3 DEF ReadLine, EndOfFiles, AddNextTemplate
<1>4. QED
  BY <1>2, <1>3 DEF LoadNext

\* Nothing is stored and nothing loaded at first.
LEMMA StoreIsDatasetInit == LoadInit => StoreIsDataset
<1>1. LoadInit => phase \in {"read", "templates"} /\ LoadInv
  BY LoadInitInv DEF LoadInit
<1>2. QED
  BY <1>1, NothingStoredYet DEF StoreIsDataset

\* Every step of LoadData keeps store and dataset equal.
LEMMA StoreIsDatasetNext ==
  LoadInv /\ LoadInv' /\ StoreIsDataset /\ [LoadNext]_loadVars => StoreIsDataset'
<1> SUFFICES ASSUME LoadInv, LoadInv', StoreIsDataset, [LoadNext]_loadVars
             PROVE  StoreIsDataset'
  OBVIOUS
<1>1. CASE StoreLine
  BY <1>1, StoreLineQuads, StoreLineLoaded DEF StoreIsDataset, Storable
<1>2. CASE ~ StoreLine
  BY <1>2, OtherSteps DEF StoreIsDataset, Storable
<1>3. QED
  BY <1>1, <1>2

\* The molecules, read back through the templates, are exactly the storable
\* lines loaded: LoadData loses no quad, invents none, and files none under
\* another predicate or context.
THEOREM LoadIsFaithful == LoadSpec => []StoreIsDataset
BY LoadInvariant, StoreIsDatasetInit, StoreIsDatasetNext, PTL DEF LoadSpec

\* Every step of LoadData is a step of the abstract store or leaves it alone.
LEMMA StepRefines ==
  LoadInv /\ LoadInv' /\ StoreIsDataset /\ [LoadNext]_loadVars
    => [Abstract!Next]_StoredQuads
<1> SUFFICES ASSUME LoadInv, LoadInv', StoreIsDataset, [LoadNext]_loadVars
             PROVE  [Abstract!Next]_StoredQuads
  OBVIOUS
<1>1. CASE StoreLine /\ Storable(tripleIDs[pos])
  <2>1. tripleIDs[pos] \in Lines
    BY <1>1 DEF StoreLine, IndexProvenance, CountTriple, LoadInv, TypeOK
  <2>2. StoredQuads' = StoredQuads \union {tripleIDs[pos]}
    BY <1>1, StoreLineQuads
  <2>3. QED
    BY <1>1, <2>1, <2>2 DEF Abstract!Next, Abstract!Load
<1>2. CASE StoreLine /\ ~ Storable(tripleIDs[pos])
  BY <1>2, StoreLineQuads
<1>3. CASE ~ StoreLine
  BY <1>3, OtherSteps
<1>4. QED
  BY <1>1, <1>2, <1>3

\* LoadData implements the abstract store.
THEOREM LoadRefinesQuadStore == LoadSpec => RefinesQuadStore
<1>1. LoadInit => Abstract!Init
  <2>1. LoadInit => phase \in {"read", "templates"} /\ LoadInv
    BY LoadInitInv DEF LoadInit
  <2>2. QED
    BY <2>1, NothingStoredYet DEF Abstract!Init
<1>2. QED
  BY <1>1, LoadInvariant, LoadIsFaithful, StepRefines, PTL
     DEF LoadSpec, RefinesQuadStore, Abstract!Spec
------------------------------------------------------------------------------
(***************************************************************************)
(* The two indexes agree with the molecules.                               *)
(***************************************************************************)

IndexesExact == InvertedIndexExact /\ ProvIdxExact

\* What one turn of the loop adds to the objects and the contexts of a subject.
LEMMA StoreLineObjects ==
  ASSUME LoadInv, StoreLine, NEW s \in KEY_ID,
         Storable(tripleIDs[pos]), s = tripleIDs[pos].subject
  PROVE  /\ ObjectsOf(molecules'[s]) = ObjectsOf(molecules[s]) \union {tripleIDs[pos].object}
         /\ ProvenancesOf(molecules'[s]) =
              ProvenancesOf(molecules[s]) \union {tripleIDs[pos].prov}
<1> DEFINE q == tripleIDs[pos]
           added == [prov |-> q.prov, tmpl |-> TemplateFor(q), obj |-> q.object]
<1>1. Elements(molecules'[s]) = Elements(molecules[s]) \union {added}
  BY StoreLineElements
<1>2. added.obj = q.object /\ added.prov = q.prov
  OBVIOUS
<1> HIDE DEF added
<1>3. QED
  BY <1>1, <1>2 DEF ObjectsOf, ProvenancesOf

\* One turn of the loop leaves the molecules of other subjects alone.
LEMMA StoreLineOthers ==
  ASSUME LoadInv, StoreLine, NEW s \in KEY_ID,
         ~ (Storable(tripleIDs[pos]) /\ s = tripleIDs[pos].subject)
  PROVE  /\ ObjectsOf(molecules'[s]) = ObjectsOf(molecules[s])
         /\ ProvenancesOf(molecules'[s]) = ProvenancesOf(molecules[s])
<1>1. Elements(molecules'[s]) = Elements(molecules[s])
  BY StoreLineElements
<1>2. QED
  BY <1>1 DEF ObjectsOf, ProvenancesOf

\* One turn of the loop keeps both indexes exact.
LEMMA StoreLineIndexes ==
  ASSUME LoadInv, StoreLine, IndexesExact
  PROVE  IndexesExact'
<1> DEFINE q == tripleIDs[pos]
<1>1. /\ q.subject \in KEY_ID /\ q.object \in KEY_ID /\ q.prov \in KEY_ID
      /\ inv_molecules \in [KEY_ID -> SUBSET KEY_ID]
      /\ ProvIdx \in [KEY_ID -> SUBSET KEY_ID]
  BY LineType DEF LoadInv, TypeOK, StoreLine, TripleIDs
<1>2. /\ Storable(q) => inv_molecules' = [inv_molecules EXCEPT ![q.object] =
                                            inv_molecules[q.object] \union {q.subject}]
      /\ ~ Storable(q) => inv_molecules' = inv_molecules
      /\ ProvIdx' = [ProvIdx EXCEPT ![q.prov] = ProvIdx[q.prov] \union {q.subject}]
  BY DEF StoreLine, CreateMolecule, IndexProvenance, Storable
<1>3. \A s \in KEY_ID :
        Storable(q) /\ s = q.subject =>
          /\ ObjectsOf(molecules'[s]) = ObjectsOf(molecules[s]) \union {q.object}
          /\ ProvenancesOf(molecules'[s]) = ProvenancesOf(molecules[s]) \union {q.prov}
  BY StoreLineObjects
<1>4. \A s \in KEY_ID :
        ~ (Storable(q) /\ s = q.subject) =>
          /\ ObjectsOf(molecules'[s]) = ObjectsOf(molecules[s])
          /\ ProvenancesOf(molecules'[s]) = ProvenancesOf(molecules[s])
  BY StoreLineOthers
<1>5. Storable(q) <=> GetType(q.subject) >= 2
  BY DEF Storable
<1> HIDE DEF q
<1>6. InvertedIndexExact'
  <2> SUFFICES ASSUME NEW o \in KEY_ID, NEW s \in KEY_ID
               PROVE  s \in inv_molecules'[o] <=> o \in ObjectsOf(molecules'[s])
    BY <1>1, <1>2 DEF InvertedIndexExact
  <2>1. s \in inv_molecules[o] <=> o \in ObjectsOf(molecules[s])
    BY DEF IndexesExact, InvertedIndexExact
  <2>2. s \in inv_molecules'[o] <=>
          s \in inv_molecules[o] \/ (Storable(q) /\ s = q.subject /\ o = q.object)
    BY <1>1, <1>2
  <2>3. o \in ObjectsOf(molecules'[s]) <=>
          o \in ObjectsOf(molecules[s]) \/ (Storable(q) /\ s = q.subject /\ o = q.object)
    BY <1>3, <1>4
  <2>4. QED
    BY <2>1, <2>2, <2>3
<1>7. ProvIdxExact'
  <2> SUFFICES ASSUME NEW p \in KEY_ID, NEW s \in KEY_ID, GetType(s) >= 2
               PROVE  s \in ProvIdx'[p] <=> p \in ProvenancesOf(molecules'[s])
    BY DEF ProvIdxExact
  <2>1. s \in ProvIdx[p] <=> p \in ProvenancesOf(molecules[s])
    BY DEF IndexesExact, ProvIdxExact
  <2>2. s \in ProvIdx'[p] <=> s \in ProvIdx[p] \/ (s = q.subject /\ p = q.prov)
    BY <1>1, <1>2
  <2>3. s = q.subject => Storable(q)
    BY <1>5
  <2>4. p \in ProvenancesOf(molecules'[s]) <=>
          p \in ProvenancesOf(molecules[s]) \/ (s = q.subject /\ p = q.prov)
    BY <1>3, <1>4, <2>3
  <2>5. QED
    BY <2>1, <2>2, <2>4
<1>8. QED
  BY <1>6, <1>7 DEF IndexesExact

\* Empty indexes are exact for an empty store.
LEMMA IndexesExactInit == LoadInit => IndexesExact
<1> SUFFICES ASSUME LoadInit PROVE IndexesExact
  OBVIOUS
<1>1. \A s \in KEY_ID : Elements(molecules[s]) = {}
  BY DEF LoadInit, NoMolecule, Elements
<1>2. \A s \in KEY_ID : ObjectsOf(molecules[s]) = {} /\ ProvenancesOf(molecules[s]) = {}
  BY <1>1 DEF ObjectsOf, ProvenancesOf
<1>3. \A k \in KEY_ID : inv_molecules[k] = {} /\ ProvIdx[k] = {}
  BY DEF LoadInit, Empty
<1>4. QED
  BY <1>2, <1>3 DEF IndexesExact, InvertedIndexExact, ProvIdxExact

\* Every step of LoadData keeps both indexes exact.
LEMMA IndexesExactNext ==
  LoadInv /\ IndexesExact /\ [LoadNext]_loadVars => IndexesExact'
<1> SUFFICES ASSUME LoadInv, IndexesExact, [LoadNext]_loadVars
             PROVE  IndexesExact'
  OBVIOUS
<1>1. CASE StoreLine
  BY <1>1, StoreLineIndexes
<1>2. CASE ~ StoreLine
  <2>1. molecules' = molecules /\ inv_molecules' = inv_molecules /\ ProvIdx' = ProvIdx
    BY <1>2 DEF LoadNext, ReadLine, EndOfFiles, AddNextTemplate, TemplatesDone, LoadDone,
                loadVars, store
  <2>2. QED
    BY <2>1 DEF IndexesExact, InvertedIndexExact, ProvIdxExact
<1>3. QED
  BY <1>1, <1>2

\* Both indexes are exact throughout the load.
LEMMA IndexesStayExact == LoadSpec => []IndexesExact
BY LoadInvariant, IndexesExactInit, IndexesExactNext, PTL DEF LoadSpec

\* A look-up by object finds every molecule the object occurs in and no other.
THEOREM InvertedIndexStaysExact == LoadSpec => []InvertedIndexExact
<1>1. IndexesExact => InvertedIndexExact
  BY DEF IndexesExact
<1>2. QED
  BY <1>1, IndexesStayExact, PTL

\* The subjects listed under a context are those whose molecule has a group of
\* that context.
THEOREM ProvIdxStaysExact == LoadSpec => []ProvIdxExact
<1>1. IndexesExact => ProvIdxExact
  BY DEF IndexesExact
<1>2. QED
  BY <1>1, IndexesStayExact, PTL
------------------------------------------------------------------------------
(***************************************************************************)
(* A molecule has one group per provenance.                                *)
(***************************************************************************)

OneGroupEach(m) ==
  \A i, j \in DOMAIN m : m[i].prov = m[j].prov => i = j

\* AddTriple opens a group only for a provenance that has none.
LEMMA AddToMoleculeGroups ==
  ASSUME NEW m \in Molecule, NEW tmpl \in Nat, NEW o \in KEY_ID, NEW prov \in KEY_ID,
         OneGroupEach(m)
  PROVE  OneGroupEach(AddToMolecule(m, tmpl, o, prov))
<1> DEFINE elem == [tmpl |-> tmpl, obj |-> o]
           r == AddToMolecule(m, tmpl, o, prov)
<1>1. CASE GroupsOf(m, prov) # {}
  <2> DEFINE f == FirstGroup(m, prov)
  <2>1. f \in DOMAIN m /\ m[f].prov = prov
    BY <1>1, FirstGroupFound DEF GroupsOf
  <2>2. r = [m EXCEPT ![f] = GrownGroup(m, prov, elem)]
    BY <1>1, Zenon DEF AddToMolecule
  <2>3. GrownGroup(m, prov, elem).prov = prov
    BY DEF GrownGroup
  <2>4. DOMAIN r = DOMAIN m /\ \A i \in DOMAIN m : r[i].prov = m[i].prov
    <3> HIDE DEF r, f, elem
    <3>1. QED
      BY <2>1, <2>2, <2>3
  <2> HIDE DEF r
  <2>5. QED
    BY <2>4 DEF OneGroupEach, r
<1>2. CASE GroupsOf(m, prov) = {}
  <2> DEFINE g == [prov |-> prov, next |-> <<elem>>]
             n == Len(m) + 1
  <2>1. r = Append(m, g)
    BY <1>2, Zenon DEF AddToMolecule
  <2>2. g \in Group /\ g.prov = prov
    BY DEF Group, Element
  <2>3. /\ DOMAIN r = DOMAIN m \union {n}
        /\ n \notin DOMAIN m
        /\ \A i \in DOMAIN m : r[i] = m[i]
        /\ r[n] = g
    <3> HIDE DEF g, r
    <3>1. QED
      BY <2>1, <2>2, SMT DEF Molecule
  <2>4. \A i \in DOMAIN m : m[i].prov # prov
    BY <1>2 DEF GroupsOf
  <2> HIDE DEF g, r, n
  <2>5. QED
    BY <2>2, <2>3, <2>4 DEF OneGroupEach, r
<1>3. QED
  BY <1>1, <1>2

\* Every step of LoadData keeps one group for each provenance.
LEMMA OneGroupNext ==
  LoadInv /\ OneGroupPerProvenance /\ [LoadNext]_loadVars => OneGroupPerProvenance'
<1> SUFFICES ASSUME LoadInv, OneGroupPerProvenance, [LoadNext]_loadVars
             PROVE  OneGroupPerProvenance'
  OBVIOUS
<1>1. CASE StoreLine
  <2> DEFINE q == tripleIDs[pos]
  <2>1. /\ q \in TripleIDs
        /\ q.subject \in KEY_ID /\ q.object \in KEY_ID /\ q.prov \in KEY_ID
        /\ TemplateFor(q) \in Nat
        /\ molecules \in [KEY_ID -> Molecule]
    BY <1>1, LineType, TemplateForType DEF LoadInv, TypeOK, StoreLine, TripleIDs
  <2>2. molecules' = IF Storable(q)
                       THEN [molecules EXCEPT ![q.subject] =
                               AddToMolecule(molecules[q.subject], TemplateFor(q),
                                             q.object, q.prov)]
                       ELSE molecules
    BY <1>1 DEF StoreLine, CreateMolecule, Storable
  <2> HIDE DEF q
  <2>3. \A s \in KEY_ID : OneGroupEach(molecules[s])
    BY DEF OneGroupPerProvenance, OneGroupEach
  <2>4. OneGroupEach(AddToMolecule(molecules[q.subject], TemplateFor(q), q.object, q.prov))
    BY <2>1, <2>3, AddToMoleculeGroups
  <2>5. \A s \in KEY_ID : OneGroupEach(molecules'[s])
    BY <2>1, <2>2, <2>3, <2>4
  <2>6. QED
    BY <2>5 DEF OneGroupPerProvenance, OneGroupEach
<1>2. CASE ~ StoreLine
  <2>1. molecules' = molecules
    BY <1>2 DEF LoadNext, ReadLine, EndOfFiles, AddNextTemplate, TemplatesDone, LoadDone,
                loadVars, store
  <2>2. QED
    BY <2>1 DEF OneGroupPerProvenance
<1>3. QED
  BY <1>1, <1>2

\* No molecule ever has two groups of one provenance, so the group AddTriple
\* finds first is all the molecule knows under that context.
THEOREM OneGroupStays == LoadSpec => []OneGroupPerProvenance
<1>1. LoadInit => OneGroupPerProvenance
  BY DEF LoadInit, NoMolecule, OneGroupPerProvenance
<1>2. QED
  BY <1>1, LoadInvariant, OneGroupNext, PTL DEF LoadSpec
------------------------------------------------------------------------------
(***************************************************************************)
(* What the queries, which start when the load is over, rely on.           *)
(***************************************************************************)

\* An element names a template of its subject's type, for objects of its type.
ElementsTyped ==
  \A s \in KEY_ID : \A e \in Elements(molecules[s]) :
    /\ e.obj \in KEY_ID /\ e.prov \in KEY_ID
    /\ \E u \in templates[GetType(s)] : u.ID = e.tmpl /\ u.objectType = GetType(e.obj)

\* The load is over when every line is in the store.
AllLoaded == phase = "loaded" => pos = Len(tripleIDs) + 1

\* The invariant of the load that queries start from.
StoreInv ==
  /\ LoadInv
  /\ StoreIsDataset
  /\ IndexesExact
  /\ ElementsTyped
  /\ AllLoaded

\* One turn of the loop adds an element whose template is that of its line.
LEMMA ElementsTypedNext ==
  LoadInv /\ ElementsTyped /\ [LoadNext]_loadVars => ElementsTyped'
<1> SUFFICES ASSUME LoadInv, ElementsTyped, [LoadNext]_loadVars
             PROVE  ElementsTyped'
  OBVIOUS
<1>1. CASE StoreLine
  <2> DEFINE q == tripleIDs[pos]
             added == [prov |-> q.prov, tmpl |-> TemplateFor(q), obj |-> q.object]
  <2>1. pos \in DOMAIN tripleIDs /\ phase = "molecules" /\ templates' = templates
    BY <1>1 DEF StoreLine
  <2>2. q.object \in KEY_ID /\ q.prov \in KEY_ID
    BY <2>1, LineType DEF LoadInv, TripleIDs
  <2>3. \A s \in KEY_ID :
          Elements(molecules'[s]) = IF Storable(q) /\ s = q.subject
                                      THEN Elements(molecules[s]) \union {added}
                                      ELSE Elements(molecules[s])
    BY <1>1, StoreLineElements
  <2>4. Storable(q) => \E u \in templates[GetType(q.subject)] :
                         u.ID = added.tmpl /\ u.objectType = GetType(added.obj)
    BY <2>1, TemplateForLine
  <2>5. added.obj \in KEY_ID /\ added.prov \in KEY_ID
    BY <2>2
  <2> HIDE DEF added, q
  <2>6. QED
    BY <2>1, <2>3, <2>4, <2>5 DEF ElementsTyped
<1>2. CASE ~ StoreLine
  <2>1. molecules' = molecules
    BY <1>2 DEF LoadNext, ReadLine, EndOfFiles, AddNextTemplate, TemplatesDone, LoadDone,
                loadVars, store
  <2>2. CASE templates' = templates
    BY <2>1, <2>2 DEF ElementsTyped
  <2>3. CASE phase = "templates"
    <3>1. \A s \in KEY_ID : Elements(molecules'[s]) = {}
      BY <2>1, <2>3 DEF LoadInv, PhaseOrder, NoMolecule, Elements
    <3>2. QED
      BY <3>1 DEF ElementsTyped
  <2>4. QED
    BY <1>2, <2>2, <2>3 DEF LoadNext, ReadLine, EndOfFiles, AddNextTemplate, TemplatesDone,
                            LoadDone, loadVars
<1>3. QED
  BY <1>1, <1>2

\* LoadDone is the only way into "loaded", and nothing moves pos after it.
LEMMA AllLoadedNext ==
  LoadInv /\ AllLoaded /\ [LoadNext]_loadVars => AllLoaded'
<1> SUFFICES ASSUME LoadInv, AllLoaded, [LoadNext]_loadVars
             PROVE  AllLoaded'
  OBVIOUS
<1>1. CASE LoadDone
  <2>1. pos \in 1 .. (Len(tripleIDs) + 1) /\ Len(tripleIDs) \in Nat
    BY DEF LoadInv, TypeOK
  <2>2. QED
    BY <1>1, <2>1 DEF LoadDone, AllLoaded
<1>2. CASE ~ LoadDone
  BY <1>2 DEF LoadNext, ReadLine, EndOfFiles, AddNextTemplate, TemplatesDone, StoreLine,
              loadVars, AllLoaded
<1>3. QED
  BY <1>1, <1>2

\* The invariant of the load, before its first step and after each.
LEMMA StoreInvInit == LoadInit => StoreInv
<1> SUFFICES ASSUME LoadInit PROVE StoreInv
  OBVIOUS
<1>1. \A s \in KEY_ID : Elements(molecules[s]) = {}
  BY DEF LoadInit, NoMolecule, Elements
<1>2. ElementsTyped /\ AllLoaded
  BY <1>1 DEF ElementsTyped, AllLoaded, LoadInit
<1>3. QED
  BY <1>2, LoadInitInv, StoreIsDatasetInit, IndexesExactInit DEF StoreInv

LEMMA StoreInvNext == StoreInv /\ [LoadNext]_loadVars => StoreInv'
BY LoadNextInv, StoreIsDatasetNext, IndexesExactNext, ElementsTypedNext, AllLoadedNext
   DEF StoreInv
------------------------------------------------------------------------------
(***************************************************************************)
(* Repeated lines.                                                         *)
(***************************************************************************)

\* A list of sequences all of which are empty, but perhaps one.
LEMMA FlattenNone ==
  ASSUME NEW n \in Nat, NEW seqs, seqs = [i \in 1 .. n |-> <<>>]
  PROVE  FlattenSeq(seqs) = <<>>
<1>1. Len(seqs) = n
  OBVIOUS
<1>2. CASE n = 0
  BY <1>1, <1>2 DEF FlattenSeq
<1>3. CASE n # 0
  <2>1. PICK f : f = [i \in 1 .. n |-> <<>>]
    OBVIOUS
  <2>2. Flattens(f, seqs, n)
    <3>1. \A i \in 1 .. n : f[i] = IF i = 1 THEN seqs[i] ELSE f[i - 1] \o seqs[i]
      BY <2>1
    <3>2. QED
      BY <2>1, <3>1 DEF Flattens
  <2>3. FlattenSeq(seqs) = f[n]
    BY <1>1, <1>3, <2>2, FlattenByFunction
  <2>4. QED
    BY <1>3, <2>1, <2>3
<1>4. QED
  BY <1>2, <1>3

LEMMA FlattenOne ==
  ASSUME NEW S, NEW n \in Nat, NEW seqs, DOMAIN seqs = 1 .. n, Len(seqs) = n,
         NEW k \in 1 .. n, seqs[k] \in Seq(S),
         \A i \in (1 .. n) \ {k} : seqs[i] = <<>>
  PROVE  FlattenSeq(seqs) = seqs[k]
<1>1. PICK x : x = seqs[k]
  OBVIOUS
<1>2. PICK f : f = [i \in 1 .. n |-> IF i < k THEN <<>> ELSE x]
  OBVIOUS
<1>3. x \in Seq(S) /\ <<>> \o x = x /\ x \o <<>> = x /\ <<>> \o <<>> = <<>>
  BY <1>1
<1>4. ASSUME NEW i \in 1 .. n
      PROVE  f[i] = IF i = 1 THEN seqs[i] ELSE f[i - 1] \o seqs[i]
  <2>1. CASE i = 1
    BY <1>1, <1>2, <2>1
  <2>2. CASE i # 1
    <3>1. i - 1 \in 1 .. n /\ f[i - 1] = IF i <= k THEN <<>> ELSE x
      BY <1>2, <2>2
    <3>2. seqs[i] = IF i = k THEN x ELSE <<>>
      BY <1>1
    <3>3. f[i] = IF i < k THEN <<>> ELSE x
      BY <1>2
    <3>4. f[i - 1] \o seqs[i] = IF i < k THEN <<>> ELSE x
      <4>1. CASE i < k
        BY <1>3, <3>1, <3>2, <4>1
      <4>2. CASE i = k
        BY <1>3, <3>1, <3>2, <4>2
      <4>3. CASE i > k
        <5>1. f[i - 1] = x /\ seqs[i] = <<>>
          BY <3>1, <3>2, <4>3
        <5>2. QED
          BY <1>3, <4>3, <5>1
      <4>4. QED
        BY <4>1, <4>2, <4>3
    <3>5. QED
      BY <2>2, <3>3, <3>4
  <2>3. QED
    BY <2>1, <2>2
<1>5. Flattens(f, seqs, n)
  <2>1. f = [i \in 1 .. n |-> f[i]]
    BY <1>2
  <2>2. QED
    BY <1>4, <2>1 DEF Flattens
<1>6. FlattenSeq(seqs) = f[n]
  BY <1>5, FlattenByFunction
<1>7. QED
  BY <1>1, <1>2, <1>6

\* The objects of one group.
ObjectsUnder(g, p) == IF g.prov = p THEN [j \in DOMAIN g.next |-> g.next[j].obj] ELSE <<>>

LEMMA ObjectsUnderType ==
  ASSUME NEW g \in Group, NEW p
  PROVE  ObjectsUnder(g, p) \in Seq(KEY_ID)
<1>1. PICK a, n : a = g.next /\ n = Len(g.next)
  OBVIOUS
<1>2. n \in Nat /\ DOMAIN a = 1 .. n /\ \A j \in 1 .. n : a[j] \in Element
  BY <1>1 DEF Group
<1>3. \A j \in 1 .. n : a[j].obj \in KEY_ID
  BY <1>2 DEF Element
<1>4. [j \in 1 .. n |-> a[j].obj] \in Seq(KEY_ID)
  BY <1>2, <1>3
<1>5. QED
  BY <1>1, <1>2, <1>4 DEF ObjectsUnder

\* A group that has grown has one object more, behind the others.
LEMMA GroupGrows ==
  ASSUME NEW g \in Group, NEW h, NEW tmpl, NEW o \in KEY_ID, NEW p,
         g.prov = p, h.prov = p, h.next = Append(g.next, [tmpl |-> tmpl, obj |-> o])
  PROVE  ObjectsUnder(h, p) = Append(ObjectsUnder(g, p), o)
<1>1. PICK a, b, n : a = g.next /\ b = h.next /\ n = Len(g.next)
  OBVIOUS
<1>2. a \in Seq(Element) /\ n \in Nat /\ DOMAIN a = 1 .. n
  BY <1>1 DEF Group
<1>3. PICK e : e = [tmpl |-> tmpl, obj |-> o]
  OBVIOUS
<1>4. /\ DOMAIN b = 1 .. (n + 1) /\ b[n + 1].obj = o
      /\ \A j \in 1 .. n : b[j] = a[j]
  <2>1. b = Append(a, e) /\ e.obj = o
    BY <1>1, <1>3
  <2>2. QED
    BY <1>1, <1>2, <2>1
<1>5. PICK x, y : x = [j \in 1 .. n |-> a[j].obj] /\ y = [j \in 1 .. (n + 1) |-> b[j].obj]
  OBVIOUS
<1>6. ObjectsUnder(g, p) = x /\ ObjectsUnder(h, p) = y
  BY <1>1, <1>2, <1>4, <1>5 DEF ObjectsUnder
<1>7. x \in Seq(KEY_ID) /\ Len(x) = n
  <2>1. \A j \in 1 .. n : a[j].obj \in KEY_ID
    <3>1. \A j \in 1 .. n : a[j] \in Element
      BY <1>2
    <3>2. QED
      BY <3>1 DEF Element
  <2>2. QED
    BY <1>2, <1>5, <2>1
<1>8. y = Append(x, o)
  <2>1. PICK z : z = Append(x, o)
    OBVIOUS
  <2>2. /\ DOMAIN z = 1 .. (n + 1) /\ z[n + 1] = o /\ \A j \in 1 .. n : z[j] = x[j]
        /\ z \in Seq(KEY_ID)
    BY <1>2, <1>7, <2>1
  <2>3. z = [j \in 1 .. (n + 1) |-> z[j]]
    BY <2>2
  <2>4. \A j \in 1 .. (n + 1) : z[j] = y[j]
    BY <1>2, <1>4, <1>5, <2>2
  <2>5. QED
    BY <1>5, <2>1, <2>3, <2>4
<1>9. QED
  BY <1>6, <1>8

\* Of a molecule with one group for each context the objects under one are
\* those of its group.
LEMMA ObjectsOfGroup ==
  ASSUME NEW m \in Molecule, OneGroupEach(m), NEW p
  PROVE  /\ \A k \in DOMAIN m : m[k].prov = p => GroupObjects(m, p) = ObjectsUnder(m[k], p)
         /\ (\A k \in DOMAIN m : m[k].prov # p) => GroupObjects(m, p) = <<>>
<1>1. PICK n : n = Len(m)
  OBVIOUS
<1>2. n \in Nat /\ DOMAIN m = 1 .. n /\ \A i \in 1 .. n : m[i] \in Group
  BY <1>1 DEF Molecule
<1>3. PICK seqs : seqs = [i \in 1 .. n |-> ObjectsUnder(m[i], p)]
  OBVIOUS
<1>4. GroupObjects(m, p) = FlattenSeq(seqs)
  BY <1>2, <1>3 DEF GroupObjects, ObjectsUnder
<1>5. DOMAIN seqs = 1 .. n /\ Len(seqs) = n
  BY <1>2, <1>3
<1>6. ASSUME NEW k \in 1 .. n, m[k].prov = p
      PROVE  FlattenSeq(seqs) = ObjectsUnder(m[k], p)
  <2>1. \A i \in (1 .. n) \ {k} : seqs[i] = <<>>
    BY <1>2, <1>3, <1>6 DEF OneGroupEach, ObjectsUnder
  <2>2. seqs[k] = ObjectsUnder(m[k], p) /\ seqs[k] \in Seq(KEY_ID)
    BY <1>2, <1>3, ObjectsUnderType
  <2>3. QED
    BY <1>2, <1>5, <2>1, <2>2, FlattenOne
<1>7. ASSUME \A k \in 1 .. n : m[k].prov # p
      PROVE  FlattenSeq(seqs) = <<>>
  <2>1. seqs = [i \in 1 .. n |-> <<>>]
    BY <1>3, <1>7 DEF ObjectsUnder
  <2>2. QED
    BY <1>2, <2>1, FlattenNone
<1>8. QED
  BY <1>2, <1>4, <1>6, <1>7

LEMMA ObjectsAreSequence ==
  ASSUME NEW m \in Molecule, OneGroupEach(m), NEW p
  PROVE  GroupObjects(m, p) \in Seq(KEY_ID)
<1>1. CASE \A k \in DOMAIN m : m[k].prov # p
  <2>1. GroupObjects(m, p) = <<>>
    BY <1>1, ObjectsOfGroup
  <2>2. QED
    BY <2>1
<1>2. CASE ~ \A k \in DOMAIN m : m[k].prov # p
  <2>1. PICK k \in DOMAIN m : m[k].prov = p
    BY <1>2
  <2>2. m[k] \in Group /\ GroupObjects(m, p) = ObjectsUnder(m[k], p)
    BY <2>1, ObjectsOfGroup DEF Molecule
  <2>3. QED
    BY <2>2, ObjectsUnderType
<1>3. QED
  BY <1>1, <1>2

\* What a line of context prov does to the objects under p.
ObjectIfUnder(p, prov, o) == IF p = prov THEN <<o>> ELSE <<>>

\* A line of a context appends its object to those under it, and nothing to
\* those under others.
LEMMA AddToMoleculeObjects ==
  ASSUME NEW m \in Molecule, OneGroupEach(m),
         NEW tmpl \in Nat, NEW o \in KEY_ID, NEW prov \in KEY_ID, NEW p \in KEY_ID
  PROVE  GroupObjects(AddToMolecule(m, tmpl, o, prov), p) =
           GroupObjects(m, p) \o ObjectIfUnder(p, prov, o)
<1>1. PICK r, elem : r = AddToMolecule(m, tmpl, o, prov) /\ elem = [tmpl |-> tmpl, obj |-> o]
  OBVIOUS
<1>2. r \in Molecule /\ OneGroupEach(r)
  BY <1>1, AddToMoleculeType, AddToMoleculeGroups
<1>3. CASE GroupsOf(m, prov) # {}
  <2>1. PICK f : f = FirstGroup(m, prov)
    OBVIOUS
  <2>2. f \in DOMAIN m /\ m[f].prov = prov
    BY <1>3, <2>1, FirstGroupFound
  <2>3. PICK g : g = GrownGroup(m, prov, elem)
    OBVIOUS
  <2>4. r = [m EXCEPT ![f] = g]
    BY <1>1, <1>3, <2>1, <2>3, Zenon DEF AddToMolecule
  <2>5. g.prov = prov /\ g.next = Append(m[f].next, elem)
    BY <2>1, <2>3 DEF GrownGroup
  <2>6. DOMAIN r = DOMAIN m /\ r[f] = g /\ \A i \in DOMAIN m \ {f} : r[i] = m[i]
    BY <2>2, <2>4 DEF Molecule
  <2>7. m[f] \in Group
    BY <2>2 DEF Molecule
  <2>8. CASE p = prov
    <3>1. GroupObjects(m, p) = ObjectsUnder(m[f], p) /\ GroupObjects(r, p) = ObjectsUnder(g, p)
      BY <1>2, <2>2, <2>5, <2>6, <2>8, ObjectsOfGroup
    <3>2. ObjectsUnder(g, p) = Append(ObjectsUnder(m[f], p), o)
      BY <1>1, <2>2, <2>5, <2>7, <2>8, GroupGrows
    <3>3. PICK x : x = ObjectsUnder(m[f], p)
      OBVIOUS
    <3>4. x \in Seq(KEY_ID)
      BY <2>7, <3>3, ObjectsUnderType
    <3>5. Append(x, o) = x \o <<o>>
      BY <3>4
    <3>6. QED
      BY <1>1, <2>8, <3>1, <3>2, <3>3, <3>5 DEF ObjectIfUnder
  <2>9. CASE p # prov
    <3>1. \A i \in DOMAIN m : ObjectsUnder(r[i], p) = ObjectsUnder(m[i], p)
      BY <2>2, <2>5, <2>6, <2>9 DEF ObjectsUnder
    <3>2. [i \in DOMAIN r |-> ObjectsUnder(r[i], p)] = [i \in DOMAIN m |-> ObjectsUnder(m[i], p)]
      BY <2>6, <3>1
    <3>3. GroupObjects(r, p) = GroupObjects(m, p)
      BY <3>2, Zenon DEF GroupObjects, ObjectsUnder
    <3>4. GroupObjects(m, p) \in Seq(KEY_ID)
      BY ObjectsAreSequence
    <3>5. QED
      BY <1>1, <2>9, <3>3, <3>4 DEF ObjectIfUnder
  <2>10. QED
    BY <2>8, <2>9
<1>4. CASE GroupsOf(m, prov) = {}
  <2>1. PICK g, n : g = [prov |-> prov, next |-> <<elem>>] /\ n = Len(m)
    OBVIOUS
  <2>2. r = Append(m, g)
    BY <1>1, <1>4, <2>1, Zenon DEF AddToMolecule
  <2>3. g \in Group /\ g.prov = prov /\ ObjectsUnder(g, prov) = <<o>>
    BY <1>1, <2>1 DEF Group, Element, ObjectsUnder
  <2>4. /\ DOMAIN r = 1 .. (n + 1) /\ DOMAIN m = 1 .. n /\ n \in Nat
        /\ \A i \in 1 .. n : r[i] = m[i]
        /\ r[n + 1] = g
    BY <2>1, <2>2, <2>3 DEF Molecule
  <2>5. PICK seqs, ext, x : /\ seqs = [i \in 1 .. n |-> ObjectsUnder(m[i], p)]
                            /\ ext = [i \in 1 .. (n + 1) |-> ObjectsUnder(r[i], p)]
                            /\ x = ObjectsUnder(g, p)
    OBVIOUS
  <2>6. seqs \in Seq(Seq(KEY_ID)) /\ Len(seqs) = n /\ x \in Seq(KEY_ID)
    <3>1. \A i \in 1 .. n : m[i] \in Group
      BY <2>4 DEF Molecule
    <3>2. QED
      BY <2>3, <2>4, <2>5, <3>1, ObjectsUnderType
  <2>7. ext = Append(seqs, x)
    <3>1. PICK z : z = Append(seqs, x)
      OBVIOUS
    <3>2. /\ DOMAIN z = 1 .. (n + 1) /\ z[n + 1] = x /\ \A i \in 1 .. n : z[i] = seqs[i]
          /\ z \in Seq(Seq(KEY_ID))
      BY <2>4, <2>6, <3>1
    <3>3. z = [i \in 1 .. (n + 1) |-> z[i]]
      BY <3>2
    <3>4. \A i \in 1 .. (n + 1) : z[i] = ext[i]
      BY <2>4, <2>5, <3>2
    <3>5. QED
      BY <2>5, <3>1, <3>3, <3>4
  <2>8. FlattenSeq(ext) = FlattenSeq(seqs) \o x
    BY <2>6, <2>7, FlattenAppend
  <2>9. GroupObjects(m, p) = FlattenSeq(seqs) /\ GroupObjects(r, p) = FlattenSeq(ext)
    BY <2>4, <2>5 DEF GroupObjects, ObjectsUnder
  <2>10. x = ObjectIfUnder(p, prov, o)
    BY <2>3, <2>5 DEF ObjectsUnder, ObjectIfUnder
  <2>11. QED
    BY <1>1, <2>8, <2>9, <2>10
<1>5. QED
  BY <1>3, <1>4

\* The objects of one line more.
LEMMA ObjectsInLinesNext ==
  ASSUME tripleIDs \in Seq(Lines), NEW n \in 1 .. Len(tripleIDs), NEW s, NEW p
  PROVE  ObjectsInLines(s, p, n) =
           ObjectsInLines(s, p, n - 1) \o
             (IF tripleIDs[n].subject = s /\ tripleIDs[n].prov = p
                THEN <<tripleIDs[n].object>> ELSE <<>>)
<1>1. PICK T, k : T = tripleIDs /\ k = n - 1
  OBVIOUS
<1>2. k \in Nat /\ n = k + 1 /\ \A i \in 1 .. n : T[i].object \in KEY_ID
  BY <1>1, LoadAssumption DEF TripleIDs
<1> DEFINE Obj(i) == IF T[i].subject = s /\ T[i].prov = p THEN <<T[i].object>> ELSE <<>>
<1>3. \A i \in 1 .. n : Obj(i) \in Seq(KEY_ID)
  BY <1>2
<1>4. PICK a, b, x : /\ a = [i \in 1 .. k |-> Obj(i)] /\ b = [i \in 1 .. n |-> Obj(i)]
                     /\ x = Obj(n)
  OBVIOUS
<1>5. ObjectsInLines(s, p, n) = FlattenSeq(b) /\ ObjectsInLines(s, p, k) = FlattenSeq(a)
  BY <1>1, <1>4 DEF ObjectsInLines
<1>6. x = IF T[n].subject = s /\ T[n].prov = p THEN <<T[n].object>> ELSE <<>>
  BY <1>4
<1> HIDE DEF Obj
<1>7. a \in Seq(Seq(KEY_ID)) /\ Len(a) = k /\ x \in Seq(KEY_ID)
  BY <1>2, <1>3, <1>4
<1>8. b = Append(a, x)
  <2>1. PICK z : z = Append(a, x)
    OBVIOUS
  <2>2. /\ DOMAIN z = 1 .. n /\ z[n] = x /\ \A i \in 1 .. k : z[i] = a[i]
        /\ z \in Seq(Seq(KEY_ID))
    BY <1>2, <1>7, <2>1
  <2>3. z = [i \in 1 .. n |-> z[i]]
    BY <2>2
  <2>4. \A i \in 1 .. n : z[i] = b[i]
    BY <1>2, <1>4, <2>2
  <2>5. QED
    BY <1>4, <2>1, <2>3, <2>4
<1>9. FlattenSeq(b) = FlattenSeq(a) \o x
  BY <1>7, <1>8, FlattenAppend
<1>10. QED
  BY <1>1, <1>5, <1>6, <1>9

\* What a step of LoadData does to the objects of a molecule and of its lines.
LEMMA RepetitionsNext ==
  ASSUME LoadInv, OneGroupPerProvenance, RepetitionsKept, [LoadNext]_loadVars
  PROVE  RepetitionsKept'
<1> SUFFICES ASSUME NEW s \in KEY_ID, NEW p \in KEY_ID, GetType(s) >= 2
             PROVE  GroupObjects(molecules'[s], p) = ObjectsInLines(s, p, pos - 1)'
  BY DEF RepetitionsKept
<1>1. GroupObjects(molecules[s], p) = ObjectsInLines(s, p, pos - 1)
  BY DEF RepetitionsKept
<1>2. tripleIDs \in Seq(Lines) /\ molecules \in [KEY_ID -> Molecule] /\ pos \in 1 .. Len(tripleIDs) + 1
  BY DEF LoadInv, TypeOK
<1>3. OneGroupEach(molecules[s])
  BY DEF OneGroupPerProvenance, OneGroupEach
<1>4. CASE StoreLine
  <2>1. PICK q, n, m, g : /\ q = tripleIDs[pos] /\ n = pos /\ m = molecules[s]
                          /\ g = molecules'[s]
    OBVIOUS
  <2>2. n \in 1 .. Len(tripleIDs) /\ pos' = n + 1 /\ tripleIDs' = tripleIDs
    BY <1>2, <1>4, <2>1 DEF StoreLine, IndexProvenance, CountTriple
  <2>3. q \in TripleIDs /\ q.subject \in KEY_ID /\ q.object \in KEY_ID /\ q.prov \in KEY_ID
        /\ TemplateFor(q) \in Nat
    BY <1>4, <2>1, LineType, TemplateForType DEF LoadInv, TypeOK, StoreLine, TripleIDs
  <2>4. molecules' = IF Storable(q)
                       THEN [molecules EXCEPT ![q.subject] =
                               AddToMolecule(molecules[q.subject], TemplateFor(q), q.object, q.prov)]
                       ELSE molecules
    BY <1>4, <2>1 DEF StoreLine, CreateMolecule, Storable
  <2>5. PICK t : t = TemplateFor(q)
    OBVIOUS
  <2>6. g = IF q.subject = s THEN AddToMolecule(m, t, q.object, q.prov) ELSE m
    BY <1>2, <2>1, <2>3, <2>4, <2>5 DEF Storable
  <2>7. GroupObjects(g, p) =
          GroupObjects(m, p) \o (IF q.subject = s /\ q.prov = p THEN <<q.object>> ELSE <<>>)
    <3>1. m \in Molecule /\ GroupObjects(m, p) \in Seq(KEY_ID)
      BY <1>2, <1>3, <2>1, ObjectsAreSequence
    <3>2. CASE q.subject = s
      <4>1. GroupObjects(AddToMolecule(m, t, q.object, q.prov), p) =
              GroupObjects(m, p) \o (IF p = q.prov THEN <<q.object>> ELSE <<>>)
        <5>1. PICK o, c : o = q.object /\ c = q.prov
          OBVIOUS
        <5>2. o \in KEY_ID /\ c \in KEY_ID /\ t \in Nat /\ OneGroupEach(m)
          BY <1>3, <2>1, <2>3, <2>5, <5>1
        <5>3. GroupObjects(AddToMolecule(m, t, o, c), p) =
                GroupObjects(m, p) \o ObjectIfUnder(p, c, o)
          BY <3>1, <5>2, AddToMoleculeObjects
        <5>4. QED
          BY <5>1, <5>3 DEF ObjectIfUnder
      <4>2. QED
        BY <2>6, <3>2, <4>1
    <3>3. CASE q.subject # s
      BY <2>6, <3>1, <3>3
    <3>4. QED
      BY <3>2, <3>3
  <2>8. ObjectsInLines(s, p, n) =
          ObjectsInLines(s, p, n - 1) \o (IF q.subject = s /\ q.prov = p THEN <<q.object>> ELSE <<>>)
    BY <1>2, <2>1, <2>2, ObjectsInLinesNext
  <2>9. ObjectsInLines(s, p, pos - 1)' = ObjectsInLines(s, p, n)
    <3>1. pos' - 1 = n
      BY <2>2
    <3>2. QED
      BY <2>2, <3>1 DEF ObjectsInLines
  <2>10. QED
    BY <1>1, <2>1, <2>7, <2>8, <2>9
<1>5. CASE pos = 1 /\ pos' = 1 /\ molecules' = molecules
  <2>1. ObjectsInLines(s, p, pos - 1) = <<>> /\ ObjectsInLines(s, p, pos - 1)' = <<>>
    <3>1. pos - 1 = 0 /\ pos' - 1 = 0
      BY <1>5
    <3>2. FlattenSeq([i \in 1 .. 0 |-> <<>>]) = <<>>
      BY FlattenNone
    <3>3. \A f : DOMAIN f = {} /\ f = [i \in DOMAIN f |-> f[i]] => f = [i \in 1 .. 0 |-> <<>>]
      OBVIOUS
    <3>4. QED
      BY <3>1, <3>2, <3>3 DEF ObjectsInLines
  <2>2. QED
    BY <1>1, <1>5, <2>1
<1>6. CASE UNCHANGED <<tripleIDs, pos, molecules>>
  BY <1>1, <1>6 DEF ObjectsInLines
<1>7. QED
  <2>1. phase \in {"read", "templates"} => pos = 1
    BY DEF LoadInv, PhaseOrder
  <2>2. QED
    BY <1>4, <1>5, <1>6, <2>1 DEF LoadNext, ReadLine, EndOfFiles, AddNextTemplate, TemplatesDone,
                                  LoadDone, store, loadVars

\* A line that comes twice is in its molecule twice, and what a molecule has
\* under a context it has in file order, whatever came in between
\* (Molecule::AddTriple appends, and opens one group for a context).
THEOREM RepetitionsStay == LoadSpec => []RepetitionsKept
<1>1. LoadInit => RepetitionsKept
  <2> SUFFICES ASSUME LoadInit, NEW s \in KEY_ID, NEW p \in KEY_ID
               PROVE  GroupObjects(molecules[s], p) = ObjectsInLines(s, p, pos - 1)
    BY DEF RepetitionsKept
  <2>1. molecules[s] = <<>> /\ pos - 1 = 0
    BY DEF LoadInit, NoMolecule
  <2>2. FlattenSeq([i \in 1 .. 0 |-> <<>>]) = <<>>
    BY FlattenNone
  <2>3. [i \in 1 .. 0 |-> <<>>] = <<>>
    OBVIOUS
  <2>4. GroupObjects(<<>>, p) = <<>>
    BY <2>2, <2>3 DEF GroupObjects
  <2>5. ObjectsInLines(s, p, 0) = <<>>
    BY <2>2, <2>3 DEF ObjectsInLines
  <2>6. QED
    BY <2>1, <2>4, <2>5
<1>2. LoadInv /\ OneGroupPerProvenance /\ RepetitionsKept /\ [LoadNext]_loadVars => RepetitionsKept'
  BY RepetitionsNext
<1>3. QED
  BY <1>1, <1>2, LoadInvariant, OneGroupStays, PTL DEF LoadSpec
------------------------------------------------------------------------------
(***************************************************************************)
(* What the look-ups of API.cpp return once the load is over, in terms of  *)
(* the quads of the store alone: molecules, templates and the inverted     *)
(* index neither lose a match nor add one.                                 *)
(***************************************************************************)

\* An element of the molecule of s, as the quad it stands for.
Decoded(s, e) ==
  [subject |-> s, predicate |-> GetPredicate(templates, GetType(s), e.tmpl),
   object |-> e.obj, prov |-> e.prov]

\* The stored quads a pattern with predicate p and object o (any for -1) matches
\* in the molecule of s, under the provenances the trigger lets pass.
MatchingQuads(s, p, o, on, uris) ==
  {q \in StoredQuads : /\ q.subject = s
                       /\ p \in {Wild, q.predicate}
                       /\ o \in {Wild, q.object}
                       /\ on => q.prov \in uris}

\* A quad is stored when it is what an element of its subject stands for.
LEMMA StoredQuadsDecoded ==
  \A q : q \in StoredQuads <=>
           \E s \in KEY_ID : \E e \in Elements(molecules[s]) : q = Decoded(s, e)
<1>1. \A s : QuadsOf(s) = {Decoded(s, e) : e \in Elements(molecules[s])}
  BY DEF QuadsOf, Decoded
<1>2. \A q : q \in StoredQuads <=> \E s \in KEY_ID : q \in QuadsOf(s)
  BY DEF StoredQuads
<1> HIDE DEF Decoded
<1>3. QED
  BY <1>1, <1>2

\* GetTemplates finds, among the templates of a type, those of the predicate
\* and the object type it is asked for, whatever other roots it looks at.
LEMMA TemplatesOfPattern ==
  ASSUME LoadInv, NEW T \in TYPE_ID, T \in Nat, NEW p, NEW o,
         NEW u \in templates[T]
  PROVE  u.ID \in GetTemplates(templates, T, p, o, 0)
           <=> p \in {Wild, u.predicateID} /\ o \in {Wild, u.objectType}
<1> DEFINE Matches(v) == /\ T \in {Wild, v.subjectType}
                         /\ p \in {Wild, v.predicateID}
                         /\ o \in {Wild, v.objectType}
                         /\ v.scope = 0
           roots == IF 0 = 0 /\ Wild \notin {T, p, o}
                      THEN DOMAIN templates \intersect {T}
                      ELSE DOMAIN templates
<1>1. \A root \in TYPE_ID : WellFormed(root, templates[root])
  BY DEF LoadInv, TemplatesWellFormed
<1>2. DOMAIN templates = TYPE_ID
  BY DEF LoadInv, TypeOK, Templates
<1>3. T \in roots /\ roots \subseteq TYPE_ID
  BY <1>2
<1>4. u.ID \in GetTemplates(templates, T, p, o, 0)
        <=> \E root \in roots : \E v \in templates[root] : Matches(v) /\ u.ID = v.ID
  <2> DEFINE byRoot == UNION {{<<root, v.ID>> : v \in {w \in templates[root] : Matches(w)}}
                                : root \in roots}
  <2>1. GetTemplatesByRoot(templates, T, p, o, 0) = byRoot
    BY Zenon DEF GetTemplatesByRoot
  <2>2. \A x : x \in byRoot <=> \E root \in roots : \E v \in templates[root] :
                                   Matches(v) /\ x = <<root, v.ID>>
    <3> HIDE DEF Matches, roots
    <3>1. QED
      OBVIOUS
  <2> HIDE DEF byRoot, Matches, roots
  <2>3. u.ID \in GetTemplates(templates, T, p, o, 0) <=> \E ri \in byRoot : u.ID = ri[2]
    BY <2>1 DEF GetTemplates
  <2>4. ASSUME NEW ri \in byRoot, u.ID = ri[2]
        PROVE  \E root \in roots : \E v \in templates[root] : Matches(v) /\ u.ID = v.ID
    <3>1. PICK root \in roots : \E v \in templates[root] : Matches(v) /\ ri = <<root, v.ID>>
      BY <2>2
    <3>2. PICK v \in templates[root] : Matches(v) /\ ri = <<root, v.ID>>
      BY <3>1
    <3>3. QED
      BY <2>4, <3>2
  <2>5. ASSUME NEW root \in roots, NEW v \in templates[root], Matches(v), u.ID = v.ID
        PROVE  \E ri \in byRoot : u.ID = ri[2]
    <3>1. <<root, v.ID>> \in byRoot
      BY <2>2, <2>5
    <3>2. QED
      BY <2>5, <3>1
  <2>6. QED
    BY <2>3, <2>4, <2>5, Zenon
<1>5. ASSUME NEW root \in roots, NEW v \in templates[root], Matches(v), u.ID = v.ID
      PROVE  v = u
  <2>1. root \in TYPE_ID
    BY <1>3
  <2>2. T # Wild
    BY DEF Wild
  <2>3. root = T
    BY <1>1, <1>5, <2>1, <2>2 DEF WellFormed
  <2>4. QED
    BY <1>1, <1>5, <2>3 DEF WellFormed
<1>6. Matches(u) <=> p \in {Wild, u.predicateID} /\ o \in {Wild, u.objectType}
  <2>1. u.subjectType = T /\ u.scope = 0
    BY <1>1 DEF WellFormed
  <2>2. QED
    BY <2>1
<1> HIDE DEF Matches, roots
<1>7. QED
  BY <1>3, <1>4, <1>5, <1>6

\* For an element of a molecule the templates of a pattern are what decoding
\* it says: right predicate, right object type.
LEMMA ElementOfPattern ==
  ASSUME StoreInv, NEW s \in KEY_ID, NEW e \in Elements(molecules[s]),
         NEW p, NEW o
  PROVE  e.tmpl \in GetTemplates(templates, GetType(s), p, o, 0)
           <=> p \in {Wild, Decoded(s, e).predicate} /\ o \in {Wild, GetType(e.obj)}
<1> DEFINE T == GetType(s)
<1>1. T \in TYPE_ID /\ T \in Nat
  BY TypesOfKeys
<1>2. PICK u \in templates[T] : u.ID = e.tmpl /\ u.objectType = GetType(e.obj)
  BY DEF StoreInv, ElementsTyped
<1>3. templates \in Templates /\ WellFormed(T, templates[T])
  BY <1>1 DEF StoreInv, LoadInv, TypeOK, TemplatesWellFormed
<1>4. GetPredicate(templates, T, u.ID) = u.predicateID
  BY <1>1, <1>3, TemplateFound
<1>5. Decoded(s, e).predicate = u.predicateID
  BY <1>2, <1>4 DEF Decoded
<1>6. LoadInv
  BY DEF StoreInv
<1> HIDE DEF T
<1>7. u.ID \in GetTemplates(templates, T, p, o, 0)
        <=> p \in {Wild, u.predicateID} /\ o \in {Wild, u.objectType}
  BY <1>1, <1>6, TemplatesOfPattern
<1>8. QED
  BY <1>2, <1>5, <1>7 DEF T

\* A projection finds the elements of the quads of its subject and predicate.
LEMMA ProjectedDecoded ==
  ASSUME StoreInv, NEW s \in KEY_ID, NEW p,
         NEW on \in BOOLEAN, NEW uris, NEW e
  PROVE  e \in Projected(s, p, on, uris)
           <=> /\ e \in Elements(molecules[s])
               /\ Decoded(s, e) \in MatchingQuads(s, p.predicate, Wild, on, uris)
<1>1. e \in Projected(s, p, on, uris)
        <=> /\ e \in Elements(molecules[s])
            /\ e.tmpl \in GetTemplates(templates, GetType(s), p.predicate, Wild, 0)
            /\ on => e.prov \in uris
  BY DEF Projected, GetEntity, provenanceTriger
<1>2. SUFFICES ASSUME e \in Elements(molecules[s])
               PROVE  e.tmpl \in GetTemplates(templates, GetType(s), p.predicate, Wild, 0)
                        /\ (on => e.prov \in uris)
                        <=> Decoded(s, e) \in MatchingQuads(s, p.predicate, Wild, on, uris)
  BY <1>1
<1>3. e.tmpl \in GetTemplates(templates, GetType(s), p.predicate, Wild, 0)
        <=> p.predicate \in {Wild, Decoded(s, e).predicate}
  BY <1>2, ElementOfPattern
<1>4. Decoded(s, e) \in StoredQuads
  BY <1>2, StoredQuadsDecoded
<1>5. Decoded(s, e).subject = s /\ Decoded(s, e).prov = e.prov
  BY DEF Decoded
<1>6. QED
  BY <1>3, <1>4, <1>5 DEF MatchingQuads

\* A projection reports the objects and the contexts of the quads it matches.
ObjectsProjected(s, p, on, uris) == {e.obj : e \in Projected(s, p, on, uris)}
ContextsProjected(s, p, on, uris) == {e.prov : e \in Projected(s, p, on, uris)}

LEMMA ProjectedQuads ==
  ASSUME StoreInv, NEW s \in KEY_ID, NEW p,
         NEW on \in BOOLEAN, NEW uris
  PROVE  /\ ObjectsProjected(s, p, on, uris)
              = {q.object : q \in MatchingQuads(s, p.predicate, Wild, on, uris)}
         /\ ContextsProjected(s, p, on, uris)
              = {q.prov : q \in MatchingQuads(s, p.predicate, Wild, on, uris)}
<1> DEFINE quads == MatchingQuads(s, p.predicate, Wild, on, uris)
           found == Projected(s, p, on, uris)
<1>1. \A e \in found : Decoded(s, e) \in quads
  BY ProjectedDecoded
<1>2. \A q \in quads : \E e \in found : q = Decoded(s, e)
  <2> SUFFICES ASSUME NEW q \in quads PROVE \E e \in found : q = Decoded(s, e)
    OBVIOUS
  <2>1. q \in StoredQuads /\ q.subject = s
    BY DEF MatchingQuads
  <2>2. PICK t \in KEY_ID : \E e \in Elements(molecules[t]) : q = Decoded(t, e)
    BY <2>1, StoredQuadsDecoded
  <2>3. PICK e \in Elements(molecules[t]) : q = Decoded(t, e)
    BY <2>2
  <2>4. t = s
    BY <2>1, <2>3 DEF Decoded
  <2>5. QED
    BY <2>3, <2>4, ProjectedDecoded
<1>3. \A e : Decoded(s, e).object = e.obj /\ Decoded(s, e).prov = e.prov
  BY DEF Decoded
<1> HIDE DEF quads, found
<1>4. /\ {e.obj : e \in found} = {q.object : q \in quads}
      /\ {e.prov : e \in found} = {q.prov : q \in quads}
  BY <1>1, <1>2, <1>3
<1>5. QED
  BY <1>4 DEF quads, found, ObjectsProjected, ContextsProjected

\* A constraint reports the contexts of the quads it matches: that it asks for
\* the templates of the type of its object drops none of them.
LEMMA ConstraintQuads ==
  ASSUME StoreInv, NEW s \in KEY_ID, NEW c,
         NEW on \in BOOLEAN, NEW uris
  PROVE  ConstraintProv(s, c, on, uris)
           = {q.prov : q \in MatchingQuads(s, c.predicate, c.object, on, uris)}
<1> DEFINE quads == MatchingQuads(s, c.predicate, c.object, on, uris)
           tt == IF c.object = Wild THEN Wild ELSE GetType(c.object)
           tmpls == GetTemplates(templates, GetType(s), c.predicate, tt, 0)
           found == {e \in Elements(molecules[s]) :
                       e.tmpl \in tmpls /\ c.object \in {Wild, e.obj} /\ (on => e.prov \in uris)}
<1>1. ConstraintProv(s, c, on, uris) = {e.prov : e \in found}
  BY DEF ConstraintProv, CheckIfEntityExists, provenanceTriger
<1>2. \A e \in Elements(molecules[s]) : e \in found <=> Decoded(s, e) \in quads
  <2> SUFFICES ASSUME NEW e \in Elements(molecules[s])
               PROVE  e \in found <=> Decoded(s, e) \in quads
    OBVIOUS
  <2>1. e.tmpl \in tmpls <=> c.predicate \in {Wild, Decoded(s, e).predicate} /\ tt \in {Wild, GetType(e.obj)}
    <3> HIDE DEF tt
    <3>1. QED
      BY ElementOfPattern
  <2>2. Decoded(s, e) \in StoredQuads
    BY StoredQuadsDecoded
  <2>3. /\ Decoded(s, e).subject = s /\ Decoded(s, e).object = e.obj
        /\ Decoded(s, e).prov = e.prov
    BY DEF Decoded
  <2> HIDE DEF tmpls
  <2>4. QED
    BY <2>1, <2>2, <2>3 DEF MatchingQuads
<1>3. \A q \in quads : \E e \in Elements(molecules[s]) : q = Decoded(s, e)
  <2> SUFFICES ASSUME NEW q \in quads
               PROVE  \E e \in Elements(molecules[s]) : q = Decoded(s, e)
    OBVIOUS
  <2>1. q \in StoredQuads /\ q.subject = s
    BY DEF MatchingQuads
  <2>2. PICK t \in KEY_ID : \E e \in Elements(molecules[t]) : q = Decoded(t, e)
    BY <2>1, StoredQuadsDecoded
  <2>3. t = s
    BY <2>1, <2>2 DEF Decoded
  <2>4. QED
    BY <2>2, <2>3
<1>4. found \subseteq Elements(molecules[s])
  OBVIOUS
<1>5. \A e : Decoded(s, e).prov = e.prov
  BY DEF Decoded
<1> HIDE DEF quads, found
<1>6. {e.prov : e \in found} = {q.prov : q \in quads}
  BY <1>2, <1>3, <1>4, <1>5
<1>7. QED
  BY <1>1, <1>6 DEF quads

\* A subject with a matching quad has a molecule, and the inverted index finds
\* it from the object: no candidate is missed.
LEMMA SubjectsAreFound ==
  ASSUME StoreInv, NEW q \in StoredQuads
  PROVE  /\ q.subject \in GetPair(q.subject)
         /\ q.subject \in GetMoleculesFromInvertedIdx(q.object)
<1>1. PICK s \in KEY_ID : \E e \in Elements(molecules[s]) : q = Decoded(s, e)
  BY StoredQuadsDecoded
<1>2. PICK e \in Elements(molecules[s]) : q = Decoded(s, e)
  BY <1>1
<1>3. q.subject = s /\ q.object = e.obj
  BY <1>2 DEF Decoded
<1>4. molecules[s] # NoMolecule
  BY <1>2 DEF NoMolecule, Elements
<1>5. e.obj \in KEY_ID /\ e.obj \in ObjectsOf(molecules[s])
  BY <1>2 DEF StoreInv, ElementsTyped, ObjectsOf
<1>6. s \in inv_molecules[e.obj]
  BY <1>5 DEF StoreInv, IndexesExact, InvertedIndexExact
<1>7. QED
  BY <1>3, <1>4, <1>5, <1>6 DEF GetPair, GetMoleculesFromInvertedIdx
------------------------------------------------------------------------------
(***************************************************************************)
(* What the proofs about fixed queries have in common: the solutions of a  *)
(* list of patterns over a set of quads, and the rows TriplePatern finds,  *)
(* in terms of the visible quads alone.                                    *)
(***************************************************************************)

\* A word is 0 or an identifier, never -1.
LEMMA WordType ==
  ASSUME NEW w
  PROVE  KM(w) \in KEY_ID \union {0} /\ KM(w) # Wild /\ 0 \notin KEY_ID
<1>1. KM(w) \in KEY_ID \union {0}
  BY WordsAssumption DEF KM
<1>2. QED
  BY <1>1, KeyAssumption DEF Wild

\* A molecule of the inverted index is one of an identifier.
LEMMA IndexedType ==
  ASSUME StoreInv, NEW o
  PROVE  GetMoleculesFromInvertedIdx(o) \subseteq KEY_ID
BY DEF GetMoleculesFromInvertedIdx, StoreInv, LoadInv, TypeOK

\* Once the load is over, the lines to answer about are in the store.
LEMMA StoredIsStore ==
  ASSUME StoreInv, phase = "loaded"
  PROVE  Stored = StoredQuads
<1>1. pos = Len(tripleIDs) + 1 /\ tripleIDs \in Seq(Lines)
  BY DEF StoreInv, AllLoaded, LoadInv, TypeOK
<1>2. 1 .. (pos - 1) = DOMAIN tripleIDs
  BY <1>1
<1>3. Loaded = Range(tripleIDs)
  BY <1>2 DEF Loaded, Range
<1>4. QED
  BY <1>3 DEF StoreInv, StoreIsDataset, Stored
------------------------------------------------------------------------------
(***************************************************************************)
(* Solutions, pattern by pattern.                                          *)
(***************************************************************************)

\* What one pattern more leaves of some bindings.
Joined(quads, bs, pattern) == UNION {Match(quads, b, pattern) : b \in bs}

\* The function FoldLeft computes with, on the subsets of the first n positions.
FoldsPatterns(g, quads, T, n) ==
  g = [s \in SUBSET (1 .. n) |->
         IF s = {} THEN {<<>>} ELSE Joined(quads, g[s \ {Max(s)}], T[Max(s)])]

\* There is such a function.
LEMMA PatternFoldExists ==
  ASSUME NEW quads, NEW T, NEW n \in Nat
  PROVE  \E g : FoldsPatterns(g, quads, T, n)
<1> DEFINE Bad == {k \in Nat : ~ \E g : FoldsPatterns(g, quads, T, k)}
<1> SUFFICES ASSUME Bad # {} PROVE FALSE
  OBVIOUS
<1>1. PICK k \in Bad : \A j \in Bad : k <= j
  BY LeastIndex
<1>2. k \in Nat /\ ~ \E g : FoldsPatterns(g, quads, T, k)
  OBVIOUS
<1>3. CASE k = 0
  <2> DEFINE f == [s \in SUBSET (1 .. k) |-> {<<>>}]
  <2>1. \A s \in SUBSET (1 .. k) : s = {}
    BY <1>3
  <2>2. \A s \in SUBSET (1 .. k) :
          f[s] = IF s = {} THEN {<<>>} ELSE Joined(quads, f[s \ {Max(s)}], T[Max(s)])
    BY <2>1
  <2>3. f = [s \in SUBSET (1 .. k) |-> f[s]]
    OBVIOUS
  <2> HIDE DEF f
  <2>4. f = [s \in SUBSET (1 .. k) |->
               IF s = {} THEN {<<>>} ELSE Joined(quads, f[s \ {Max(s)}], T[Max(s)])]
    BY <2>2, <2>3, Zenon
  <2>5. QED
    BY <1>2, <2>4, Zenon DEF FoldsPatterns
<1>4. CASE k # 0
  <2>1. k - 1 \in Nat /\ k - 1 \notin Bad
    BY <1>1, <1>2, <1>4
  <2>2. PICK g : FoldsPatterns(g, quads, T, k - 1)
    BY <2>1
  <2> DEFINE f == [s \in SUBSET (1 .. k) |->
                     IF k \in s THEN Joined(quads, g[s \ {k}], T[k]) ELSE g[s]]
  <2>3. \A s \in SUBSET (1 .. (k - 1)) :
          g[s] = IF s = {} THEN {<<>>} ELSE Joined(quads, g[s \ {Max(s)}], T[Max(s)])
    BY <2>2, Zenon DEF FoldsPatterns
  <2>4. ASSUME NEW s \in SUBSET (1 .. k)
        PROVE  f[s] = IF s = {} THEN {<<>>} ELSE Joined(quads, f[s \ {Max(s)}], T[Max(s)])
    <3>1. CASE k \in s
      <4>1. Max(s) = k
        BY <1>2, <1>4, <3>1, MaxOfPrefix
      <4>2. s \ {k} \in SUBSET (1 .. k) /\ k \notin s \ {k} /\ s # {}
        BY <3>1
      <4>3. f[s \ {k}] = g[s \ {k}]
        BY <4>2, Zenon
      <4>4. f[s] = Joined(quads, g[s \ {k}], T[k])
        BY <3>1, Zenon
      <4> HIDE DEF f
      <4>5. QED
        BY <4>1, <4>2, <4>3, <4>4, Zenon
    <3>2. CASE k \notin s
      <4>1. s \in SUBSET (1 .. (k - 1))
        BY <1>2, <1>4, <3>2
      <4>2. s \ {Max(s)} \in SUBSET (1 .. k) /\ k \notin s \ {Max(s)}
        BY <3>2
      <4>3. f[s] = g[s] /\ f[s \ {Max(s)}] = g[s \ {Max(s)}]
        BY <3>2, <4>2, Zenon
      <4> HIDE DEF f
      <4>4. QED
        BY <2>3, <4>1, <4>3, Zenon
    <3>3. QED
      BY <3>1, <3>2
  <2>5. f = [s \in SUBSET (1 .. k) |-> f[s]]
    OBVIOUS
  <2> HIDE DEF f
  <2>6. f = [s \in SUBSET (1 .. k) |->
               IF s = {} THEN {<<>>} ELSE Joined(quads, f[s \ {Max(s)}], T[Max(s)])]
    BY <2>4, <2>5, Zenon
  <2>7. QED
    BY <1>2, <2>6, Zenon DEF FoldsPatterns
<1>5. QED
  BY <1>3, <1>4

\* The bindings between the patterns: h[k] are those that go with the first k.
Solves(h, quads, T, n) ==
  /\ h[0] = {<<>>}
  /\ \A k \in 1 .. n : h[k] = Joined(quads, h[k - 1], T[k])

\* The fold passes through such sets.
LEMMA SolutionsByPattern ==
  ASSUME NEW quads, NEW T, NEW n \in Nat, DOMAIN T = 1 .. n
  PROVE  \E h : Solves(h, quads, T, n) /\ Solutions(quads, T) = h[n]
<1>1. n \in Nat /\ DOMAIN T = 1 .. n
  OBVIOUS
<1> DEFINE g == CHOOSE iter : iter = [s \in SUBSET (DOMAIN T) |->
                  IF s = {} THEN {<<>>} ELSE Joined(quads, iter[s \ {Max(s)}], T[Max(s)])]
<1>2. Solutions(quads, T) = g[DOMAIN T]
  BY Zenon DEF Solutions, FoldLeft, MapThenFoldSet, Joined
<1>3. PICK f : FoldsPatterns(f, quads, T, n)
  BY <1>1, PatternFoldExists
<1>4. f = [s \in SUBSET (DOMAIN T) |->
             IF s = {} THEN {<<>>} ELSE Joined(quads, f[s \ {Max(s)}], T[Max(s)])]
  BY <1>1, <1>3, Zenon DEF FoldsPatterns
<1>5. g = [s \in SUBSET (DOMAIN T) |->
             IF s = {} THEN {<<>>} ELSE Joined(quads, g[s \ {Max(s)}], T[Max(s)])]
  BY <1>4, Zenon
<1> HIDE DEF g
<1>6. \A s \in SUBSET (1 .. n) :
        g[s] = IF s = {} THEN {<<>>} ELSE Joined(quads, g[s \ {Max(s)}], T[Max(s)])
  BY <1>1, <1>5, Zenon
<1> DEFINE h == [k \in 0 .. n |-> g[1 .. k]]
<1>7. h[0] = {<<>>}
  <2>1. 1 .. 0 = {} /\ {} \in SUBSET (1 .. n) /\ 0 \in 0 .. n
    BY <1>1
  <2>2. QED
    BY <1>6, <2>1
<1>8. ASSUME NEW k \in 1 .. n
      PROVE  h[k] = Joined(quads, h[k - 1], T[k])
  <2>1. 1 .. k \in SUBSET (1 .. n) /\ k \in 1 .. k /\ k \in Nat \ {0} /\ 1 .. k # {}
    BY <1>1
  <2>2. Max(1 .. k) = k
    BY <2>1, MaxOfPrefix
  <2>3. (1 .. k) \ {k} = 1 .. (k - 1) /\ k - 1 \in 0 .. n /\ k \in 0 .. n
    BY <1>1
  <2>4. g[1 .. k] = Joined(quads, g[1 .. (k - 1)], T[k])
    BY <1>6, <2>1, <2>2, <2>3, Zenon
  <2>5. QED
    BY <2>3, <2>4
<1>9. h[n] = g[DOMAIN T]
  BY <1>1
<1> HIDE DEF h
<1>10. QED
  BY <1>2, <1>7, <1>8, <1>9 DEF Solves

------------------------------------------------------------------------------
(***************************************************************************)
(* The solutions are the assignments all patterns hold under.  True of     *)
(* patterns that name no variable twice: Match does not compare the two.   *)
(***************************************************************************)

\* A function on variables.
IsBinding(b) == b = [x \in DOMAIN b |-> b[x]] /\ DOMAIN b \subseteq Vars

\* The identifier of a term under an assignment of the variables, and whether
\* some quad says what the pattern says.
TermId(f, term) == IF term \in Vars THEN f[term] ELSE KM(term)
In(quads, s, p, o) == \E q \in quads : q.subject = s /\ q.predicate = p /\ q.object = o
Holds(quads, f, pattern) == In(quads, TermId(f, pattern[1]), TermId(f, pattern[2]), TermId(f, pattern[3]))

VarsOf(pattern) == {pattern[1], pattern[2], pattern[3]} \intersect Vars
Plain(pattern) ==
  /\ pattern[1] \in Vars => pattern[1] \notin {pattern[2], pattern[3]}
  /\ pattern[2] \in Vars => pattern[2] # pattern[3]

\* What is bound after one term more.
Binds(c, b, term, k) ==
  /\ IsBinding(c)
  /\ DOMAIN c = DOMAIN b \union ({term} \intersect Vars)
  /\ term \in Vars => c[term] = k
  /\ \A x \in DOMAIN b : x # term => c[x] = b[x]

LEMMA BindTerm ==
  ASSUME NEW b, IsBinding(b), NEW term, NEW k, NEW c, c = Bind(b, term, k)
  PROVE  Binds(c, b, term, k) /\ IsBinding(c)
<1>1. CASE term \in Vars
  <2>1. c = [x \in DOMAIN b \union {term} |-> IF x = term THEN k ELSE b[x]]
    BY <1>1 DEF Bind
  <2>2. DOMAIN c = DOMAIN b \union {term}
    BY <2>1
  <2>3. \A x \in DOMAIN c : c[x] = IF x = term THEN k ELSE b[x]
    BY <2>1
  <2>4. c = [x \in DOMAIN c |-> c[x]]
    BY <2>1
  <2>5. QED
    BY <1>1, <2>2, <2>3, <2>4 DEF IsBinding, Binds
<1>2. CASE term \notin Vars
  BY <1>2 DEF Bind, Binds
<1>3. QED
  BY <1>1, <1>2

\* A match extends the binding by the variables of a pattern, which then holds.
LEMMA MatchHolds ==
  ASSUME NEW quads, NEW b, IsBinding(b), NEW pattern, Plain(pattern),
         NEW c \in Match(quads, b, pattern)
  PROVE  /\ IsBinding(c)
         /\ DOMAIN c = DOMAIN b \union VarsOf(pattern)
         /\ \A x \in DOMAIN b : c[x] = b[x]
         /\ Holds(quads, c, pattern)
<1>1. PICK x, y, z : x = pattern[1] /\ y = pattern[2] /\ z = pattern[3]
  OBVIOUS
<1>2. PICK q \in quads :
        /\ Fits(b, x, q.subject) /\ Fits(b, y, q.predicate) /\ Fits(b, z, q.object)
        /\ c = Bind(Bind(Bind(b, x, q.subject), y, q.predicate), z, q.object)
  BY <1>1 DEF Match
<1>3. PICK b1, b2 : b1 = Bind(b, x, q.subject) /\ b2 = Bind(b1, y, q.predicate)
  OBVIOUS
<1>4. Binds(b1, b, x, q.subject) /\ IsBinding(b1)
  BY <1>3, BindTerm
<1>5. Binds(b2, b1, y, q.predicate) /\ IsBinding(b2)
  BY <1>3, <1>4, BindTerm
<1>6. Binds(c, b2, z, q.object) /\ IsBinding(c)
  BY <1>2, <1>3, <1>5, BindTerm
<1>7. x \in Vars => x # y /\ x # z
  BY <1>1 DEF Plain
<1>8. y \in Vars => y # z
  BY <1>1 DEF Plain
<1>9. /\ x \in Vars => c[x] = q.subject
      /\ y \in Vars => c[y] = q.predicate
      /\ z \in Vars => c[z] = q.object
  BY <1>4, <1>5, <1>6, <1>7, <1>8 DEF Binds
<1>10. ASSUME NEW v \in DOMAIN b PROVE c[v] = b[v]
  <2>1. v \in Vars
    BY DEF IsBinding
  <2>2. CASE v \in {x, y, z}
    BY <1>2, <1>9, <2>1, <2>2 DEF Fits
  <2>3. CASE v \notin {x, y, z}
    BY <1>4, <1>5, <1>6, <2>3 DEF Binds
  <2>4. QED
    BY <2>2, <2>3
<1>11. Holds(quads, c, pattern)
  BY <1>1, <1>2, <1>9 DEF Holds, In, TermId, Fits
<1>12. DOMAIN c = DOMAIN b \union VarsOf(pattern)
  BY <1>1, <1>4, <1>5, <1>6 DEF VarsOf, Binds
<1>13. QED
  BY <1>6, <1>10, <1>11, <1>12 DEF Binds

\* And every such extension is a match.
LEMMA HoldsMatches ==
  ASSUME NEW quads, NEW b, IsBinding(b), NEW pattern, Plain(pattern),
         NEW c, IsBinding(c), DOMAIN c = DOMAIN b \union VarsOf(pattern),
         \A x \in DOMAIN b : c[x] = b[x],
         Holds(quads, c, pattern)
  PROVE  c \in Match(quads, b, pattern)
<1>1. PICK x, y, z : x = pattern[1] /\ y = pattern[2] /\ z = pattern[3]
  OBVIOUS
<1>2. PICK q \in quads : /\ q.subject = TermId(c, x) /\ q.predicate = TermId(c, y)
                         /\ q.object = TermId(c, z)
  BY <1>1 DEF Holds, In
<1>3. PICK b1, b2, d : /\ b1 = Bind(b, x, q.subject) /\ b2 = Bind(b1, y, q.predicate)
                       /\ d = Bind(b2, z, q.object)
  OBVIOUS
<1>4. Binds(b1, b, x, q.subject) /\ IsBinding(b1)
  BY <1>3, BindTerm
<1>5. Binds(b2, b1, y, q.predicate) /\ IsBinding(b2)
  BY <1>3, <1>4, BindTerm
<1>6. Binds(d, b2, z, q.object) /\ IsBinding(d)
  BY <1>3, <1>5, BindTerm
<1>7. DOMAIN d = DOMAIN c
  BY <1>1, <1>4, <1>5, <1>6 DEF VarsOf, Binds
<1>8. /\ x \in Vars => q.subject = c[x] 
      /\ y \in Vars => q.predicate = c[y] 
      /\ z \in Vars => q.object = c[z]
  BY <1>2 DEF TermId
<1>9. ASSUME NEW v \in DOMAIN c PROVE d[v] = c[v]
  <2>1. v \in Vars
    BY DEF IsBinding
  <2>2. CASE v = z
    BY <1>6, <1>8, <2>1, <2>2 DEF Binds
  <2>3. CASE v # z /\ v = y
    BY <1>5, <1>6, <1>8, <2>1, <2>3 DEF Binds
  <2>4. CASE v # z /\ v # y /\ v = x
    BY <1>4, <1>5, <1>6, <1>8, <2>1, <2>4 DEF Binds
  <2>5. CASE v \notin {x, y, z}
    <3>1. v \in DOMAIN b
      BY <1>1, <2>5 DEF VarsOf
    <3>2. QED
      BY <1>4, <1>5, <1>6, <2>5, <3>1 DEF Binds
  <2>6. QED
    BY <2>2, <2>3, <2>4, <2>5
<1>10. d = c
  <2>1. d = [v \in DOMAIN d |-> d[v]] /\ c = [v \in DOMAIN c |-> c[v]]
    BY <1>6 DEF IsBinding, Binds
  <2>2. QED
    BY <1>7, <1>9, <2>1
<1>11. Fits(b, x, q.subject) /\ Fits(b, y, q.predicate) /\ Fits(b, z, q.object)
  BY <1>2, <1>8 DEF Fits, TermId
<1>12. QED
  BY <1>1, <1>3, <1>10, <1>11 DEF Match

\* Whether a pattern holds depends on its own variables only.
LEMMA HoldsDepends ==
  ASSUME NEW quads, NEW f, NEW g, NEW pattern, \A x \in VarsOf(pattern) : f[x] = g[x]
  PROVE  Holds(quads, f, pattern) <=> Holds(quads, g, pattern)
<1>1. PICK x, y, z : x = pattern[1] /\ y = pattern[2] /\ z = pattern[3]
  OBVIOUS
<1>2. TermId(f, x) = TermId(g, x) /\ TermId(f, y) = TermId(g, y) /\ TermId(f, z) = TermId(g, z)
  BY <1>1 DEF TermId, VarsOf
<1>3. QED
  BY <1>1, <1>2 DEF Holds

\* The assignments of their variables under which the first k patterns hold.
VarsUpTo(T, k) == UNION {VarsOf(T[i]) : i \in 1 .. k}
Solved(quads, T, k, c) ==
  /\ IsBinding(c)
  /\ DOMAIN c = VarsUpTo(T, k)
  /\ \A i \in 1 .. k : Holds(quads, c, T[i])

LEMMA SolvedFirst ==
  ASSUME NEW quads, NEW T, NEW c
  PROVE  c \in {<<>>} <=> Solved(quads, T, 0, c)
<1>1. 1 .. 0 = {} /\ VarsUpTo(T, 0) = {}
  BY DEF VarsUpTo
<1>2. <<>> = [x \in {} |-> <<>>[x]] /\ DOMAIN <<>> = {}
  OBVIOUS
<1>3. IsBinding(<<>>)
  BY <1>2 DEF IsBinding
<1>4. ASSUME IsBinding(c), DOMAIN c = {} PROVE c = <<>>
  BY <1>2, <1>4 DEF IsBinding
<1>5. QED
  BY <1>1, <1>2, <1>3, <1>4 DEF Solved

\* One pattern more.
LEMMA SolvedNext ==
  ASSUME NEW quads, NEW T, NEW k \in Nat, Plain(T[k + 1]), NEW bs,
         \A b : b \in bs <=> Solved(quads, T, k, b), NEW c
  PROVE  c \in Joined(quads, bs, T[k + 1]) <=> Solved(quads, T, k + 1, c)
<1>1. VarsUpTo(T, k + 1) = VarsUpTo(T, k) \union VarsOf(T[k + 1])
  <2>1. 1 .. (k + 1) = (1 .. k) \union {k + 1}
    OBVIOUS
  <2>2. QED
    BY <2>1 DEF VarsUpTo
<1>2. \A i \in 1 .. k : VarsOf(T[i]) \subseteq VarsUpTo(T, k)
  BY DEF VarsUpTo
<1>3. c \in Joined(quads, bs, T[k + 1]) <=> \E b \in bs : c \in Match(quads, b, T[k + 1])
  BY DEF Joined
<1>4. ASSUME NEW b \in bs, c \in Match(quads, b, T[k + 1])
      PROVE  Solved(quads, T, k + 1, c)
  <2>1. Solved(quads, T, k, b)
    OBVIOUS
  <2>2. IsBinding(b) /\ DOMAIN b = VarsUpTo(T, k)
    BY <2>1 DEF Solved
  <2>3. /\ IsBinding(c)
        /\ DOMAIN c = DOMAIN b \union VarsOf(T[k + 1])
        /\ \A x \in DOMAIN b : c[x] = b[x]
        /\ Holds(quads, c, T[k + 1])
    BY <1>4, <2>2, MatchHolds
  <2>4. ASSUME NEW i \in 1 .. (k + 1) PROVE Holds(quads, c, T[i])
    <3>1. CASE i = k + 1
      BY <2>3, <3>1
    <3>2. CASE i # k + 1
      <4>1. i \in 1 .. k
        BY <3>2
      <4>2. \A x \in VarsOf(T[i]) : c[x] = b[x]
        BY <1>2, <2>2, <2>3, <4>1
      <4>3. Holds(quads, b, T[i])
        BY <2>1, <4>1 DEF Solved
      <4>4. QED
        BY <4>2, <4>3, HoldsDepends
    <3>3. QED
      BY <3>1, <3>2
  <2>5. QED
    BY <1>1, <2>2, <2>3, <2>4 DEF Solved
<1>5. ASSUME Solved(quads, T, k + 1, c)
      PROVE  \E b \in bs : c \in Match(quads, b, T[k + 1])
  <2>1. /\ IsBinding(c)
        /\ DOMAIN c = VarsUpTo(T, k) \union VarsOf(T[k + 1])
        /\ \A i \in 1 .. (k + 1) : Holds(quads, c, T[i])
    BY <1>1, <1>5 DEF Solved
  <2>2. PICK b : b = [x \in VarsUpTo(T, k) |-> c[x]]
    OBVIOUS
  <2>3. /\ IsBinding(b) /\ DOMAIN b = VarsUpTo(T, k)
        /\ \A x \in DOMAIN b : c[x] = b[x]
    BY <2>1, <2>2 DEF IsBinding
  <2>4. ASSUME NEW i \in 1 .. k PROVE Holds(quads, b, T[i])
    <3>1. \A x \in VarsOf(T[i]) : c[x] = b[x]
      BY <1>2, <2>3
    <3>2. Holds(quads, c, T[i])
      BY <2>1
    <3>3. QED
      BY <3>1, <3>2, HoldsDepends
  <2>5. b \in bs
    BY <2>3, <2>4 DEF Solved
  <2>6. c \in Match(quads, b, T[k + 1])
    <3>1. k + 1 \in 1 .. (k + 1)
      OBVIOUS
    <3>2. Holds(quads, c, T[k + 1])
      BY <2>1, <3>1
    <3>3. QED
      BY <2>1, <2>3, <3>2, HoldsMatches
  <2>7. QED
    BY <2>5, <2>6
<1>6. QED
  BY <1>3, <1>4, <1>5

LEMMA SolutionsSolve ==
  ASSUME NEW quads, NEW T, NEW n \in Nat, DOMAIN T = 1 .. n, \A i \in 1 .. n : Plain(T[i])
  PROVE  \A c : c \in Solutions(quads, T) <=> Solved(quads, T, n, c)
<1>1. PICK h : Solves(h, quads, T, n) /\ Solutions(quads, T) = h[n]
  BY SolutionsByPattern
<1> DEFINE Bad == {k \in Nat : k <= n /\ ~ \A c : c \in h[k] <=> Solved(quads, T, k, c)}
<1>2. SUFFICES Bad = {}
  BY <1>1
<1>3. SUFFICES ASSUME Bad # {} PROVE FALSE
  OBVIOUS
<1>4. PICK k \in Bad : \A j \in Bad : k <= j
  BY <1>3, LeastIndex
<1>5. CASE k = 0
  BY <1>1, <1>5, SolvedFirst DEF Solves
<1>6. CASE k # 0
  <2>1. k - 1 \in Nat /\ k - 1 <= n /\ k - 1 \notin Bad /\ k \in 1 .. n /\ (k - 1) + 1 = k
    BY <1>4, <1>6
  <2>2. \A c : c \in h[k - 1] <=> Solved(quads, T, k - 1, c)
    BY <2>1
  <2>3. h[k] = Joined(quads, h[k - 1], T[k])
    BY <1>1, <2>1 DEF Solves
  <2>4. Plain(T[(k - 1) + 1])
    BY <2>1
  <2>5. \A c : c \in Joined(quads, h[k - 1], T[(k - 1) + 1]) <=> Solved(quads, T, (k - 1) + 1, c)
    <3>1. PICK m, bs : m = k - 1 /\ bs = h[k - 1]
      OBVIOUS
    <3>2. m \in Nat /\ Plain(T[m + 1]) /\ \A b : b \in bs <=> Solved(quads, T, m, b)
      BY <2>1, <2>2, <2>4, <3>1
    <3> HIDE DEF Bad
    <3>3. \A c : c \in Joined(quads, bs, T[m + 1]) <=> Solved(quads, T, m + 1, c)
      BY <3>2, SolvedNext
    <3>4. QED
      BY <3>1, <3>3
  <2>6. QED
    BY <1>4, <2>1, <2>3, <2>5
<1>7. QED
  BY <1>5, <1>6
\* Any assignment under which they hold is one of the solutions, as far as their
\* variables go.
LEMMA HoldingIsSolution ==
  ASSUME NEW quads, NEW T, NEW n \in Nat, DOMAIN T = 1 .. n, \A i \in 1 .. n : Plain(T[i]),
         NEW f, \A i \in 1 .. n : Holds(quads, f, T[i])
  PROVE  [x \in VarsUpTo(T, n) |-> f[x]] \in Solutions(quads, T)
<1>1. PICK c : c = [x \in VarsUpTo(T, n) |-> f[x]]
  OBVIOUS
<1>2. VarsUpTo(T, n) \subseteq Vars
  BY DEF VarsUpTo, VarsOf
<1>3. IsBinding(c) /\ DOMAIN c = VarsUpTo(T, n)
  BY <1>1, <1>2 DEF IsBinding
<1>4. ASSUME NEW i \in 1 .. n PROVE Holds(quads, c, T[i])
  <2>1. \A x \in VarsOf(T[i]) : f[x] = c[x]
    BY <1>1 DEF VarsUpTo
  <2>2. QED
    BY <2>1, HoldsDepends
<1>5. Solved(quads, T, n, c)
  BY <1>3, <1>4 DEF Solved
<1>6. QED
  BY <1>1, <1>5, SolutionsSolve
------------------------------------------------------------------------------
(***************************************************************************)
(* The rows of TriplePatern, in terms of the quads the trigger lets pass.  *)
(***************************************************************************)

SeenQuads(on, uris) == {q \in StoredQuads : on => q.prov \in uris}
Within(quads, contexts) == {q \in quads : q.prov \in contexts}

\* A quad of s a constraint asks for; one that gives a projection the value k.
Meets(quads, s, c) ==
  \E q \in quads : /\ q.subject = s
                   /\ c.predicate \in {Wild, q.predicate}
                   /\ c.object \in {Wild, q.object}
Finds(quads, s, p, k) ==
  \E q \in quads : /\ q.subject = s
                   /\ p.predicate \in {Wild, q.predicate}
                   /\ q.object = k

LEMMA ConstraintMeets ==
  ASSUME StoreInv, NEW s \in KEY_ID, NEW c, NEW on \in BOOLEAN, NEW uris
  PROVE  \A N : ConstraintProv(s, c, on, uris) \subseteq N =>
           (Meets(SeenQuads(on, uris), s, c) <=> Meets(Within(SeenQuads(on, uris), N), s, c))
<1>1. ConstraintProv(s, c, on, uris)
        = {q.prov : q \in MatchingQuads(s, c.predicate, c.object, on, uris)}
  BY ConstraintQuads
<1>2. QED
  BY <1>1 DEF Meets, Within, SeenQuads, MatchingQuads

LEMMA ConstraintAnswers ==
  ASSUME StoreInv, NEW s \in KEY_ID, NEW c, NEW on \in BOOLEAN, NEW uris
  PROVE  /\ ConstraintProv(s, c, on, uris) # {} <=> Meets(SeenQuads(on, uris), s, c)
         /\ on => ConstraintProv(s, c, on, uris) \subseteq uris
<1>1. ConstraintProv(s, c, on, uris)
        = {q.prov : q \in MatchingQuads(s, c.predicate, c.object, on, uris)}
  BY ConstraintQuads
<1>2. QED
  BY <1>1 DEF Meets, SeenQuads, MatchingQuads

LEMMA ProjectionFinds ==
  ASSUME StoreInv, NEW s \in KEY_ID, NEW p, NEW on \in BOOLEAN, NEW uris
  PROVE  /\ \A k : k \in ObjectsProjected(s, p, on, uris) <=> Finds(SeenQuads(on, uris), s, p, k)
         /\ Projected(s, p, on, uris) # {} <=> \E k : Finds(SeenQuads(on, uris), s, p, k)
         /\ on => ContextsProjected(s, p, on, uris) \subseteq uris
<1>1. /\ ObjectsProjected(s, p, on, uris)
           = {q.object : q \in MatchingQuads(s, p.predicate, Wild, on, uris)}
      /\ ContextsProjected(s, p, on, uris)
           = {q.prov : q \in MatchingQuads(s, p.predicate, Wild, on, uris)}
  BY ProjectedQuads
<1>2. \A k : k \in ObjectsProjected(s, p, on, uris) <=> Finds(SeenQuads(on, uris), s, p, k)
  BY <1>1 DEF Finds, SeenQuads, MatchingQuads
<1>3. Projected(s, p, on, uris) # {} <=> \E k : k \in ObjectsProjected(s, p, on, uris)
  BY DEF ObjectsProjected
<1>4. on => ContextsProjected(s, p, on, uris) \subseteq uris
  BY <1>1 DEF MatchingQuads
<1>5. QED
  BY <1>2, <1>3, <1>4

LEMMA ProjectionWithin ==
  ASSUME StoreInv, NEW s \in KEY_ID, NEW p, NEW on \in BOOLEAN, NEW uris, NEW N,
         ContextsProjected(s, p, on, uris) \subseteq N, NEW k
  PROVE  Finds(SeenQuads(on, uris), s, p, k) <=> Finds(Within(SeenQuads(on, uris), N), s, p, k)
<1>1. ContextsProjected(s, p, on, uris)
        = {q.prov : q \in MatchingQuads(s, p.predicate, Wild, on, uris)}
  BY ProjectedQuads
<1>2. QED
  BY <1>1 DEF Finds, Within, SeenQuads, MatchingQuads

\* A query TriplePatern can start: from the subject or the object of its first
\* constraint, or from the subject of its first projection.  No projection is
\* optional.
Startable(cs, ps) ==
  /\ Len(cs) \in Nat /\ DOMAIN cs = 1 .. Len(cs)
  /\ Len(ps) \in Nat /\ DOMAIN ps = 1 .. Len(ps)
  /\ \A i \in DOMAIN ps : ps[i].prov = 0
  /\ cs = <<>> => 1 \in DOMAIN ps
  /\ cs # <<>> => /\ 1 \in DOMAIN cs
                  /\ cs[1].prov = 0
                  /\ cs[1].subject = 0 => cs[1].object # Wild

\* The subject it starts from, if it names one.
FromSubject(cs, ps, s) ==
  IF cs = <<>> THEN s = ps[1].subject ELSE cs[1].subject # 0 => s = cs[1].subject

Meeting(quads, s, cs) == \A i \in DOMAIN cs : cs[i].prov = 0 => Meets(quads, s, cs[i])

\* The molecules with a row.
LEMMA RowsFound ==
  ASSUME StoreInv, NEW cs, NEW ps, Startable(cs, ps), NEW on \in BOOLEAN, NEW uris, NEW s
  PROVE  s \in DOMAIN TriplePatern(cs, ps, on, uris)
           <=> /\ s \in KEY_ID
               /\ FromSubject(cs, ps, s)
               /\ Meeting(SeenQuads(on, uris), s, cs)
               /\ \A i \in DOMAIN ps : \E k : Finds(SeenQuads(on, uris), s, ps[i], k)
<1>1. PICK C, V : C = Candidates(cs, ps) /\ V = SeenQuads(on, uris)
  OBVIOUS
<1>2. DOMAIN TriplePatern(cs, ps, on, uris) = {t \in C : Answers(t, cs, ps, on, uris)}
  BY <1>1 DEF TriplePatern
<1>3. ASSUME s \in KEY_ID
      PROVE  Answers(s, cs, ps, on, uris)
               <=> /\ Meeting(V, s, cs)
                   /\ \A i \in DOMAIN ps : \E k : Finds(V, s, ps[i], k)
  <2>1. \A c : ConstraintProv(s, c, on, uris) # {} <=> Meets(V, s, c)
    BY <1>1, <1>3, ConstraintAnswers
  <2>2. \A p : Projected(s, p, on, uris) # {} <=> \E k : Finds(V, s, p, k)
    BY <1>1, <1>3, ProjectionFinds
  <2>3. QED
    BY <2>1, <2>2 DEF Answers, Meeting, Startable
<1>4. s \in C => s \in KEY_ID /\ FromSubject(cs, ps, s)
  BY <1>1, IndexedType DEF Candidates, FromSubject, GetPair, Startable
<1>5. ASSUME s \in KEY_ID, FromSubject(cs, ps, s), Meeting(V, s, cs),
             \A i \in DOMAIN ps : \E k : Finds(V, s, ps[i], k)
      PROVE  s \in C
  <2>1. CASE cs = <<>>
    <3>1. PICK k : Finds(V, s, ps[1], k)
      BY <1>5, <2>1 DEF Startable
    <3>2. PICK q \in StoredQuads : q.subject = s
      BY <1>1, <3>1 DEF Finds, SeenQuads
    <3>3. s \in GetPair(s)
      BY <3>2, SubjectsAreFound
    <3>4. QED
      BY <1>1, <1>5, <2>1, <3>3 DEF Candidates, FromSubject
  <2>2. CASE cs # <<>>
    <3>1. Meets(V, s, cs[1])
      BY <1>5, <2>2 DEF Startable, Meeting
    <3>2. PICK q \in StoredQuads : q.subject = s /\ cs[1].object \in {Wild, q.object}
      BY <1>1, <3>1 DEF Meets, SeenQuads
    <3>3. s \in GetPair(s) /\ s \in GetMoleculesFromInvertedIdx(q.object)
      BY <3>2, SubjectsAreFound
    <3>4. QED
      BY <1>1, <1>5, <2>2, <3>2, <3>3 DEF Candidates, FromSubject, Startable
  <2>3. QED
    BY <2>1, <2>2
<1>6. QED
  BY <1>1, <1>2, <1>3, <1>4, <1>5
\* What is in a row, by the position of the projection.
LEMMA RowHolds ==
  ASSUME StoreInv, NEW cs, NEW ps, Startable(cs, ps), NEW on \in BOOLEAN, NEW uris,
         NEW s \in KEY_ID, NEW res, res = RowResults(s, ps, on, uris)
  PROVE  /\ DOMAIN res = 1 .. (Len(ps) + 1)
         /\ \A i \in DOMAIN ps : \A k : k \in res[i] <=> Finds(SeenQuads(on, uris), s, ps[i], k)
         /\ \A i \in DOMAIN res : i \notin DOMAIN ps => res[i] = {}
         /\ res \in Seq(Range(res))
         /\ Len(res) = Len(ps) + 1
<1>1. PICK n : n = Len(ps)
  OBVIOUS
<1>2. res = [i \in 1 .. (n + 1) |->
               IF i \in DOMAIN ps THEN ObjectsProjected(s, ps[i], on, uris) ELSE {}]
  BY <1>1, Zenon DEF RowResults, ObjectsProjected
<1>3. n \in Nat /\ DOMAIN ps = 1 .. n
  BY <1>1 DEF Startable
<1>4. PICK D : D = 1 .. (n + 1)
  OBVIOUS
<1>5. DOMAIN ps \subseteq D
  BY <1>3, <1>4
<1>6. DOMAIN res = D /\ \A i \in D : res[i] =
        IF i \in DOMAIN ps THEN ObjectsProjected(s, ps[i], on, uris) ELSE {}
  BY <1>2, <1>4, Zenon
<1>7. \A i \in DOMAIN ps : res[i] = ObjectsProjected(s, ps[i], on, uris)
  BY <1>5, <1>6, Zenon
<1>8. \A i \in DOMAIN res : i \notin DOMAIN ps => res[i] = {}
  BY <1>6, Zenon
<1>9. res \in Seq(Range(res)) /\ Len(res) = n + 1
  <2>1. res = [i \in 1 .. (n + 1) |-> res[i]]
    BY <1>2, <1>4, <1>6, Zenon
  <2>2. \A i \in 1 .. (n + 1) : res[i] \in Range(res)
    BY <1>4, <1>6 DEF Range
  <2> HIDE <1>2
  <2>3. QED
    BY <1>3, <1>4, <1>6, <2>1, <2>2
<1>10. QED
  BY <1>1, <1>4, <1>6, <1>7, <1>8, <1>9, ProjectionFinds

\* The contexts a row names are those of its constraints and its projections.
LEMMA RowNames ==
  ASSUME NEW cs, NEW ps, Startable(cs, ps), NEW on, NEW uris, NEW s, NEW x
  PROVE  x \in UNION Range(RowProv(s, cs, ps, on, uris))
           <=> \/ \E i \in DOMAIN cs : x \in ConstraintProv(s, cs[i], on, uris)
               \/ \E i \in DOMAIN ps : x \in ContextsProjected(s, ps[i], on, uris)
<1>1. PICK a, b : /\ a = [i \in DOMAIN cs |-> ConstraintProv(s, cs[i], on, uris)]
                  /\ b = [i \in DOMAIN ps |-> ContextsProjected(s, ps[i], on, uris)]
  OBVIOUS
<1>2. RowProv(s, cs, ps, on, uris) = a \o b
  BY <1>1, Zenon DEF RowProv, ContextsProjected
<1>3. PICK S : S = Range(a) \union Range(b)
  OBVIOUS
<1>4. a \in Seq(S)
  <2>1. \A i \in DOMAIN cs : a[i] \in S
    BY <1>1, <1>3 DEF Range
  <2>2. DOMAIN a = 1 .. Len(cs) /\ a = [i \in 1 .. Len(cs) |-> a[i]] /\ Len(cs) \in Nat
    BY <1>1 DEF Startable
  <2>3. QED
    BY <2>1, <2>2 DEF Startable
<1>5. b \in Seq(S)
  <2>1. \A i \in DOMAIN ps : b[i] \in S
    BY <1>1, <1>3 DEF Range
  <2>2. DOMAIN b = 1 .. Len(ps) /\ b = [i \in 1 .. Len(ps) |-> b[i]] /\ Len(ps) \in Nat
    BY <1>1 DEF Startable
  <2>3. QED
    BY <2>1, <2>2 DEF Startable
<1>6. \A y : y \in Range(a \o b) <=> y \in Range(a) \/ y \in Range(b)
  BY <1>4, <1>5, RangeOfConcat
<1>7. x \in UNION Range(a \o b) <=> x \in UNION Range(a) \/ x \in UNION Range(b)
  BY <1>6
<1>8. x \in UNION Range(a) <=> \E i \in DOMAIN cs : x \in ConstraintProv(s, cs[i], on, uris)
  BY <1>1 DEF Range
<1>9. x \in UNION Range(b) <=> \E i \in DOMAIN ps : x \in ContextsProjected(s, ps[i], on, uris)
  BY <1>1 DEF Range
<1>10. QED
  BY <1>2, <1>7, <1>8, <1>9

\* The tuples shown of a row take one of the values for each projection.
LEMMA ShownTuples ==
  ASSUME NEW row, NEW n \in Nat, row.results \in Seq(Range(row.results)),
         Len(row.results) = n + 1, NEW t
  PROVE  t \in Shown(row) <=> /\ t = [i \in 1 .. n |-> t[i]]
                              /\ \A i \in 1 .. n : t[i] \in row.results[i]
<1>1. PICK res, columns : res = row.results /\ columns = SubSeq(res, 1, Len(res) - 1)
  OBVIOUS
<1>2. DOMAIN columns = 1 .. n /\ \A i \in 1 .. n : columns[i] = res[i]
  BY <1>1
<1>3. Shown(row) = {f \in [DOMAIN columns -> UNION Range(columns)] :
                      \A i \in DOMAIN columns : f[i] \in columns[i]}
  BY <1>1 DEF Shown
<1>4. \A i \in DOMAIN columns : columns[i] \subseteq UNION Range(columns)
  BY DEF Range
<1>5. PICK D, U : D = 1 .. n /\ U = UNION Range(columns)
  OBVIOUS
<1>6. t \in Shown(row) <=> t \in [D -> U] /\ \A i \in D : t[i] \in columns[i]
  BY <1>2, <1>3, <1>5
<1>7. t \in [D -> U] <=> t = [i \in D |-> t[i]] /\ \A i \in D : t[i] \in U
  OBVIOUS
<1>8. \A i \in D : t[i] \in columns[i] => t[i] \in U
  BY <1>2, <1>4, <1>5
<1>9. \A i \in D : columns[i] = row.results[i]
  BY <1>1, <1>2, <1>5
<1>10. QED
  BY <1>5, <1>6, <1>7, <1>8, <1>9, Zenon
\* The rows of a query, all that is visible answering it; s is the subject of the
\* row and t what is shown of it.
Answered(quads, cs, ps, s, t) ==
  /\ s \in KEY_ID
  /\ FromSubject(cs, ps, s)
  /\ Meeting(quads, s, cs)
  /\ \A i \in 1 .. Len(ps) : Finds(quads, s, ps[i], t[i])

\* What is shown is explained by the contexts that are named.
LEMMA ShownIsAnswered ==
  ASSUME StoreInv, NEW cs, NEW ps, Startable(cs, ps), NEW on \in BOOLEAN, NEW uris,
         NEW rows, rows = TriplePatern(cs, ps, on, uris),
         NEW N, ContextsOf(rows) \subseteq N, NEW t \in ShownRows(rows)
  PROVE  /\ t = [i \in 1 .. Len(ps) |-> t[i]]
         /\ \E s : Answered(Within(SeenQuads(on, uris), N), cs, ps, s, t)
<1>1. PICK V, n : V = SeenQuads(on, uris) /\ n = Len(ps)
  OBVIOUS
<1>2. PICK s \in DOMAIN rows : t \in Shown(rows[s])
  BY DEF ShownRows
<1>3. s \in KEY_ID /\ FromSubject(cs, ps, s) /\ Meeting(V, s, cs)
  BY <1>1, <1>2, RowsFound
<1>4. PICK res : res = RowResults(s, ps, on, uris)
  OBVIOUS
<1>5. rows[s].results = res /\ rows[s].prov = RowProv(s, cs, ps, on, uris)
  BY <1>2, <1>4 DEF TriplePatern
<1>6. /\ \A i \in DOMAIN ps : \A k : k \in res[i] <=> Finds(V, s, ps[i], k)
      /\ res \in Seq(Range(res)) /\ Len(res) = n + 1
  BY <1>1, <1>3, <1>4, RowHolds
<1>7. n \in Nat /\ DOMAIN ps = 1 .. n
  BY <1>1 DEF Startable
<1>8. t = [i \in 1 .. n |-> t[i]] /\ \A i \in 1 .. n : t[i] \in res[i]
  BY <1>2, <1>5, <1>6, <1>7, ShownTuples
<1>9. UNION Range(RowProv(s, cs, ps, on, uris)) \subseteq N
  BY <1>2, <1>5 DEF ContextsOf
<1>10. Meeting(Within(V, N), s, cs)
  <2> SUFFICES ASSUME NEW i \in DOMAIN cs, cs[i].prov = 0
               PROVE  Meets(Within(V, N), s, cs[i])
    BY DEF Meeting
  <2>1. ConstraintProv(s, cs[i], on, uris) \subseteq N
    BY <1>9, RowNames
  <2>2. Meets(V, s, cs[i])
    BY <1>3 DEF Meeting
  <2>3. QED
    BY <1>1, <1>3, <2>1, <2>2, ConstraintMeets
<1>11. ASSUME NEW i \in 1 .. n PROVE Finds(Within(V, N), s, ps[i], t[i])
  <2>1. ContextsProjected(s, ps[i], on, uris) \subseteq N
    BY <1>7, <1>9, RowNames
  <2>2. Finds(V, s, ps[i], t[i])
    BY <1>6, <1>7, <1>8
  <2>3. QED
    BY <1>1, <1>3, <2>1, <2>2, ProjectionWithin
<1>12. QED
  BY <1>1, <1>3, <1>8, <1>10, <1>11 DEF Answered

\* Nothing that is visible is left out.
LEMMA AnsweredIsShown ==
  ASSUME StoreInv, NEW cs, NEW ps, Startable(cs, ps), NEW on \in BOOLEAN, NEW uris,
         NEW s, NEW t, t = [i \in 1 .. Len(ps) |-> t[i]],
         Answered(SeenQuads(on, uris), cs, ps, s, t)
  PROVE  t \in ShownRows(TriplePatern(cs, ps, on, uris))
<1>1. PICK V, n, rows : /\ V = SeenQuads(on, uris) /\ n = Len(ps)
                        /\ rows = TriplePatern(cs, ps, on, uris)
  OBVIOUS
<1>2. n \in Nat /\ DOMAIN ps = 1 .. n
  BY <1>1 DEF Startable
<1>3. /\ s \in KEY_ID /\ FromSubject(cs, ps, s) /\ Meeting(V, s, cs)
      /\ \A i \in 1 .. n : Finds(V, s, ps[i], t[i])
  BY <1>1 DEF Answered
<1>4. s \in DOMAIN rows
  BY <1>1, <1>2, <1>3, RowsFound
<1>5. PICK res : res = RowResults(s, ps, on, uris)
  OBVIOUS
<1>6. rows[s].results = res
  BY <1>1, <1>4, <1>5 DEF TriplePatern
<1>7. /\ \A i \in DOMAIN ps : \A k : k \in res[i] <=> Finds(V, s, ps[i], k)
      /\ res \in Seq(Range(res)) /\ Len(res) = n + 1
  BY <1>1, <1>3, <1>5, RowHolds
<1>8. \A i \in 1 .. n : t[i] \in res[i]
  BY <1>2, <1>3, <1>7
<1>9. t \in Shown(rows[s])
  BY <1>1, <1>2, <1>6, <1>7, <1>8, ShownTuples
<1>10. QED
  BY <1>1, <1>4, <1>9 DEF ShownRows

\* The values of the rows of a query with one projection are what they show.
LEMMA ValuesAreShown ==
  ASSUME StoreInv, NEW cs, NEW ps, Startable(cs, ps), NEW on \in BOOLEAN, NEW uris, NEW k
  PROVE  Len(ps) = 1 => (k \in ValuesOf(TriplePatern(cs, ps, on, uris))
                           <=> <<k>> \in ShownRows(TriplePatern(cs, ps, on, uris)))
<1>1. PICK rows, n : rows = TriplePatern(cs, ps, on, uris) /\ n = Len(ps)
  OBVIOUS
<1>2. ASSUME NEW s \in DOMAIN rows
      PROVE  \E res : /\ rows[s].results = res
                      /\ DOMAIN res = 1 .. (n + 1)
                      /\ \A i \in DOMAIN res : i \notin DOMAIN ps => res[i] = {}
                      /\ res \in Seq(Range(res)) /\ Len(res) = n + 1
  <2>1. s \in KEY_ID
    BY <1>1, RowsFound
  <2>2. PICK res : res = RowResults(s, ps, on, uris)
    OBVIOUS
  <2>3. rows[s].results = res
    BY <1>1, <2>2 DEF TriplePatern
  <2>4. /\ DOMAIN res = 1 .. (n + 1)
        /\ \A i \in DOMAIN res : i \notin DOMAIN ps => res[i] = {}
        /\ res \in Seq(Range(res)) /\ Len(res) = n + 1
    BY <1>1, <2>1, <2>2, RowHolds
  <2>5. QED
    BY <2>3, <2>4
<1>3. DOMAIN ps = 1 .. n
  BY <1>1 DEF Startable
<1>4. ASSUME n = 1, NEW s \in DOMAIN rows
      PROVE  k \in UNION Range(rows[s].results) <=> <<k>> \in Shown(rows[s])
  <2>3. PICK res : /\ rows[s].results = res
                   /\ DOMAIN res = 1 .. (n + 1)
                   /\ \A i \in DOMAIN res : i \notin DOMAIN ps => res[i] = {}
                   /\ res \in Seq(Range(res)) /\ Len(res) = n + 1
    BY <1>2
  <2>4. /\ DOMAIN res = 1 .. 2
        /\ \A i \in DOMAIN res : i \notin DOMAIN ps => res[i] = {}
        /\ res \in Seq(Range(res)) /\ Len(res) = 1 + 1
    BY <1>4, <2>3
  <2>5. DOMAIN ps = 1 .. 1
    BY <1>3, <1>4
  <2>6. k \in UNION Range(res) <=> k \in res[1]
    <3>1. res[2] = {} /\ 1 \in DOMAIN res
      BY <2>4, <2>5
    <3>2. \A i \in DOMAIN res : i = 1 \/ i = 2
      BY <2>4
    <3>3. QED
      BY <3>1, <3>2 DEF Range
  <2>7. <<k>> = [i \in 1 .. 1 |-> <<k>>[i]] /\ <<k>>[1] = k
    OBVIOUS
  <2>8. <<k>> \in Shown(rows[s]) <=> /\ <<k>> = [i \in 1 .. 1 |-> <<k>>[i]]
                                     /\ \A i \in 1 .. 1 : <<k>>[i] \in rows[s].results[i]
    <3>1. PICK m, t, row : m = 1 /\ t = <<k>> /\ row = rows[s]
      OBVIOUS
    <3>2. /\ m \in Nat /\ row.results \in Seq(Range(row.results))
          /\ Len(row.results) = m + 1
      BY <2>3, <2>4, <3>1
    <3>3. t \in Shown(row) <=> /\ t = [i \in 1 .. m |-> t[i]]
                               /\ \A i \in 1 .. m : t[i] \in row.results[i]
      BY <3>2, ShownTuples
    <3>4. QED
      BY <3>1, <3>3, Zenon
  <2>9. \A i \in 1 .. 1 : i = 1
    OBVIOUS
  <2>10. QED
    BY <2>3, <2>6, <2>7, <2>8, <2>9
<1>5. QED
  BY <1>1, <1>4 DEF ValuesOf, ShownRows

\* The contexts named are among those selected, and no rows show nothing.
LEMMA NamedAreSelected ==
  ASSUME StoreInv, NEW cs, NEW ps, Startable(cs, ps), NEW on \in BOOLEAN, NEW uris
  PROVE  on => ContextsOf(TriplePatern(cs, ps, on, uris)) \subseteq uris
<1>1. PICK rows : rows = TriplePatern(cs, ps, on, uris)
  OBVIOUS
<1>2. ASSUME NEW s \in DOMAIN rows, on
      PROVE  UNION Range(rows[s].prov) \subseteq uris
  <2>1. s \in KEY_ID
    BY <1>1, RowsFound
  <2>2. rows[s].prov = RowProv(s, cs, ps, on, uris)
    BY <1>1 DEF TriplePatern
  <2>3. \A c : ConstraintProv(s, c, on, uris) \subseteq uris
    BY <1>2, <2>1, ConstraintAnswers
  <2>4. \A p : ContextsProjected(s, p, on, uris) \subseteq uris
    BY <1>2, <2>1, ProjectionFinds
  <2>5. QED
    BY <2>2, <2>3, <2>4, RowNames
<1>3. QED
  BY <1>1, <1>2 DEF ContextsOf

LEMMA NoRowsShowNothing ==
  /\ ShownRows(<<>>) = {}
  /\ ContextsOf(<<>>) = {}
<1>1. DOMAIN <<>> = {}
  OBVIOUS
<1>2. QED
  BY <1>1 DEF ShownRows, ContextsOf
==============================================================================
