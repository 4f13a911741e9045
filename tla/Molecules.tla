------------------------------ MODULE Molecules ------------------------------
(***************************************************************************)
(* Molecules.cpp: a molecule is the list of what is known of one subject,  *)
(* grouped by provenance (the context, the fourth element of a quad): a    *)
(* vector of groups, each a provenance and a vector of (triple template,   *)
(* object) pairs.  Above scope 0 the objects are roots of trees of what is *)
(* known of them.  Operators take the molecule; the maps that hold         *)
(* molecules are variables of the modules that extend this one.            *)
(***************************************************************************)
EXTENDS TemplateManager, Sequences

CONSTANT TmplSpan  \* 2^16 in the code: CreateMolecule keeps an ID in 16 bits

Element == [tmpl : Nat, obj : KEY_ID]
Group == [prov : KEY_ID, next : Seq(Element)]
Molecule == Seq(Group)

\* molecules.find(s) == molecules.end(): a molecule that exists has a triple.
NoMolecule == <<>>

\* An index without entries.
Empty == [k \in KEY_ID |-> {}]

\* What a molecule holds, regardless of the order it came in.
Elements(m) ==
  UNION {{[prov |-> m[i].prov, tmpl |-> m[i].next[j].tmpl, obj |-> m[i].next[j].obj]
            : j \in DOMAIN m[i].next} : i \in DOMAIN m}

ObjectsOf(m) == {e.obj : e \in Elements(m)}
ProvenancesOf(m) == {e.prov : e \in Elements(m)}

\* The groups of a provenance, and the one AddTriple's loop comes to first.
GroupsOf(m, prov) == {i \in DOMAIN m : m[i].prov = prov}
FirstGroup(m, prov) ==
  CHOOSE i \in GroupsOf(m, prov) : \A j \in GroupsOf(m, prov) : i <= j

\* What AddTriple leaves in the first group of prov.
GrownGroup(m, prov, elem) ==
  [prov |-> prov, next |-> Append(m[FirstGroup(m, prov)].next, elem)]

\* Mutants of AddToMolecule: only the last group is looked at; an element that
\* is there is not repeated; the group is replaced; the pair is swapped.
AddToLastGroup(m, tmpl, o, prov) ==
  LET elem == [tmpl |-> tmpl, obj |-> o]
  IN  IF m # <<>> /\ m[Len(m)].prov = prov
        THEN [m EXCEPT ![Len(m)].next = Append(@, elem)]
        ELSE Append(m, [prov |-> prov, next |-> <<elem>>])
AddOnce(m, tmpl, o, prov) ==
  LET elem == [tmpl |-> tmpl, obj |-> o]
  IN  IF [tmpl |-> tmpl, obj |-> o, prov |-> prov] \in Elements(m)
        THEN m
        ELSE IF GroupsOf(m, prov) # {}
               THEN [m EXCEPT ![FirstGroup(m, prov)] = GrownGroup(m, prov, elem)]
               ELSE Append(m, [prov |-> prov, next |-> <<elem>>])
AddReplacing(m, tmpl, o, prov) ==
  LET group == [prov |-> prov, next |-> <<[tmpl |-> tmpl, obj |-> o]>>]
  IN  IF GroupsOf(m, prov) # {}
        THEN [m EXCEPT ![FirstGroup(m, prov)] = group]
        ELSE Append(m, group)
AddSwapped(m, tmpl, o, prov) ==
  Append(m, [prov |-> prov, next |-> <<[tmpl |-> o, obj |-> tmpl]>>])

\* Molecule::AddTriple: append to the first group of this provenance, or
\* open a new group behind the others.
AddToMolecule(m, tmpl, o, prov) ==
  LET elem == [tmpl |-> tmpl, obj |-> o]
  IN  IF GroupsOf(m, prov) # {}
        THEN [m EXCEPT ![FirstGroup(m, prov)] = GrownGroup(m, prov, elem)]
        ELSE Append(m, [prov |-> prov, next |-> <<elem>>])

\* Mutant of provenanceTriger: excludeInclude the other way round.
provenanceExcluded(on, uris, prov) == on => prov \notin uris

\* Molecules::provenanceTriger: with the trigger off every provenance passes,
\* with it on those of ProvUris.
provenanceTriger(on, uris, prov) == on => prov \in uris

\* Molecule::CheckIfEntityExists at scope 0: the provenances under which the
\* molecule holds object o (any object for -1) by one of the templates.  The
\* early return for an empty template set gives {} as well.
CheckIfEntityExists(m, tmpls, o, on, uris) ==
  {e.prov : e \in {d \in Elements(m) : /\ d.tmpl \in tmpls
                                       /\ o \in {Wild, d.obj}
                                       /\ provenanceTriger(on, uris, d.prov)}}

\* Molecule::GetEntity at scope 0: the elements it puts into result and prov.
GetEntity(m, tmpls, on, uris) ==
  {e \in Elements(m) : e.tmpl \in tmpls /\ provenanceTriger(on, uris, e.prov)}
------------------------------------------------------------------------------
(* Above scope 0.  FindEntityAndAddNext gives all entities of one subject  *)
(* at one depth the same children, and gives them no more once the next    *)
(* scope is filled.  So the trees of a molecule are kept as the set of     *)
(* edges that are there at each scope; a subject that occurs several times *)
(* at a depth has several copies of them.                                  *)

Edge == [scope : Nat \ {0}, subj : KEY_ID, tmpl : Nat, obj : KEY_ID, prov : KEY_ID]

\* The entities at a depth; the objects of the molecule are at depth 0.
EntitiesAt(m, edges, depth) ==
  IF depth = 0 THEN ObjectsOf(m) ELSE {e.obj : e \in {d \in edges : d.scope = depth}}

\* Mutant of FindEntityAndAddNext: entities of any depth get the child.
FindAnywhereAndAddNext(m, edges, tmpl, o, s, prov, scope) ==
  edges \union {[scope |-> scope, subj |-> s, tmpl |-> tmpl, obj |-> o, prov |-> prov]}

\* FindEntityAndAddNext of molecule and entities: scope counts down on the way,
\* and what is reached with 1 and is s gets the child.
FindEntityAndAddNext(m, edges, tmpl, o, s, prov, scope) ==
  IF s \in EntitiesAt(m, edges, scope - 1)
    THEN edges \union {[scope |-> scope, subj |-> s, tmpl |-> tmpl, obj |-> o, prov |-> prov]}
    ELSE edges

\* GetEntity and GetAllEntities at scope 1: the children of s, of all for 0.
ChildrenAt1(edges, s, on, uris) ==
  {e \in edges : e.scope = 1 /\ s \in {0, e.subj} /\ provenanceTriger(on, uris, e.prov)}

\* CheckIfEntityExists at scope 1: the loops over the objects return in their
\* first turn, so only the first object is asked.
CheckIfEntityExistsAt1(m, edges, tmpls, o, on, uris) ==
  {e.prov : e \in {c \in ChildrenAt1(edges, m[1].next[1].obj, on, uris) :
                      c.tmpl \in tmpls /\ c.obj = o}}
==============================================================================
