--------------------------------- MODULE API ---------------------------------
(***************************************************************************)
(* API.cpp: the look-ups every query is made of, over the molecules, the   *)
(* inverted index and the templates that LoadData left.  A pattern is a    *)
(* TripleIDs: identifiers, 0 for what KeyManager does not know (a variable *)
(* among others), -1 for "any object"; its fourth field, if not 0, makes   *)
(* the pattern optional.  on and uris are ProvTrigerON and ProvUris.       *)
(* ProvMolecules is empty in every program: the test on it never skips a   *)
(* molecule and is left out.                                               *)
(***************************************************************************)
EXTENDS Conductor

\* Molecules::GetPair: the molecule of a subject, if there is one.
GetPair(s) == IF s \in KEY_ID /\ molecules[s] # NoMolecule THEN {s} ELSE {}

\* GetMoleculesFromInvertedIdx: the molecules an object occurs in.
GetMoleculesFromInvertedIdx(o) == IF o \in KEY_ID THEN inv_molecules[o] ELSE {}

\* Molecules_with_O of TriplePatern: the molecules the query looks at, from
\* its first constraint or, without constraints, its first projection.
Candidates(constrains, projections) ==
  IF constrains = <<>>
    THEN GetPair(projections[1].subject)
    ELSE LET first == constrains[1]
         IN  IF first.subject # 0
               THEN GetPair(first.subject)
               ELSE IF first.object # Wild
                      THEN GetMoleculesFromInvertedIdx(first.object)
                      ELSE {}

\* What a constraint puts into prov[i] for the molecule of s.
ConstraintProv(s, c, on, uris) ==
  LET tt == IF c.object = Wild THEN Wild ELSE GetType(c.object)
  IN  CheckIfEntityExists(molecules[s],
        GetTemplates(templates, GetType(s), c.predicate, tt, 0), c.object, on, uris)

\* The elements a projection finds there; its own object is not looked at.
Projected(s, p, on, uris) ==
  GetEntity(molecules[s], GetTemplates(templates, GetType(s), p.predicate, Wild, 0),
            on, uris)

\* Mutant of Answers: an empty projection drops no molecule.
AnswersConstraintsOnly(s, constrains, projections, on, uris) ==
  \A i \in DOMAIN constrains :
    constrains[i].prov = 0 => ConstraintProv(s, constrains[i], on, uris) # {}

\* Whether the molecule of s comes to the push_backs: no pattern that is not
\* optional is left empty.
Answers(s, constrains, projections, on, uris) ==
  /\ \A i \in DOMAIN constrains :
       constrains[i].prov = 0 => ConstraintProv(s, constrains[i], on, uris) # {}
  /\ \A i \in DOMAIN projections :
       projections[i].prov = 0 => Projected(s, projections[i], on, uris) # {}

\* results.resize(projections.size() + 1): the last set is never filled.
RowResults(s, projections, on, uris) ==
  [i \in 1 .. (Len(projections) + 1) |->
     IF i \in DOMAIN projections
       THEN {e.obj : e \in Projected(s, projections[i], on, uris)}
       ELSE {}]

\* Mutant of RowProv: constraints do not report their provenance.
RowProvOfProjections(s, constrains, projections, on, uris) ==
  [i \in DOMAIN constrains |-> {}] \o
  [i \in DOMAIN projections |-> {e.prov : e \in Projected(s, projections[i], on, uris)}]

\* One provenance set per pattern, constraints first.
RowProv(s, constrains, projections, on, uris) ==
  [i \in DOMAIN constrains |-> ConstraintProv(s, constrains[i], on, uris)] \o
  [i \in DOMAIN projections |-> {e.prov : e \in Projected(s, projections[i], on, uris)}]

\* API::TriplePatern as its callers see it: a row for every molecule that
\* answers.  They come in no order, so the rows are a function on molecules.
TriplePatern(constrains, projections, on, uris) ==
  [s \in {t \in Candidates(constrains, projections) :
            Answers(t, constrains, projections, on, uris)} |->
     [results |-> RowResults(s, projections, on, uris),
      prov |-> RowProv(s, constrains, projections, on, uris)]]

\* What the molecule of s says of (p, o): the provenances GetSubjects collects.
SubjectProv(s, o, p, on, uris) ==
  CheckIfEntityExists(molecules[s],
    GetTemplates(templates, GetType(s), p, GetType(o), 0), o, on, uris)

\* Mutant of GetSubjects: only the first molecule ("return" was commented out).
GetSubjectsFirst(o, p, on, uris) ==
  LET found == {s \in GetMoleculesFromInvertedIdx(o) : SubjectProv(s, o, p, on, uris) # {}}
  IN  IF found = {} THEN {} ELSE {CHOOSE s \in found : TRUE}

\* API::GetSubjects, both versions: the subjects of (p, o).
GetSubjects(o, p, on, uris) ==
  {s \in GetMoleculesFromInvertedIdx(o) : SubjectProv(s, o, p, on, uris) # {}}

\* The version that returns a multimap: it inserts *prov.begin() once for each
\* provenance of a subject, so one of them, and which is up to the hash.
GetSubjectsMultimaps(o, p, on, uris) ==
  LET provs == [s \in GetSubjects(o, p, on, uris) |-> SubjectProv(s, o, p, on, uris)]
  IN  {f \in [DOMAIN provs -> UNION Range(provs)] : \A s \in DOMAIN provs : f[s] \in provs[s]}

\* The version that returns a set: prov_local is not cleared between molecules,
\* so the sets pushed back grow up to the provenances of all of them.
GetSubjectsProv(o, p, on, uris) ==
  UNION {SubjectProv(s, o, p, on, uris) : s \in GetSubjects(o, p, on, uris)}

\* API::GetObjects: the elements behind its results and prov.
GetObjects(s, p, on, uris) ==
  IF GetPair(s) = {}
    THEN {}
    ELSE GetEntity(molecules[s], GetTemplates(templates, GetType(s), p, Wild, 0), on, uris)
==============================================================================
