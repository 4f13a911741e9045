-------------------------------- MODULE TPDemo --------------------------------
(***************************************************************************)
(* main: LoadData, then BTCprov::TPDemo.  TPDemo reads up to two files of  *)
(* query lines.  The provenance query, if one is given, runs first, with   *)
(* the trigger off: whatever it finds becomes ProvUris and the trigger is  *)
(* set.  Then the workload query runs and its rows are printed.            *)
(* API::TriplePatern visits the candidate molecules in the order of a set  *)
(* of pointers, which is any order.                                        *)
(***************************************************************************)
EXTENDS API

CONSTANTS
  Variables,     \* the ?x of query files
  UnknownURIs,   \* URIs the dataset does not mention
  ProvQueries,   \* contents the file file_p may have
  MainQueries    \* contents the file file_q may have

Term == KEY_ID \union Variables \union UnknownURIs
Line == [subject : Term, predicate : Term, object : Term]

\* A query file: the lines before XXX and those after it.  TriplePatern reads
\* projections[0] when there is no constraint, so one line must be there.
QueryAssumption(queries) ==
  \A f \in queries : /\ f.constrains \in Seq(Line)
                     /\ f.projections \in Seq(Line)
                     /\ f.constrains # <<>> \/ f.projections # <<>>

\* A word of a query is a variable, an identifier or unknown, one of the three.
ASSUME TermAssumption ==
  /\ KEY_ID \intersect (Variables \union UnknownURIs) = {}
  /\ Variables \intersect UnknownURIs = {}

ASSUME FilesAssumption ==
  QueryAssumption(ProvQueries) /\ QueryAssumption(MainQueries)

VARIABLES
  stage,          \* where TPDemo is: "idle", "provquery", "filtered", "query"
                  \* or "answered"
  file,           \* the query file it works on
  ProvTrigerON,
  ProvUris,
  todo,           \* candidate molecules the loop has not come to
  results,        \* resultsmaster
  prov            \* provmaster

queryVars == <<stage, file, ProvTrigerON, ProvUris, todo, results, prov>>
vars == <<loadVars, queryVars>>

NoFile == [constrains |-> <<>>, projections |-> <<>>]

Init ==
  /\ LoadInit
  /\ stage = "idle"
  /\ file = NoFile
  /\ ProvTrigerON = FALSE
  /\ ProvUris = {}
  /\ todo = {}
  /\ results = <<>>
  /\ prov = <<>>

\* KeyManager::Get on a word of a query line: 0 for what it does not know.
Get(term) == IF term \in Variables \union UnknownURIs THEN 0 ELSE term

Parse(lines) ==
  [i \in DOMAIN lines |->
     [subject |-> Get(lines[i].subject), predicate |-> Get(lines[i].predicate),
      object |-> Get(lines[i].object), prov |-> 0]]

\* Reading a file and entering TriplePatern with empty results.
StartQuery(f) ==
  /\ file' = f
  /\ todo' = Candidates(Parse(f.constrains), Parse(f.projections))
  /\ results' = <<>>
  /\ prov' = <<>>
  /\ UNCHANGED <<loadVars, ProvTrigerON, ProvUris>>

StartProvQuery(f) ==
  /\ phase = "loaded"
  /\ stage = "idle"
  /\ stage' = "provquery"
  /\ StartQuery(f)

StartMainQuery(f) ==
  /\ phase = "loaded"
  /\ stage \in {"idle", "filtered"}
  /\ stage' = "query"
  /\ StartQuery(f)

\* Mutant of VisitMolecule: "continue" without moving on.
VisitMoleculeStuck(s) ==
  LET cs == Parse(file.constrains)
      ps == Parse(file.projections)
  IN  /\ s \in todo
      /\ Answers(s, cs, ps, ProvTrigerON, ProvUris)
      /\ todo' = todo \ {s}
      /\ results' = Append(results, RowResults(s, ps, ProvTrigerON, ProvUris))
      /\ prov' = Append(prov, RowProv(s, cs, ps, ProvTrigerON, ProvUris))
      /\ UNCHANGED <<loadVars, stage, file, ProvTrigerON, ProvUris>>

\* One turn of the loop of TriplePatern.
VisitMolecule(s) ==
  LET cs == Parse(file.constrains)
      ps == Parse(file.projections)
  IN  /\ s \in todo
      /\ todo' = todo \ {s}
      /\ IF Answers(s, cs, ps, ProvTrigerON, ProvUris)
           THEN /\ results' = Append(results, RowResults(s, ps, ProvTrigerON, ProvUris))
                /\ prov' = Append(prov, RowProv(s, cs, ps, ProvTrigerON, ProvUris))
           ELSE UNCHANGED <<results, prov>>
      /\ UNCHANGED <<loadVars, stage, file, ProvTrigerON, ProvUris>>

\* Mutant of SetProvenance: only the first projection is taken.
SetProvenanceFirst ==
  /\ stage = "provquery"
  /\ todo = {}
  /\ stage' = "filtered"
  /\ ProvUris' = ProvUris \union UNION {results[i][1] : i \in DOMAIN results}
  /\ ProvTrigerON' = TRUE
  /\ UNCHANGED <<loadVars, file, todo, results, prov>>

\* All values of all rows become ProvUris; the trigger is set even if none is.
SetProvenance ==
  /\ stage = "provquery"
  /\ todo = {}
  /\ stage' = "filtered"
  /\ ProvUris' = ProvUris \union UNION {UNION Range(results[i]) : i \in DOMAIN results}
  /\ ProvTrigerON' = TRUE
  /\ UNCHANGED <<loadVars, file, todo, results, prov>>

\* The rows are printed and main returns.
PrintAnswer ==
  /\ stage = "query"
  /\ todo = {}
  /\ stage' = "answered"
  /\ UNCHANGED <<loadVars, file, ProvTrigerON, ProvUris, todo, results, prov>>

QueryNext ==
  \/ \E f \in ProvQueries : StartProvQuery(f)
  \/ \E f \in MainQueries : StartMainQuery(f)
  \/ \E s \in todo : VisitMolecule(s)
  \/ SetProvenance
  \/ PrintAnswer

Next ==
  \/ LoadNext /\ UNCHANGED queryVars
  \/ QueryNext

Spec == Init /\ [][Next]_vars

\* One thread: it runs until main returns, and the dataset ends.
FairSpec ==
  Spec /\ WF_vars(Next) /\ WF_vars(EndOfFiles /\ UNCHANGED queryVars)
------------------------------------------------------------------------------
(***************************************************************************)
(* What a query is to return, in terms of the dataset alone.               *)
(***************************************************************************)

\* The storable lines of the dataset under a provenance the query accepts.
Visible ==
  {q \in Range(tripleIDs) : Storable(q) /\ (ProvTrigerON => q.prov \in ProvUris)}

\* The star queries TPDemo answers: every line about the same subject, a
\* variable or one the dataset knows; constraints that name their object;
\* projections that ask for theirs.  With a variable as subject the first
\* line must be a constraint.
Star(f) ==
  LET lines == f.constrains \o f.projections
      subj == lines[1].subject
  IN  /\ \A i \in DOMAIN lines : lines[i].subject = subj
      /\ subj \notin UnknownURIs
      /\ subj \in Variables => f.constrains # <<>>
      /\ \A i \in DOMAIN f.constrains : f.constrains[i].object \notin Variables
      /\ \A i \in DOMAIN f.projections : f.projections[i].object \in Variables

\* The quads of s that match a line.
Matching(quads, s, line) ==
  {q \in quads : /\ q.subject = s
                 /\ q.predicate = line.predicate
                 /\ line.object \in Variables \/ q.object = line.object}

\* The subjects with a row: every line of the query has a match.
Subjects(quads, f) ==
  LET lines == f.constrains \o f.projections
  IN  {s \in KEY_ID :
         /\ lines[1].subject \in Variables \/ s = lines[1].subject
         /\ \A i \in DOMAIN lines : Matching(quads, s, lines[i]) # {}}

RowOf(quads, f, s) ==
  LET lines == f.constrains \o f.projections
  IN  [values |-> [i \in DOMAIN f.projections |->
                     {q.object : q \in Matching(quads, s, f.projections[i])}],
       provs |-> [i \in DOMAIN lines |->
                     {q.prov : q \in Matching(quads, s, lines[i])}]]

\* The rows TriplePatern has found, without the set that is never filled.
Rows ==
  [i \in DOMAIN results |->
     [values |-> SubSeq(results[i], 1, Len(file.projections)), provs |-> prov[i]]]

Kept == {q \in Range(tripleIDs) : Storable(q)}

\* A star query returns, for every subject all of its lines match, one row:
\* the values and, per line, the provenances of the matching quads.  Neither
\* the choice of candidates nor the templates lose or add a row.
AnswerIsReference ==
  stage = "answered" /\ Star(file) =>
    LET subjects == Subjects(Visible, file)
    IN  \A r \in Range(Rows) \union {RowOf(Visible, file, s) : s \in subjects} :
          Cardinality({i \in DOMAIN Rows : Rows[i] = r}) =
            Cardinality({s \in subjects : RowOf(Visible, file, s) = r})

\* The names of the projections of a query and, for subject s, what a projection
\* and what a name can be: a name that two projections have is a value of both.
Asked(f) == {f.projections[i].object : i \in DOMAIN f.projections}
ValuesOfLine(quads, f, s, i) == RowOf(quads, f, s).values[i]
ValuesOfName(quads, f, s, x) ==
  {o \in KEY_ID :
     /\ \A i \in DOMAIN f.projections :
          f.projections[i].object = x => o \in ValuesOfLine(quads, f, s, i)
     /\ x = (f.constrains \o f.projections)[1].subject => o = s}

\* The values of the solutions of a star query, where a name is one value in all
\* of the query.
Solving(quads, f) ==
  {s \in Subjects(quads, f) : \A x \in Asked(f) : ValuesOfName(quads, f, s, x) # {}}
Reference(quads, f) ==
  UNION {UNION {ValuesOfName(quads, f, s, x) : x \in Asked(f)} : s \in Solving(quads, f)}

\* Every projection has a name of its own, and none that of the subject.
NamesDiffer(f) ==
  LET lines == f.constrains \o f.projections
  IN  /\ lines[1].subject \notin Asked(f)
      /\ \A i, j \in DOMAIN f.projections :
           f.projections[i].object = f.projections[j].object => i = j

\* The provenances the workload query runs under are those the solutions of a
\* star provenance query have in the whole dataset, if each of its projections
\* has a name of its own.  Of one that uses a name twice (TPDemo joins nothing)
\* no value of a solution is missed, and what else there is are values that
\* single lines of it have for a subject all of its lines match.
ProvUrisAreReference ==
  stage = "filtered" /\ Star(file) =>
    /\ Reference(Kept, file) \subseteq ProvUris
    /\ ProvUris \subseteq UNION {UNION Range(RowOf(Kept, file, s).values) :
                                   s \in Subjects(Kept, file)}
    /\ NamesDiffer(file) => ProvUris = Reference(Kept, file)

\* The file ProvQuery of the repository asks for ?s in both of its projections:
\* what was generated by an activity and is associated with it.
OnlyWhatIsAsked ==
  stage = "filtered" /\ Star(file) => ProvUris \subseteq Reference(Kept, file)

\* The provenance of a row is all it takes to get that row: over the lines of
\* the contexts named in it the query returns the same values and provenances.
ProvenanceSuffices ==
  stage = "answered" /\ Star(file) =>
    \A i \in DOMAIN Rows :
      LET used == {q \in Kept : q.prov \in UNION Range(prov[i])}
      IN  \E s \in Subjects(used, file) : RowOf(used, file, s) = Rows[i]

\* The trigger on: no value is shown that only lines of other contexts have,
\* whatever the query, and no row names a context outside ProvUris.
NothingFromOutside ==
  stage \in {"query", "answered"} /\ ProvTrigerON =>
    \A i \in DOMAIN results :
      /\ UNION Range(prov[i]) \subseteq ProvUris
      /\ UNION Range(results[i]) \subseteq {q.object : q \in Visible}

\* main returns: every run of the program comes to the end of its query.
EveryRunAnswers == <>(stage = "answered")
==============================================================================
