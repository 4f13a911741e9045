----------------------------- MODULE TPDemoProofs -----------------------------
(***************************************************************************)
(* Proofs about TPDemo: a query, run once the load is over, returns what   *)
(* the dataset says and nothing of the contexts it excludes.  First the    *)
(* inductive invariant of the loop of TriplePatern, then the rows it has   *)
(* found, in terms of the dataset.                                         *)
(***************************************************************************)
EXTENDS TPDemo, ConductorProofs

\* What the loop looks up for the query it works on.
Constraints == Parse(file.constrains)
Projections == Parse(file.projections)
ToVisit == Candidates(Constraints, Projections)
HasRow(s, on, uris) == Answers(s, Constraints, Projections, on, uris)
ResultsOf(s, on, uris) == RowResults(s, Projections, on, uris)
ProvOf(s, on, uris) == RowProv(s, Constraints, Projections, on, uris)

\* The rows found so far are those of different molecules, in some order, and
\* of all that were visited and have one.
RowsFrom(order, on, uris) ==
  /\ \A i, j \in DOMAIN results : order[i] = order[j] => i = j
  /\ \A s \in KEY_ID :
       (\E i \in DOMAIN results : order[i] = s)
         <=> s \in ToVisit \ todo /\ HasRow(s, on, uris)
  /\ \A i \in DOMAIN results : /\ results[i] = ResultsOf(order[i], on, uris)
                               /\ prov[i] = ProvOf(order[i], on, uris)

Rowed(on, uris) == \E order \in [DOMAIN results -> KEY_ID] : RowsFrom(order, on, uris)

QueryTypeOK ==
  /\ stage \in {"idle", "provquery", "filtered", "query", "answered"}
  /\ stage # "idle" => /\ phase = "loaded"
                       /\ file \in ProvQueries \union MainQueries
  /\ ProvTrigerON \in BOOLEAN
  /\ todo \subseteq KEY_ID
  /\ stage # "idle" => todo \subseteq ToVisit
  /\ results \in Seq(Seq(SUBSET KEY_ID))
  /\ prov \in Seq(Seq(SUBSET KEY_ID))
  /\ Len(prov) = Len(results)

\* The provenance query runs without the trigger, and its rows are still there
\* when ProvUris has been set from them.
StagesInv ==
  /\ stage \in {"idle", "provquery"} => ~ ProvTrigerON /\ ProvUris = {}
  /\ stage \in {"idle", "filtered", "answered"} => todo = {}
  /\ stage \in {"provquery", "query", "answered"} => Rowed(ProvTrigerON, ProvUris)
  /\ stage = "filtered" =>
       /\ Rowed(FALSE, {})
       /\ ProvUris = UNION {UNION Range(results[i]) : i \in DOMAIN results}

QueryInv == StoreInv /\ QueryTypeOK /\ StagesInv

\* A step that leaves the store and the query alone changes no look-up.
LEMMA LookupsStay ==
  ASSUME UNCHANGED loadVars, file' = file
  PROVE  /\ ToVisit' = ToVisit
         /\ \A s, on, uris : /\ HasRow(s, on, uris)' <=> HasRow(s, on, uris)
                             /\ ResultsOf(s, on, uris)' = ResultsOf(s, on, uris)
                             /\ ProvOf(s, on, uris)' = ProvOf(s, on, uris)
<1>1. molecules' = molecules /\ templates' = templates /\ inv_molecules' = inv_molecules
  BY DEF loadVars, store
<1>2. Constraints' = Constraints /\ Projections' = Projections
  BY DEF Constraints, Projections
<1>3. ToVisit' = ToVisit
  BY <1>1, <1>2 DEF ToVisit, Candidates, GetPair, GetMoleculesFromInvertedIdx
<1>4. ASSUME NEW s, NEW on, NEW uris
      PROVE  /\ HasRow(s, on, uris)' <=> HasRow(s, on, uris)
             /\ ResultsOf(s, on, uris)' = ResultsOf(s, on, uris)
             /\ ProvOf(s, on, uris)' = ProvOf(s, on, uris)
  <2>1. HasRow(s, on, uris)' <=> HasRow(s, on, uris)
    BY <1>1, <1>2 DEF HasRow, Answers, Projected, ConstraintProv
  <2>2. ResultsOf(s, on, uris)' = ResultsOf(s, on, uris)
    BY <1>1, <1>2 DEF ResultsOf, RowResults, Projected
  <2>3. ProvOf(s, on, uris)' = ProvOf(s, on, uris)
    BY <1>1, <1>2 DEF ProvOf, RowProv, Projected, ConstraintProv
  <2>4. QED
    BY <2>1, <2>2, <2>3
<1>5. QED
  BY <1>3, <1>4

\* A word of a query parses to an identifier, or to 0.
LEMMA GetOfTerm ==
  ASSUME NEW term \in Term
  PROVE  /\ Get(term) \in KEY_ID \union {0}
         /\ term \in KEY_ID => Get(term) = term
         /\ term \notin KEY_ID => Get(term) = 0
BY TermAssumption DEF Get, Term

\* Parse keeps the lines in their order.
LEMMA ParsedLines ==
  ASSUME NEW lines \in Seq(Line)
  PROVE  /\ Len(lines) \in Nat /\ DOMAIN lines = 1 .. Len(lines)
         /\ DOMAIN Parse(lines) = 1 .. Len(lines)
         /\ Len(Parse(lines)) = Len(lines)
         /\ \A i \in 1 .. Len(lines) :
              /\ lines[i] \in Line
              /\ Parse(lines)[i].subject = Get(lines[i].subject)
              /\ Parse(lines)[i].predicate = Get(lines[i].predicate)
              /\ Parse(lines)[i].object = Get(lines[i].object)
              /\ Parse(lines)[i].prov = 0
              /\ Parse(lines)[i].subject # Wild
              /\ Parse(lines)[i].predicate # Wild
              /\ Parse(lines)[i].object # Wild
<1> DEFINE parsed == Parse(lines)
<1>1. Len(lines) \in Nat /\ DOMAIN lines = 1 .. Len(lines)
  OBVIOUS
<1>2. DOMAIN parsed = 1 .. Len(lines)
  BY <1>1 DEF Parse
<1>3. parsed = [i \in 1 .. Len(lines) |-> parsed[i]]
  BY <1>1 DEF Parse
<1>4. Len(parsed) = Len(lines)
  <2> HIDE DEF parsed
  <2>1. QED
    BY <1>1, <1>2, <1>3
<1>5. ASSUME NEW i \in 1 .. Len(lines)
      PROVE  /\ lines[i] \in Line
             /\ parsed[i].subject = Get(lines[i].subject)
             /\ parsed[i].predicate = Get(lines[i].predicate)
             /\ parsed[i].object = Get(lines[i].object)
             /\ parsed[i].prov = 0
  BY <1>1 DEF Parse
<1>6. \A term \in Term : Get(term) # Wild
  BY GetOfTerm, KeyAssumption DEF Wild
<1>7. QED
  BY <1>1, <1>2, <1>4, <1>5, <1>6 DEF Line

\* The lines of the query TPDemo works on.
LEMMA FileLines ==
  ASSUME QueryTypeOK, stage # "idle"
  PROVE  /\ file.constrains \in Seq(Line) /\ file.projections \in Seq(Line)
         /\ file.constrains # <<>> \/ file.projections # <<>>
BY FilesAssumption DEF QueryTypeOK, QueryAssumption

\* The molecules a query visits are those of identifiers.
LEMMA CandidatesType ==
  ASSUME TypeOK, NEW cs, NEW ps
  PROVE  Candidates(cs, ps) \subseteq KEY_ID
<1>1. \A s : GetPair(s) \subseteq KEY_ID
  BY DEF GetPair
<1>2. \A o : GetMoleculesFromInvertedIdx(o) \subseteq KEY_ID
  BY DEF TypeOK, GetMoleculesFromInvertedIdx
<1>3. QED
  BY <1>1, <1>2 DEF Candidates

\* A row is made of sets of identifiers, one more than there are projections;
\* its provenance has a set per line.
LEMMA RowType ==
  ASSUME StoreInv, QueryTypeOK, stage # "idle", NEW s \in KEY_ID,
         NEW on \in BOOLEAN, NEW uris
  PROVE  /\ ResultsOf(s, on, uris) \in Seq(SUBSET KEY_ID)
         /\ ProvOf(s, on, uris) \in Seq(SUBSET KEY_ID)
<1>1. \A e \in Elements(molecules[s]) : e.obj \in KEY_ID /\ e.prov \in KEY_ID
  BY DEF StoreInv, ElementsTyped
<1>2. \A p : /\ {e.obj : e \in Projected(s, p, on, uris)} \subseteq KEY_ID
             /\ {e.prov : e \in Projected(s, p, on, uris)} \subseteq KEY_ID
  BY <1>1 DEF Projected, GetEntity
<1>3. \A c : ConstraintProv(s, c, on, uris) \subseteq KEY_ID
  BY <1>1 DEF ConstraintProv, CheckIfEntityExists
<1> DEFINE n == Len(file.constrains)
           m == Len(file.projections)
<1>4. /\ n \in Nat /\ DOMAIN Constraints = 1 .. n
      /\ m \in Nat /\ DOMAIN Projections = 1 .. m /\ Len(Projections) = m
  BY FileLines, ParsedLines DEF Constraints, Projections
<1> HIDE DEF n, m
<1>5. ResultsOf(s, on, uris) \in Seq(SUBSET KEY_ID)
  <2>1. \A i : (IF i \in DOMAIN Projections
                  THEN {e.obj : e \in Projected(s, Projections[i], on, uris)}
                  ELSE {}) \in SUBSET KEY_ID
    BY <1>2
  <2>2. QED
    BY <1>4, <2>1 DEF ResultsOf, RowResults
<1>6. [i \in DOMAIN Constraints |-> ConstraintProv(s, Constraints[i], on, uris)]
        \in Seq(SUBSET KEY_ID)
  BY <1>3, <1>4
<1>7. [i \in DOMAIN Projections |-> {e.prov : e \in Projected(s, Projections[i], on, uris)}]
        \in Seq(SUBSET KEY_ID)
  BY <1>2, <1>4
<1>8. ProvOf(s, on, uris) \in Seq(SUBSET KEY_ID)
  BY <1>6, <1>7 DEF ProvOf, RowProv
<1>9. QED
  BY <1>5, <1>8
------------------------------------------------------------------------------
(***************************************************************************)
(* The inductive invariant.                                                *)
(***************************************************************************)

\* Before anything is read there is no query.
LEMMA QueryInvInit == Init => QueryInv
<1> SUFFICES ASSUME Init PROVE QueryInv
  OBVIOUS
<1>1. StoreInv
  BY StoreInvInit DEF Init
<1>2. QueryTypeOK
  <2>1. /\ results = <<>> /\ prov = <<>> /\ todo = {}
        /\ stage = "idle" /\ ProvTrigerON = FALSE
    BY DEF Init
  <2>2. /\ results \in Seq(Seq(SUBSET KEY_ID)) /\ prov \in Seq(Seq(SUBSET KEY_ID))
        /\ Len(prov) = Len(results)
    BY <2>1
  <2>3. ProvTrigerON \in BOOLEAN
    BY <2>1
  <2>4. QED
    BY <2>1, <2>2, <2>3 DEF QueryTypeOK
<1>3. StagesInv
  BY DEF Init, StagesInv
<1>4. QED
  BY <1>1, <1>2, <1>3 DEF QueryInv

\* A query begins with all its candidates to visit and no row.
LEMMA StartQueryRows ==
  ASSUME StoreInv, NEW f \in ProvQueries \union MainQueries, StartQuery(f),
         NEW on, NEW uris
  PROVE  /\ todo' \subseteq KEY_ID /\ todo' = ToVisit'
         /\ Rowed(on, uris)'
<1>1. molecules' = molecules /\ inv_molecules' = inv_molecules
  BY DEF StartQuery, loadVars, store
<1>2. /\ todo' = Candidates(Parse(f.constrains), Parse(f.projections))
      /\ file' = f /\ results' = <<>> /\ prov' = <<>>
  BY DEF StartQuery
<1>3. ToVisit' = todo'
  BY <1>1, <1>2 DEF ToVisit, Constraints, Projections, Candidates, GetPair,
                    GetMoleculesFromInvertedIdx
<1>4. todo' \subseteq KEY_ID
  BY <1>2, CandidatesType DEF StoreInv, LoadInv
<1>5. DOMAIN results' = {}
  BY <1>2
<1>6. PICK order : order \in [DOMAIN results' -> KEY_ID]
  <2>1. [i \in {} |-> 0] \in [{} -> KEY_ID]
    OBVIOUS
  <2>2. QED
    BY <1>5, <2>1
<1>7. RowsFrom(order, on, uris)'
  BY <1>3, <1>5 DEF RowsFrom
<1>8. QED
  BY <1>3, <1>4, <1>6, <1>7 DEF Rowed

\* One turn of the loop: the molecule of s is visited, and has its row if it
\* answers; the rows found before are the same as before.
LEMMA VisitMoleculeRows ==
  ASSUME StoreInv, QueryTypeOK, stage # "idle",
         NEW s \in todo, VisitMolecule(s), Rowed(ProvTrigerON, ProvUris)
  PROVE  /\ results' \in Seq(Seq(SUBSET KEY_ID))
         /\ prov' \in Seq(Seq(SUBSET KEY_ID))
         /\ Len(prov') = Len(results')
         /\ Rowed(ProvTrigerON, ProvUris)'
<1>0. PICK on, uris : on = ProvTrigerON /\ uris = ProvUris
  OBVIOUS
<1>1. PICK order \in [DOMAIN results -> KEY_ID] : RowsFrom(order, on, uris)
  BY <1>0 DEF Rowed
<1>2. /\ UNCHANGED loadVars /\ file' = file /\ todo' = todo \ {s}
      /\ ProvTrigerON' = on /\ ProvUris' = uris
  BY <1>0 DEF VisitMolecule
<1>3. /\ ToVisit' = ToVisit
      /\ \A t : /\ HasRow(t, on, uris)' <=> HasRow(t, on, uris)
                /\ ResultsOf(t, on, uris)' = ResultsOf(t, on, uris)
                /\ ProvOf(t, on, uris)' = ProvOf(t, on, uris)
  BY <1>2, LookupsStay
<1>4. s \in KEY_ID /\ s \in ToVisit /\ on \in BOOLEAN
  BY <1>0 DEF QueryTypeOK
<1>5. /\ ResultsOf(s, on, uris) \in Seq(SUBSET KEY_ID)
      /\ ProvOf(s, on, uris) \in Seq(SUBSET KEY_ID)
  BY <1>4, RowType
<1>6. /\ results \in Seq(Seq(SUBSET KEY_ID)) /\ prov \in Seq(Seq(SUBSET KEY_ID))
      /\ Len(prov) = Len(results)
  BY DEF QueryTypeOK
<1>7. CASE HasRow(s, on, uris)
  <2>1. /\ results' = Append(results, ResultsOf(s, on, uris))
        /\ prov' = Append(prov, ProvOf(s, on, uris))
    BY <1>0, <1>7 DEF VisitMolecule, HasRow, ResultsOf, ProvOf, Constraints, Projections
  <2>0. PICK n, next : /\ n = Len(results) + 1
                       /\ next = [i \in DOMAIN results' |-> IF i = n THEN s ELSE order[i]]
    OBVIOUS
  <2>2. /\ results' \in Seq(Seq(SUBSET KEY_ID)) /\ prov' \in Seq(Seq(SUBSET KEY_ID))
        /\ Len(prov') = Len(results')
        /\ DOMAIN results' = DOMAIN results \union {n}
        /\ n \notin DOMAIN results
        /\ results'[n] = ResultsOf(s, on, uris) /\ prov'[n] = ProvOf(s, on, uris)
        /\ \A i \in DOMAIN results : results'[i] = results[i] /\ prov'[i] = prov[i]
    BY <1>5, <1>6, <2>0, <2>1
  <2>3. /\ next \in [DOMAIN results' -> KEY_ID]
        /\ next[n] = s
        /\ \A i \in DOMAIN results : next[i] = order[i]
    BY <1>1, <1>4, <2>0, <2>2
  <2>4. \A i \in DOMAIN results : order[i] # s
    BY <1>1, <1>4 DEF RowsFrom
  <2>5. \A i, j \in DOMAIN results' : next[i] = next[j] => i = j
    BY <1>1, <2>2, <2>3, <2>4 DEF RowsFrom
  <2>6. \A t \in KEY_ID :
          (\E i \in DOMAIN results' : next[i] = t)
            <=> t \in ToVisit \ (todo \ {s}) /\ HasRow(t, on, uris)
    <3> SUFFICES ASSUME NEW t \in KEY_ID
                 PROVE  (\E i \in DOMAIN results' : next[i] = t)
                          <=> t \in ToVisit \ (todo \ {s}) /\ HasRow(t, on, uris)
      OBVIOUS
    <3>1. (\E i \in DOMAIN results : order[i] = t) <=> t \in ToVisit \ todo /\ HasRow(t, on, uris)
      BY <1>1 DEF RowsFrom
    <3>2. (\E i \in DOMAIN results' : next[i] = t)
            <=> (\E i \in DOMAIN results : order[i] = t) \/ t = s
      BY <2>2, <2>3
    <3>3. QED
      BY <1>4, <1>7, <3>1, <3>2
  <2>7. \A i \in DOMAIN results' : /\ results'[i] = ResultsOf(next[i], on, uris)
                                   /\ prov'[i] = ProvOf(next[i], on, uris)
    BY <1>1, <2>2, <2>3 DEF RowsFrom
  <2>8. RowsFrom(next, on, uris)'
    BY <1>2, <1>3, <2>5, <2>6, <2>7 DEF RowsFrom
  <2>9. QED
    BY <1>0, <1>2, <2>2, <2>3, <2>8 DEF Rowed
<1>8. CASE ~ HasRow(s, on, uris)
  <2>1. results' = results /\ prov' = prov
    BY <1>0, <1>8 DEF VisitMolecule, HasRow, Constraints, Projections
  <2>2. \A t \in KEY_ID : (\E i \in DOMAIN results : order[i] = t)
                            <=> t \in ToVisit \ (todo \ {s}) /\ HasRow(t, on, uris)
    BY <1>1, <1>8 DEF RowsFrom
  <2>3. RowsFrom(order, on, uris)'
    BY <1>1, <1>2, <1>3, <2>1, <2>2 DEF RowsFrom
  <2>4. QED
    BY <1>0, <1>1, <1>2, <1>6, <2>1, <2>3 DEF Rowed
<1>9. QED
  BY <1>7, <1>8

\* The store does not change once it is loaded.
LEMMA LoadedStays ==
  ASSUME LoadNext PROVE phase # "loaded"
BY DEF LoadNext, ReadLine, EndOfFiles, AddNextTemplate, TemplatesDone, StoreLine, LoadDone

\* A step that changes neither the store nor the rows keeps them.
LEMMA RowedStays ==
  ASSUME UNCHANGED loadVars, UNCHANGED <<file, todo, results, prov>>, NEW on, NEW uris
  PROVE  Rowed(on, uris)' <=> Rowed(on, uris)
<1>1. /\ ToVisit' = ToVisit
      /\ \A s : /\ HasRow(s, on, uris)' <=> HasRow(s, on, uris)
                /\ ResultsOf(s, on, uris)' = ResultsOf(s, on, uris)
                /\ ProvOf(s, on, uris)' = ProvOf(s, on, uris)
  BY LookupsStay
<1>2. \A order : RowsFrom(order, on, uris)' <=> RowsFrom(order, on, uris)
  BY <1>1 DEF RowsFrom
<1>3. QED
  BY <1>2 DEF Rowed

\* Every step of the program keeps the invariant.
LEMMA QueryInvNext == QueryInv /\ [Next]_vars => QueryInv'
<1> SUFFICES ASSUME QueryInv, [Next]_vars PROVE QueryInv'
  OBVIOUS
<1> USE DEF QueryInv
<1>1. StoreInv'
  <2>1. [LoadNext]_loadVars
    BY DEF Next, QueryNext, StartProvQuery, StartMainQuery, StartQuery, VisitMolecule,
           SetProvenance, PrintAnswer, vars
  <2>2. QED
    BY <2>1, StoreInvNext
<1>2. CASE LoadNext /\ UNCHANGED queryVars
  <2>1. stage = "idle"
    BY <1>2, LoadedStays DEF QueryTypeOK
  <2>2. QueryTypeOK' /\ StagesInv'
    BY <1>2, <2>1 DEF queryVars, QueryTypeOK, StagesInv
  <2>3. QED
    BY <1>1, <2>2
<1>3. ASSUME NEW f \in ProvQueries, StartProvQuery(f)
      PROVE  QueryInv'
  <2>1. StartQuery(f) /\ phase = "loaded" /\ stage = "idle" /\ stage' = "provquery"
    BY <1>3 DEF StartProvQuery
  <2>2. PICK on, uris : on = ProvTrigerON /\ uris = ProvUris
    OBVIOUS
  <2>3. todo' \subseteq KEY_ID /\ todo' = ToVisit' /\ Rowed(on, uris)'
    BY <2>1, StartQueryRows
  <2>4. /\ ProvTrigerON' = on /\ ProvUris' = uris /\ phase' = phase /\ file' = f
        /\ results' = <<>> /\ prov' = <<>>
    BY <2>1, <2>2 DEF StartQuery, loadVars
  <2>5. /\ results' \in Seq(Seq(SUBSET KEY_ID)) /\ prov' \in Seq(Seq(SUBSET KEY_ID))
        /\ Len(prov') = Len(results')
    BY <2>4
  <2>6. QueryTypeOK'
    BY <2>1, <2>2, <2>3, <2>4, <2>5 DEF QueryTypeOK
  <2>7. StagesInv'
    <3>1. Rowed(ProvTrigerON, ProvUris)'
      BY <2>3, <2>4 DEF Rowed, RowsFrom
    <3>2. QED
      BY <2>1, <2>2, <2>4, <3>1 DEF StagesInv
  <2>8. QED
    BY <1>1, <2>6, <2>7
<1>4. ASSUME NEW f \in MainQueries, StartMainQuery(f)
      PROVE  QueryInv'
  <2>1. StartQuery(f) /\ phase = "loaded" /\ stage' = "query"
    BY <1>4 DEF StartMainQuery
  <2>2. PICK on, uris : on = ProvTrigerON /\ uris = ProvUris
    OBVIOUS
  <2>3. todo' \subseteq KEY_ID /\ todo' = ToVisit' /\ Rowed(on, uris)'
    BY <2>1, StartQueryRows
  <2>4. /\ ProvTrigerON' = on /\ ProvUris' = uris /\ phase' = phase /\ file' = f
        /\ results' = <<>> /\ prov' = <<>>
    BY <2>1, <2>2 DEF StartQuery, loadVars
  <2>5. /\ results' \in Seq(Seq(SUBSET KEY_ID)) /\ prov' \in Seq(Seq(SUBSET KEY_ID))
        /\ Len(prov') = Len(results')
    BY <2>4
  <2>6. QueryTypeOK'
    BY <2>1, <2>2, <2>3, <2>4, <2>5 DEF QueryTypeOK
  <2>7. StagesInv'
    <3>1. Rowed(ProvTrigerON, ProvUris)'
      BY <2>3, <2>4 DEF Rowed, RowsFrom
    <3>2. QED
      BY <2>1, <3>1 DEF StagesInv
  <2>8. QED
    BY <1>1, <2>6, <2>7
<1>5. ASSUME NEW s \in todo, VisitMolecule(s)
      PROVE  QueryInv'
  <2>1. stage \in {"provquery", "query"}
    BY <1>5 DEF QueryTypeOK, StagesInv
  <2>2. stage # "idle" /\ Rowed(ProvTrigerON, ProvUris)
    BY <2>1 DEF StagesInv
  <2>3. /\ results' \in Seq(Seq(SUBSET KEY_ID))
        /\ prov' \in Seq(Seq(SUBSET KEY_ID))
        /\ Len(prov') = Len(results')
        /\ Rowed(ProvTrigerON, ProvUris)'
    BY <1>5, <2>2, VisitMoleculeRows
  <2>4. /\ UNCHANGED loadVars /\ UNCHANGED <<stage, file, ProvTrigerON, ProvUris>>
        /\ todo' = todo \ {s}
    BY <1>5 DEF VisitMolecule
  <2>5. ToVisit' = ToVisit /\ phase' = phase
    BY <2>4, LookupsStay DEF loadVars
  <2>6. QueryTypeOK'
    BY <2>1, <2>3, <2>4, <2>5 DEF QueryTypeOK
  <2>7. StagesInv'
    BY <2>1, <2>3, <2>4 DEF StagesInv
  <2>8. QED
    BY <1>1, <2>6, <2>7
<1>6. CASE SetProvenance
  <2>1. /\ stage = "provquery" /\ stage' = "filtered" /\ todo = {}
        /\ UNCHANGED loadVars /\ UNCHANGED <<file, todo, results, prov>>
        /\ ProvUris' = ProvUris \union UNION {UNION Range(results[i]) : i \in DOMAIN results}
        /\ ProvTrigerON' = TRUE
    BY <1>6 DEF SetProvenance
  <2>2. ToVisit' = ToVisit /\ phase' = phase
    BY <2>1, LookupsStay DEF loadVars
  <2>3. ProvTrigerON = FALSE /\ ProvUris = {} /\ Rowed(ProvTrigerON, ProvUris)
    BY <2>1 DEF QueryTypeOK, StagesInv
  <2>4. Rowed(FALSE, {})
    BY <2>3
  <2>5. Rowed(FALSE, {})'
    BY <2>1, <2>4, RowedStays
  <2>6. ProvUris' = UNION {UNION Range(results'[i]) : i \in DOMAIN results'}
    BY <2>1, <2>3
  <2>7. QueryTypeOK'
    BY <2>1, <2>2 DEF QueryTypeOK
  <2>8. StagesInv'
    BY <2>1, <2>5, <2>6 DEF StagesInv
  <2>9. QED
    BY <1>1, <2>7, <2>8
<1>7. CASE PrintAnswer \/ UNCHANGED vars
  <2>1. /\ UNCHANGED loadVars /\ UNCHANGED <<file, todo, results, prov, ProvTrigerON, ProvUris>>
        /\ stage' = stage \/ (stage = "query" /\ stage' = "answered" /\ todo = {})
    BY <1>7 DEF PrintAnswer, vars, queryVars
  <2>2. ToVisit' = ToVisit /\ phase' = phase
    BY <2>1, LookupsStay DEF loadVars
  <2>3. PICK on, uris : on = ProvTrigerON /\ uris = ProvUris
    OBVIOUS
  <2>4. (Rowed(on, uris)' <=> Rowed(on, uris)) /\ (Rowed(FALSE, {})' <=> Rowed(FALSE, {}))
    BY <2>1, RowedStays
  <2>5. Rowed(ProvTrigerON, ProvUris)' <=> Rowed(ProvTrigerON, ProvUris)
    BY <2>1, <2>3, <2>4 DEF Rowed, RowsFrom
  <2>6. QueryTypeOK'
    BY <2>1, <2>2 DEF QueryTypeOK
  <2>7. StagesInv'
    BY <2>1, <2>4, <2>5 DEF StagesInv
  <2>8. QED
    BY <1>1, <2>6, <2>7
<1>8. QED
  BY <1>2, <1>3, <1>4, <1>5, <1>6, <1>7 DEF Next, QueryNext

\* The invariant holds throughout the run.
LEMMA QueryInvariant == Spec => []QueryInv
BY QueryInvInit, QueryInvNext, PTL DEF Spec
------------------------------------------------------------------------------
(***************************************************************************)
(* The rows, in terms of the dataset.                                      *)
(***************************************************************************)

\* The stored quads a trigger and its contexts let through.
Seen(on, uris) == {q \in StoredQuads : on => q.prov \in uris}

\* The lines of the query, constraints first.
QueryLines == file.constrains \o file.projections

\* Once loaded, the store holds the storable lines of the whole dataset.
LEMMA StoredAreKept ==
  ASSUME QueryInv, phase = "loaded"
  PROVE  /\ StoredQuads = Kept
         /\ StoredQuads \subseteq TripleIDs
         /\ Visible = Seen(ProvTrigerON, ProvUris)
         /\ Kept = Seen(FALSE, {})
<1>1. pos = Len(tripleIDs) + 1 /\ tripleIDs \in Seq(Lines)
  BY DEF QueryInv, StoreInv, AllLoaded, LoadInv, TypeOK
<1>2. 1 .. (pos - 1) = DOMAIN tripleIDs
  BY <1>1
<1>3. Loaded = Range(tripleIDs)
  BY <1>2 DEF Loaded, Range
<1>4. StoredQuads = Kept
  BY <1>3 DEF QueryInv, StoreInv, StoreIsDataset, Kept
<1>5. Kept \subseteq TripleIDs
  BY <1>1, LoadAssumption DEF Kept, Range
<1>6. QED
  BY <1>4, <1>5 DEF Kept, Visible, Seen

\* What the look-up of a line matches is what the line says of the dataset.
LEMMA LineMatches ==
  ASSUME QueryInv, phase = "loaded", NEW s \in KEY_ID, NEW line \in Line,
         NEW on \in BOOLEAN, NEW uris
  PROVE  /\ line.object \in Variables =>
              Matching(Seen(on, uris), s, line)
                = MatchingQuads(s, Get(line.predicate), Wild, on, uris)
         /\ line.object \notin Variables =>
              Matching(Seen(on, uris), s, line)
                = MatchingQuads(s, Get(line.predicate), Get(line.object), on, uris)
<1>1. \A q \in StoredQuads : q.predicate \in KEY_ID /\ q.object \in KEY_ID
  BY StoredAreKept DEF TripleIDs
<1>2. 0 \notin KEY_ID /\ Wild \notin KEY_ID
  BY KeyAssumption DEF Wild
<1>3. \A q \in StoredQuads :
        /\ q.predicate = line.predicate <=> q.predicate = Get(line.predicate)
        /\ q.object = line.object <=> q.object = Get(line.object)
  BY <1>1, <1>2, GetOfTerm DEF Line
<1>4. Get(line.object) # Wild /\ Get(line.predicate) # Wild
  BY <1>2, GetOfTerm DEF Line, Wild
<1>5. QED
  BY <1>3, <1>4 DEF Matching, MatchingQuads, Seen

\* The lines of the query and the patterns they parse to, by position.
LEMMA LinesByPosition ==
  ASSUME QueryInv, stage # "idle"
  PROVE  LET n == Len(file.constrains)
             m == Len(file.projections)
         IN  /\ n \in Nat /\ m \in Nat /\ n + m > 0
             /\ Len(Projections) = m
             /\ DOMAIN file.constrains = 1 .. n /\ DOMAIN Constraints = 1 .. n
             /\ DOMAIN file.projections = 1 .. m /\ DOMAIN Projections = 1 .. m
             /\ DOMAIN QueryLines = 1 .. (n + m)
             /\ \A i \in 1 .. n : /\ file.constrains[i] \in Line
                                  /\ QueryLines[i] = file.constrains[i]
             /\ \A i \in 1 .. m : /\ file.projections[i] \in Line
                                  /\ QueryLines[n + i] = file.projections[i]
<1> DEFINE n == Len(file.constrains)
           m == Len(file.projections)
<1>1. /\ file.constrains \in Seq(Line) /\ file.projections \in Seq(Line)
      /\ file.constrains # <<>> \/ file.projections # <<>>
  BY FileLines DEF QueryInv
<1>2. /\ n \in Nat /\ m \in Nat /\ Len(Projections) = m
      /\ DOMAIN file.constrains = 1 .. n /\ DOMAIN Constraints = 1 .. n
      /\ DOMAIN file.projections = 1 .. m /\ DOMAIN Projections = 1 .. m
      /\ \A i \in 1 .. n : file.constrains[i] \in Line
      /\ \A i \in 1 .. m : file.projections[i] \in Line
  BY <1>1, ParsedLines DEF Constraints, Projections
<1>3. n + m > 0 /\ DOMAIN QueryLines = 1 .. (n + m)
  BY <1>1, ConcatByPosition DEF QueryLines
<1>4. /\ \A i \in 1 .. n : QueryLines[i] = file.constrains[i]
      /\ \A i \in 1 .. m : QueryLines[n + i] = file.projections[i]
  <2>1. PICK a \in Seq(Line), b \in Seq(Line) : a = file.constrains /\ b = file.projections
    BY <1>1
  <2>2. /\ \A i \in 1 .. Len(a) : (a \o b)[i] = a[i]
        /\ \A i \in 1 .. Len(b) : (a \o b)[Len(a) + i] = b[i]
    BY ConcatByPosition
  <2>3. QED
    BY <2>1, <2>2, Zenon DEF QueryLines
<1>5. QED
  BY <1>2, <1>3, <1>4

\* A star query: constraints name their object, projections ask for theirs.
LEMMA StarLines ==
  ASSUME QueryInv, stage # "idle", Star(file)
  PROVE  /\ \A i \in DOMAIN QueryLines : QueryLines[i].subject = QueryLines[1].subject
         /\ QueryLines[1].subject \in Term
         /\ QueryLines[1].subject \notin UnknownURIs
         /\ QueryLines[1].subject \in Variables => file.constrains # <<>>
         /\ \A i \in DOMAIN file.constrains : file.constrains[i].object \notin Variables
         /\ \A i \in DOMAIN file.projections : file.projections[i].object \in Variables
<1> DEFINE n == Len(file.constrains)
           m == Len(file.projections)
<1>1. QueryLines[1] \in Line
  <2>1. /\ n \in Nat /\ m \in Nat /\ n + m > 0
        /\ \A i \in 1 .. n : QueryLines[i] \in Line
        /\ \A i \in 1 .. m : QueryLines[n + i] \in Line
    BY LinesByPosition
  <2> HIDE DEF n, m
  <2>2. CASE n = 0
    <3>1. 1 \in 1 .. m /\ n + 1 = 1
      BY <2>1, <2>2
    <3>2. QueryLines[n + 1] \in Line
      BY <2>1, <3>1
    <3>3. QED
      BY <3>1, <3>2
  <2>3. CASE n # 0
    BY <2>1, <2>3
  <2>4. QED
    BY <2>2, <2>3
<1>2. QED
  BY <1>1 DEF Star, QueryLines, Line

\* The quads of s that match a line of the query, their objects and contexts.
LineQuads(s, i, on, uris) == Matching(Seen(on, uris), s, QueryLines[i])
LineObjects(s, i, on, uris) == {q.object : q \in LineQuads(s, i, on, uris)}
LineContexts(s, i, on, uris) == {q.prov : q \in LineQuads(s, i, on, uris)}

\* Line by line: what the look-ups report of a molecule is what the dataset says.
LEMMA LookupsByLine ==
  ASSUME QueryInv, stage # "idle", Star(file), NEW s \in KEY_ID,
         NEW on \in BOOLEAN, NEW uris
  PROVE  LET n == Len(file.constrains)
             m == Len(file.projections)
         IN  /\ \A i \in 1 .. n :
                  ConstraintProv(s, Constraints[i], on, uris) = LineContexts(s, i, on, uris)
             /\ \A i \in 1 .. m :
                  /\ ObjectsProjected(s, Projections[i], on, uris)
                       = LineObjects(s, n + i, on, uris)
                  /\ ContextsProjected(s, Projections[i], on, uris)
                       = LineContexts(s, n + i, on, uris)
<1> DEFINE n == Len(file.constrains)
           m == Len(file.projections)
<1>1. StoreInv /\ phase = "loaded"
  BY DEF QueryInv, QueryTypeOK
<1>2. file.constrains \in Seq(Line) /\ file.projections \in Seq(Line)
  BY FileLines DEF QueryInv
<1>3. ASSUME NEW i \in 1 .. n
      PROVE  ConstraintProv(s, Constraints[i], on, uris) = LineContexts(s, i, on, uris)
  <2> DEFINE c == Constraints[i]
  <2>1. /\ file.constrains[i] \in Line
        /\ QueryLines[i] = file.constrains[i]
        /\ file.constrains[i].object \notin Variables
    BY LinesByPosition, StarLines
  <2>2. /\ c.predicate = Get(file.constrains[i].predicate)
        /\ c.object = Get(file.constrains[i].object)
        /\ c.predicate # Wild
    BY <1>2, ParsedLines DEF Constraints
  <2>3. LineQuads(s, i, on, uris) = MatchingQuads(s, c.predicate, c.object, on, uris)
    BY <1>1, <2>1, <2>2, LineMatches DEF LineQuads
  <2> HIDE DEF c
  <2>4. ConstraintProv(s, c, on, uris)
          = {q.prov : q \in MatchingQuads(s, c.predicate, c.object, on, uris)}
    BY <1>1, <2>2, ConstraintQuads
  <2>5. QED
    BY <2>3, <2>4 DEF c, LineContexts
<1>4. ASSUME NEW i \in 1 .. m
      PROVE  /\ ObjectsProjected(s, Projections[i], on, uris)
                  = LineObjects(s, n + i, on, uris)
             /\ ContextsProjected(s, Projections[i], on, uris)
                  = LineContexts(s, n + i, on, uris)
  <2> DEFINE p == Projections[i]
  <2>1. /\ file.projections[i] \in Line
        /\ QueryLines[n + i] = file.projections[i]
        /\ file.projections[i].object \in Variables
    BY LinesByPosition, StarLines
  <2>2. p.predicate = Get(file.projections[i].predicate) /\ p.predicate # Wild
    BY <1>2, ParsedLines DEF Projections
  <2>3. LineQuads(s, n + i, on, uris) = MatchingQuads(s, p.predicate, Wild, on, uris)
    BY <1>1, <2>1, <2>2, LineMatches DEF LineQuads
  <2> HIDE DEF p
  <2>4. /\ ObjectsProjected(s, p, on, uris)
             = {q.object : q \in MatchingQuads(s, p.predicate, Wild, on, uris)}
        /\ ContextsProjected(s, p, on, uris)
             = {q.prov : q \in MatchingQuads(s, p.predicate, Wild, on, uris)}
    BY <1>1, <2>2, ProjectedQuads
  <2>5. QED
    BY <2>3, <2>4 DEF p, LineObjects, LineContexts
<1>5. QED
  BY <1>3, <1>4

\* A molecule gives a row when every line of the query matches a quad of it.
LEMMA HasRowIffMatches ==
  ASSUME QueryInv, stage # "idle", Star(file), NEW s \in KEY_ID,
         NEW on \in BOOLEAN, NEW uris
  PROVE  HasRow(s, on, uris)
           <=> \A i \in DOMAIN QueryLines : Matching(Seen(on, uris), s, QueryLines[i]) # {}
<1> DEFINE n == Len(file.constrains)
           m == Len(file.projections)
           Of(i) == LineQuads(s, i, on, uris)
<1>1. /\ n \in Nat /\ m \in Nat /\ DOMAIN QueryLines = 1 .. (n + m)
      /\ DOMAIN Constraints = 1 .. n /\ DOMAIN Projections = 1 .. m
  BY LinesByPosition
<1>2. /\ \A i \in 1 .. n : Constraints[i].prov = 0
      /\ \A i \in 1 .. m : Projections[i].prov = 0
  BY FileLines, ParsedLines DEF QueryInv, Constraints, Projections
<1>3. /\ \A i \in 1 .. n :
           ConstraintProv(s, Constraints[i], on, uris) = LineContexts(s, i, on, uris)
      /\ \A i \in 1 .. m : ObjectsProjected(s, Projections[i], on, uris)
                             = LineObjects(s, n + i, on, uris)
  BY LookupsByLine
<1> HIDE DEF n, m, Of
<1>4. /\ \A i \in 1 .. n : ConstraintProv(s, Constraints[i], on, uris) # {} <=> Of(i) # {}
      /\ \A i \in 1 .. m : Projected(s, Projections[i], on, uris) # {} <=> Of(n + i) # {}
  <2>1. \A i : /\ LineContexts(s, i, on, uris) # {} <=> Of(i) # {}
               /\ LineObjects(s, i, on, uris) # {} <=> Of(i) # {}
    BY DEF Of, LineObjects, LineContexts
  <2>2. \A p : ObjectsProjected(s, p, on, uris) # {} <=> Projected(s, p, on, uris) # {}
    BY DEF ObjectsProjected
  <2>3. QED
    BY <1>3, <2>1, <2>2
<1>5. (\A i \in 1 .. (n + m) : Of(i) # {})
        <=> (\A i \in 1 .. n : Of(i) # {}) /\ (\A i \in 1 .. m : Of(n + i) # {})
  <2>1. ASSUME \A i \in 1 .. n : Of(i) # {}, \A i \in 1 .. m : Of(n + i) # {},
               NEW i \in 1 .. (n + m)
        PROVE  Of(i) # {}
    <3>1. CASE i <= n
      BY <1>1, <2>1, <3>1
    <3>2. CASE i > n
      <4>1. i - n \in 1 .. m /\ n + (i - n) = i
        BY <1>1, <3>2
      <4>2. QED
        BY <2>1, <4>1
    <3>3. QED
      BY <1>1, <3>1, <3>2
  <2>2. /\ \A i \in 1 .. n : i \in 1 .. (n + m)
        /\ \A i \in 1 .. m : n + i \in 1 .. (n + m)
    BY <1>1
  <2>3. QED
    BY <2>1, <2>2
<1>6. HasRow(s, on, uris)
        <=> /\ \A i \in 1 .. n : ConstraintProv(s, Constraints[i], on, uris) # {}
            /\ \A i \in 1 .. m : Projected(s, Projections[i], on, uris) # {}
  BY <1>1, <1>2 DEF HasRow, Answers
<1>7. QED
  BY <1>1, <1>4, <1>5, <1>6 DEF Of, LineQuads

\* The values of a row, without the set that is never filled, are those of the
\* dataset, and all the row has.
LEMMA RowValues ==
  ASSUME QueryInv, stage # "idle", Star(file), NEW s \in KEY_ID,
         NEW on \in BOOLEAN, NEW uris
  PROVE  /\ SubSeq(ResultsOf(s, on, uris), 1, Len(file.projections))
              = RowOf(Seen(on, uris), file, s).values
         /\ UNION Range(ResultsOf(s, on, uris))
              = UNION Range(RowOf(Seen(on, uris), file, s).values)
<1> DEFINE n == Len(file.constrains)
           m == Len(file.projections)
           values == RowOf(Seen(on, uris), file, s).values
           found == ResultsOf(s, on, uris)
<1>1. /\ m \in Nat /\ Len(Projections) = m /\ DOMAIN Projections = 1 .. m
      /\ DOMAIN file.projections = 1 .. m
      /\ \A i \in 1 .. m : QueryLines[n + i] = file.projections[i]
  BY LinesByPosition
<1>2. \A i \in 1 .. m : ObjectsProjected(s, Projections[i], on, uris)
                          = LineObjects(s, n + i, on, uris)
  BY LookupsByLine
<1>3. values = [i \in 1 .. m |->
                  {q.object : q \in Matching(Seen(on, uris), s, file.projections[i])}]
  BY <1>1 DEF RowOf
<1>4. values = [i \in 1 .. m |-> ObjectsProjected(s, Projections[i], on, uris)]
  BY <1>1, <1>2, <1>3 DEF LineObjects, LineQuads
<1>5. found = [i \in 1 .. (m + 1) |->
                 IF i \in 1 .. m THEN ObjectsProjected(s, Projections[i], on, uris) ELSE {}]
  BY <1>1 DEF ResultsOf, RowResults, ObjectsProjected
<1> HIDE DEF n, m, values, found
<1>6. /\ DOMAIN found = 1 .. (m + 1) /\ DOMAIN values = 1 .. m
      /\ \A i \in 1 .. m : found[i] = values[i]
      /\ found[m + 1] = {}
  BY <1>1, <1>4, <1>5
<1>7. SubSeq(found, 1, m) = values
  <2>1. SubSeq(found, 1, m) = [i \in 1 .. m |-> found[i]]
    BY <1>1, <1>5
  <2>2. QED
    BY <1>1, <1>4, <1>6, <2>1
<1>8. UNION Range(found) = UNION Range(values)
  <2>1. \A x : (\E i \in 1 .. (m + 1) : x \in found[i]) <=> (\E i \in 1 .. m : x \in values[i])
    BY <1>1, <1>6
  <2>2. QED
    BY <1>6, <2>1 DEF Range
<1>9. QED
  BY <1>7, <1>8 DEF m, values, found

\* The provenance of a row names, line by line, the contexts of the quads that
\* match.
LEMMA RowProvs ==
  ASSUME QueryInv, stage # "idle", Star(file), NEW s \in KEY_ID,
         NEW on \in BOOLEAN, NEW uris
  PROVE  ProvOf(s, on, uris) = RowOf(Seen(on, uris), file, s).provs
<1> DEFINE n == Len(file.constrains)
           m == Len(file.projections)
           quads == Seen(on, uris)
           ByConstraint == [i \in DOMAIN Constraints |->
                              ConstraintProv(s, Constraints[i], on, uris)]
           ByProjection == [i \in DOMAIN Projections |->
                              ContextsProjected(s, Projections[i], on, uris)]
<1>1. /\ n \in Nat /\ m \in Nat /\ DOMAIN QueryLines = 1 .. (n + m)
      /\ DOMAIN Constraints = 1 .. n /\ DOMAIN Projections = 1 .. m
  BY LinesByPosition
<1>2. /\ \A i \in 1 .. n : ConstraintProv(s, Constraints[i], on, uris)
                             = LineContexts(s, i, on, uris)
      /\ \A i \in 1 .. m : ContextsProjected(s, Projections[i], on, uris)
                             = LineContexts(s, n + i, on, uris)
  BY LookupsByLine
<1>3. RowOf(quads, file, s).provs = [i \in 1 .. (n + m) |-> LineContexts(s, i, on, uris)]
  BY <1>1 DEF RowOf, QueryLines, LineContexts, LineQuads
<1>4. ProvOf(s, on, uris) = ByConstraint \o ByProjection
  BY DEF ProvOf, RowProv, ContextsProjected
<1>5. PICK a, b : a = ByConstraint /\ b = ByProjection
  OBVIOUS
<1> HIDE DEF n, m
<1>6. /\ a = [i \in 1 .. n |-> LineContexts(s, i, on, uris)]
      /\ b = [i \in 1 .. m |-> LineContexts(s, n + i, on, uris)]
  BY <1>1, <1>2, <1>5
<1>7. PICK S : \A i \in Nat : LineContexts(s, i, on, uris) \in S
  <2>1. WITNESS {LineContexts(s, i, on, uris) : i \in Nat}
  <2>2. QED
    OBVIOUS
<1>8. /\ a \in Seq(S) /\ b \in Seq(S) /\ Len(a) = n /\ Len(b) = m
  BY <1>1, <1>6, <1>7
<1>9. a \o b = [i \in 1 .. (n + m) |-> LineContexts(s, i, on, uris)]
  <2>1. a \o b \in Seq(S) /\ Len(a \o b) = n + m
    BY <1>8
  <2>2. ASSUME NEW i \in 1 .. (n + m)
        PROVE  (a \o b)[i] = LineContexts(s, i, on, uris)
    <3>1. (a \o b)[i] = IF i <= n THEN a[i] ELSE b[i - n]
      BY <1>1, <1>8
    <3>2. CASE i <= n
      BY <1>1, <1>6, <3>1, <3>2
    <3>3. CASE ~ i <= n
      <4>1. i - n \in 1 .. m /\ n + (i - n) = i
        BY <1>1, <3>3
      <4>2. QED
        BY <1>6, <3>1, <3>3, <4>1
    <3>4. QED
      BY <3>2, <3>3
  <2>3. PICK c \in Seq(S) : c = a \o b
    BY <2>1
  <2>4. Len(c) = n + m /\ \A i \in 1 .. (n + m) : c[i] = LineContexts(s, i, on, uris)
    BY <2>1, <2>2, <2>3
  <2>5. c = [i \in 1 .. (n + m) |-> c[i]]
    BY <2>4
  <2>6. QED
    BY <2>3, <2>4, <2>5
<1>10. QED
  BY <1>3, <1>4, <1>5, <1>9

\* The first line of a star query: where TriplePatern takes its candidates from.
LEMMA FirstLine ==
  ASSUME QueryInv, stage # "idle", Star(file)
  PROVE  /\ 1 \in DOMAIN QueryLines
         /\ file.constrains = <<>> =>
              /\ Constraints = <<>>
              /\ Projections[1].subject = Get(QueryLines[1].subject)
         /\ file.constrains # <<>> =>
              /\ Constraints # <<>>
              /\ Constraints[1].subject = Get(QueryLines[1].subject)
              /\ Constraints[1].object = Get(QueryLines[1].object)
              /\ Constraints[1].object # Wild
              /\ QueryLines[1].object \in Term \ Variables
<1> DEFINE n == Len(file.constrains)
           m == Len(file.projections)
<1>1. /\ n \in Nat /\ m \in Nat /\ n + m > 0 /\ DOMAIN QueryLines = 1 .. (n + m)
      /\ DOMAIN file.constrains = 1 .. n /\ DOMAIN file.projections = 1 .. m
      /\ DOMAIN Constraints = 1 .. n
      /\ \A i \in 1 .. n : file.constrains[i] \in Line /\ QueryLines[i] = file.constrains[i]
      /\ \A i \in 1 .. m : QueryLines[n + i] = file.projections[i]
  BY LinesByPosition
<1>2. file.constrains \in Seq(Line) /\ file.projections \in Seq(Line)
  BY FileLines DEF QueryInv
<1>3. file.constrains = <<>> <=> n = 0
  BY <1>2
<1>4. /\ \A i \in 1 .. n : /\ Constraints[i].subject = Get(file.constrains[i].subject)
                           /\ Constraints[i].object = Get(file.constrains[i].object)
                           /\ Constraints[i].object # Wild
      /\ \A i \in 1 .. m : Projections[i].subject = Get(file.projections[i].subject)
  BY <1>2, ParsedLines DEF Constraints, Projections
<1>5. \A i \in 1 .. n : file.constrains[i].object \notin Variables
  BY <1>1, StarLines
<1>6. CASE n = 0
  <2>1. /\ 1 \in 1 .. m /\ n + 1 = 1
    BY <1>1, <1>6
  <2>2. QueryLines[1] = file.projections[1]
    <3> HIDE DEF n, m
    <3>1. QueryLines[n + 1] = file.projections[1]
      BY <1>1, <2>1
    <3>2. QED
      BY <2>1, <3>1
  <2>3. Projections[1].subject = Get(QueryLines[1].subject)
    BY <1>4, <2>1, <2>2
  <2>4. Constraints = <<>>
    BY <1>2, <1>3, <1>6 DEF Constraints, Parse
  <2>5. QED
    BY <1>1, <1>3, <1>6, <2>3, <2>4
<1>7. CASE n # 0
  <2>1. 1 \in 1 .. n /\ 1 \in 1 .. (n + m)
    <3> HIDE DEF n, m
    <3>1. QED
      BY <1>1, <1>7
  <2>2. QueryLines[1] = file.constrains[1] /\ file.constrains[1].object \in Term
    BY <1>1, <2>1 DEF Line
  <2>3. Constraints # <<>>
    BY <1>1, <2>1
  <2>4. QED
    BY <1>1, <1>3, <1>4, <1>5, <1>7, <2>1, <2>2, <2>3
<1>8. QED
  BY <1>6, <1>7

\* The molecules that are visited and give a row are those of the subjects
\* every line of the query matches: the candidates, taken from the subject or
\* from the object of the first line, miss none.
LEMMA RowsAreSubjects ==
  ASSUME QueryInv, stage # "idle", Star(file), NEW s \in KEY_ID,
         NEW on \in BOOLEAN, NEW uris
  PROVE  s \in ToVisit /\ HasRow(s, on, uris) <=> s \in Subjects(Seen(on, uris), file)
<1> DEFINE subj == QueryLines[1].subject
<1>1. StoreInv /\ phase = "loaded"
  BY DEF QueryInv, QueryTypeOK
<1>2. subj \in KEY_ID \union Variables /\ (subj \in KEY_ID => subj \notin Variables)
  BY StarLines, TermAssumption DEF Term
<1>3. HasRow(s, on, uris)
        <=> \A i \in DOMAIN QueryLines : Matching(Seen(on, uris), s, QueryLines[i]) # {}
  BY HasRowIffMatches
<1>4. s \in Subjects(Seen(on, uris), file)
        <=> (subj \in Variables \/ s = subj) /\ HasRow(s, on, uris)
  BY <1>3 DEF Subjects, QueryLines
<1>5. SUFFICES ASSUME HasRow(s, on, uris)
               PROVE  s \in ToVisit <=> subj \in Variables \/ s = subj
  BY <1>4
<1>6. 1 \in DOMAIN QueryLines
  BY FirstLine
<1>7. PICK q \in StoredQuads : /\ q.subject = s
                               /\ \/ QueryLines[1].object \in Variables
                                  \/ q.object = QueryLines[1].object
  BY <1>3, <1>5, <1>6 DEF Matching, Seen
<1>8. s \in GetPair(s) /\ s \in GetMoleculesFromInvertedIdx(q.object)
  BY <1>1, <1>7, SubjectsAreFound
<1>9. q.object \in KEY_ID /\ 0 \notin KEY_ID
  BY <1>1, StoredAreKept, KeyAssumption DEF TripleIDs
<1>10. CASE subj \in KEY_ID
  <2>1. Get(subj) = subj /\ subj # 0
    BY <1>9, <1>10, GetOfTerm DEF Term
  <2>2. ToVisit = GetPair(subj)
    <3>1. CASE file.constrains = <<>>
      BY <2>1, <3>1, FirstLine DEF ToVisit, Candidates
    <3>2. CASE file.constrains # <<>>
      BY <2>1, <3>2, FirstLine DEF ToVisit, Candidates
    <3>3. QED
      BY <3>1, <3>2
  <2>3. QED
    BY <1>2, <1>8, <1>10, <2>2 DEF GetPair
<1>11. CASE subj \in Variables
  <2>1. file.constrains # <<>> /\ Get(subj) = 0
    BY <1>2, <1>11, StarLines, GetOfTerm DEF Term
  <2>2. /\ Constraints # <<>> /\ Constraints[1].subject = 0
        /\ Constraints[1].object = Get(QueryLines[1].object)
        /\ Constraints[1].object # Wild
        /\ QueryLines[1].object \in Term \ Variables
    BY <2>1, FirstLine
  <2>3. Get(QueryLines[1].object) = q.object
    BY <1>7, <1>9, <2>2, GetOfTerm
  <2>4. ToVisit = GetMoleculesFromInvertedIdx(q.object)
    BY <2>2, <2>3 DEF ToVisit, Candidates
  <2>5. QED
    BY <1>8, <1>11, <2>4
<1>12. QED
  BY <1>2, <1>10, <1>11
------------------------------------------------------------------------------
(***************************************************************************)
(* The theorems.                                                           *)
(***************************************************************************)

\* What a row holds, whatever the query: objects of quads the trigger lets
\* through, and contexts of such quads.
LEMMA RowIsSeen ==
  ASSUME QueryInv, stage # "idle", NEW s \in KEY_ID, NEW on \in BOOLEAN, NEW uris
  PROVE  /\ UNION Range(ResultsOf(s, on, uris)) \subseteq {q.object : q \in Seen(on, uris)}
         /\ UNION Range(ProvOf(s, on, uris)) \subseteq {q.prov : q \in Seen(on, uris)}
<1> DEFINE n == Len(file.constrains)
           m == Len(file.projections)
<1>1. StoreInv
  BY DEF QueryInv
<1>2. /\ n \in Nat /\ m \in Nat /\ Len(Projections) = m
      /\ DOMAIN Constraints = 1 .. n /\ DOMAIN Projections = 1 .. m
  BY LinesByPosition
<1>3. /\ \A i \in 1 .. n : Constraints[i].predicate # Wild
      /\ \A i \in 1 .. m : Projections[i].predicate # Wild
  BY FileLines, ParsedLines DEF QueryInv, Constraints, Projections
<1> HIDE DEF n, m
<1>4. \A p, o : MatchingQuads(s, p, o, on, uris) \subseteq Seen(on, uris)
  BY DEF MatchingQuads, Seen
<1>5. \A c : c.predicate # Wild =>
        ConstraintProv(s, c, on, uris) \subseteq {q.prov : q \in Seen(on, uris)}
  <2> SUFFICES ASSUME NEW c, c.predicate # Wild
               PROVE  ConstraintProv(s, c, on, uris) \subseteq {q.prov : q \in Seen(on, uris)}
    OBVIOUS
  <2>1. ConstraintProv(s, c, on, uris)
          = {q.prov : q \in MatchingQuads(s, c.predicate, c.object, on, uris)}
    BY <1>1, ConstraintQuads
  <2>2. QED
    BY <1>4, <2>1
<1>6. \A p : p.predicate # Wild =>
        /\ ObjectsProjected(s, p, on, uris) \subseteq {q.object : q \in Seen(on, uris)}
        /\ ContextsProjected(s, p, on, uris) \subseteq {q.prov : q \in Seen(on, uris)}
  <2> SUFFICES ASSUME NEW p, p.predicate # Wild
               PROVE  /\ ObjectsProjected(s, p, on, uris) \subseteq {q.object : q \in Seen(on, uris)}
                      /\ ContextsProjected(s, p, on, uris) \subseteq {q.prov : q \in Seen(on, uris)}
    OBVIOUS
  <2>1. /\ ObjectsProjected(s, p, on, uris)
             = {q.object : q \in MatchingQuads(s, p.predicate, Wild, on, uris)}
        /\ ContextsProjected(s, p, on, uris)
             = {q.prov : q \in MatchingQuads(s, p.predicate, Wild, on, uris)}
    BY <1>1, ProjectedQuads
  <2>2. QED
    BY <1>4, <2>1
<1>7. UNION Range(ResultsOf(s, on, uris)) \subseteq {q.object : q \in Seen(on, uris)}
  <2>1. ResultsOf(s, on, uris)
          = [i \in 1 .. (m + 1) |->
               IF i \in 1 .. m THEN ObjectsProjected(s, Projections[i], on, uris) ELSE {}]
    BY <1>2 DEF ResultsOf, RowResults, ObjectsProjected
  <2>2. ASSUME NEW i \in 1 .. (m + 1)
        PROVE  ResultsOf(s, on, uris)[i] \subseteq {q.object : q \in Seen(on, uris)}
    BY <1>3, <1>6, <2>1
  <2>3. DOMAIN ResultsOf(s, on, uris) = 1 .. (m + 1)
    BY <2>1
  <2>4. QED
    BY <2>2, <2>3 DEF Range
<1>8. UNION Range(ProvOf(s, on, uris)) \subseteq {q.prov : q \in Seen(on, uris)}
  <2> DEFINE contexts == {q.prov : q \in Seen(on, uris)}
  <2>1. PICK a, b : /\ a = [i \in 1 .. n |-> ConstraintProv(s, Constraints[i], on, uris)]
                    /\ b = [i \in 1 .. m |-> ContextsProjected(s, Projections[i], on, uris)]
    OBVIOUS
  <2>2. ProvOf(s, on, uris) = a \o b
    BY <1>2, <2>1 DEF ProvOf, RowProv, ContextsProjected
  <2>3. \A i \in 1 .. n : ConstraintProv(s, Constraints[i], on, uris) \subseteq contexts
    BY <1>3, <1>5
  <2>4. \A i \in 1 .. m : ContextsProjected(s, Projections[i], on, uris) \subseteq contexts
    BY <1>3, <1>6
  <2> HIDE DEF contexts
  <2>5. a \in Seq(SUBSET contexts) /\ b \in Seq(SUBSET contexts)
    BY <1>2, <2>1, <2>3, <2>4
  <2>6. a \o b \in Seq(SUBSET contexts)
    BY <2>5
  <2>7. UNION Range(a \o b) \subseteq contexts
    BY <2>6 DEF Range
  <2>8. QED
    BY <2>2, <2>7 DEF contexts
<1>9. QED
  BY <1>7, <1>8

\* Once the trigger is on, a query of any form shows no value that only lines
\* of other contexts have, and names no context outside ProvUris: what the
\* filter in GetEntity and CheckIfEntityExists lets through, over the store
\* the load has left.
THEOREM NothingComesFromOutside == Spec => []NothingFromOutside
<1>1. QueryInv => NothingFromOutside
  <2> SUFFICES ASSUME QueryInv, stage \in {"query", "answered"}, ProvTrigerON,
                      NEW i \in DOMAIN results
               PROVE  /\ UNION Range(prov[i]) \subseteq ProvUris
                      /\ UNION Range(results[i]) \subseteq {q.object : q \in Visible}
    BY DEF NothingFromOutside
  <2>1. ProvTrigerON = TRUE
    OBVIOUS
  <2>2. phase = "loaded" /\ stage # "idle"
    BY DEF QueryInv, QueryTypeOK
  <2>3. PICK order \in [DOMAIN results -> KEY_ID] : RowsFrom(order, ProvTrigerON, ProvUris)
    BY DEF QueryInv, StagesInv, Rowed
  <2>4. /\ order[i] \in KEY_ID
        /\ results[i] = ResultsOf(order[i], ProvTrigerON, ProvUris)
        /\ prov[i] = ProvOf(order[i], ProvTrigerON, ProvUris)
    BY <2>3 DEF RowsFrom
  <2>5. Visible = Seen(ProvTrigerON, ProvUris)
    BY <2>2, StoredAreKept
  <2>6. /\ UNION Range(results[i]) \subseteq {q.object : q \in Seen(ProvTrigerON, ProvUris)}
        /\ UNION Range(prov[i]) \subseteq {q.prov : q \in Seen(ProvTrigerON, ProvUris)}
    BY <2>1, <2>2, <2>4, RowIsSeen
  <2>7. {q.prov : q \in Seen(ProvTrigerON, ProvUris)} \subseteq ProvUris
    BY <2>1 DEF Seen
  <2>8. QED
    BY <2>5, <2>6, <2>7
<1>2. QED
  BY <1>1, QueryInvariant, PTL

\* When a star query has visited its molecules, its rows are those of the
\* subjects the dataset has for it, each subject once.
LEMMA RowsBySubject ==
  ASSUME QueryInv, stage \in {"filtered", "answered"}, Star(file),
         NEW on \in BOOLEAN, NEW uris, Rowed(on, uris)
  PROVE  \E order \in [DOMAIN results -> Subjects(Seen(on, uris), file)] :
           /\ \A i, j \in DOMAIN results : order[i] = order[j] => i = j
           /\ \A s \in Subjects(Seen(on, uris), file) : \E i \in DOMAIN results : order[i] = s
           /\ \A i \in DOMAIN results :
                /\ UNION Range(results[i])
                     = UNION Range(RowOf(Seen(on, uris), file, order[i]).values)
                /\ Rows[i] = RowOf(Seen(on, uris), file, order[i])
<1> DEFINE subjects == Subjects(Seen(on, uris), file)
<1>1. stage # "idle" /\ todo = {}
  BY DEF QueryInv, StagesInv
<1>2. PICK order \in [DOMAIN results -> KEY_ID] : RowsFrom(order, on, uris)
  BY DEF Rowed
<1>3. /\ \A i, j \in DOMAIN results : order[i] = order[j] => i = j
      /\ \A s \in KEY_ID : (\E i \in DOMAIN results : order[i] = s)
                             <=> s \in ToVisit /\ HasRow(s, on, uris)
      /\ \A i \in DOMAIN results : /\ results[i] = ResultsOf(order[i], on, uris)
                                   /\ prov[i] = ProvOf(order[i], on, uris)
  BY <1>1, <1>2 DEF RowsFrom
<1>4. \A s \in KEY_ID : s \in ToVisit /\ HasRow(s, on, uris) <=> s \in subjects
  BY <1>1, RowsAreSubjects
<1>5. subjects \subseteq KEY_ID
  BY DEF Subjects
<1>6. \A i \in DOMAIN results : order[i] \in subjects
  <2> HIDE DEF subjects
  <2>1. QED
    BY <1>2, <1>3, <1>4
<1>7. \A s \in subjects : \E i \in DOMAIN results : order[i] = s
  <2> HIDE DEF subjects
  <2>1. QED
    BY <1>3, <1>4, <1>5
<1>8. ASSUME NEW i \in DOMAIN results
      PROVE  /\ UNION Range(results[i])
                  = UNION Range(RowOf(Seen(on, uris), file, order[i]).values)
             /\ Rows[i] = RowOf(Seen(on, uris), file, order[i])
  <2> DEFINE row == RowOf(Seen(on, uris), file, order[i])
  <2>1. /\ SubSeq(results[i], 1, Len(file.projections)) = row.values
        /\ UNION Range(results[i]) = UNION Range(row.values)
    BY <1>1, <1>2, <1>3, <1>8, RowValues
  <2>2. prov[i] = row.provs
    BY <1>1, <1>2, <1>3, <1>8, RowProvs
  <2>3. row = [values |-> row.values, provs |-> row.provs]
    BY DEF RowOf
  <2>4. Rows[i] = [values |-> SubSeq(results[i], 1, Len(file.projections)), provs |-> prov[i]]
    BY <1>8 DEF Rows
  <2> HIDE DEF row
  <2>5. Rows[i] = row
    BY <2>1, <2>2, <2>3, <2>4
  <2>6. QED
    BY <2>1, <2>5 DEF row
<1>9. order \in [DOMAIN results -> subjects]
  BY <1>2, <1>6
<1>10. QED
  BY <1>3, <1>7, <1>8, <1>9

\* A subject all lines of the query match has a value, an identifier, for every
\* projection.
LEMMA EveryProjectionHasValues ==
  ASSUME QueryInv, stage # "idle", Star(file), NEW s \in Subjects(Kept, file)
  PROVE  LET values == RowOf(Kept, file, s).values
         IN  /\ DOMAIN values = DOMAIN file.projections
             /\ \A i \in DOMAIN file.projections :
                  /\ values[i] # {} /\ values[i] \subseteq KEY_ID
                  /\ values[i] = ValuesOfLine(Kept, file, s, i)
<1> DEFINE n == Len(file.constrains)
           values == RowOf(Kept, file, s).values
<1>1. Kept \subseteq TripleIDs
  BY StoredAreKept DEF QueryInv, QueryTypeOK
<1>2. /\ DOMAIN values = DOMAIN file.projections
      /\ \A i \in DOMAIN file.projections :
           values[i] = {q.object : q \in Matching(Kept, s, file.projections[i])}
  BY DEF RowOf
<1>3. ASSUME NEW i \in DOMAIN file.projections
      PROVE  Matching(Kept, s, file.projections[i]) # {}
  <2>1. \A k \in DOMAIN QueryLines : Matching(Kept, s, QueryLines[k]) # {}
    BY DEF Subjects, QueryLines
  <2>2. n + i \in DOMAIN QueryLines /\ QueryLines[n + i] = file.projections[i]
    <3>1. /\ n \in Nat /\ Len(file.projections) \in Nat
          /\ i \in 1 .. Len(file.projections)
          /\ DOMAIN QueryLines = 1 .. (n + Len(file.projections))
          /\ QueryLines[n + i] = file.projections[i]
      BY LinesByPosition
    <3> HIDE DEF n
    <3>2. QED
      BY <3>1
  <2>3. QED
    BY <2>1, <2>2
<1>4. \A line : {q.object : q \in Matching(Kept, s, line)} \subseteq KEY_ID
  BY <1>1 DEF Matching, TripleIDs
<1>5. \A i \in DOMAIN file.projections : values[i] # {} /\ values[i] \subseteq KEY_ID
  BY <1>2, <1>3, <1>4
<1>6. QED
  BY <1>2, <1>5 DEF ValuesOfLine

\* What the solutions have are values of projections, and all there are if no
\* name is used twice.
LEMMA NamesAndProjections ==
  ASSUME QueryInv, stage # "idle", Star(file)
  PROVE  LET found == UNION {UNION Range(RowOf(Kept, file, s).values) :
                               s \in Subjects(Kept, file)}
         IN  /\ Reference(Kept, file) \subseteq found
             /\ NamesDiffer(file) => found = Reference(Kept, file)
<1> DEFINE found == UNION {UNION Range(RowOf(Kept, file, s).values) : s \in Subjects(Kept, file)}
           name(i) == file.projections[i].object
           value(s, i) == ValuesOfLine(Kept, file, s, i)
<1>1. \A o : o \in found <=> \E s \in Subjects(Kept, file), i \in DOMAIN file.projections :
                               o \in value(s, i)
  BY EveryProjectionHasValues DEF Range
<1>2. ASSUME NEW o \in Reference(Kept, file)
      PROVE  o \in found
  <2>1. PICK s \in Solving(Kept, file), x \in Asked(file) : o \in ValuesOfName(Kept, file, s, x)
    BY DEF Reference
  <2>2. PICK i \in DOMAIN file.projections : name(i) = x
    BY <2>1 DEF Asked
  <2>3. o \in value(s, i) /\ s \in Subjects(Kept, file)
    BY <2>1, <2>2 DEF ValuesOfName, Solving
  <2>4. QED
    BY <1>1, <2>3
<1>3. ASSUME NamesDiffer(file), NEW o \in found
      PROVE  o \in Reference(Kept, file)
  <2>1. PICK s \in Subjects(Kept, file), i \in DOMAIN file.projections : o \in value(s, i)
    BY <1>1
  <2>2. ASSUME NEW k \in DOMAIN file.projections
        PROVE  ValuesOfName(Kept, file, s, name(k)) = value(s, k)
    <3>1. value(s, k) \subseteq KEY_ID
      BY <2>1, EveryProjectionHasValues
    <3>2. name(k) \in Asked(file)
      BY DEF Asked
    <3>3. name(k) # (file.constrains \o file.projections)[1].subject
      BY <1>3, <3>2 DEF NamesDiffer
    <3>4. \A j \in DOMAIN file.projections : name(j) = name(k) => j = k
      BY <1>3 DEF NamesDiffer
    <3> DEFINE first == (file.constrains \o file.projections)[1].subject
    <3> HIDE DEF first
    <3>5. ValuesOfName(Kept, file, s, name(k))
            = {v \in KEY_ID : /\ \A j \in DOMAIN file.projections :
                                   name(j) = name(k) => v \in value(s, j)
                              /\ name(k) = first => v = s}
      BY DEF ValuesOfName, first
    <3>6. name(k) # first
      BY <3>3 DEF first
    <3> HIDE DEF name, value
    <3>7. QED
      BY <3>1, <3>4, <3>5, <3>6
  <2>3. s \in Solving(Kept, file)
    <3>1. \A k \in DOMAIN file.projections : value(s, k) # {}
      BY <2>1, EveryProjectionHasValues
    <3>2. \A x \in Asked(file) : ValuesOfName(Kept, file, s, x) # {}
      BY <2>2, <3>1 DEF Asked
    <3>3. QED
      BY <2>1, <3>2 DEF Solving
  <2>4. name(i) \in Asked(file) /\ o \in ValuesOfName(Kept, file, s, name(i))
    BY <2>1, <2>2 DEF Asked
  <2>5. QED
    BY <2>3, <2>4 DEF Reference
<1>4. QED
  BY <1>2, <1>3

\* What becomes ProvUris is what the solutions of a star provenance query have in
\* the whole dataset, if it uses no name twice, and otherwise not less:
\* SetProvenance takes all of every row, and the rows are all there are.
THEOREM ProvUrisComeFromDataset == Spec => []ProvUrisAreReference
<1>1. QueryInv => ProvUrisAreReference
  <2> DEFINE subjects == Subjects(Kept, file)
             UrisOf(s) == UNION Range(RowOf(Kept, file, s).values)
             found == UNION {UrisOf(s) : s \in subjects}
  <2> SUFFICES ASSUME QueryInv, stage = "filtered", Star(file)
               PROVE  /\ Reference(Kept, file) \subseteq ProvUris
                      /\ ProvUris \subseteq found
                      /\ NamesDiffer(file) => ProvUris = Reference(Kept, file)
    BY DEF ProvUrisAreReference
  <2>1. phase = "loaded"
    BY DEF QueryInv, QueryTypeOK
  <2>2. Kept = Seen(FALSE, {})
    BY <2>1, StoredAreKept
  <2>3. /\ Rowed(FALSE, {})
        /\ ProvUris = UNION {UNION Range(results[i]) : i \in DOMAIN results}
    BY DEF QueryInv, StagesInv
  <2>4. PICK order \in [DOMAIN results -> subjects] :
          /\ \A s \in subjects : \E i \in DOMAIN results : order[i] = s
          /\ \A i \in DOMAIN results : UNION Range(results[i]) = UrisOf(order[i])
    <3>1. PICK on, uris : on = FALSE /\ uris = {}
      OBVIOUS
    <3>2. on \in BOOLEAN /\ Kept = Seen(on, uris) /\ Rowed(on, uris)
      BY <2>2, <2>3, <3>1
    <3>3. QED
      BY <3>2, RowsBySubject
  <2>5. /\ Reference(Kept, file) \subseteq found
        /\ NamesDiffer(file) => found = Reference(Kept, file)
    BY NamesAndProjections
  <2>6. ProvUris = found
    <3> HIDE DEF subjects, UrisOf
    <3>1. \A i \in DOMAIN results : order[i] \in subjects
      BY <2>4
    <3>2. {UNION Range(results[i]) : i \in DOMAIN results} \subseteq {UrisOf(s) : s \in subjects}
      BY <2>4, <3>1
    <3>3. {UrisOf(s) : s \in subjects} \subseteq {UNION Range(results[i]) : i \in DOMAIN results}
      <4>1. ASSUME NEW s \in subjects
            PROVE  \E i \in DOMAIN results : UNION Range(results[i]) = UrisOf(s)
        BY <2>4
      <4>2. QED
        BY <4>1
    <3>4. QED
      BY <2>3, <3>2, <3>3
  <2> HIDE DEF found
  <2>7. QED
    BY <2>5, <2>6
<1>2. QED
  BY <1>1, QueryInvariant, PTL

\* A star query answers every subject all of its lines match, once, with the
\* values and the contexts the dataset has for it: neither the candidates that
\* TriplePatern takes from one line, nor the templates it reads the molecules
\* with, nor the order of its loop lose a row, add one or change one.
THEOREM AnswerComesFromDataset == Spec => []AnswerIsReference
<1>1. QueryInv => AnswerIsReference
  <2> DEFINE subjects == Subjects(Visible, file)
             Row(s) == RowOf(Visible, file, s)
  <2> SUFFICES ASSUME QueryInv, stage = "answered", Star(file), NEW r
               PROVE  Cardinality({i \in DOMAIN Rows : Rows[i] = r})
                        = Cardinality({s \in subjects : Row(s) = r})
    BY DEF AnswerIsReference
  <2>1. phase = "loaded" /\ ProvTrigerON \in BOOLEAN
    BY DEF QueryInv, QueryTypeOK
  <2>2. Visible = Seen(ProvTrigerON, ProvUris)
    BY <2>1, StoredAreKept
  <2>3. Rowed(ProvTrigerON, ProvUris)
    BY DEF QueryInv, StagesInv
  <2>4. PICK order \in [DOMAIN results -> subjects] :
          /\ \A i, j \in DOMAIN results : order[i] = order[j] => i = j
          /\ \A s \in subjects : \E i \in DOMAIN results : order[i] = s
          /\ \A i \in DOMAIN results : Rows[i] = Row(order[i])
    BY <2>1, <2>2, <2>3, RowsBySubject
  <2>5. DOMAIN Rows = DOMAIN results /\ IsFiniteSet(DOMAIN results)
    <3>1. results \in Seq(Seq(SUBSET KEY_ID))
      BY DEF QueryInv, QueryTypeOK
    <3>2. Len(results) \in Nat /\ DOMAIN results = 1 .. Len(results)
      BY <3>1
    <3>3. QED
      BY <3>2, FS_Interval DEF Rows
  <2> HIDE DEF subjects, Row
  <2> DEFINE found == {i \in DOMAIN results : Rows[i] = r}
             wanted == {s \in subjects : Row(s) = r}
             pairs == [i \in found |-> order[i]]
  <2>6. pairs \in Bijection(found, wanted)
    <3>1. pairs \in [found -> wanted]
      BY <2>4
    <3>2. \A s \in wanted : \E i \in found : pairs[i] = s
      BY <2>4
    <3>3. \A i, j \in found : pairs[i] = pairs[j] => i = j
      BY <2>4
    <3> HIDE DEF found, wanted, pairs
    <3>4. QED
      BY <3>1, <3>2, <3>3, Zenon DEF Bijection, Injection, Surjection, IsInjective
  <2>7. IsFiniteSet(found)
    BY <2>5, FS_Subset
  <2> HIDE DEF found, wanted, pairs
  <2>8. ExistsBijection(found, wanted)
    BY <2>6 DEF ExistsBijection
  <2>9. Cardinality(found) = Cardinality(wanted)
    BY <2>7, <2>8, FS_Bijection
  <2>10. QED
    BY <2>5, <2>9 DEF found, wanted
<1>2. QED
  BY <1>1, QueryInvariant, PTL

\* A row and a subject depend only on the quads each line matches.
LEMMA RowFromMatches ==
  ASSUME QueryInv, stage # "idle", NEW A, NEW B, NEW s \in KEY_ID,
         \A i \in DOMAIN QueryLines : Matching(A, s, QueryLines[i]) = Matching(B, s, QueryLines[i])
  PROVE  /\ RowOf(A, file, s) = RowOf(B, file, s)
         /\ s \in Subjects(A, file) <=> s \in Subjects(B, file)
<1> DEFINE n == Len(file.constrains)
           m == Len(file.projections)
<1>1. /\ n \in Nat /\ m \in Nat /\ DOMAIN QueryLines = 1 .. (n + m)
      /\ DOMAIN file.projections = 1 .. m
      /\ \A i \in 1 .. m : QueryLines[n + i] = file.projections[i]
  BY LinesByPosition
<1> HIDE DEF n, m
<1>2. \A i \in 1 .. m : n + i \in 1 .. (n + m)
  BY <1>1
<1>3. \A i \in 1 .. m : Matching(A, s, file.projections[i]) = Matching(B, s, file.projections[i])
  BY <1>1, <1>2
<1>4. RowOf(A, file, s) = RowOf(B, file, s)
  <2>1. [i \in DOMAIN file.projections |-> {q.object : q \in Matching(A, s, file.projections[i])}]
          = [i \in DOMAIN file.projections |-> {q.object : q \in Matching(B, s, file.projections[i])}]
    BY <1>1, <1>3
  <2>2. [i \in DOMAIN QueryLines |-> {q.prov : q \in Matching(A, s, QueryLines[i])}]
          = [i \in DOMAIN QueryLines |-> {q.prov : q \in Matching(B, s, QueryLines[i])}]
    OBVIOUS
  <2>3. QED
    BY <2>1, <2>2 DEF RowOf, QueryLines
<1>5. s \in Subjects(A, file) <=> s \in Subjects(B, file)
  BY DEF Subjects, QueryLines
<1>6. QED
  BY <1>4, <1>5

\* The lines of the contexts a row names are enough to get that row: what the
\* provenance of TriplePatern records for a row is a witness of all of it.
THEOREM ProvenanceIsEnough == Spec => []ProvenanceSuffices
<1>1. QueryInv => ProvenanceSuffices
  <2> DEFINE subjects == Subjects(Visible, file)
             contexts(i) == UNION Range(prov[i])
             used(i) == {q \in Kept : q.prov \in contexts(i)}
  <2> SUFFICES ASSUME QueryInv, stage = "answered", Star(file), NEW i \in DOMAIN Rows
               PROVE  \E s \in Subjects(used(i), file) : RowOf(used(i), file, s) = Rows[i]
    BY DEF ProvenanceSuffices
  <2>1. phase = "loaded" /\ ProvTrigerON \in BOOLEAN
    BY DEF QueryInv, QueryTypeOK
  <2>2. Visible = Seen(ProvTrigerON, ProvUris)
    BY <2>1, StoredAreKept
  <2>3. Rowed(ProvTrigerON, ProvUris)
    BY DEF QueryInv, StagesInv
  <2>4. PICK order \in [DOMAIN results -> subjects] :
          \A j \in DOMAIN results : Rows[j] = RowOf(Visible, file, order[j])
    BY <2>1, <2>2, <2>3, RowsBySubject
  <2>5. i \in DOMAIN results /\ prov[i] = Rows[i].provs
    BY DEF Rows
  <2>6. PICK s \in subjects : Rows[i] = RowOf(Visible, file, s)
    BY <2>4, <2>5
  <2>7. s \in KEY_ID
    BY <2>6 DEF Subjects
  <2>8. /\ DOMAIN prov[i] = DOMAIN QueryLines
        /\ \A j \in DOMAIN QueryLines :
             prov[i][j] = {q.prov : q \in Matching(Visible, s, QueryLines[j])}
    <3>1. RowOf(Visible, file, s).provs
            = [j \in DOMAIN QueryLines |-> {q.prov : q \in Matching(Visible, s, QueryLines[j])}]
      BY DEF RowOf, QueryLines
    <3>2. PICK provs : provs = RowOf(Visible, file, s).provs
      OBVIOUS
    <3>3. prov[i] = provs
      BY <2>5, <2>6, <3>2
    <3>4. QED
      BY <3>1, <3>2, <3>3
  <2>9. \A x : x \in contexts(i) <=>
          \E j \in DOMAIN QueryLines : \E q \in Matching(Visible, s, QueryLines[j]) : x = q.prov
    BY <2>8 DEF Range
  <2> HIDE DEF contexts, subjects
  <2>10. /\ Visible \subseteq Kept
         /\ \A q \in Kept : q \in Visible <=> (ProvTrigerON => q.prov \in ProvUris)
    BY DEF Visible, Kept
  <2>11. \A x \in contexts(i) : ProvTrigerON => x \in ProvUris
    BY <2>9, <2>10 DEF Matching
  <2>12. \A j \in DOMAIN QueryLines :
           Matching(used(i), s, QueryLines[j]) = Matching(Visible, s, QueryLines[j])
    <3>1. ASSUME NEW j \in DOMAIN QueryLines, NEW q
          PROVE  q \in Matching(used(i), s, QueryLines[j])
                   <=> q \in Matching(Visible, s, QueryLines[j])
      <4>1. q \in Matching(used(i), s, QueryLines[j]) => q \in Visible
        BY <2>10, <2>11 DEF Matching
      <4>2. q \in Matching(Visible, s, QueryLines[j]) => q \in used(i)
        BY <2>9, <2>10, <3>1 DEF Matching
      <4>3. QED
        BY <4>1, <4>2 DEF Matching
    <3>2. QED
      BY <3>1
  <2>13. stage # "idle"
    OBVIOUS
  <2>14. PICK u : u = used(i)
    OBVIOUS
  <2>15. RowOf(u, file, s) = RowOf(Visible, file, s)
         /\ (s \in Subjects(u, file) <=> s \in Subjects(Visible, file))
    BY <2>7, <2>12, <2>13, <2>14, RowFromMatches
  <2>16. QED
    BY <2>6, <2>14, <2>15 DEF subjects
<1>2. QED
  BY <1>1, QueryInvariant, PTL
==============================================================================
