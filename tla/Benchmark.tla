------------------------------ MODULE Benchmark ------------------------------
(***************************************************************************)
(* The benchmark queries, BTCprov::q01 .. q10 and WDCqueries::q01 .. q07   *)
(* (here w01 .. w07), over the store LoadData leaves.  Each begins with    *)
(* look-ups of API.cpp and either answers at once or goes through a loop   *)
(* over unordered containers: todo is what the loop has not come to.       *)
(*                                                                         *)
(* No program of the repository calls them.  A caller that runs one under  *)
(* a provenance query sets the trigger and ProvUris first, as TPDemo does. *)
(*                                                                         *)
(* An answer is the tuple of values a query shows, in the order it shows   *)
(* them (of q07, the row it has found: it writes ?a again in place of ?b); *)
(* named is the set of contexts in the provenance it shows.                *)
(***************************************************************************)
EXTENDS Queries

CONSTANTS
  Queries,   \* the queries that are run
  Filters    \* the values ProvUris may have

VARIABLES
  stage,     \* "idle", "loop", "places" (second loop of q07), "done"
  query,
  ProvTrigerON,
  ProvUris,
  todo,
  found,     \* place_spouses of q07
  answers,
  named

queryVars == <<stage, query, ProvTrigerON, ProvUris, todo, found, answers, named>>
vars == <<loadVars, queryVars>>

Init ==
  /\ LoadInit
  /\ stage = "idle"
  /\ query = "none"
  /\ ProvTrigerON \in BOOLEAN
  /\ ProvUris \in Filters
  /\ ~ ProvTrigerON => ProvUris = {}
  /\ todo = {} /\ found = {} /\ answers = {} /\ named = {}

Triples(constrains, projections) ==
  TriplePatern(constrains, projections, ProvTrigerON, ProvUris)
Subjects(o, p) == GetSubjects(KM(o), KM(p), ProvTrigerON, ProvUris)

\* The rows, each after what the query shows before it.
Following(values, rows) == {values \o t : t \in ShownRows(rows)}

------------------------------------------------------------------------------
(* Queries that answer at once: one TriplePatern.                          *)

Star(constrains, selected) ==
  LET rows == Triples(constrains, [i \in DOMAIN selected |-> Wanted(selected[i])])
  IN  [answers |-> ShownRows(rows), named |-> ContextsOf(rows)]

q01 == Star(<<Mentions(KM("Eiffel Tower")), Has("inCountry", "FR")>>, <<"lat", "long">>)
q02 == Star(<<Mentions(KM("Tim Berners-Lee"))>>, <<"dateOfBirth", "placeOfBirth", "name">>)
\* Mutant of q03: only the first of its constraints.
q03Forgetful == Star(<<Has("wikilink", "List")>>, <<"title", "lat", "long">>)
q03 == Star(<<Has("wikilink", "List"), Has("wikilink", "Middle_Ages")>>,
            <<"title", "lat", "long">>)
q10 == Star(<<Has("wikilink", "List"), Maybe("wikilink", "Middle_Ages")>>,
            <<"title", "lat", "long">>)
w01 == Star(<<Mentions(KM("fortis-angelo")), Has("site_name", "PagineBianche")>>,
            <<"title", "description">>)
w02 == Star(<<Mentions(KM("fortyagency"))>>, <<"og:image", "og:description", "og:title">>)
w03 == Star(<<Has("region", "Maine"), Has("country-name", "United States")>>,
            <<"title", "latitude", "longitude">>)
w07 == Star(<<Has("region", "Maine"), Maybe("country-name", "United States")>>,
            <<"title", "latitude", "longitude">>)

(* Two of them: every value of the first becomes a constraint of the       *)
(* second, all of them together.  q04 puts a pattern nothing matches where *)
(* there is no value, w04 does not.                                        *)
MentionsAll(rows) == SetToSeq({Mentions(v) : v \in ValuesOf(rows)})

q04 ==
  LET first == Triples(<<Has("name", "Krebs, Emil")>>, <<Wanted("deathPlace")>>)
      links == IF ValuesOf(first) = {} THEN <<Wanted("")>> ELSE MentionsAll(first)
      second == Triples(links \o <<Has("featureClass", "P"), Has("inCountry", "DE")>>,
                        <<Wanted("lat"), Wanted("long")>>)
  IN  [answers |-> UNION {Following(<<l>>, second) : l \in ValuesOf(first)},
       named |-> IF second = <<>> THEN {} ELSE ContextsOf(first) \union ContextsOf(second)]

w04 ==
  LET first == Triples(<<Has("foaf:page", "lampions")>>, <<Wanted("hasBusinessFunction")>>)
      second == Triples(MentionsAll(first) \o <<Has("hasStockKeepingUnit", "DUB073")>>,
                        <<Wanted("gr:description"), Wanted("foaf:page")>>)
  IN  [answers |-> ShownRows(second), named |-> ContextsOf(first) \union ContextsOf(second)]

(* Two GetSubjects: a union.                                               *)
Union(p, o1, o2) ==
  [answers |-> {<<s>> : s \in Subjects(o1, p) \union Subjects(o2, p)},
   named |-> GetSubjectsProv(KM(o1), KM(p), ProvTrigerON, ProvUris)
               \union GetSubjectsProv(KM(o2), KM(p), ProvTrigerON, ProvUris)]
q09 == Union("foaf:name", "Samuel", "Elisabeth")
w06 == Union("og:site_name", "fosiki", "Fotogard")

AnswerOf(q) ==
  CASE q = "q01" -> q01 [] q = "q02" -> q02 [] q = "q03" -> q03 [] q = "q04" -> q04
    [] q = "q09" -> q09 [] q = "q10" -> q10 [] q = "w01" -> w01 [] q = "w02" -> w02
    [] q = "w03" -> w03 [] q = "w04" -> w04 [] q = "w06" -> w06 [] q = "w07" -> w07

RunAtOnce(q) ==
  /\ phase = "loaded"
  /\ stage = "idle"
  /\ query' = q
  /\ answers' = AnswerOf(q).answers
  /\ named' = AnswerOf(q).named
  /\ stage' = "done"
  /\ UNCHANGED <<loadVars, ProvTrigerON, ProvUris, todo, found>>
------------------------------------------------------------------------------
(* Queries with a loop.                                                    *)

Begin(q, items) ==
  /\ phase = "loaded"
  /\ stage = "idle"
  /\ query' = q
  /\ todo' = items
  /\ stage' = "loop"
  /\ UNCHANGED <<loadVars, ProvTrigerON, ProvUris, found, answers, named>>

\* What one turn of the loop on item adds, if TriplePatern found rows.
Turn(q, item, rows, shown, contexts) ==
  /\ stage = "loop"
  /\ query = q
  /\ item \in todo
  /\ todo' = todo \ {item}
  /\ IF rows = <<>>
       THEN UNCHANGED <<answers, named>>
       ELSE /\ answers' = answers \union shown
            /\ named' = named \union contexts
  /\ UNCHANGED <<loadVars, stage, query, ProvTrigerON, ProvUris, found>>

\* q05: the places of birth, then latitude and longitude of each of them.
Obama == Triples(<<Mentions(KM("Barack Obama"))>>, <<Wanted("placeOfBirth")>>)
q05Begin == Begin("q05", ValuesOf(Obama))
q05Turn(l) ==
  LET rows == Triples(<<Says(l, "lat", Wild), Says(l, "long", Wild)>>,
                      <<Says(l, "lat", 0), Says(l, "long", 0)>>)
  IN  Turn("q05", l, rows, Following(<<l>>, rows),
           ContextsOf(Obama) \union ContextsOf(rows))

\* q06: senators among the subjects of both look-ups' inverted lists.
Multimaps(o, p) == GetSubjectsMultimaps(KM(o), KM(p), ProvTrigerON, ProvUris)

Triple(f, g, a, b, c) == [a |-> a, b |-> b, c |-> c, prov |-> {f[b], g[c]}]
TriplesOf(f, g, b, c) == {Triple(f, g, a, b, c) : a \in inv_molecules[b] \intersect inv_molecules[c]}
Joined3(f, g) == UNION {TriplesOf(f, g, b, c) : b \in DOMAIN f, c \in DOMAIN g}

q06Begin ==
  \E US \in Multimaps("US", "inCountry"), Vet \in Multimaps("Veterinarian", "profession") :
    Begin("q06", Joined3(US, Vet))
\* Mutant of q06Turn: the contexts of the two look-ups are not shown.
q06TurnUnexplained(i) ==
  LET rows == Triples(<<Says(i.a, "senators", i.c), Says(i.a, "sameAs", i.b)>>,
                      <<Wanted("name")>>)
  IN  Turn("q06", i, rows, ShownRows(rows), ContextsOf(rows))

q06Turn(i) ==
  LET rows == Triples(<<Says(i.a, "senators", i.c), Says(i.a, "sameAs", i.b)>>,
                      <<Wanted("name")>>)
  IN  Turn("q06", i, rows, ShownRows(rows), i.prov \union ContextsOf(rows))

\* w05: the same join, without the inverted index of the second value.
Double(f, g, b, c) == [b |-> b, c |-> c, prov |-> {f[b], g[c]}]
Joined2(f, g) == {Double(f, g, b, c) : b \in DOMAIN f, c \in DOMAIN g}

w05Begin ==
  \E ANO \in Multimaps("Anonymous", "foaf:name"), ANN \in Multimaps("announcements", "has_container") :
    Begin("w05", Joined2(ANO, ANN))
w05Turn(i) ==
  LET rows == Triples(<<Says(0, "reply_of", i.c), Says(0, "has_creator", i.b)>>,
                      <<Wanted("date")>>)
  IN  Turn("w05", i, rows, ShownRows(rows), i.prov \union ContextsOf(rows))

\* q08: every subject of a value of the first rows, if it is of the type of
\* Paul Boateng.
Blackwater == Triples(<<Has("subject", "Blackwater")>>, <<Mentions(0)>>)
Politicians == {k \in KEY_ID : GetType(k) = GetType(KM("Paul_Boateng"))}

q08Begin ==
  Begin("q08", {i \in ValuesOf(Blackwater) \X KEY_ID : i[2] \in inv_molecules[i[1]]})
q08Turn(i) ==
  LET n == i[1]
      u == i[2]
      rows == Triples(<<Says(u, "foaf:name", n)>>, <<Wanted("years")>>)
  IN  Turn("q08", i, IF u \in Politicians THEN rows ELSE <<>>, ShownRows(rows),
           ContextsOf(Blackwater) \union ContextsOf(rows))

\* q07, first loop: actors, their spouses who are actors too, and the places
\* where both were born.  The pointer to the molecules of actor is not tested:
\* the query is for a dataset that mentions actor.
Actor(s) == SubjectProv(s, KM("actor"), KM("wikilink"), ProvTrigerON, ProvUris)
Objects(s, p) == GetObjects(s, KM(p), ProvTrigerON, ProvUris)

q07Begin ==
  /\ GetMoleculesFromInvertedIdx(KM("actor")) # {}
  /\ Begin("q07", {i \in Subjects("actor", "wikilink") \X KEY_ID :
                     i[2] \in {e.obj : e \in Objects(i[1], "spouse")}})

q07Turn(i) ==
  LET a == i[1]
      b == i[2]
      BornIn(c) == SubjectProv(b, c, KM("placeOfBirth"), ProvTrigerON, ProvUris)
      places == {e.obj : e \in Objects(a, "placeOfBirth")}
      both == IF GetPair(b) = {} \/ Actor(b) = {}
                THEN {}
                ELSE {c \in places : BornIn(c) # {}}
      contexts == Actor(a) \union Actor(b) \union (UNION {BornIn(c) : c \in both})
                    \union {e.prov : e \in Objects(a, "spouse") \union Objects(a, "placeOfBirth")}
  IN  /\ stage = "loop"
      /\ query = "q07"
      /\ i \in todo
      /\ todo' = todo \ {i}
      /\ found' = found \union {<<c, a, b>> : c \in both}
      /\ named' = IF both = {} THEN named ELSE named \union contexts
      /\ UNCHANGED <<loadVars, stage, query, ProvTrigerON, ProvUris, answers>>

\* The second loop of q07: latitude and longitude of what a place is the same
\* as.
q07Places ==
  /\ stage = "loop"
  /\ query = "q07"
  /\ todo = {}
  /\ stage' = "places"
  /\ todo' = found
  /\ UNCHANGED <<loadVars, query, ProvTrigerON, ProvUris, found, answers, named>>

q07Place(i) ==
  LET c == i[1]
      same == Objects(c, "sameAs")
      Geo(c2) == Triples(<<>>, <<Says(c2, "lat", 0), Says(c2, "long", 0)>>)
      located == {e.obj : e \in {d \in same : Geo(d.obj) # <<>>}}
  IN  /\ stage = "places"
      /\ i \in todo
      /\ todo' = todo \ {i}
      /\ answers' = answers \union
           UNION {Following(<<i[2], i[3]>>, Geo(c2)) : c2 \in located}
      /\ named' = named \union (UNION {ContextsOf(Geo(c2)) : c2 \in located})
           \union (IF located = {} THEN {} ELSE {e.prov : e \in same})
      /\ UNCHANGED <<loadVars, stage, query, ProvTrigerON, ProvUris, found>>

LoopDone ==
  /\ \/ stage = "loop" /\ query # "q07"
     \/ stage = "places"
  /\ todo = {}
  /\ stage' = "done"
  /\ UNCHANGED <<loadVars, query, ProvTrigerON, ProvUris, todo, found, answers, named>>
------------------------------------------------------------------------------
BeginLoop(q) ==
  CASE q = "q05" -> q05Begin
    [] q = "q06" -> q06Begin
    [] q = "q07" -> q07Begin
    [] q = "q08" -> q08Begin
    [] q = "w05" -> w05Begin

Loops == {"q05", "q06", "q07", "q08", "w05"}

QueryNext ==
  \/ \E q \in Queries \ Loops : RunAtOnce(q)
  \/ \E q \in Queries \intersect Loops : BeginLoop(q)
  \/ stage = "loop" /\ \E i \in todo :
       \/ q05Turn(i)
       \/ q06Turn(i)
       \/ w05Turn(i)
       \/ q08Turn(i)
       \/ q07Turn(i)
  \/ q07Places
  \/ stage = "places" /\ \E i \in todo : q07Place(i)
  \/ LoopDone

Next ==
  \/ LoadNext /\ UNCHANGED queryVars
  \/ QueryNext

Spec == Init /\ [][Next]_vars
------------------------------------------------------------------------------
(***************************************************************************)
(* The queries as the comments in the functions state them, evaluated over *)
(* the lines of the dataset; of the variables they select, those for which *)
(* the code has values to show.                                            *)
(***************************************************************************)

SPARQL ==
  [q01 |-> {Select(<<"?lat", "?long">>,
              <<About("?j", "Eiffel Tower"), About("inCountry", "FR"),
                About("lat", "?lat"), About("long", "?long")>>)},
   q02 |-> {Select(<<"?b", "?p", "?n">>,
              <<About("?j", "Tim Berners-Lee"), About("dateOfBirth", "?b"),
                About("placeOfBirth", "?p"), About("name", "?n")>>)},
   q03 |-> {Select(<<"?t", "?lat", "?long">>,
              <<About("wikilink", "List"), About("wikilink", "Middle_Ages"),
                About("title", "?t"), About("lat", "?lat"), About("long", "?long")>>)},
   q04 |-> {Select(<<"?l", "?lat", "?long">>,
              <<<<"?p", "name", "Krebs, Emil">>, <<"?p", "deathPlace", "?l">>,
                <<"?c", "?j", "?l">>, <<"?c", "featureClass", "P">>,
                <<"?c", "inCountry", "DE">>, <<"?c", "lat", "?lat">>, <<"?c", "long", "?long">>>>)},
   q05 |-> {Select(<<"?l", "?lat", "?long">>,
              <<About("?j", "Barack Obama"), About("placeOfBirth", "?l"),
                <<"?l", "lat", "?lat">>, <<"?l", "long", "?long">>>>)},
   q06 |-> {Select(<<"?d">>,
              <<<<"?c", "profession", "Veterinarian">>, <<"?b", "inCountry", "US">>,
                About("senators", "?c"), About("sameAs", "?b"), About("name", "?d")>>)},
   q07 |-> {Select(<<"?a", "?b", "?lat", "?long">>,
              <<About("wikilink", "actor"), About("spouse", "?b"), About("placeOfBirth", "?c"),
                <<"?b", "placeOfBirth", "?c">>, <<"?b", "wikilink", "actor">>,
                <<"?c", "sameAs", "?c2">>, <<"?c2", "lat", "?lat">>, <<"?c2", "long", "?long">>>>)},
   q08 |-> {Select(<<"?y">>,
              <<<<"?b", "subject", "Blackwater">>, <<"?b", "?j", "?n">>,
                About("foaf:name", "?n"), About("years", "?y")>>)},
   q09 |-> {Select(<<"?s">>, <<<<"?s", "foaf:name", "Samuel">>>>),
            Select(<<"?s">>, <<<<"?s", "foaf:name", "Elisabeth">>>>)},
   q10 |-> {Select(<<"?t", "?lat", "?long">>,
              <<About("wikilink", "List"),
                About("title", "?t"), About("lat", "?lat"), About("long", "?long")>>)},
   w01 |-> {Select(<<"?t", "?desc">>,
              <<About("?j", "fortis-angelo"), About("site_name", "PagineBianche"),
                About("title", "?t"), About("description", "?desc")>>)},
   w02 |-> {Select(<<"?b", "?p", "?n">>,
              <<About("?j", "fortyagency"), About("og:image", "?b"),
                About("og:description", "?p"), About("og:title", "?n")>>)},
   w03 |-> {Select(<<"?t", "?lat", "?long">>,
              <<About("country-name", "United States"), About("region", "Maine"),
                About("title", "?t"), About("latitude", "?lat"), About("longitude", "?long")>>)},
   w04 |-> {Select(<<"?desc", "?page">>,
              <<<<"?p", "foaf:page", "lampions">>, <<"?p", "hasBusinessFunction", "?l">>,
                <<"?c", "?j", "?l">>, <<"?c", "hasStockKeepingUnit", "DUB073">>,
                <<"?c", "gr:description", "?desc">>, <<"?c", "foaf:page", "?page">>>>)},
   w05 |-> {Select(<<"?d">>,
              <<<<"?c", "has_container", "announcements">>, <<"?b", "foaf:name", "Anonymous">>,
                About("reply_of", "?c"), About("has_creator", "?b"), About("date", "?d")>>)},
   w06 |-> {Select(<<"?s">>, <<<<"?s", "og:site_name", "fosiki">>>>),
            Select(<<"?s">>, <<<<"?s", "og:site_name", "Fotogard">>>>)},
   w07 |-> {Select(<<"?t", "?lat", "?long">>,
              <<About("region", "Maine"),
                About("title", "?t"), About("latitude", "?lat"), About("longitude", "?long")>>)}]

\* The queries there are.
ASSUME QueriesAssumption == Queries \subseteq DOMAIN SPARQL

\* The type pattern of q08, for which LoadData keeps no line.
OfType(q, b) == q = "q08" => b["?a"] \in Politicians

Asked(q, quads) ==
  UNION {{[i \in DOMAIN sel.columns |-> b[sel.columns[i]]] :
            b \in {d \in Solutions(quads, sel.patterns) : OfType(q, d)}} : sel \in SPARQL[q]}

\* The storable lines under a provenance the trigger accepts.
Visible ==
  {q \in Stored : ProvTrigerON => q.prov \in ProvUris}

\* The values of ?l that join the two halves of q04 and w04.
LinksOf(q) ==
  LET sel == CHOOSE x \in SPARQL[q] : TRUE
  IN  {b["?l"] : b \in Solutions(Visible, SubSeq(sel.patterns, 1, 2))}

\* Nothing is shown that is no solution of the query in the contexts selected.
\* w04 is right only when something links its two halves.
AnswersAreSolutions ==
  stage = "done" /\ (query = "w04" => LinksOf("w04") # {}) => answers \subseteq Asked(query, Visible)

\* Every solution is shown.  q04 and w04 ask a molecule for all links at once,
\* where one would do ("?p deathPlace ?l. ?c [] ?l."), and so are right only
\* when there is one.
SolutionsAreAnswered ==
  stage = "done" /\ (query \in {"q04", "w04"} => Cardinality(LinksOf(query)) = 1) =>
    Asked(query, Visible) \subseteq answers

\* The provenance shown explains the answers: they are solutions over the lines
\* of the contexts it names alone, and it names no context that is filtered.
\* With the multimap of GetSubjects only one context of a subject is named.
NamedContextsSuffice ==
  stage = "done" /\ (query = "w04" => LinksOf("w04") # {}) =>
    /\ ProvTrigerON => named \subseteq ProvUris
    /\ answers \subseteq Asked(query, {x \in Visible : x.prov \in named})

\* "?p hasBusinessFunction ?l. ?c ?j ?l.": ?c has something in common with ?p.
LampionsAreLinked ==
  stage = "done" /\ query = "w04" => answers \subseteq Asked(query, Visible)
==============================================================================
