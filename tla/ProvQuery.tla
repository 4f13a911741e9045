------------------------------- MODULE ProvQuery -------------------------------
(***************************************************************************)
(* BTCprov::ProvQuery and WDCqueries::ProvQuery: the provenance query of a *)
(* benchmark, a union written as blocks of code that add to ProvUris one   *)
(* after the other, with the trigger off.  Some blocks (marked "added" in  *)
(* the source) have no counterpart in the comment above the function.      *)
(***************************************************************************)
EXTENDS Queries

VARIABLES
  benchmark,   \* "BTC" or "WDC"
  block,       \* the number of blocks run
  ProvUris

provVars == <<benchmark, block, ProvUris>>
vars == <<loadVars, provVars>>

Init ==
  /\ LoadInit
  /\ benchmark \in {"BTC", "WDC"}
  /\ block = 0
  /\ ProvUris = {}

\* GetSubjects, the values of a TriplePatern, and the elements of a type.
SubjectsOf(p, o) == GetSubjects(KM(o), KM(p), FALSE, {})
Values(constrains, projections) == ValuesOf(TriplePatern(constrains, projections, FALSE, {}))
GetElementsOfType(t) == {k \in KEY_ID : GetType(k) = t}
GetSeq(k) == k % SeqSpan

\* Mutant of Intersection: out.clear() is not commented out.
IntersectionCleared(in1, in2, out) == in1 \intersect in2
\* unordered_set_intersection adds to out.
Intersection(in1, in2, out) == out \union (in1 \intersect in2)

\* Both queries have the block of the activity, which takes the values of both
\* projections.
Activity ==
  Values(<<Has("SoftwareAgent", "imagination"), Has("activity", "Activity1123"),
           Has("atLocation", "Fribourg")>>,
         <<Wanted("generated"), Wanted("wasAssociatedWith")>>)
    \union SubjectsOf("homepage", "whc.unesco.org")
    \union SubjectsOf("skos#subject", "FIFA_World_Cup_stadiums")

\* ProvUris after each block, if it was uris before.
p01(uris) == uris \union SubjectsOf("wikipediaArticle", "Eiffel-toring")
p02(uris) == uris \union SubjectsOf("website", "www.w3.org")
                  \union SubjectsOf("primaryTopic", "Tim_Berners-Lee")
p03(uris) == uris \union Activity
p04(uris) ==
  LET results3 == Intersection(SubjectsOf("reference", "swr.de"),
                               SubjectsOf("sterbedatum", "31._Marz"), {})
  IN  Intersection(SubjectsOf("wikilink", "sinologist"), results3, uris)
        \union SubjectsOf("inCountry", "DE")
p06(uris) == uris \union SubjectsOf("wasGeneratedBy", "mwylot.net")
p07(uris) == uris \union GetElementsOfType(GetSeq(KM("LivingPeople")))
                  \union SubjectsOf("sameAs", "2643576")

v01(uris) == uris \union SubjectsOf("type", "company")
v02(uris) == Intersection(SubjectsOf("fbmladmins", "500386069"),
                          SubjectsOf("og:url", "35-under-35"), uris)
v03(uris) ==
  LET res4 == Intersection(SubjectsOf("email", "empty"), SubjectsOf("type", "Hotel"), {})
  IN  Intersection(SubjectsOf("country-name", "United States"), res4, uris)
v04(uris) == uris \union Activity
v05(uris) ==
  LET containers == Values(<<Has("has_creator", "node")>>, <<Wanted("has_container")>>)
  IN  uris \union {k \in containers : /\ GetType(k) = GetSeq(KM("Forum"))
                                      /\ k \in SubjectsOf("prefLabel", "Announcements")}
v06(uris) == uris \union SubjectsOf("og:url", "velika-krada")
                  \union SubjectsOf("fbmlapp_id", "274726392563373")
                  \union SubjectsOf("og:url", "milijun-dolara")

Blocks == [BTC |-> 6, WDC |-> 6]

RunBlock ==
  /\ phase = "loaded"
  /\ block < Blocks[benchmark]
  /\ block' = block + 1
  /\ ProvUris' = CASE benchmark = "BTC" -> <<p01(ProvUris), p02(ProvUris), p03(ProvUris),
                                             p04(ProvUris), p06(ProvUris), p07(ProvUris)>>[block']
                   [] benchmark = "WDC" -> <<v01(ProvUris), v02(ProvUris), v03(ProvUris),
                                             v04(ProvUris), v05(ProvUris), v06(ProvUris)>>[block']
  /\ UNCHANGED <<loadVars, benchmark>>

Next ==
  \/ LoadNext /\ UNCHANGED provVars
  \/ RunBlock

Spec == Init /\ [][Next]_vars
------------------------------------------------------------------------------
(***************************************************************************)
(* The unions of the comments, with the branches added in the code, block  *)
(* by block.                                                               *)
(***************************************************************************)

Selects(p, o) == Select(<<"?s">>, <<<<"?s", p, o>>>>)
ActivityHas(generated, associated) ==
  Select(<<"?s">>, <<About("SoftwareAgent", "imagination"), About("activity", "Activity1123"),
                     About("atLocation", "Fribourg"), About("generated", generated),
                     About("wasAssociatedWith", associated)>>)
Activities ==
  {ActivityHas("?s", "?s"), Selects("homepage", "whc.unesco.org"),
   Selects("skos#subject", "FIFA_World_Cup_stadiums")}

Branches ==
  [BTC |->
    <<{Selects("wikipediaArticle", "Eiffel-toring")},
      {Selects("website", "www.w3.org"), Selects("primaryTopic", "Tim_Berners-Lee")},
      Activities,
      {Select(<<"?a">>, <<About("reference", "swr.de"), About("sterbedatum", "31._Marz"),
                          About("wikilink", "sinologist")>>),
       Selects("inCountry", "DE")},
      {Selects("wasGeneratedBy", "mwylot.net")},
      {Selects("sameAs", "2643576")}>>,
   WDC |->
    <<{Selects("type", "company")},
      {Select(<<"?s">>, <<<<"?s", "fbmladmins", "500386069">>, <<"?s", "og:url", "35-under-35">>>>)},
      {Select(<<"?s">>, <<<<"?s", "email", "empty">>, <<"?s", "type", "Hotel">>,
                          <<"?s", "country-name", "United States">>>>)},
      Activities,
      {Select(<<"?s">>, <<About("has_creator", "node"), About("has_container", "?s"),
                          <<"?s", "prefLabel", "Announcements">>>>)},
      {Selects("og:url", "velika-krada"), Selects("fbmlapp_id", "274726392563373"),
       Selects("og:url", "milijun-dolara")}>>]

\* What the rdf:type patterns of the last BTC branch and the fifth WDC branch
\* say: LoadData keeps no line for them, a URI has its type in its identifier.
Typed(i) ==
  {k \in KEY_ID : benchmark = "BTC" /\ i = 6 /\ GetType(k) = KM("LivingPeople") % SeqSpan}
TypeFits(i, k) ==
  benchmark = "WDC" /\ i = 5 => GetType(k) = KM("Forum") % SeqSpan

\* What the first column of a branch has in its solutions.
Column(quads, sel) == {b[sel.columns[1]] : b \in Solutions(quads, sel.patterns)}

Selected(i) ==
  {k \in UNION {Column(Stored, sel) : sel \in Branches[benchmark][i]} : TypeFits(i, k)}
    \union Typed(i)

\* What an activity that matches the other lines has generated or is associated
\* with, where its branch asks for what it has both.
EitherRole(i) ==
  IF i = [BTC |-> 3, WDC |-> 4][benchmark]
    THEN Column(Stored, ActivityHas("?s", "?d")) \union Column(Stored, ActivityHas("?d", "?s"))
    ELSE {}

\* After every block ProvUris has all that the branches so far select: no block
\* takes away what an earlier one selected (the set ProvUris is handed to
\* unordered_set_intersection as its output).  And none adds a subject that does
\* not match the whole of its branch, but for the block of the activity, which
\* takes the values of either of its two roles.
SelectedSoFar ==
  LET texts == UNION {Selected(i) : i \in 1 .. block}
  IN  /\ texts \subseteq ProvUris
      /\ ProvUris \ texts \subseteq UNION {EitherRole(i) : i \in 1 .. block}
==============================================================================
