---------------------------- MODULE MCQueryTexts ----------------------------
(***************************************************************************)
(* One dataset with what it takes for eight queries not to answer what the *)
(* comment in each of them asks; they are asked one after the other, each  *)
(* once the one before was wrong.  The words of different queries stand    *)
(* for different identifiers here, as far as it matters.                   *)
(***************************************************************************)
EXTENDS MCHandleQueries

takesCourse == 231
advisor == 232
lat == 233
long == 234
teacherOf == 235
architect == 236
homepage == 237
memberOf == 238

TextWords ==
  [takesCourse |-> takesCourse, advisor |-> advisor, lat |-> lat, long |-> long,
   teacherOf |-> teacherOf, architect |-> architect, homepage |-> homepage,
   memberOf |-> memberOf] @@ MCWords
TextKeys ==
  MCKeys \union {takesCourse, advisor, lat, long, teacherOf, architect, homepage, memberOf}

Stated(s, word, o) == Q(s, TextWords[word], o)

TextLines ==
  \* A student is advised, and takes a course of the advisor (q15, q09s2).
  {Stated(Grad1, "advisor", Assoc), Stated(Grad1, "takesCourse", GCourse),
   Stated(Assoc, "teacherOf", GCourse),
  \* Another has no name (q17), and an address of another type (q08s1).
   Stated(Grad1, "name", v1), Stated(Grad1, "emailAddress", v2),
   Stated(Grad2, "emailAddress", Publ),
  \* A department of two universities, with a student from each (q02s1), whose
  \* memberships come after other lines of theirs (q08s2).
   Stated(Grad1, "memberOf", Dep0), Stated(Grad1, "undergraduateDegreeFrom", Uni0),
   Stated(Grad2, "memberOf", Dep0), Stated(Grad2, "undergraduateDegreeFrom", Uni1),
   Stated(Dep0, "subOrganizationOf", Uni0), Stated(Dep0, "subOrganizationOf", Uni1),
  \* Two heads of it (q12).
   Stated(Assoc, "headOf", Dep0), Stated(Assoc, "worksFor", Dep0),
   Stated(Assist, "headOf", Dep0), Stated(Assist, "worksFor", Dep0),
  \* Homepages of two types of subjects: the template of the one has the number
  \* of the names of the other (Dq05).
   Stated(x1, "lat", v1), Stated(x1, "long", v1), Stated(x2, "lat", v1),
   Stated(x2, "long", v1), Stated(x2, "architect", x4), Stated(x4, "name", v4),
   Stated(x4, "homepage", v2), Stated(Publ, "homepage", v1)}

Texts == <<"q15", "q17", "q09s2", "q02s1", "q08s1", "q08s2", "q12", "Dq05">>

\* Scope 1 is what q09s2 and q08s2 need.
TextDatasets ==
  {[lines |-> TextLines, optional |-> {}, queries |-> Range(Texts),
    config |-> [minScope |-> 1, maxScope |-> 1, paths |-> <<>>]]}
TextOrders(quads, c) ==
  LET last == {q \in quads : q.predicate = memberOf}
  IN  {Ordered(quads \ last) \o Ordered(last)}

VARIABLE wrong  \* history: the queries whose answers were not those of their texts

TextInit == Init /\ wrong = {}

TextNext ==
  /\ Next
  /\ answered /\ ~ answered' => query' = Texts[Cardinality(wrong) + 1]
  /\ wrong' = IF ~ answered /\ answered' /\ answers' # Asked' THEN wrong \union {query} ELSE wrong

TextSpec == TextInit /\ [][TextNext]_<<vars, wrong>>

\* The comment in each of these functions is the query it answers: whatever the
\* dataset, the answers are its solutions.  All of that fails if they all are
\* wrong, so this is what it comes to at least: one of the comments still holds.
SomeTextHolds == ~ (Range(Texts) \subseteq wrong)
==============================================================================
