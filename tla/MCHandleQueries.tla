--------------------------- MODULE MCHandleQueries ---------------------------
(***************************************************************************)
(* Datasets, each with lines some queries look for; any of the       *)
(* optional ones may be missing, and the subjects are dealt out to the two *)
(* nodes in any way.  SeqSpan = 100.  The words of one query stand for     *)
(* different identifiers; those of different queries share them.           *)
(***************************************************************************)
EXTENDS HandleQueries

\* Type 2: predicates, values, and what has no class.
a == 200
p1 == 201
p2 == 202
name == 203
p4 == 204
p5 == 205
p6 == 206
v1 == 211
v2 == 212
v3 == 213
v4 == 214
G == 215
x1 == 221
x2 == 222
x3 == 223
x4 == 224
Uni0 == 301
Uni1 == 302
Dep0 == 401
Dep1 == 402
Grad1 == 501
Grad2 == 502
Under1 == 601
GCourse == 801
Course1 == 901
Assoc == 1101
Assist == 1201
Group1 == 1601
Group2 == 1602
Publ == 1701

MCKeys ==
  {a, p1, p2, name, p4, p5, p6, v1, v2, v3, v4, G, x1, x2, x3, x4, Uni0, Uni1, Dep0, Dep1,
   Grad1, Grad2, Under1, GCourse, Course1, Assoc, Assist, Group1, Group2, Publ}

\* Faculty has a smaller number than Professor, the others a larger one than
\* their subclasses.
MCSubTypes ==
  [t \in 0 .. 17 |->
     CASE t = 7 -> {5, 6}              \* Student
       [] t = 9 -> {8}                 \* Course: GraduateCourse
       [] t = 13 -> {11, 12}           \* Professor
       [] t = 10 -> {13}               \* Faculty
       [] t = 15 -> {7, 10}            \* Person
       [] OTHER -> {}]

MCWords ==
  [University |-> 103, Department |-> 104, GraduateStudent |-> 105, UndergraduateStudent |-> 106,
   Student |-> 107, Course |-> 109, Professor |-> 113, Faculty |-> 110, Person |-> 115,
   ResearchGroup |-> 116, Publication |-> 117,
   a |-> a, name |-> name,
   subOrganizationOf |-> p1, takesCourse |-> p1, starring |-> p1, artist |-> p1,
   memberOf |-> p2, worksFor |-> p2, teacherOf |-> p2, museum |-> p2, architect |-> p2,
   emailAddress |-> p4, publicationAuthor |-> p4, advisor |-> p4, mastersDegreeFrom |-> p4,
   lat |-> p4, director |-> p4,
   telephone |-> p5, undergraduateDegreeFrom |-> p5, long |-> p5,
   headOf |-> p6, doctoralDegreeFrom |-> p6, homepage |-> p6,
   GraduateCourse0 |-> GCourse, AssistantProfessor0 |-> Assist, AssociateProfessor0 |-> Assoc,
   Department0 |-> Dep0, University0 |-> Uni0,
   Metropolitan_Museum |-> x3, Kevin_Bacon |-> x3, Berlin |-> x1, New_York_City |-> x1]
  @@ ("UndergraduateStudent0@Department0" :> v3)

MCDegrees == (v1 :> 0 @@ v2 :> 3 @@ v3 :> 40 @@ v4 :> 90)

Q(s, p, o) == [subject |-> s, predicate |-> p, object |-> o, prov |-> G]
Line(s, word, o) == Q(s, MCWords[word], o)

AtScope0 == [minScope |-> 0, maxScope |-> 0, paths |-> <<>>]

Members0 ==
  [lines |-> {Q(Grad1, name, v1), Q(Publ, name, v1)},
   optional |-> {Line(Grad1, "takesCourse", GCourse), Line(Under1, "takesCourse", GCourse),
                 Line(Under1, "memberOf", Dep0), Line(Assoc, "memberOf", Dep0),
                 Line(Publ, "publicationAuthor", Assist), Q(Grad2, name, v2)},
   config |-> AtScope0, queries |-> {"q01", "q03", "q05", "q06", "q10", "q14", "q17", "Cq01"}]

Alumni ==
  [lines |-> {Line(Grad1, "memberOf", Dep0), Line(Dep1, "subOrganizationOf", Uni1),
              Line(Grad1, "undergraduateDegreeFrom", Uni0)},
   optional |-> {Line(Grad2, "memberOf", Dep1), Line(Grad2, "undergraduateDegreeFrom", Uni0),
                 Line(Grad2, "undergraduateDegreeFrom", Uni1),
                 Line(Dep0, "subOrganizationOf", Uni0), Line(Assoc, "doctoralDegreeFrom", Uni0)},
   config |-> AtScope0, queries |-> {"q02s1", "q13", "Cq02"}]

Staff ==
  [lines |-> {Q(Assoc, name, v1), Line(Assoc, "emailAddress", v2), Line(Assoc, "telephone", v3),
              Line(Group1, "subOrganizationOf", Dep0)},
   optional |-> {Line(Assoc, "worksFor", Dep0), Line(Assist, "worksFor", Dep0), Line(Assist, "headOf", Dep0),
                 Line(Assoc, "headOf", Dep0), Line(Dep0, "subOrganizationOf", Uni0),
                 Line(Group2, "subOrganizationOf", Uni0)},
   config |-> AtScope0, queries |-> {"q04", "q11s1", "q12"}]

Courses ==
  [lines |-> {Line(Under1, "takesCourse", Course1)},
   optional |-> {Line(Assoc, "teacherOf", Course1), Line(Assoc, "teacherOf", GCourse),
                 Line(Assist, "teacherOf", GCourse), Line(Under1, "advisor", Assoc),
                 Line(Grad1, "advisor", Assoc), Line(Grad1, "takesCourse", GCourse),
                 Line(Grad1, "takesCourse", Course1), Line(Grad1, "advisor", Assist)},
   config |-> AtScope0, queries |-> {"q07", "q09s1", "q15"}]

Addresses ==
  [lines |-> {Line(Under1, "memberOf", Dep0), Line(Under1, "emailAddress", v3), Q(Dep0, name, v1)},
   optional |-> {Line(Dep0, "subOrganizationOf", Uni0), Line(Grad1, "memberOf", Dep1),
                 Line(Grad1, "emailAddress", v2), Q(Grad1, name, v3), Line(Dep1, "subOrganizationOf", Uni0)},
   config |-> AtScope0, queries |-> {"q08s1", "q16s1"}]

Films ==
  [lines |-> {Q(x1, name, v1)},
   optional |-> {Line(x1, "starring", x3), Line(x1, "starring", x4), Line(x2, "starring", x4),
                 Line(x2, "starring", Assoc), Line(Publ, "starring", x3), Line(Publ, "starring", Assoc)},
   config |-> AtScope0, queries |-> {"Dq02"}]

Museums ==
  [lines |-> {Line(x1, "artist", x4), Q(x3, name, v1)},
   optional |-> {Line(x1, "museum", x3), Line(x1, "museum", x2), Line(Publ, "museum", x3),
                 Line(Publ, "artist", Assoc), Line(x3, "director", x4), Line(x2, "director", Assoc)},
   config |-> AtScope0, queries |-> {"Dq01", "Dq03"}]

Places ==
  [lines |-> {Line(x1, "lat", v1), Line(x1, "long", v1), Q(x1, name, v4), Line(x2, "long", v2)},
   optional |-> {Line(x2, "lat", v2), Line(x2, "homepage", v1), Line(x2, "architect", x4),
                 Line(x4, "homepage", v2), Line(Publ, "homepage", v1), Line(Publ, "lat", v2), Line(Publ, "long", v2)},
   config |-> AtScope0, queries |-> {"Dq04", "Dq05"}]

(* With scopes: two for all roots, one for all, and one along paths; main   *)
(* has none, the queries need one.                                         *)

Alumni1 ==
  [lines |-> {Line(Grad1, "memberOf", Dep0), Line(Grad1, "undergraduateDegreeFrom", Uni0)},
   optional |-> {Line(Grad2, "memberOf", Dep0), Line(Grad2, "undergraduateDegreeFrom", Uni1),
                 Line(Dep0, "subOrganizationOf", Uni0), Q(Uni0, name, v1)},
   config |-> [minScope |-> 2, maxScope |-> 2, paths |-> <<>>],
   queries |-> {"q02s2", "q13"}]

Addresses1 ==
  [lines |-> {Line(Under1, "memberOf", Dep0), Line(Under1, "emailAddress", v3),
              Line(Dep0, "subOrganizationOf", Uni0)},
   optional |-> {Q(Dep0, name, v1), Line(Grad1, "memberOf", Dep1), Q(Dep1, name, v3),
                 Line(Dep1, "subOrganizationOf", Uni0), Q(Publ, name, Under1)},
   config |-> [minScope |-> 1, maxScope |-> 1, paths |-> <<>>],
   queries |-> {"q08s2", "q16s2", "q08s1"}]

Courses1 ==
  [lines |-> {Line(Under1, "advisor", Assoc), Line(Under1, "takesCourse", Course1)},
   optional |-> {Line(Assoc, "teacherOf", Course1), Line(Assoc, "teacherOf", GCourse),
                 Line(Grad1, "advisor", Assist), Line(Grad1, "takesCourse", GCourse),
                 Line(Assist, "teacherOf", GCourse)},
   config |-> [minScope |-> 0, maxScope |-> 1, paths |-> <<<<7, 10>>>>],
   queries |-> {"q09s2", "q07"}]

Groups1 ==
  [lines |-> {Line(Group1, "subOrganizationOf", Dep0)},
   optional |-> {Line(Dep0, "subOrganizationOf", Dep1), Line(Dep0, "subOrganizationOf", Uni1),
                 Line(Dep1, "subOrganizationOf", Uni0), Line(Group2, "subOrganizationOf", Dep1), Line(Group2, "subOrganizationOf", Group1),
                 Line(Group1, "subOrganizationOf", Group2)},
   config |-> [minScope |-> 0, maxScope |-> 2, paths |-> <<<<16, 16, 4>>, <<16, 4>>>>],
   queries |-> {"q11s2", "q11s1"}]

(* Above scope 0 the lines come in two orders.                              *)
Ordered(S) == FoldSet(LAMBDA x, seq : Append(seq, x), <<>>, S)
MCLineOrders(quads, c) ==
  {Ordered(quads)} \union IF c.maxScope = 0 THEN {} ELSE {Reverse(Ordered(quads))}

MCDatasets == {Members0, Alumni, Staff, Courses, Addresses, Films, Museums, Places,
               Alumni1, Addresses1, Courses1, Groups1}
==============================================================================
