----------------------------- MODULE LUBMnetwork -----------------------------
(***************************************************************************)
(* LUBMnetwork.cpp: the queries of the LUBM benchmark.  qNN_n is the set   *)
(* of messages a node can send; where a query has two rounds, qNN_n2 is    *)
(* the second message, given what the master sent back to all nodes.       *)
(* qNN_m is the set of answers the master can join.  Without a qNN_m the   *)
(* answers are what the nodes call ready.  The variants s2 are for         *)
(* molecules with scope 1: a node has what it needs of other molecules in  *)
(* its own and no join is left.                                            *)
(***************************************************************************)
EXTENDS NodeQueries

Type(class) == GetCompositesForTypes(GetSeq(class))
Hierarchy(class) == GetHierarchyForType(GetSeq(class))

\* q01, q03, q05, q10: the subjects of one object.
q01_n(n) == {Ready(RowsOf(Subjects(n, Type("GraduateStudent"), "takesCourse", KM("GraduateCourse0"))))}
q03_n(n) == {Ready(RowsOf(Subjects(n, Type("Publication"), "publicationAuthor", KM("AssistantProfessor0"))))}
q05_n(n) == {Ready(RowsOf(Subjects(n, Hierarchy("Person"), "memberOf", KM("Department0"))))}
q10_n(n) == {Ready(RowsOf(Subjects(n, Hierarchy("Person"), "takesCourse", KM("GraduateCourse0"))))}

\* q04: professors with one name, address and telephone each.  The templates
\* are looked up for any object type, so they are the first of the predicate.
q04_n(n) ==
  LET One(s, p) == Begin(Values(n, s, p, {0}))
      professors == Subjects(n, Hierarchy("Professor"), "worksFor", KM("Department0"))
      rows == [s \in professors |->
                 {<<s, y1, y2, y3>> : y1 \in One(s, "name"), y2 \in One(s, "emailAddress"),
                                      y3 \in One(s, "telephone")}]
  IN  {Ready(Range(f)) : f \in Picks(rows)}

\* q06, q14: the members of a class.
q06_n(n) == {Ready(RowsOf(LocalOf(n, Hierarchy("Student"))))}
q14_n(n) == {Ready(RowsOf(LocalOf(n, Type("UndergraduateStudent"))))}

\* q02s1: students who are members of a department of their old university.
DepartmentsOf(n) ==
  UNION {{<<d, u>> : d \in Subjects(n, Type("Department"), "subOrganizationOf", u)}
           : u \in ElementsOf(n, Type("University"))}

q02s1_n(n) ==
  LET students == LocalOf(n, Type("GraduateStudent"))
      Universities(s) == Values(n, s, "undergraduateDegreeFrom", Type("University"))
      Departments(s) == Values(n, s, "memberOf", Type("Department"))
      Met(map, s, d) == d \in DOMAIN map /\ map[d] \in Universities(s)
      Unmet(map) == {s \in students : \E d \in Departments(s) : ~ Met(map, s, d)}
      \* pushed with begin() of both sets
      Pairs(s) == {<<s, d, u>> : d \in Begin(Departments(s)), u \in Begin(Universities(s))}
      Sent(map) ==
        {Message(UNION {{<<s, d, map[d]>> : d \in {e \in Departments(s) : Met(map, s, e)}}
                          : s \in students}, DepartmentsOf(n), Range(f))
           : f \in Picks([s \in Unmet(map) |-> Pairs(s)])}
  IN  UNION {Sent(map) : map \in Maps(DepartmentsOf(n))}

\* Mutant of q02s1_m: the university is not compared.
q02s1_mAny(messages) == {ReadyOf(messages) \union PendingOf(messages)}

q02s1_m(messages) ==
  {ReadyOf(messages) \union Matching(map, PendingOf(messages), 2, 3) : map \in Maps(KnownOf(messages))}

\* q07: who takes a course of AssociateProfessor0.  First the node that has
\* the professor tells his courses, then all nodes look for students.
q07_n(n) ==
  LET professor == KM("AssociateProfessor0")
  IN  {Known(IF IsItMyObject(n, professor)
               THEN RowsOf(Values(n, professor, "teacherOf", Hierarchy("Course")))
               ELSE {})}

\* find() in the multimap of templates by student type: the template of the
\* first course type only.
FirstCourseTemplate(n, type) ==
  LET hit == {u \in n.templates[type] : /\ u.predicateID = KM("takesCourse") /\ u.scope = 0
                                       /\ u.objectType \in Hierarchy("Course")}
  IN  IF type \in Hierarchy("Student") /\ hit # {}
        THEN (CHOOSE u \in hit : \A v \in hit : u.objectType <= v.objectType).ID
        ELSE NoTemplate

q07_n2(n, courses) ==
  {Ready(UNION {{<<s, c>> : s \in {t \in Mentioning(n, c) :
                                     Exists(n, t, FirstCourseTemplate(n, GetType(t)), c)}}
                  : c \in {r[1] : r \in courses}})}

\* q08s1: departments of University0 first, then their members' addresses.
q08s1_n(n) ==
  {Known(RowsOf(Subjects(n, Type("Department"), "subOrganizationOf", KM("University0"))))}

q08s1_n2(n, departments) ==
  LET Mine(s) == {d \in Values(n, s, "memberOf", Type("Department")) : <<d>> \in departments}
      EMails(s) == Values(n, s, "emailAddress", {0})
      students == {s \in LocalOf(n, Hierarchy("Student")) : Mine(s) # {} /\ EMails(s) # {}}
  IN  {Ready(UNION {{<<s, d, email[s]>> : d \in Mine(s)} : s \in students})
         : email \in Picks([s \in students |-> EMails(s)])}

\* q09s1: students who take a course of their advisor.
TeachersOf(n) ==
  UNION {{<<c, f>> : f \in Subjects(n, Hierarchy("Faculty"), "teacherOf", c)}
           : c \in ElementsOf(n, Hierarchy("Course"))}

\* Students with an advisor and a course.
q09Students(n) ==
  {s \in LocalOf(n, Hierarchy("Student")) :
     /\ Values(n, s, "advisor", Hierarchy("Faculty")) # {}
     /\ Values(n, s, "takesCourse", Hierarchy("Course")) # {}}

q09s1_n(n) ==
  LET Faculties(s) == Values(n, s, "advisor", Hierarchy("Faculty"))
      Courses(s) == Values(n, s, "takesCourse", Hierarchy("Course"))
      Met(map, s, c) == c \in DOMAIN map /\ map[c] \in Faculties(s)
      Rows(map, met) ==
        UNION {{<<s, c>> : c \in {d \in Courses(s) : Met(map, s, d) = met}} : s \in q09Students(n)}
      Sent(map) ==
        {Message({<<r[1], map[r[2]], r[2]>> : r \in Rows(map, TRUE)}, TeachersOf(n),
                 {<<r[1], f[r[1]], r[2]>> : r \in Rows(map, FALSE)})
           : f \in Picks([s \in q09Students(n) |-> Begin(Faculties(s))])}
  IN  UNION {Sent(map) : map \in Maps(TeachersOf(n))}

q09s1_m(messages) ==
  {ReadyOf(messages) \union Matching(map, PendingOf(messages), 3, 2) : map \in Maps(KnownOf(messages))}

\* q11s1: research groups of what is part of University0.  Their own
\* subOrganizationOf is looked up for any object type, and its begin() used.
q11s1_n(n) ==
  LET parts == Subjects(n, TYPE_ID, "subOrganizationOf", KM("University0"))
      groups == LocalOf(n, Hierarchy("ResearchGroup"))
      Of(g) == Begin(Values(n, g, "subOrganizationOf", {0}))
  IN  {Message(RowsOf({g \in groups : of[g] \in parts}), RowsOf(parts),
               {<<of[g], g>> : g \in {h \in groups : of[h] \notin parts}})
         : of \in Picks([g \in groups |-> Of(g)])}

q11s1_m(messages) ==
  {ReadyOf(messages) \union
     {<<r[2]>> : r \in {p \in PendingOf(messages) : <<p[1]>> \in KnownOf(messages)}}}

\* q12: heads of the departments of University0 who work there.  Departments
\* are those that mention University0, by whatever predicate.
q12_n(n) ==
  LET Department == GetSeq("Department")
      departments == {d \in Mentioning(n, KM("University0")) : GetType(d) = Department}
      Of(s, p, d) == \E t \in RootTemplates(n, GetType(s), p, Department) : Exists(n, s, t, d)
      heads == UNION {{<<s, d>> : s \in {t \in Mentioning(n, d) : Of(t, "headOf", d) /\ Of(t, "worksFor", d)}}
                        : d \in ElementsOf(n, {Department})}
  IN  {Message({r \in heads : r[2] \in departments}, RowsOf(departments),
               {r \in heads : r[2] \notin departments})}

\* One head of a department, from those the nodes did not pass as ready.
q12_m(messages) ==
  {ReadyOf(messages) \union
     {<<head[d], d>> : d \in {e \in DOMAIN head : <<e>> \in KnownOf(messages)}}
     : head \in Maps({<<r[2], r[1]>> : r \in PendingOf(messages)})}

\* q13: who has a degree from University0.
q13_n(n) ==
  LET University == KM("University0")
      DegreeTemplates(s) == UNION {RootTemplates(n, GetType(s), p, GetType(University)) :
                             p \in {"doctoralDegreeFrom", "mastersDegreeFrom", "undergraduateDegreeFrom"}}
  IN  {Ready(RowsOf({s \in Mentioning(n, University) :
                       \E t \in DegreeTemplates(s) : Exists(n, s, t, University)}))}

\* q15: how many students a member of the faculty advises.
q15_n(n) ==
  LET Advised(f) == Subjects(n, Hierarchy("Student"), "advisor", f)
      advisors == {f \in ElementsOf(n, Hierarchy("Faculty")) : Advised(f) # {}}
  IN  {Known({<<f, Cardinality(Advised(f))>> : f \in advisors})}

\* results.insert(..., i->second), then += i->second: the first count a faculty
\* member comes with is added twice.
AddCount(results, count) ==
  IF count[1] \in DOMAIN results
    THEN [results EXCEPT ![count[1]] = @ + count[2]]
    ELSE (count[1] :> 2 * count[2]) @@ results

q15_m(messages) ==
  LET vresults == FlattenSeq([i \in DOMAIN messages |-> SetToSeq(messages[i].known)])
      results == FoldLeft(AddCount, <<>>, vresults)
  IN  {{<<f, results[f]>> : f \in DOMAIN results}}

\* q16s1: all that is said of who has an address, then all that is said of that.
\* That the address is an emailAddress is not looked at.
q16s1_n(n) ==
  {Known(UNION {{<<s, e[1], e[2]>> : e \in Everything(n, s)} :
                  s \in Mentioning(n, KM("UndergraduateStudent0@Department0"))})}

q16s1_n2(n, found) ==
  {Ready(UNION {{r \o e : e \in Everything(n, r[3])} : r \in {x \in found : IsItMyObject(n, x[3])}})}

\* q17: the names of graduate students.  property_v is not cleared between the
\* students of a type, so begin() may be the name of an earlier one.
q17_n(n) ==
  LET Names(students) == UNION {Values(n, s, "name", {0}) : s \in Range(students)}
      Rows(order) ==
        [i \in DOMAIN order |-> {<<order[i], y>> : y \in Begin(Names(SubSeq(order, 1, i)))}]
  IN  UNION {{Ready(Range(f)) : f \in Picks(Rows(order))}
               : order \in SetToSeqs(LocalOf(n, Type("GraduateStudent")))}
------------------------------------------------------------------------------
(* Above scope 0.                                                          *)

\* q02s2: begin() of departments and universities, and of the universities of
\* this department, from the student's molecule alone.
q02s2_n(n) ==
  LET students == LocalOf(n, Type("GraduateStudent"))
      Departments(s) == Begin(Values(n, s, "memberOf", Type("Department")))
      Universities(s) == Begin(Values(n, s, "undergraduateDegreeFrom", Type("University")))
      tmpls(s) == {TemplateAt1(n, GetType(s), d, "subOrganizationOf", u)
                     : d \in Type("Department"), u \in Type("University")}
      Looks(s) == UNION {{<<d, u, v>> : u \in Universities(s), v \in Begin(ObjectsAt1(n, s, tmpls(s), d))}
                           : d \in Departments(s)}
  IN  {Ready({<<s, f[s][1], f[s][2]>> : s \in {t \in students : f[t][2] = f[t][3]}})
         : f \in Picks([s \in students |-> Looks(s)])}

\* q08s2: students in whose molecules University0 is part of what they are
\* members of.  The IDs of all student types are tried on each of them.
q08s2_n(n) ==
  LET University == KM("University0")
      Below(s) == {ri[2] : ri \in {t \in UNION {GetTemplatesByRoot(n.templates, d, KM("subOrganizationOf"), GetType(University), 1)
                                                : d \in Type("Department")} : t[1] = GetType(s)}}
      Of(s, p, types) ==
        Objects(n, s, UNION {{GetTripleTemplate(n.templates, t, t, KM(p), o, 0) : o \in types} : t \in Hierarchy("Student")})
      Departments(s) == Of(s, "memberOf", Type("Department"))
      EMails(s) == Of(s, "emailAddress", {0})
      students ==
        {s \in Mentioning(n, University) :
           /\ GetType(s) \in Hierarchy("Student")
           /\ CheckIfEntityExistsAt1(n.molecules[s], n.edges[s], Below(s), University, FALSE, {}) # {}
           /\ Departments(s) # {} /\ EMails(s) # {}}
  IN  {Ready(Range(f)) : f \in Picks([s \in students |-> {<<s, d, m>> : d \in Departments(s), m \in EMails(s)}])}

\* Mutant of q09s2_n: whether the advisor teaches the course is not looked at.
q09s2_nUntaught(n) ==
  LET Faculties(s) == Values(n, s, "advisor", Hierarchy("Faculty"))
      Courses(s) == Values(n, s, "takesCourse", Hierarchy("Course"))
  IN  {Ready(UNION {{<<s, c, c>> : c \in Courses(s)} : s \in q09Students(n)})
         : f \in Picks([s \in q09Students(n) |-> Faculties(s)])}

\* q09s2: the courses of one advisor.  What is sent as the faculty member is the
\* course, found a second time.
q09s2_n(n) ==
  LET Faculties(s) == Values(n, s, "advisor", Hierarchy("Faculty"))
      Courses(s) == Values(n, s, "takesCourse", Hierarchy("Course"))
      tmpls(s) == {TemplateAt1(n, GetType(s), f, "teacherOf", c)
                     : f \in Hierarchy("Faculty"), c \in Hierarchy("Course")}
      Rows(s, f) == {<<s, c, c>> : c \in Courses(s) \intersect ObjectsAt1(n, s, tmpls(s), f)}
  IN  {Ready(UNION {Rows(s, f[s]) : s \in q09Students(n)}) : f \in Picks([s \in q09Students(n) |-> Faculties(s)])}

\* q11s2: groups of what is part of University0 and of nothing else.
q11s2_n(n) ==
  LET University0 == KM("University0")
      tmpl(g) == TemplateAt1(n, GetType(g), 0, "subOrganizationOf", GetType(University0))
      Part(g) == \E o \in Values(n, g, "subOrganizationOf", {0}) : ObjectsAt1(n, g, {tmpl(g)}, o) = {University0}
  IN  {Ready(RowsOf({g \in LocalOf(n, Hierarchy("ResearchGroup")) : Part(g)}))}

\* q16s2: whatever molecule the address is in, at any scope.
q16s2_n(n) ==
  {Ready(UNION {UNION {{<<s>> \o e \o f : f \in EverythingAt1(n, s, e[2])} : e \in Everything(n, s)}
                  : s \in Mentioning(n, KM("UndergraduateStudent0@Department0"))})}
==============================================================================
