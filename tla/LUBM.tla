--------------------------------- MODULE LUBM ---------------------------------
(***************************************************************************)
(* LUBM.cpp: the queries of the LUBM benchmark in one process, n.  What    *)
(* they print are rows, as in LUBMnetwork.  No inverted list is compared   *)
(* with NULL before its begin() is read.                                   *)
(***************************************************************************)
EXTENDS NodeQueries

\* GetMoleculesFromInvertedIdx(o)->begin().
HasMentions(n, o) == Mentioning(n, o) # {}

q01(n) ==
  LET course == KM("GraduateCourse0")
      students == GetCompositesForTypes(GetSeq("GraduateStudent"))
  IN  IF HasMentions(n, course)
        THEN RowsOf(Subjects(n, students, "takesCourse", course))
        ELSE {<<Undefined>>}

\* KM.GetElementsOfType: what the files have of a class, whether it has a
\* molecule or not.
GetElementsOfType(n, type) ==
  {k \in UNION {{q.subject, q.object} : q \in Range(n.tripleIDs)} : GetType(k) = type}

q02(n) ==
  LET universities == GetElementsOfType(n, GetSeq("University"))
      uni_dep == UNION {{<<u, d>> : d \in Subjects(n, {GetSeq("Department")}, "subOrganizationOf", u)}
                          : u \in universities}
      Students(u, d) ==
        Subjects(n, {GetSeq("GraduateStudent")}, "undergraduateDegreeFrom", u) \intersect
        Subjects(n, {GetSeq("GraduateStudent")}, "memberOf", d)
  IN  IF (\A u \in universities : HasMentions(n, u)) /\ (\A r \in uni_dep : HasMentions(n, r[2]))
        THEN UNION {{r \o <<s>> : s \in Students(r[1], r[2])} : r \in uni_dep}
        ELSE {<<Undefined, Undefined, Undefined>>}
==============================================================================
