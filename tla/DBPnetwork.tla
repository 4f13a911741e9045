------------------------------ MODULE DBPnetwork ------------------------------
(***************************************************************************)
(* DBPnetwork.cpp: the queries of the DBpedia benchmark, as messages of    *)
(* the nodes (qNN_n, qNN_n2, qNN_n3 for the rounds) and joins of the       *)
(* master (qNN_m); without a qNN_m the answers are what nodes call ready.  *)
(*                                                                         *)
(* Template IDs are counted for each root.  Where the code tries the IDs   *)
(* of every root on one molecule (Position, q05_n2), so does the model.    *)
(***************************************************************************)
EXTENDS NodeQueries

CONSTANT Degrees   \* getDuble of the words that are numbers, in hundredths

\* The (root, ID) pairs of a predicate.
TemplatesOf(n, p) == GetTemplatesByRoot(n.templates, Wild, KM(p), Wild, 0)

\* q01: all that is said of one subject.
q01_n(n) ==
  LET museum == KM("Metropolitan_Museum")
  IN  {Ready(IF IsItMyObject(n, museum) THEN Everything(n, museum) ELSE {})}

\* q02: the casts of films with Kevin_Bacon, then those of films with one of
\* these actors.
CastOf(n, film) ==
  Objects(n, film, GetTemplates(n.templates, GetType(film), KM("starring"), Wild, 0))

q02_n(n) ==
  {Known(UNION {{<<f, a>> : a \in CastOf(n, f)} : f \in Subjects(n, TYPE_ID, "starring", KM("Kevin_Bacon"))})}

q02_n2(n, casts) ==
  {Ready(UNION {UNION {{<<r[1], r[2], f, a>> : a \in CastOf(n, f)}
                         : f \in Subjects(n, TYPE_ID, "starring", r[2])} : r \in casts})}

\* q03: artworks with artist and museum stay at their node, which asks all
\* nodes for the directors of the museums and joins.
Artworks(n) ==
  UNION {UNION {{<<ar, w, mu>> : mu \in Objects(n, w, {t[2]}),
                                 ar \in Objects(n, w, RootTemplates(n, t[1], "artist", Wild))}
                  : w \in LocalOf(n, {t[1]})} : t \in TemplatesOf(n, "museum")}

q03_n(n) == {Known({<<r[3]>> : r \in Artworks(n)})}

q03_n2(n, museums) ==
  {Known(UNION {{<<mu, d>> : d \in Objects(n, mu, RootTemplates(n, GetType(mu), "director", Wild))}
                  : mu \in {r[1] : r \in {x \in museums : IsItMyObject(n, x[1])}}})}

q03_n3(n, directors) ==
  {Ready(UNION {{r \o <<d[2]>> : d \in {x \in directors : x[1] = r[3]}} : r \in Artworks(n)})}

\* q04, q05: where the city is, and what is said to be somewhere with p.
Position(n, city) ==
  IF IsItMyObject(n, city)
    THEN UNION {Objects(n, city, {t[2]}) \X Objects(n, city, RootTemplates(n, t[1], "long", Wild))
                  : t \in TemplatesOf(n, "lat")}
    ELSE {}

Located(n, p) ==
  UNION {UNION {{<<s, la, lo, o>> : la \in Objects(n, s, {t[2]}),
                                    lo \in Objects(n, s, RootTemplates(n, t[1], "long", Wild)),
                                    o \in Objects(n, s, RootTemplates(n, t[1], p, Wild))}
                  : s \in LocalOf(n, {t[1]})} : t \in TemplatesOf(n, "lat")}

q04_n(n) == {Message({}, Position(n, KM("Berlin")), Located(n, "homepage"))}
q05_n(n) == {Message({}, Position(n, KM("New_York_City")), Located(n, "architect"))}

\* The box around a position.
Within(y, row, height, width) ==
  /\ Degrees[row[2]] \in (Degrees[y[1]] - height) .. (Degrees[y[1]] + height)
  /\ Degrees[row[3]] \in (Degrees[y[2]] - width) .. (Degrees[y[2]] + width)

\* The rows in the box around yy[0].  No position, or a word that is no number,
\* and the master does not get to an answer.
Around(messages, height, width) ==
  LET rows == PendingOf(messages)
      Numbers(y) == {y[1], y[2]} \union UNION {{r[2], r[3]} : r \in rows} \subseteq DOMAIN Degrees
      NoAnswer == {<<Undefined, Undefined, Undefined, Undefined>>}
  IN  IF KnownOf(messages) = {}
        THEN {NoAnswer}
        ELSE {IF Numbers(y) THEN {r \in rows : Within(y, r, height, width)} ELSE NoAnswer
                : y \in KnownOf(messages)}

q04_m(messages) == {{<<r[1], r[4]>> : r \in rows} : rows \in Around(messages, 3, 8)}

\* q05: what the master sends back to the nodes, who add the homepages.
q05_m(messages) == {{<<r[1], r[4]>> : r \in rows} : rows \in Around(messages, 31, 86)}

q05_n2(n, buildings) ==
  {Ready(UNION {UNION {{r \o <<page>> : page \in Objects(n, r[2], {t[2]})} : t \in TemplatesOf(n, "homepage")}
                  : r \in {x \in buildings : IsItMyObject(n, x[2])}})}
==============================================================================
