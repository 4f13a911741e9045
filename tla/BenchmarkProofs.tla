--------------------------- MODULE BenchmarkProofs ---------------------------
(***************************************************************************)
(* Proofs about the benchmark queries: what each of them shows are the     *)
(* solutions of the SPARQL text above it, and the contexts it names        *)
(* explain them.                                                           *)
(***************************************************************************)
EXTENDS Benchmark, ConductorProofs

(***************************************************************************)
(* What a text selects.                                                    *)
(***************************************************************************)

\* A text of n patterns whose columns its patterns bind.
Formed(q, sel, n) ==
  /\ DOMAIN sel.patterns = 1 .. n
  /\ \A i \in 1 .. n : Plain(sel.patterns[i])
  /\ \A i \in DOMAIN sel.columns : sel.columns[i] \in VarsUpTo(sel.patterns, n)
  /\ q = "q08" => "?a" \in VarsUpTo(sel.patterns, n)

\* Some assignment of the variables makes every pattern hold and gives the row.
Chosen(q, quads, sel, t) ==
  \E f : /\ \A i \in DOMAIN sel.patterns : Holds(quads, f, sel.patterns[i])
         /\ OfType(q, f)
         /\ t = [i \in DOMAIN sel.columns |-> f[sel.columns[i]]]

LEMMA SelectChosen ==
  ASSUME NEW q, NEW quads, NEW sel, NEW n \in Nat, Formed(q, sel, n), NEW t
  PROVE  t \in {[i \in DOMAIN sel.columns |-> b[sel.columns[i]]] :
                  b \in {d \in Solutions(quads, sel.patterns) : OfType(q, d)}}
           <=> Chosen(q, quads, sel, t)
<1>1. PICK T, columns : T = sel.patterns /\ columns = sel.columns
  OBVIOUS
<1>2. /\ DOMAIN T = 1 .. n /\ \A i \in 1 .. n : Plain(T[i])
      /\ \A i \in DOMAIN columns : columns[i] \in VarsUpTo(T, n)
      /\ q = "q08" => "?a" \in VarsUpTo(T, n)
  BY <1>1 DEF Formed
<1>3. ASSUME NEW b \in Solutions(quads, T), OfType(q, b),
             t = [i \in DOMAIN columns |-> b[columns[i]]]
      PROVE  Chosen(q, quads, sel, t)
  <2>1. Solved(quads, T, n, b)
    BY <1>2, SolutionsSolve
  <2>2. \A i \in DOMAIN T : Holds(quads, b, T[i])
    BY <1>2, <2>1 DEF Solved
  <2>3. QED
    BY <1>1, <1>3, <2>2 DEF Chosen
<1>4. ASSUME NEW f, \A i \in DOMAIN T : Holds(quads, f, T[i]), OfType(q, f),
             t = [i \in DOMAIN columns |-> f[columns[i]]]
      PROVE  \E b \in Solutions(quads, T) :
               OfType(q, b) /\ t = [i \in DOMAIN columns |-> b[columns[i]]]
  <2>1. PICK b : b = [x \in VarsUpTo(T, n) |-> f[x]]
    OBVIOUS
  <2>2. b \in Solutions(quads, T)
    BY <1>2, <1>4, <2>1, HoldingIsSolution
  <2>3. \A x \in VarsUpTo(T, n) : b[x] = f[x]
    BY <2>1
  <2>4. \A i \in DOMAIN columns : b[columns[i]] = f[columns[i]]
    BY <1>2, <2>3
  <2>5. t = [i \in DOMAIN columns |-> b[columns[i]]]
    BY <1>4, <2>4
  <2>6. OfType(q, b)
    BY <1>2, <1>4, <2>3 DEF OfType
  <2>7. QED
    BY <2>2, <2>5, <2>6
<1>5. QED
  BY <1>1, <1>3, <1>4 DEF Chosen

LEMMA AskedChosen ==
  ASSUME NEW q, NEW quads, \A sel \in SPARQL[q] : \E n \in Nat : Formed(q, sel, n), NEW t
  PROVE  t \in Asked(q, quads) <=> \E sel \in SPARQL[q] : Chosen(q, quads, sel, t)
<1>1. ASSUME NEW sel \in SPARQL[q]
      PROVE  t \in {[i \in DOMAIN sel.columns |-> b[sel.columns[i]]] :
                      b \in {d \in Solutions(quads, sel.patterns) : OfType(q, d)}}
               <=> Chosen(q, quads, sel, t)
  BY <1>1, SelectChosen
<1>2. QED
  BY <1>1 DEF Asked

\* More quads make no pattern fail.
LEMMA ChosenGrows ==
  ASSUME NEW q, NEW quads, NEW more, quads \subseteq more, NEW sel, NEW t, Chosen(q, quads, sel, t)
  PROVE  Chosen(q, more, sel, t)
<1>1. \A f, pattern : Holds(quads, f, pattern) => Holds(more, f, pattern)
  BY DEF Holds, In
<1>2. QED
  BY <1>1 DEF Chosen

\* q selects the columns of the solutions of the n patterns of T.
Selecting(q, columns, T, n) ==
  /\ SPARQL[q] = {Select(columns, T)}
  /\ DOMAIN T = 1 .. n /\ \A i \in 1 .. n : Plain(T[i])
  /\ \A i \in DOMAIN columns : columns[i] \in VarsUpTo(T, n)
  /\ q = "q08" => "?a" \in VarsUpTo(T, n)

Reads(q, quads, columns, T, n, t) ==
  \E f : /\ \A i \in 1 .. n : Holds(quads, f, T[i])
         /\ OfType(q, f)
         /\ t = [i \in DOMAIN columns |-> f[columns[i]]]

LEMMA AskedIs ==
  ASSUME NEW q, NEW quads, NEW columns, NEW T, NEW n \in Nat, Selecting(q, columns, T, n), NEW t
  PROVE  t \in Asked(q, quads) <=> Reads(q, quads, columns, T, n, t)
<1>1. PICK sel : sel = Select(columns, T)
  OBVIOUS
<1>2. SPARQL[q] = {sel} /\ sel.patterns = T /\ sel.columns = columns
  BY <1>1 DEF Select, Selecting
<1>3. Formed(q, sel, n)
  BY <1>2 DEF Formed, Selecting
<1>4. \A x \in SPARQL[q] : \E k \in Nat : Formed(q, x, k)
  BY <1>2, <1>3
<1>5. t \in Asked(q, quads) <=> Chosen(q, quads, sel, t)
  BY <1>2, <1>4, AskedChosen
<1>6. QED
  BY <1>2, <1>5 DEF Chosen, Selecting, Reads

LEMMA TupleOf3 ==
  ASSUME NEW a, NEW b, NEW c, NEW s, s = <<a, b, c>>
  PROVE  /\ DOMAIN s = 1 .. 3 /\ \A i : i \in 1 .. 3 <=> i = 1 \/ i = 2 \/ i = 3
         /\ s[1] = a /\ s[2] = b /\ s[3] = c
OBVIOUS

\* Two values of what has some relation to a word, and a given one to another.
IsMentioning(q, w, p, o, v, u, x, y) ==
  /\ q # "q08"
  /\ {w, p, o, v, u} \intersect Vars = {}
  /\ {x, y} \subseteq Vars \ {"?a", "?j"}
  /\ x # y
  /\ SPARQL[q] = {Select(<<x, y>>,
                      <<About("?j", w), About(p, o), About(v, x), About(u, y)>>)}

LEMMA TextMentioning ==
  ASSUME NEW q, NEW w, NEW p, NEW o, NEW v, NEW u, NEW x, NEW y,
         IsMentioning(q, w, p, o, v, u, x, y),
         NEW quads, NEW t
  PROVE  t \in Asked(q, quads) <=>
           \E a, j, k, l :
             /\ In(quads, a, j, KM(w)) /\ In(quads, a, KM(p), KM(o))
             /\ In(quads, a, KM(v), k) /\ In(quads, a, KM(u), l)
             /\ t = <<k, l>>
<1>a. /\ q # "q08"
      /\ {w, p, o, v, u} \intersect Vars = {}
      /\ {x, y} \subseteq Vars \ {"?a", "?j"}
      /\ x # y
  BY DEF IsMentioning
<1> USE <1>a
<1>1. PICK T, columns : T = <<<<"?a", "?j", w>>, <<"?a", p, o>>, <<"?a", v, x>>,
                                <<"?a", u, y>>>>
                        /\ columns = <<x, y>>
  OBVIOUS
<1>2. SPARQL[q] = {Select(columns, T)}
  BY <1>1 DEF About, IsMentioning
<1>3. /\ \A name \in {"?a", "?j", x, y} : name \in Vars
      /\ \A word \in {w, p, o, v, u} : word \notin Vars
  <2>1. "?a" \in Vars /\ "?j" \in Vars
    BY DEF Vars
  <2>2. QED
    BY <2>1
<1>4. DOMAIN T = 1 .. 4 /\ \A i : i \in 1 .. 4 <=> i = 1 \/ i = 2 \/ i = 3 \/ i = 4
  BY <1>1
<1>5. T[1] = <<"?a", "?j", w>> /\ T[2] = <<"?a", p, o>> /\ T[3] = <<"?a", v, x>>
      /\ T[4] = <<"?a", u, y>>
  BY <1>1
<1>c. /\ DOMAIN columns = 1 .. 2 /\ \A i : i \in 1 .. 2 <=> i = 1 \/ i = 2
      /\ columns[1] = x /\ columns[2] = y
  BY <1>1
<1> HIDE <1>1
<1>6. \A i \in 1 .. 4 : Plain(T[i])
  <2>1. /\ "?a" # "?j" /\ "?a" # w /\ "?j" # w
        /\ "?a" # p /\ "?a" # o
        /\ "?a" # v /\ "?a" # x /\ v # x
        /\ "?a" # u /\ "?a" # y /\ u # y
    BY <1>3
  <2>2. Plain(T[1]) /\ Plain(T[2]) /\ Plain(T[3]) /\ Plain(T[4])
    BY <2>1, <1>3, <1>5 DEF Plain
  <2>3. QED
    BY <1>4, <2>2
<1>7. \A i \in DOMAIN columns : columns[i] \in VarsUpTo(T, 4)
  <2>1. columns[1] \in VarsOf(T[3]) /\ columns[2] \in VarsOf(T[4])
    BY <1>3, <1>5, <1>c DEF VarsOf
  <2>2. QED
    BY <1>4, <1>c, <2>1 DEF VarsUpTo
<1>8. t \in Asked(q, quads) <=>
        \E f : /\ \A i \in 1 .. 4 : Holds(quads, f, T[i])
               /\ OfType(q, f)
               /\ t = [i \in DOMAIN columns |-> f[columns[i]]]
  <2>1. PICK n \in Nat : n = 4
    OBVIOUS
  <2>2. DOMAIN T = 1 .. n /\ \A i \in 1 .. n : Plain(T[i])
    BY <1>4, <1>6, <2>1
  <2>3. \A i \in DOMAIN columns : columns[i] \in VarsUpTo(T, n)
    BY <1>7, <2>1
  <2>4. q = "q08" => "?a" \in VarsUpTo(T, n)
    OBVIOUS
  <2>5. t \in Asked(q, quads) <=>
          \E f : /\ \A i \in 1 .. n : Holds(quads, f, T[i])
                 /\ OfType(q, f)
                 /\ t = [i \in DOMAIN columns |-> f[columns[i]]]
    <3>1. Selecting(q, columns, T, n)
      BY <1>2, <2>2, <2>3, <2>4, Zenon DEF Selecting
    <3>2. t \in Asked(q, quads) <=> Reads(q, quads, columns, T, n, t)
      BY <2>1, <3>1, AskedIs, Zenon
    <3>3. QED
      BY <3>2, Zenon DEF Reads
  <2>6. QED
    BY <2>1, <2>5
<1>9. \A f : OfType(q, f)
  BY DEF OfType
<1>10. \A f : [i \in DOMAIN columns |-> f[columns[i]]] = <<f[x], f[y]>>
  BY <1>c
<1>11. ASSUME NEW f
       PROVE  (\A i \in 1 .. 4 : Holds(quads, f, T[i])) <=>
               /\ In(quads, f["?a"], f["?j"], KM(w)) /\ In(quads, f["?a"], KM(p), KM(o))
               /\ In(quads, f["?a"], KM(v), f[x]) /\ In(quads, f["?a"], KM(u), f[y])
  <2>1. /\ Holds(quads, f, T[1]) <=> In(quads, f["?a"], f["?j"], KM(w))
        /\ Holds(quads, f, T[2]) <=> In(quads, f["?a"], KM(p), KM(o))
        /\ Holds(quads, f, T[3]) <=> In(quads, f["?a"], KM(v), f[x])
        /\ Holds(quads, f, T[4]) <=> In(quads, f["?a"], KM(u), f[y])
    BY <1>3, <1>5 DEF Holds, TermId
  <2>2. QED
    BY <1>4, <2>1
<1>12. ASSUME t \in Asked(q, quads)
       PROVE  \E a, j, k, l :
                /\ In(quads, a, j, KM(w)) /\ In(quads, a, KM(p), KM(o))
                /\ In(quads, a, KM(v), k) /\ In(quads, a, KM(u), l)
                /\ t = <<k, l>>
  <2>1. PICK f : /\ \A i \in 1 .. 4 : Holds(quads, f, T[i])
                 /\ OfType(q, f)
                 /\ t = [i \in DOMAIN columns |-> f[columns[i]]]
    BY <1>8, <1>12
  <2>2. t = <<f[x], f[y]>>
    BY <1>10, <2>1
  <2>3. /\ In(quads, f["?a"], f["?j"], KM(w)) /\ In(quads, f["?a"], KM(p), KM(o))
        /\ In(quads, f["?a"], KM(v), f[x]) /\ In(quads, f["?a"], KM(u), f[y])
    BY <1>9, <1>11, <2>1
  <2>4. QED
    BY <2>2, <2>3
<1>13. ASSUME NEW a, NEW j, NEW k, NEW l,
              In(quads, a, j, KM(w)), In(quads, a, KM(p), KM(o)), In(quads, a, KM(v), k),
              In(quads, a, KM(u), l),
              t = <<k, l>>
       PROVE  t \in Asked(q, quads)
  <2>1. PICK f : f = [name \in Vars |-> CASE name = "?a" -> a [] name = "?j" -> j
                                          [] name = x -> k [] name = y -> l]
    OBVIOUS
  <2>2. f["?a"] = a /\ f["?j"] = j /\ f[x] = k /\ f[y] = l
    BY <1>3, <2>1
  <2>3. In(quads, f["?a"], f["?j"], KM(w)) /\ In(quads, f["?a"], KM(p), KM(o))
        /\ In(quads, f["?a"], KM(v), f[x]) /\ In(quads, f["?a"], KM(u), f[y])
    BY <1>13, <2>2, Zenon
  <2>4. \A i \in 1 .. 4 : Holds(quads, f, T[i])
    BY <1>11, <2>3
  <2>5. t = [i \in DOMAIN columns |-> f[columns[i]]]
    BY <1>10, <1>13, <2>2
  <2>6. QED
    BY <1>8, <1>9, <1>13, <2>2, <2>4, <2>5
<1>14. QED
  BY <1>12, <1>13

\* Three values of what has some relation to a word.
IsMentioned(q, w, v, u, r, x, y, z) ==
  /\ q # "q08"
  /\ {w, v, u, r} \intersect Vars = {}
  /\ {x, y, z} \subseteq Vars \ {"?a", "?j"}
  /\ x # y /\ x # z /\ y # z
  /\ SPARQL[q] = {Select(<<x, y, z>>,
                      <<About("?j", w), About(v, x), About(u, y), About(r, z)>>)}

LEMMA TextMentioned ==
  ASSUME NEW q, NEW w, NEW v, NEW u, NEW r, NEW x, NEW y, NEW z,
         IsMentioned(q, w, v, u, r, x, y, z),
         NEW quads, NEW t
  PROVE  t \in Asked(q, quads) <=>
           \E a, j, k, l, m :
             /\ In(quads, a, j, KM(w)) /\ In(quads, a, KM(v), k) /\ In(quads, a, KM(u), l)
             /\ In(quads, a, KM(r), m)
             /\ t = <<k, l, m>>
<1>a. /\ q # "q08"
      /\ {w, v, u, r} \intersect Vars = {}
      /\ {x, y, z} \subseteq Vars \ {"?a", "?j"}
      /\ x # y /\ x # z /\ y # z
  BY DEF IsMentioned
<1> USE <1>a
<1>1. PICK T, columns : T = <<<<"?a", "?j", w>>, <<"?a", v, x>>, <<"?a", u, y>>,
                                <<"?a", r, z>>>>
                        /\ columns = <<x, y, z>>
  OBVIOUS
<1>2. SPARQL[q] = {Select(columns, T)}
  BY <1>1 DEF About, IsMentioned
<1>3. /\ \A name \in {"?a", "?j", x, y, z} : name \in Vars
      /\ \A word \in {w, v, u, r} : word \notin Vars
  <2>1. "?a" \in Vars /\ "?j" \in Vars
    BY DEF Vars
  <2>2. QED
    BY <2>1
<1>4. DOMAIN T = 1 .. 4 /\ \A i : i \in 1 .. 4 <=> i = 1 \/ i = 2 \/ i = 3 \/ i = 4
  BY <1>1
<1>5. T[1] = <<"?a", "?j", w>> /\ T[2] = <<"?a", v, x>> /\ T[3] = <<"?a", u, y>>
      /\ T[4] = <<"?a", r, z>>
  BY <1>1
<1>c. /\ DOMAIN columns = 1 .. 3 /\ \A i : i \in 1 .. 3 <=> i = 1 \/ i = 2 \/ i = 3
      /\ columns[1] = x /\ columns[2] = y /\ columns[3] = z
  BY <1>1, TupleOf3
<1> HIDE <1>1
<1>6. \A i \in 1 .. 4 : Plain(T[i])
  <2>1. /\ "?a" # "?j" /\ "?a" # w /\ "?j" # w
        /\ "?a" # v /\ "?a" # x /\ v # x
        /\ "?a" # u /\ "?a" # y /\ u # y
        /\ "?a" # r /\ "?a" # z /\ r # z
    BY <1>3
  <2>2. Plain(T[1]) /\ Plain(T[2]) /\ Plain(T[3]) /\ Plain(T[4])
    BY <2>1, <1>3, <1>5 DEF Plain
  <2>3. QED
    BY <1>4, <2>2
<1>7. \A i \in DOMAIN columns : columns[i] \in VarsUpTo(T, 4)
  <2>1. columns[1] \in VarsOf(T[2]) /\ columns[2] \in VarsOf(T[3])
        /\ columns[3] \in VarsOf(T[4])
    BY <1>3, <1>5, <1>c DEF VarsOf
  <2>2. QED
    BY <1>4, <1>c, <2>1 DEF VarsUpTo
<1>8. t \in Asked(q, quads) <=>
        \E f : /\ \A i \in 1 .. 4 : Holds(quads, f, T[i])
               /\ OfType(q, f)
               /\ t = [i \in DOMAIN columns |-> f[columns[i]]]
  <2>1. PICK n \in Nat : n = 4
    OBVIOUS
  <2>2. DOMAIN T = 1 .. n /\ \A i \in 1 .. n : Plain(T[i])
    BY <1>4, <1>6, <2>1
  <2>3. \A i \in DOMAIN columns : columns[i] \in VarsUpTo(T, n)
    BY <1>7, <2>1
  <2>4. q = "q08" => "?a" \in VarsUpTo(T, n)
    OBVIOUS
  <2>5. t \in Asked(q, quads) <=>
          \E f : /\ \A i \in 1 .. n : Holds(quads, f, T[i])
                 /\ OfType(q, f)
                 /\ t = [i \in DOMAIN columns |-> f[columns[i]]]
    <3>1. Selecting(q, columns, T, n)
      BY <1>2, <2>2, <2>3, <2>4, Zenon DEF Selecting
    <3>2. t \in Asked(q, quads) <=> Reads(q, quads, columns, T, n, t)
      BY <2>1, <3>1, AskedIs, Zenon
    <3>3. QED
      BY <3>2, Zenon DEF Reads
  <2>6. QED
    BY <2>1, <2>5
<1>9. \A f : OfType(q, f)
  BY DEF OfType
<1>10. \A f : [i \in DOMAIN columns |-> f[columns[i]]] = <<f[x], f[y], f[z]>>
  BY <1>c
<1>11. ASSUME NEW f
       PROVE  (\A i \in 1 .. 4 : Holds(quads, f, T[i])) <=>
               /\ In(quads, f["?a"], f["?j"], KM(w)) /\ In(quads, f["?a"], KM(v), f[x])
               /\ In(quads, f["?a"], KM(u), f[y]) /\ In(quads, f["?a"], KM(r), f[z])
  <2>1. /\ Holds(quads, f, T[1]) <=> In(quads, f["?a"], f["?j"], KM(w))
        /\ Holds(quads, f, T[2]) <=> In(quads, f["?a"], KM(v), f[x])
        /\ Holds(quads, f, T[3]) <=> In(quads, f["?a"], KM(u), f[y])
        /\ Holds(quads, f, T[4]) <=> In(quads, f["?a"], KM(r), f[z])
    BY <1>3, <1>5 DEF Holds, TermId
  <2>2. QED
    BY <1>4, <2>1
<1>12. ASSUME t \in Asked(q, quads)
       PROVE  \E a, j, k, l, m :
                /\ In(quads, a, j, KM(w)) /\ In(quads, a, KM(v), k)
                /\ In(quads, a, KM(u), l) /\ In(quads, a, KM(r), m)
                /\ t = <<k, l, m>>
  <2>1. PICK f : /\ \A i \in 1 .. 4 : Holds(quads, f, T[i])
                 /\ OfType(q, f)
                 /\ t = [i \in DOMAIN columns |-> f[columns[i]]]
    BY <1>8, <1>12
  <2>2. t = <<f[x], f[y], f[z]>>
    BY <1>10, <2>1
  <2>3. /\ In(quads, f["?a"], f["?j"], KM(w)) /\ In(quads, f["?a"], KM(v), f[x])
        /\ In(quads, f["?a"], KM(u), f[y]) /\ In(quads, f["?a"], KM(r), f[z])
    BY <1>9, <1>11, <2>1
  <2>4. QED
    BY <2>2, <2>3
<1>13. ASSUME NEW a, NEW j, NEW k, NEW l, NEW m,
              In(quads, a, j, KM(w)), In(quads, a, KM(v), k), In(quads, a, KM(u), l),
              In(quads, a, KM(r), m),
              t = <<k, l, m>>
       PROVE  t \in Asked(q, quads)
  <2>1. PICK f : f = [name \in Vars |-> CASE name = "?a" -> a [] name = "?j" -> j
                                          [] name = x -> k [] name = y -> l
                                          [] name = z -> m]
    OBVIOUS
  <2>2. f["?a"] = a /\ f["?j"] = j /\ f[x] = k /\ f[y] = l /\ f[z] = m
    BY <1>3, <2>1
  <2>3. In(quads, f["?a"], f["?j"], KM(w)) /\ In(quads, f["?a"], KM(v), f[x])
        /\ In(quads, f["?a"], KM(u), f[y]) /\ In(quads, f["?a"], KM(r), f[z])
    BY <1>13, <2>2, Zenon
  <2>4. \A i \in 1 .. 4 : Holds(quads, f, T[i])
    BY <1>11, <2>3
  <2>5. t = [i \in DOMAIN columns |-> f[columns[i]]]
    BY <1>10, <1>13, <2>2
  <2>6. QED
    BY <1>8, <1>9, <1>13, <2>2, <2>4, <2>5
<1>14. QED
  BY <1>12, <1>13

\* Three values of what has two given relations.
IsHavingTwo(q, p, o, e, d, v, u, r, x, y, z) ==
  /\ q # "q08"
  /\ {p, o, e, d, v, u, r} \intersect Vars = {}
  /\ {x, y, z} \subseteq Vars \ {"?a", "?j"}
  /\ x # y /\ x # z /\ y # z
  /\ SPARQL[q] = {Select(<<x, y, z>>,
                      <<About(p, o), About(e, d), About(v, x), About(u, y), About(r, z)>>)}

LEMMA TextHavingTwo ==
  ASSUME NEW q, NEW p, NEW o, NEW e, NEW d, NEW v, NEW u, NEW r, NEW x, NEW y, NEW z,
         IsHavingTwo(q, p, o, e, d, v, u, r, x, y, z),
         NEW quads, NEW t
  PROVE  t \in Asked(q, quads) <=>
           \E a, k, l, m :
             /\ In(quads, a, KM(p), KM(o)) /\ In(quads, a, KM(e), KM(d))
             /\ In(quads, a, KM(v), k) /\ In(quads, a, KM(u), l)
             /\ In(quads, a, KM(r), m)
             /\ t = <<k, l, m>>
<1>a. /\ q # "q08"
      /\ {p, o, e, d, v, u, r} \intersect Vars = {}
      /\ {x, y, z} \subseteq Vars \ {"?a", "?j"}
      /\ x # y /\ x # z /\ y # z
  BY DEF IsHavingTwo
<1> USE <1>a
<1>1. PICK T, columns : T = <<<<"?a", p, o>>, <<"?a", e, d>>, <<"?a", v, x>>,
                                <<"?a", u, y>>, <<"?a", r, z>>>>
                        /\ columns = <<x, y, z>>
  OBVIOUS
<1>2. SPARQL[q] = {Select(columns, T)}
  BY <1>1 DEF About, IsHavingTwo
<1>3. /\ \A name \in {"?a", x, y, z} : name \in Vars
      /\ \A word \in {p, o, e, d, v, u, r} : word \notin Vars
  <2>1. "?a" \in Vars
    BY DEF Vars
  <2>2. QED
    BY <2>1
<1>4. DOMAIN T = 1 .. 5 /\ \A i : i \in 1 .. 5 <=> i = 1 \/ i = 2 \/ i = 3 \/ i = 4 \/ i = 5
  BY <1>1
<1>5. T[1] = <<"?a", p, o>> /\ T[2] = <<"?a", e, d>> /\ T[3] = <<"?a", v, x>>
      /\ T[4] = <<"?a", u, y>> /\ T[5] = <<"?a", r, z>>
  BY <1>1
<1>c. /\ DOMAIN columns = 1 .. 3 /\ \A i : i \in 1 .. 3 <=> i = 1 \/ i = 2 \/ i = 3
      /\ columns[1] = x /\ columns[2] = y /\ columns[3] = z
  BY <1>1, TupleOf3
<1> HIDE <1>1
<1>6. \A i \in 1 .. 5 : Plain(T[i])
  <2>1. /\ "?a" # p /\ "?a" # o
        /\ "?a" # e /\ "?a" # d
        /\ "?a" # v /\ "?a" # x /\ v # x
        /\ "?a" # u /\ "?a" # y /\ u # y
        /\ "?a" # r /\ "?a" # z /\ r # z
    BY <1>3
  <2>2. Plain(T[1]) /\ Plain(T[2]) /\ Plain(T[3]) /\ Plain(T[4]) /\ Plain(T[5])
    BY <2>1, <1>3, <1>5 DEF Plain
  <2>3. QED
    BY <1>4, <2>2
<1>7. \A i \in DOMAIN columns : columns[i] \in VarsUpTo(T, 5)
  <2>1. columns[1] \in VarsOf(T[3]) /\ columns[2] \in VarsOf(T[4])
        /\ columns[3] \in VarsOf(T[5])
    BY <1>3, <1>5, <1>c DEF VarsOf
  <2>2. QED
    BY <1>4, <1>c, <2>1 DEF VarsUpTo
<1>8. t \in Asked(q, quads) <=>
        \E f : /\ \A i \in 1 .. 5 : Holds(quads, f, T[i])
               /\ OfType(q, f)
               /\ t = [i \in DOMAIN columns |-> f[columns[i]]]
  <2>1. PICK n \in Nat : n = 5
    OBVIOUS
  <2>2. DOMAIN T = 1 .. n /\ \A i \in 1 .. n : Plain(T[i])
    BY <1>4, <1>6, <2>1
  <2>3. \A i \in DOMAIN columns : columns[i] \in VarsUpTo(T, n)
    BY <1>7, <2>1
  <2>4. q = "q08" => "?a" \in VarsUpTo(T, n)
    OBVIOUS
  <2>5. t \in Asked(q, quads) <=>
          \E f : /\ \A i \in 1 .. n : Holds(quads, f, T[i])
                 /\ OfType(q, f)
                 /\ t = [i \in DOMAIN columns |-> f[columns[i]]]
    <3>1. Selecting(q, columns, T, n)
      BY <1>2, <2>2, <2>3, <2>4, Zenon DEF Selecting
    <3>2. t \in Asked(q, quads) <=> Reads(q, quads, columns, T, n, t)
      BY <2>1, <3>1, AskedIs, Zenon
    <3>3. QED
      BY <3>2, Zenon DEF Reads
  <2>6. QED
    BY <2>1, <2>5
<1>9. \A f : OfType(q, f)
  BY DEF OfType
<1>10. \A f : [i \in DOMAIN columns |-> f[columns[i]]] = <<f[x], f[y], f[z]>>
  BY <1>c
<1>11. ASSUME NEW f
       PROVE  (\A i \in 1 .. 5 : Holds(quads, f, T[i])) <=>
               /\ In(quads, f["?a"], KM(p), KM(o)) /\ In(quads, f["?a"], KM(e), KM(d))
               /\ In(quads, f["?a"], KM(v), f[x]) /\ In(quads, f["?a"], KM(u), f[y])
               /\ In(quads, f["?a"], KM(r), f[z])
  <2>1. /\ Holds(quads, f, T[1]) <=> In(quads, f["?a"], KM(p), KM(o))
        /\ Holds(quads, f, T[2]) <=> In(quads, f["?a"], KM(e), KM(d))
        /\ Holds(quads, f, T[3]) <=> In(quads, f["?a"], KM(v), f[x])
        /\ Holds(quads, f, T[4]) <=> In(quads, f["?a"], KM(u), f[y])
        /\ Holds(quads, f, T[5]) <=> In(quads, f["?a"], KM(r), f[z])
    BY <1>3, <1>5 DEF Holds, TermId
  <2>2. QED
    BY <1>4, <2>1
<1>12. ASSUME t \in Asked(q, quads)
       PROVE  \E a, k, l, m :
                /\ In(quads, a, KM(p), KM(o)) /\ In(quads, a, KM(e), KM(d))
                /\ In(quads, a, KM(v), k) /\ In(quads, a, KM(u), l)
                /\ In(quads, a, KM(r), m)
                /\ t = <<k, l, m>>
  <2>1. PICK f : /\ \A i \in 1 .. 5 : Holds(quads, f, T[i])
                 /\ OfType(q, f)
                 /\ t = [i \in DOMAIN columns |-> f[columns[i]]]
    BY <1>8, <1>12
  <2>2. t = <<f[x], f[y], f[z]>>
    BY <1>10, <2>1
  <2>3. /\ In(quads, f["?a"], KM(p), KM(o)) /\ In(quads, f["?a"], KM(e), KM(d))
        /\ In(quads, f["?a"], KM(v), f[x]) /\ In(quads, f["?a"], KM(u), f[y])
        /\ In(quads, f["?a"], KM(r), f[z])
    BY <1>9, <1>11, <2>1
  <2>4. QED
    BY <2>2, <2>3
<1>13. ASSUME NEW a, NEW k, NEW l, NEW m,
              In(quads, a, KM(p), KM(o)), In(quads, a, KM(e), KM(d)),
              In(quads, a, KM(v), k), In(quads, a, KM(u), l), In(quads, a, KM(r), m),
              t = <<k, l, m>>
       PROVE  t \in Asked(q, quads)
  <2>1. PICK f : f = [name \in Vars |-> CASE name = "?a" -> a [] name = x -> k
                                          [] name = y -> l [] name = z -> m]
    OBVIOUS
  <2>2. f["?a"] = a /\ f[x] = k /\ f[y] = l /\ f[z] = m
    BY <1>3, <2>1
  <2>3. In(quads, f["?a"], KM(p), KM(o)) /\ In(quads, f["?a"], KM(e), KM(d))
        /\ In(quads, f["?a"], KM(v), f[x]) /\ In(quads, f["?a"], KM(u), f[y])
        /\ In(quads, f["?a"], KM(r), f[z])
    BY <1>13, <2>2, Zenon
  <2>4. \A i \in 1 .. 5 : Holds(quads, f, T[i])
    BY <1>11, <2>3
  <2>5. t = [i \in DOMAIN columns |-> f[columns[i]]]
    BY <1>10, <1>13, <2>2
  <2>6. QED
    BY <1>8, <1>9, <1>13, <2>2, <2>4, <2>5
<1>14. QED
  BY <1>12, <1>13

\* Three values of what has one given relation.
IsHavingOne(q, p, o, v, u, r, x, y, z) ==
  /\ q # "q08"
  /\ {p, o, v, u, r} \intersect Vars = {}
  /\ {x, y, z} \subseteq Vars \ {"?a", "?j"}
  /\ x # y /\ x # z /\ y # z
  /\ SPARQL[q] = {Select(<<x, y, z>>,
                      <<About(p, o), About(v, x), About(u, y), About(r, z)>>)}

LEMMA TextHavingOne ==
  ASSUME NEW q, NEW p, NEW o, NEW v, NEW u, NEW r, NEW x, NEW y, NEW z,
         IsHavingOne(q, p, o, v, u, r, x, y, z),
         NEW quads, NEW t
  PROVE  t \in Asked(q, quads) <=>
           \E a, k, l, m :
             /\ In(quads, a, KM(p), KM(o)) /\ In(quads, a, KM(v), k)
             /\ In(quads, a, KM(u), l) /\ In(quads, a, KM(r), m)
             /\ t = <<k, l, m>>
<1>a. /\ q # "q08"
      /\ {p, o, v, u, r} \intersect Vars = {}
      /\ {x, y, z} \subseteq Vars \ {"?a", "?j"}
      /\ x # y /\ x # z /\ y # z
  BY DEF IsHavingOne
<1> USE <1>a
<1>1. PICK T, columns : T = <<<<"?a", p, o>>, <<"?a", v, x>>, <<"?a", u, y>>,
                                <<"?a", r, z>>>>
                        /\ columns = <<x, y, z>>
  OBVIOUS
<1>2. SPARQL[q] = {Select(columns, T)}
  BY <1>1 DEF About, IsHavingOne
<1>3. /\ \A name \in {"?a", x, y, z} : name \in Vars
      /\ \A word \in {p, o, v, u, r} : word \notin Vars
  <2>1. "?a" \in Vars
    BY DEF Vars
  <2>2. QED
    BY <2>1
<1>4. DOMAIN T = 1 .. 4 /\ \A i : i \in 1 .. 4 <=> i = 1 \/ i = 2 \/ i = 3 \/ i = 4
  BY <1>1
<1>5. T[1] = <<"?a", p, o>> /\ T[2] = <<"?a", v, x>> /\ T[3] = <<"?a", u, y>>
      /\ T[4] = <<"?a", r, z>>
  BY <1>1
<1>c. /\ DOMAIN columns = 1 .. 3 /\ \A i : i \in 1 .. 3 <=> i = 1 \/ i = 2 \/ i = 3
      /\ columns[1] = x /\ columns[2] = y /\ columns[3] = z
  BY <1>1, TupleOf3
<1> HIDE <1>1
<1>6. \A i \in 1 .. 4 : Plain(T[i])
  <2>1. /\ "?a" # p /\ "?a" # o
        /\ "?a" # v /\ "?a" # x /\ v # x
        /\ "?a" # u /\ "?a" # y /\ u # y
        /\ "?a" # r /\ "?a" # z /\ r # z
    BY <1>3
  <2>2. Plain(T[1]) /\ Plain(T[2]) /\ Plain(T[3]) /\ Plain(T[4])
    BY <2>1, <1>3, <1>5 DEF Plain
  <2>3. QED
    BY <1>4, <2>2
<1>7. \A i \in DOMAIN columns : columns[i] \in VarsUpTo(T, 4)
  <2>1. columns[1] \in VarsOf(T[2]) /\ columns[2] \in VarsOf(T[3])
        /\ columns[3] \in VarsOf(T[4])
    BY <1>3, <1>5, <1>c DEF VarsOf
  <2>2. QED
    BY <1>4, <1>c, <2>1 DEF VarsUpTo
<1>8. t \in Asked(q, quads) <=>
        \E f : /\ \A i \in 1 .. 4 : Holds(quads, f, T[i])
               /\ OfType(q, f)
               /\ t = [i \in DOMAIN columns |-> f[columns[i]]]
  <2>1. PICK n \in Nat : n = 4
    OBVIOUS
  <2>2. DOMAIN T = 1 .. n /\ \A i \in 1 .. n : Plain(T[i])
    BY <1>4, <1>6, <2>1
  <2>3. \A i \in DOMAIN columns : columns[i] \in VarsUpTo(T, n)
    BY <1>7, <2>1
  <2>4. q = "q08" => "?a" \in VarsUpTo(T, n)
    OBVIOUS
  <2>5. t \in Asked(q, quads) <=>
          \E f : /\ \A i \in 1 .. n : Holds(quads, f, T[i])
                 /\ OfType(q, f)
                 /\ t = [i \in DOMAIN columns |-> f[columns[i]]]
    <3>1. Selecting(q, columns, T, n)
      BY <1>2, <2>2, <2>3, <2>4, Zenon DEF Selecting
    <3>2. t \in Asked(q, quads) <=> Reads(q, quads, columns, T, n, t)
      BY <2>1, <3>1, AskedIs, Zenon
    <3>3. QED
      BY <3>2, Zenon DEF Reads
  <2>6. QED
    BY <2>1, <2>5
<1>9. \A f : OfType(q, f)
  BY DEF OfType
<1>10. \A f : [i \in DOMAIN columns |-> f[columns[i]]] = <<f[x], f[y], f[z]>>
  BY <1>c
<1>11. ASSUME NEW f
       PROVE  (\A i \in 1 .. 4 : Holds(quads, f, T[i])) <=>
               /\ In(quads, f["?a"], KM(p), KM(o)) /\ In(quads, f["?a"], KM(v), f[x])
               /\ In(quads, f["?a"], KM(u), f[y]) /\ In(quads, f["?a"], KM(r), f[z])
  <2>1. /\ Holds(quads, f, T[1]) <=> In(quads, f["?a"], KM(p), KM(o))
        /\ Holds(quads, f, T[2]) <=> In(quads, f["?a"], KM(v), f[x])
        /\ Holds(quads, f, T[3]) <=> In(quads, f["?a"], KM(u), f[y])
        /\ Holds(quads, f, T[4]) <=> In(quads, f["?a"], KM(r), f[z])
    BY <1>3, <1>5 DEF Holds, TermId
  <2>2. QED
    BY <1>4, <2>1
<1>12. ASSUME t \in Asked(q, quads)
       PROVE  \E a, k, l, m :
                /\ In(quads, a, KM(p), KM(o)) /\ In(quads, a, KM(v), k)
                /\ In(quads, a, KM(u), l) /\ In(quads, a, KM(r), m)
                /\ t = <<k, l, m>>
  <2>1. PICK f : /\ \A i \in 1 .. 4 : Holds(quads, f, T[i])
                 /\ OfType(q, f)
                 /\ t = [i \in DOMAIN columns |-> f[columns[i]]]
    BY <1>8, <1>12
  <2>2. t = <<f[x], f[y], f[z]>>
    BY <1>10, <2>1
  <2>3. /\ In(quads, f["?a"], KM(p), KM(o)) /\ In(quads, f["?a"], KM(v), f[x])
        /\ In(quads, f["?a"], KM(u), f[y]) /\ In(quads, f["?a"], KM(r), f[z])
    BY <1>9, <1>11, <2>1
  <2>4. QED
    BY <2>2, <2>3
<1>13. ASSUME NEW a, NEW k, NEW l, NEW m,
              In(quads, a, KM(p), KM(o)), In(quads, a, KM(v), k), In(quads, a, KM(u), l),
              In(quads, a, KM(r), m),
              t = <<k, l, m>>
       PROVE  t \in Asked(q, quads)
  <2>1. PICK f : f = [name \in Vars |-> CASE name = "?a" -> a [] name = x -> k
                                          [] name = y -> l [] name = z -> m]
    OBVIOUS
  <2>2. f["?a"] = a /\ f[x] = k /\ f[y] = l /\ f[z] = m
    BY <1>3, <2>1
  <2>3. In(quads, f["?a"], KM(p), KM(o)) /\ In(quads, f["?a"], KM(v), f[x])
        /\ In(quads, f["?a"], KM(u), f[y]) /\ In(quads, f["?a"], KM(r), f[z])
    BY <1>13, <2>2, Zenon
  <2>4. \A i \in 1 .. 4 : Holds(quads, f, T[i])
    BY <1>11, <2>3
  <2>5. t = [i \in DOMAIN columns |-> f[columns[i]]]
    BY <1>10, <1>13, <2>2
  <2>6. QED
    BY <1>8, <1>9, <1>13, <2>2, <2>4, <2>5
<1>14. QED
  BY <1>12, <1>13

\* A value of what is related to two things, each found by a word.
IsJoining(q, p, o, e, d, v, u, r) ==
  /\ q # "q08"
  /\ {p, o, e, d, v, u, r} \intersect Vars = {}
  /\ SPARQL[q] = {Select(<<"?d">>,
                      <<<<"?c", p, o>>, <<"?b", e, d>>, About(v, "?c"), About(u, "?b"),
                        About(r, "?d")>>)}

LEMMA TextJoining ==
  ASSUME NEW q, NEW p, NEW o, NEW e, NEW d, NEW v, NEW u, NEW r,
         IsJoining(q, p, o, e, d, v, u, r),
         NEW quads, NEW t
  PROVE  t \in Asked(q, quads) <=>
           \E a, b, c, k :
             /\ In(quads, c, KM(p), KM(o)) /\ In(quads, b, KM(e), KM(d))
             /\ In(quads, a, KM(v), c) /\ In(quads, a, KM(u), b)
             /\ In(quads, a, KM(r), k)
             /\ t = <<k>>
<1>a. /\ q # "q08"
      /\ {p, o, e, d, v, u, r} \intersect Vars = {}
  BY DEF IsJoining
<1> USE <1>a
<1>1. PICK T, columns : T = <<<<"?c", p, o>>, <<"?b", e, d>>, <<"?a", v, "?c">>,
                                <<"?a", u, "?b">>, <<"?a", r, "?d">>>>
                        /\ columns = <<"?d">>
  OBVIOUS
<1>2. SPARQL[q] = {Select(columns, T)}
  BY <1>1 DEF About, IsJoining
<1>3. /\ \A name \in {"?a", "?b", "?c", "?d"} : name \in Vars
      /\ \A word \in {p, o, e, d, v, u, r} : word \notin Vars
  <2>1. "?a" \in Vars /\ "?b" \in Vars /\ "?c" \in Vars /\ "?d" \in Vars
    BY DEF Vars
  <2>2. QED
    BY <2>1
<1>4. DOMAIN T = 1 .. 5 /\ \A i : i \in 1 .. 5 <=> i = 1 \/ i = 2 \/ i = 3 \/ i = 4 \/ i = 5
  BY <1>1
<1>5. T[1] = <<"?c", p, o>> /\ T[2] = <<"?b", e, d>> /\ T[3] = <<"?a", v, "?c">>
      /\ T[4] = <<"?a", u, "?b">> /\ T[5] = <<"?a", r, "?d">>
  BY <1>1
<1>c. /\ DOMAIN columns = 1 .. 1 /\ \A i : i \in 1 .. 1 <=> i = 1
      /\ columns[1] = "?d"
  BY <1>1
<1> HIDE <1>1
<1>6. \A i \in 1 .. 5 : Plain(T[i])
  <2>1. /\ "?c" # p /\ "?c" # o
        /\ "?b" # e /\ "?b" # d
        /\ "?a" # v /\ "?a" # "?c" /\ v # "?c"
        /\ "?a" # u /\ "?a" # "?b" /\ u # "?b"
        /\ "?a" # r /\ "?a" # "?d" /\ r # "?d"
    BY <1>3
  <2>2. Plain(T[1]) /\ Plain(T[2]) /\ Plain(T[3]) /\ Plain(T[4]) /\ Plain(T[5])
    BY <2>1, <1>3, <1>5 DEF Plain
  <2>3. QED
    BY <1>4, <2>2
<1>7. \A i \in DOMAIN columns : columns[i] \in VarsUpTo(T, 5)
  <2>1. columns[1] \in VarsOf(T[5])
    BY <1>3, <1>5, <1>c DEF VarsOf
  <2>2. QED
    BY <1>4, <1>c, <2>1 DEF VarsUpTo
<1>8. t \in Asked(q, quads) <=>
        \E f : /\ \A i \in 1 .. 5 : Holds(quads, f, T[i])
               /\ OfType(q, f)
               /\ t = [i \in DOMAIN columns |-> f[columns[i]]]
  <2>1. PICK n \in Nat : n = 5
    OBVIOUS
  <2>2. DOMAIN T = 1 .. n /\ \A i \in 1 .. n : Plain(T[i])
    BY <1>4, <1>6, <2>1
  <2>3. \A i \in DOMAIN columns : columns[i] \in VarsUpTo(T, n)
    BY <1>7, <2>1
  <2>4. q = "q08" => "?a" \in VarsUpTo(T, n)
    OBVIOUS
  <2>5. t \in Asked(q, quads) <=>
          \E f : /\ \A i \in 1 .. n : Holds(quads, f, T[i])
                 /\ OfType(q, f)
                 /\ t = [i \in DOMAIN columns |-> f[columns[i]]]
    <3>1. Selecting(q, columns, T, n)
      BY <1>2, <2>2, <2>3, <2>4, Zenon DEF Selecting
    <3>2. t \in Asked(q, quads) <=> Reads(q, quads, columns, T, n, t)
      BY <2>1, <3>1, AskedIs, Zenon
    <3>3. QED
      BY <3>2, Zenon DEF Reads
  <2>6. QED
    BY <2>1, <2>5
<1>9. \A f : OfType(q, f)
  BY DEF OfType
<1>10. \A f : [i \in DOMAIN columns |-> f[columns[i]]] = <<f["?d"]>>
  BY <1>c
<1>11. ASSUME NEW f
       PROVE  (\A i \in 1 .. 5 : Holds(quads, f, T[i])) <=>
               /\ In(quads, f["?c"], KM(p), KM(o)) /\ In(quads, f["?b"], KM(e), KM(d))
               /\ In(quads, f["?a"], KM(v), f["?c"])
               /\ In(quads, f["?a"], KM(u), f["?b"])
               /\ In(quads, f["?a"], KM(r), f["?d"])
  <2>1. /\ Holds(quads, f, T[1]) <=> In(quads, f["?c"], KM(p), KM(o))
        /\ Holds(quads, f, T[2]) <=> In(quads, f["?b"], KM(e), KM(d))
        /\ Holds(quads, f, T[3]) <=> In(quads, f["?a"], KM(v), f["?c"])
        /\ Holds(quads, f, T[4]) <=> In(quads, f["?a"], KM(u), f["?b"])
        /\ Holds(quads, f, T[5]) <=> In(quads, f["?a"], KM(r), f["?d"])
    BY <1>3, <1>5 DEF Holds, TermId
  <2>2. QED
    BY <1>4, <2>1
<1>12. ASSUME t \in Asked(q, quads)
       PROVE  \E a, b, c, k :
                /\ In(quads, c, KM(p), KM(o)) /\ In(quads, b, KM(e), KM(d))
                /\ In(quads, a, KM(v), c) /\ In(quads, a, KM(u), b)
                /\ In(quads, a, KM(r), k)
                /\ t = <<k>>
  <2>1. PICK f : /\ \A i \in 1 .. 5 : Holds(quads, f, T[i])
                 /\ OfType(q, f)
                 /\ t = [i \in DOMAIN columns |-> f[columns[i]]]
    BY <1>8, <1>12
  <2>2. t = <<f["?d"]>>
    BY <1>10, <2>1
  <2>3. /\ In(quads, f["?c"], KM(p), KM(o)) /\ In(quads, f["?b"], KM(e), KM(d))
        /\ In(quads, f["?a"], KM(v), f["?c"]) /\ In(quads, f["?a"], KM(u), f["?b"])
        /\ In(quads, f["?a"], KM(r), f["?d"])
    BY <1>9, <1>11, <2>1
  <2>4. QED
    BY <2>2, <2>3
<1>13. ASSUME NEW a, NEW b, NEW c, NEW k,
              In(quads, c, KM(p), KM(o)), In(quads, b, KM(e), KM(d)),
              In(quads, a, KM(v), c), In(quads, a, KM(u), b), In(quads, a, KM(r), k),
              t = <<k>>
       PROVE  t \in Asked(q, quads)
  <2>1. PICK f : f = [name \in Vars |-> CASE name = "?a" -> a [] name = "?b" -> b
                                          [] name = "?c" -> c [] name = "?d" -> k]
    OBVIOUS
  <2>2. f["?a"] = a /\ f["?b"] = b /\ f["?c"] = c /\ f["?d"] = k
    BY <1>3, <2>1
  <2>3. In(quads, f["?c"], KM(p), KM(o)) /\ In(quads, f["?b"], KM(e), KM(d))
        /\ In(quads, f["?a"], KM(v), f["?c"]) /\ In(quads, f["?a"], KM(u), f["?b"])
        /\ In(quads, f["?a"], KM(r), f["?d"])
    BY <1>13, <2>2, Zenon
  <2>4. \A i \in 1 .. 5 : Holds(quads, f, T[i])
    BY <1>11, <2>3
  <2>5. t = [i \in DOMAIN columns |-> f[columns[i]]]
    BY <1>10, <1>13, <2>2
  <2>6. QED
    BY <1>8, <1>9, <1>13, <2>2, <2>4, <2>5
<1>14. QED
  BY <1>12, <1>13

\* What a thing that has some relation to a word is linked to, with two of its values.
IsLocating(q, w, p, v, u) ==
  /\ q # "q08"
  /\ {w, p, v, u} \intersect Vars = {}
  /\ SPARQL[q] = {Select(<<"?l", "?lat", "?long">>,
                      <<About("?j", w), About(p, "?l"), <<"?l", v, "?lat">>,
                        <<"?l", u, "?long">>>>)}

LEMMA TextLocating ==
  ASSUME NEW q, NEW w, NEW p, NEW v, NEW u,
         IsLocating(q, w, p, v, u),
         NEW quads, NEW t
  PROVE  t \in Asked(q, quads) <=>
           \E a, j, l, x, y :
             /\ In(quads, a, j, KM(w)) /\ In(quads, a, KM(p), l) /\ In(quads, l, KM(v), x)
             /\ In(quads, l, KM(u), y)
             /\ t = <<l, x, y>>
<1>a. /\ q # "q08"
      /\ {w, p, v, u} \intersect Vars = {}
  BY DEF IsLocating
<1> USE <1>a
<1>1. PICK T, columns : T = <<<<"?a", "?j", w>>, <<"?a", p, "?l">>,
                                <<"?l", v, "?lat">>, <<"?l", u, "?long">>>>
                        /\ columns = <<"?l", "?lat", "?long">>
  OBVIOUS
<1>2. SPARQL[q] = {Select(columns, T)}
  BY <1>1 DEF About, IsLocating
<1>3. /\ \A name \in {"?a", "?j", "?l", "?lat", "?long"} : name \in Vars
      /\ \A word \in {w, p, v, u} : word \notin Vars
  <2>1. "?a" \in Vars /\ "?j" \in Vars /\ "?l" \in Vars /\ "?lat" \in Vars
        /\ "?long" \in Vars
    BY DEF Vars
  <2>2. QED
    BY <2>1
<1>4. DOMAIN T = 1 .. 4 /\ \A i : i \in 1 .. 4 <=> i = 1 \/ i = 2 \/ i = 3 \/ i = 4
  BY <1>1
<1>5. T[1] = <<"?a", "?j", w>> /\ T[2] = <<"?a", p, "?l">> /\ T[3] = <<"?l", v, "?lat">>
      /\ T[4] = <<"?l", u, "?long">>
  BY <1>1
<1>c. /\ DOMAIN columns = 1 .. 3 /\ \A i : i \in 1 .. 3 <=> i = 1 \/ i = 2 \/ i = 3
      /\ columns[1] = "?l" /\ columns[2] = "?lat" /\ columns[3] = "?long"
  BY <1>1, TupleOf3
<1> HIDE <1>1
<1>6. \A i \in 1 .. 4 : Plain(T[i])
  <2>1. /\ "?a" # "?j" /\ "?a" # w /\ "?j" # w
        /\ "?a" # p /\ "?a" # "?l" /\ p # "?l"
        /\ "?l" # v /\ "?l" # "?lat" /\ v # "?lat"
        /\ "?l" # u /\ "?l" # "?long" /\ u # "?long"
    BY <1>3
  <2>2. Plain(T[1]) /\ Plain(T[2]) /\ Plain(T[3]) /\ Plain(T[4])
    BY <2>1, <1>3, <1>5 DEF Plain
  <2>3. QED
    BY <1>4, <2>2
<1>7. \A i \in DOMAIN columns : columns[i] \in VarsUpTo(T, 4)
  <2>1. columns[1] \in VarsOf(T[2]) /\ columns[2] \in VarsOf(T[3])
        /\ columns[3] \in VarsOf(T[4])
    BY <1>3, <1>5, <1>c DEF VarsOf
  <2>2. QED
    BY <1>4, <1>c, <2>1 DEF VarsUpTo
<1>8. t \in Asked(q, quads) <=>
        \E f : /\ \A i \in 1 .. 4 : Holds(quads, f, T[i])
               /\ OfType(q, f)
               /\ t = [i \in DOMAIN columns |-> f[columns[i]]]
  <2>1. PICK n \in Nat : n = 4
    OBVIOUS
  <2>2. DOMAIN T = 1 .. n /\ \A i \in 1 .. n : Plain(T[i])
    BY <1>4, <1>6, <2>1
  <2>3. \A i \in DOMAIN columns : columns[i] \in VarsUpTo(T, n)
    BY <1>7, <2>1
  <2>4. q = "q08" => "?a" \in VarsUpTo(T, n)
    OBVIOUS
  <2>5. t \in Asked(q, quads) <=>
          \E f : /\ \A i \in 1 .. n : Holds(quads, f, T[i])
                 /\ OfType(q, f)
                 /\ t = [i \in DOMAIN columns |-> f[columns[i]]]
    <3>1. Selecting(q, columns, T, n)
      BY <1>2, <2>2, <2>3, <2>4, Zenon DEF Selecting
    <3>2. t \in Asked(q, quads) <=> Reads(q, quads, columns, T, n, t)
      BY <2>1, <3>1, AskedIs, Zenon
    <3>3. QED
      BY <3>2, Zenon DEF Reads
  <2>6. QED
    BY <2>1, <2>5
<1>9. \A f : OfType(q, f)
  BY DEF OfType
<1>10. \A f : [i \in DOMAIN columns |-> f[columns[i]]] = <<f["?l"], f["?lat"], f["?long"]>>
  BY <1>c
<1>11. ASSUME NEW f
       PROVE  (\A i \in 1 .. 4 : Holds(quads, f, T[i])) <=>
               /\ In(quads, f["?a"], f["?j"], KM(w)) /\ In(quads, f["?a"], KM(p), f["?l"])
               /\ In(quads, f["?l"], KM(v), f["?lat"])
               /\ In(quads, f["?l"], KM(u), f["?long"])
  <2>1. /\ Holds(quads, f, T[1]) <=> In(quads, f["?a"], f["?j"], KM(w))
        /\ Holds(quads, f, T[2]) <=> In(quads, f["?a"], KM(p), f["?l"])
        /\ Holds(quads, f, T[3]) <=> In(quads, f["?l"], KM(v), f["?lat"])
        /\ Holds(quads, f, T[4]) <=> In(quads, f["?l"], KM(u), f["?long"])
    BY <1>3, <1>5 DEF Holds, TermId
  <2>2. QED
    BY <1>4, <2>1
<1>12. ASSUME t \in Asked(q, quads)
       PROVE  \E a, j, l, x, y :
                /\ In(quads, a, j, KM(w)) /\ In(quads, a, KM(p), l)
                /\ In(quads, l, KM(v), x) /\ In(quads, l, KM(u), y)
                /\ t = <<l, x, y>>
  <2>1. PICK f : /\ \A i \in 1 .. 4 : Holds(quads, f, T[i])
                 /\ OfType(q, f)
                 /\ t = [i \in DOMAIN columns |-> f[columns[i]]]
    BY <1>8, <1>12
  <2>2. t = <<f["?l"], f["?lat"], f["?long"]>>
    BY <1>10, <2>1
  <2>3. /\ In(quads, f["?a"], f["?j"], KM(w)) /\ In(quads, f["?a"], KM(p), f["?l"])
        /\ In(quads, f["?l"], KM(v), f["?lat"]) /\ In(quads, f["?l"], KM(u), f["?long"])
    BY <1>9, <1>11, <2>1
  <2>4. QED
    BY <2>2, <2>3
<1>13. ASSUME NEW a, NEW j, NEW l, NEW x, NEW y,
              In(quads, a, j, KM(w)), In(quads, a, KM(p), l), In(quads, l, KM(v), x),
              In(quads, l, KM(u), y),
              t = <<l, x, y>>
       PROVE  t \in Asked(q, quads)
  <2>1. PICK f : f = [name \in Vars |-> CASE name = "?a" -> a [] name = "?j" -> j
                                          [] name = "?l" -> l [] name = "?lat" -> x
                                          [] name = "?long" -> y]
    OBVIOUS
  <2>2. f["?a"] = a /\ f["?j"] = j /\ f["?l"] = l /\ f["?lat"] = x /\ f["?long"] = y
    BY <1>3, <2>1
  <2>3. In(quads, f["?a"], f["?j"], KM(w)) /\ In(quads, f["?a"], KM(p), f["?l"])
        /\ In(quads, f["?l"], KM(v), f["?lat"]) /\ In(quads, f["?l"], KM(u), f["?long"])
    BY <1>13, <2>2, Zenon
  <2>4. \A i \in 1 .. 4 : Holds(quads, f, T[i])
    BY <1>11, <2>3
  <2>5. t = [i \in DOMAIN columns |-> f[columns[i]]]
    BY <1>10, <1>13, <2>2
  <2>6. QED
    BY <1>8, <1>9, <1>13, <2>2, <2>4, <2>5
<1>14. QED
  BY <1>12, <1>13

\* Couples with one relation in common, and what that is the same as.
IsPairing(q, r, o, e, p, h, v, u) ==
  /\ q # "q08"
  /\ {r, o, e, p, h, v, u} \intersect Vars = {}
  /\ SPARQL[q] = {Select(<<"?a", "?b", "?lat", "?long">>,
                      <<About(r, o), About(e, "?b"), About(p, "?c"), <<"?b", p, "?c">>,
                        <<"?b", r, o>>, <<"?c", h, "?c2">>, <<"?c2", v, "?lat">>,
                        <<"?c2", u, "?long">>>>)}

LEMMA TextPairing ==
  ASSUME NEW q, NEW r, NEW o, NEW e, NEW p, NEW h, NEW v, NEW u,
         IsPairing(q, r, o, e, p, h, v, u),
         NEW quads, NEW t
  PROVE  t \in Asked(q, quads) <=>
           \E a, b, c, c2, x, y :
             /\ In(quads, a, KM(r), KM(o)) /\ In(quads, a, KM(e), b)
             /\ In(quads, a, KM(p), c) /\ In(quads, b, KM(p), c)
             /\ In(quads, b, KM(r), KM(o)) /\ In(quads, c, KM(h), c2)
             /\ In(quads, c2, KM(v), x) /\ In(quads, c2, KM(u), y)
             /\ t = <<a, b, x, y>>
<1>a. /\ q # "q08"
      /\ {r, o, e, p, h, v, u} \intersect Vars = {}
  BY DEF IsPairing
<1> USE <1>a
<1>1. PICK T, columns : T = <<<<"?a", r, o>>, <<"?a", e, "?b">>, <<"?a", p, "?c">>,
                                <<"?b", p, "?c">>, <<"?b", r, o>>, <<"?c", h, "?c2">>,
                                <<"?c2", v, "?lat">>, <<"?c2", u, "?long">>>>
                        /\ columns = <<"?a", "?b", "?lat", "?long">>
  OBVIOUS
<1>2. SPARQL[q] = {Select(columns, T)}
  BY <1>1 DEF About, IsPairing
<1>3. /\ \A name \in {"?a", "?b", "?c", "?c2", "?lat", "?long"} : name \in Vars
      /\ \A word \in {r, o, e, p, h, v, u} : word \notin Vars
  <2>1. "?a" \in Vars /\ "?b" \in Vars /\ "?c" \in Vars /\ "?c2" \in Vars
        /\ "?lat" \in Vars /\ "?long" \in Vars
    BY DEF Vars
  <2>2. QED
    BY <2>1
<1>4. DOMAIN T = 1 .. 8 /\ \A i : i \in 1 .. 8 <=> i = 1 \/ i = 2 \/ i = 3 \/ i = 4 \/ i = 5 \/ i = 6 \/ i = 7 \/ i = 8
  BY <1>1
<1>5. T[1] = <<"?a", r, o>> /\ T[2] = <<"?a", e, "?b">> /\ T[3] = <<"?a", p, "?c">>
      /\ T[4] = <<"?b", p, "?c">> /\ T[5] = <<"?b", r, o>> /\ T[6] = <<"?c", h, "?c2">>
      /\ T[7] = <<"?c2", v, "?lat">> /\ T[8] = <<"?c2", u, "?long">>
  BY <1>1
<1>c. /\ DOMAIN columns = 1 .. 4 /\ \A i : i \in 1 .. 4 <=> i = 1 \/ i = 2 \/ i = 3 \/ i = 4
      /\ columns[1] = "?a" /\ columns[2] = "?b" /\ columns[3] = "?lat"
         /\ columns[4] = "?long"
  BY <1>1
<1> HIDE <1>1
<1>6. \A i \in 1 .. 8 : Plain(T[i])
  <2>1. /\ "?a" # r /\ "?a" # o
        /\ "?a" # e /\ "?a" # "?b" /\ e # "?b"
        /\ "?a" # p /\ "?a" # "?c" /\ p # "?c"
        /\ "?b" # p /\ "?b" # "?c" /\ p # "?c"
        /\ "?b" # r /\ "?b" # o
        /\ "?c" # h /\ "?c" # "?c2" /\ h # "?c2"
        /\ "?c2" # v /\ "?c2" # "?lat" /\ v # "?lat"
        /\ "?c2" # u /\ "?c2" # "?long" /\ u # "?long"
    BY <1>3
  <2>2. Plain(T[1]) /\ Plain(T[2]) /\ Plain(T[3]) /\ Plain(T[4]) /\ Plain(T[5])
        /\ Plain(T[6]) /\ Plain(T[7]) /\ Plain(T[8])
    BY <2>1, <1>3, <1>5 DEF Plain
  <2>3. QED
    BY <1>4, <2>2
<1>7. \A i \in DOMAIN columns : columns[i] \in VarsUpTo(T, 8)
  <2>1. columns[1] \in VarsOf(T[1]) /\ columns[2] \in VarsOf(T[2])
        /\ columns[3] \in VarsOf(T[7]) /\ columns[4] \in VarsOf(T[8])
    BY <1>3, <1>5, <1>c DEF VarsOf
  <2>2. QED
    BY <1>4, <1>c, <2>1 DEF VarsUpTo
<1>8. t \in Asked(q, quads) <=>
        \E f : /\ \A i \in 1 .. 8 : Holds(quads, f, T[i])
               /\ OfType(q, f)
               /\ t = [i \in DOMAIN columns |-> f[columns[i]]]
  <2>1. PICK n \in Nat : n = 8
    OBVIOUS
  <2>2. DOMAIN T = 1 .. n /\ \A i \in 1 .. n : Plain(T[i])
    BY <1>4, <1>6, <2>1
  <2>3. \A i \in DOMAIN columns : columns[i] \in VarsUpTo(T, n)
    BY <1>7, <2>1
  <2>4. q = "q08" => "?a" \in VarsUpTo(T, n)
    OBVIOUS
  <2>5. t \in Asked(q, quads) <=>
          \E f : /\ \A i \in 1 .. n : Holds(quads, f, T[i])
                 /\ OfType(q, f)
                 /\ t = [i \in DOMAIN columns |-> f[columns[i]]]
    <3>1. Selecting(q, columns, T, n)
      BY <1>2, <2>2, <2>3, <2>4, Zenon DEF Selecting
    <3>2. t \in Asked(q, quads) <=> Reads(q, quads, columns, T, n, t)
      BY <2>1, <3>1, AskedIs, Zenon
    <3>3. QED
      BY <3>2, Zenon DEF Reads
  <2>6. QED
    BY <2>1, <2>5
<1>9. \A f : OfType(q, f)
  BY DEF OfType
<1>10. \A f : [i \in DOMAIN columns |-> f[columns[i]]] = <<f["?a"], f["?b"], f["?lat"], f["?long"]>>
  BY <1>c
<1>11. ASSUME NEW f
       PROVE  (\A i \in 1 .. 8 : Holds(quads, f, T[i])) <=>
               /\ In(quads, f["?a"], KM(r), KM(o)) /\ In(quads, f["?a"], KM(e), f["?b"])
               /\ In(quads, f["?a"], KM(p), f["?c"])
               /\ In(quads, f["?b"], KM(p), f["?c"]) /\ In(quads, f["?b"], KM(r), KM(o))
               /\ In(quads, f["?c"], KM(h), f["?c2"])
               /\ In(quads, f["?c2"], KM(v), f["?lat"])
               /\ In(quads, f["?c2"], KM(u), f["?long"])
  <2>1. /\ Holds(quads, f, T[1]) <=> In(quads, f["?a"], KM(r), KM(o))
        /\ Holds(quads, f, T[2]) <=> In(quads, f["?a"], KM(e), f["?b"])
        /\ Holds(quads, f, T[3]) <=> In(quads, f["?a"], KM(p), f["?c"])
        /\ Holds(quads, f, T[4]) <=> In(quads, f["?b"], KM(p), f["?c"])
        /\ Holds(quads, f, T[5]) <=> In(quads, f["?b"], KM(r), KM(o))
        /\ Holds(quads, f, T[6]) <=> In(quads, f["?c"], KM(h), f["?c2"])
        /\ Holds(quads, f, T[7]) <=> In(quads, f["?c2"], KM(v), f["?lat"])
        /\ Holds(quads, f, T[8]) <=> In(quads, f["?c2"], KM(u), f["?long"])
    BY <1>3, <1>5 DEF Holds, TermId
  <2>2. QED
    BY <1>4, <2>1
<1>12. ASSUME t \in Asked(q, quads)
       PROVE  \E a, b, c, c2, x, y :
                /\ In(quads, a, KM(r), KM(o)) /\ In(quads, a, KM(e), b)
                /\ In(quads, a, KM(p), c) /\ In(quads, b, KM(p), c)
                /\ In(quads, b, KM(r), KM(o)) /\ In(quads, c, KM(h), c2)
                /\ In(quads, c2, KM(v), x) /\ In(quads, c2, KM(u), y)
                /\ t = <<a, b, x, y>>
  <2>1. PICK f : /\ \A i \in 1 .. 8 : Holds(quads, f, T[i])
                 /\ OfType(q, f)
                 /\ t = [i \in DOMAIN columns |-> f[columns[i]]]
    BY <1>8, <1>12
  <2>2. t = <<f["?a"], f["?b"], f["?lat"], f["?long"]>>
    BY <1>10, <2>1
  <2>3. /\ In(quads, f["?a"], KM(r), KM(o)) /\ In(quads, f["?a"], KM(e), f["?b"])
        /\ In(quads, f["?a"], KM(p), f["?c"]) /\ In(quads, f["?b"], KM(p), f["?c"])
        /\ In(quads, f["?b"], KM(r), KM(o)) /\ In(quads, f["?c"], KM(h), f["?c2"])
        /\ In(quads, f["?c2"], KM(v), f["?lat"])
        /\ In(quads, f["?c2"], KM(u), f["?long"])
    BY <1>9, <1>11, <2>1
  <2>4. QED
    BY <2>2, <2>3
<1>13. ASSUME NEW a, NEW b, NEW c, NEW c2, NEW x, NEW y,
              In(quads, a, KM(r), KM(o)), In(quads, a, KM(e), b), In(quads, a, KM(p), c),
              In(quads, b, KM(p), c), In(quads, b, KM(r), KM(o)),
              In(quads, c, KM(h), c2), In(quads, c2, KM(v), x), In(quads, c2, KM(u), y),
              t = <<a, b, x, y>>
       PROVE  t \in Asked(q, quads)
  <2>1. PICK f : f = [name \in Vars |-> CASE name = "?a" -> a [] name = "?b" -> b
                                          [] name = "?c" -> c [] name = "?c2" -> c2
                                          [] name = "?lat" -> x [] name = "?long" -> y]
    OBVIOUS
  <2>2. f["?a"] = a /\ f["?b"] = b /\ f["?c"] = c /\ f["?c2"] = c2 /\ f["?lat"] = x
        /\ f["?long"] = y
    BY <1>3, <2>1
  <2>3. In(quads, f["?a"], KM(r), KM(o)) /\ In(quads, f["?a"], KM(e), f["?b"])
        /\ In(quads, f["?a"], KM(p), f["?c"]) /\ In(quads, f["?b"], KM(p), f["?c"])
        /\ In(quads, f["?b"], KM(r), KM(o)) /\ In(quads, f["?c"], KM(h), f["?c2"])
        /\ In(quads, f["?c2"], KM(v), f["?lat"])
        /\ In(quads, f["?c2"], KM(u), f["?long"])
    BY <1>13, <2>2, Zenon
  <2>4. \A i \in 1 .. 8 : Holds(quads, f, T[i])
    BY <1>11, <2>3
  <2>5. t = [i \in DOMAIN columns |-> f[columns[i]]]
    BY <1>10, <1>13, <2>2
  <2>6. QED
    BY <1>8, <1>9, <1>13, <2>2, <2>4, <2>5
<1>14. QED
  BY <1>12, <1>13

\* A value of a politician whose name something found by a word has.
IsNaming(q, p, o, e, v) ==
  /\ q = "q08"
  /\ {p, o, e, v} \intersect Vars = {}
  /\ SPARQL[q] = {Select(<<"?y">>,
                      <<<<"?b", p, o>>, <<"?b", "?j", "?n">>, About(e, "?n"),
                        About(v, "?y")>>)}

LEMMA TextNaming ==
  ASSUME NEW q, NEW p, NEW o, NEW e, NEW v,
         IsNaming(q, p, o, e, v),
         NEW quads, NEW t
  PROVE  t \in Asked(q, quads) <=>
           \E b, j, n, a, y :
             /\ In(quads, b, KM(p), KM(o)) /\ In(quads, b, j, n) /\ In(quads, a, KM(e), n)
             /\ In(quads, a, KM(v), y) /\ a \in Politicians
             /\ t = <<y>>
<1>a. /\ q = "q08"
      /\ {p, o, e, v} \intersect Vars = {}
  BY DEF IsNaming
<1> USE <1>a
<1>1. PICK T, columns : T = <<<<"?b", p, o>>, <<"?b", "?j", "?n">>, <<"?a", e, "?n">>,
                                <<"?a", v, "?y">>>>
                        /\ columns = <<"?y">>
  OBVIOUS
<1>2. SPARQL[q] = {Select(columns, T)}
  BY <1>1 DEF About, IsNaming
<1>3. /\ \A name \in {"?b", "?j", "?n", "?a", "?y"} : name \in Vars
      /\ \A word \in {p, o, e, v} : word \notin Vars
  <2>1. "?b" \in Vars /\ "?j" \in Vars /\ "?n" \in Vars /\ "?a" \in Vars
        /\ "?y" \in Vars
    BY DEF Vars
  <2>2. QED
    BY <2>1
<1>4. DOMAIN T = 1 .. 4 /\ \A i : i \in 1 .. 4 <=> i = 1 \/ i = 2 \/ i = 3 \/ i = 4
  BY <1>1
<1>5. T[1] = <<"?b", p, o>> /\ T[2] = <<"?b", "?j", "?n">> /\ T[3] = <<"?a", e, "?n">>
      /\ T[4] = <<"?a", v, "?y">>
  BY <1>1
<1>c. /\ DOMAIN columns = 1 .. 1 /\ \A i : i \in 1 .. 1 <=> i = 1
      /\ columns[1] = "?y"
  BY <1>1
<1> HIDE <1>1
<1>6. \A i \in 1 .. 4 : Plain(T[i])
  <2>1. /\ "?b" # p /\ "?b" # o
        /\ "?b" # "?j" /\ "?b" # "?n" /\ "?j" # "?n"
        /\ "?a" # e /\ "?a" # "?n" /\ e # "?n"
        /\ "?a" # v /\ "?a" # "?y" /\ v # "?y"
    BY <1>3
  <2>2. Plain(T[1]) /\ Plain(T[2]) /\ Plain(T[3]) /\ Plain(T[4])
    BY <2>1, <1>3, <1>5 DEF Plain
  <2>3. QED
    BY <1>4, <2>2
<1>7. \A i \in DOMAIN columns : columns[i] \in VarsUpTo(T, 4)
  <2>1. columns[1] \in VarsOf(T[4])
    BY <1>3, <1>5, <1>c DEF VarsOf
  <2>2. QED
    BY <1>4, <1>c, <2>1 DEF VarsUpTo
<1>8. t \in Asked(q, quads) <=>
        \E f : /\ \A i \in 1 .. 4 : Holds(quads, f, T[i])
               /\ OfType(q, f)
               /\ t = [i \in DOMAIN columns |-> f[columns[i]]]
  <2>1. PICK n \in Nat : n = 4
    OBVIOUS
  <2>a. "?a" \in VarsUpTo(T, 4)
    <3>1. "?a" \in VarsOf(T[3])
      BY <1>3, <1>5 DEF VarsOf
    <3>2. QED
      BY <1>4, <3>1 DEF VarsUpTo
  <2>2. DOMAIN T = 1 .. n /\ \A i \in 1 .. n : Plain(T[i])
    BY <1>4, <1>6, <2>1
  <2>3. \A i \in DOMAIN columns : columns[i] \in VarsUpTo(T, n)
    BY <1>7, <2>1
  <2>4. q = "q08" => "?a" \in VarsUpTo(T, n)
    BY <2>a, <2>1
  <2>5. t \in Asked(q, quads) <=>
          \E f : /\ \A i \in 1 .. n : Holds(quads, f, T[i])
                 /\ OfType(q, f)
                 /\ t = [i \in DOMAIN columns |-> f[columns[i]]]
    <3>1. Selecting(q, columns, T, n)
      BY <1>2, <2>2, <2>3, <2>4, Zenon DEF Selecting
    <3>2. t \in Asked(q, quads) <=> Reads(q, quads, columns, T, n, t)
      BY <2>1, <3>1, AskedIs, Zenon
    <3>3. QED
      BY <3>2, Zenon DEF Reads
  <2>6. QED
    BY <2>1, <2>5
<1>9. \A f : OfType(q, f) <=> f["?a"] \in Politicians
  BY DEF OfType
<1>10. \A f : [i \in DOMAIN columns |-> f[columns[i]]] = <<f["?y"]>>
  BY <1>c
<1>11. ASSUME NEW f
       PROVE  (\A i \in 1 .. 4 : Holds(quads, f, T[i])) <=>
               /\ In(quads, f["?b"], KM(p), KM(o)) /\ In(quads, f["?b"], f["?j"], f["?n"])
               /\ In(quads, f["?a"], KM(e), f["?n"])
               /\ In(quads, f["?a"], KM(v), f["?y"])
  <2>1. /\ Holds(quads, f, T[1]) <=> In(quads, f["?b"], KM(p), KM(o))
        /\ Holds(quads, f, T[2]) <=> In(quads, f["?b"], f["?j"], f["?n"])
        /\ Holds(quads, f, T[3]) <=> In(quads, f["?a"], KM(e), f["?n"])
        /\ Holds(quads, f, T[4]) <=> In(quads, f["?a"], KM(v), f["?y"])
    BY <1>3, <1>5 DEF Holds, TermId
  <2>2. QED
    BY <1>4, <2>1
<1>12. ASSUME t \in Asked(q, quads)
       PROVE  \E b, j, n, a, y :
                /\ In(quads, b, KM(p), KM(o)) /\ In(quads, b, j, n)
                /\ In(quads, a, KM(e), n) /\ In(quads, a, KM(v), y) /\ a \in Politicians
                /\ t = <<y>>
  <2>1. PICK f : /\ \A i \in 1 .. 4 : Holds(quads, f, T[i])
                 /\ OfType(q, f)
                 /\ t = [i \in DOMAIN columns |-> f[columns[i]]]
    BY <1>8, <1>12
  <2>2. t = <<f["?y"]>>
    BY <1>10, <2>1
  <2>3. /\ In(quads, f["?b"], KM(p), KM(o)) /\ In(quads, f["?b"], f["?j"], f["?n"])
        /\ In(quads, f["?a"], KM(e), f["?n"]) /\ In(quads, f["?a"], KM(v), f["?y"])
        /\ f["?a"] \in Politicians
    BY <1>9, <1>11, <2>1
  <2>4. QED
    BY <2>2, <2>3
<1>13. ASSUME NEW b, NEW j, NEW n, NEW a, NEW y,
              In(quads, b, KM(p), KM(o)), In(quads, b, j, n), In(quads, a, KM(e), n),
              In(quads, a, KM(v), y), a \in Politicians,
              t = <<y>>
       PROVE  t \in Asked(q, quads)
  <2>1. PICK f : f = [name \in Vars |-> CASE name = "?b" -> b [] name = "?j" -> j
                                          [] name = "?n" -> n [] name = "?a" -> a
                                          [] name = "?y" -> y]
    OBVIOUS
  <2>2. f["?b"] = b /\ f["?j"] = j /\ f["?n"] = n /\ f["?a"] = a /\ f["?y"] = y
    BY <1>3, <2>1
  <2>3. In(quads, f["?b"], KM(p), KM(o)) /\ In(quads, f["?b"], f["?j"], f["?n"])
        /\ In(quads, f["?a"], KM(e), f["?n"]) /\ In(quads, f["?a"], KM(v), f["?y"])
    BY <1>13, <2>2, Zenon
  <2>4. \A i \in 1 .. 4 : Holds(quads, f, T[i])
    BY <1>11, <2>3
  <2>5. t = [i \in DOMAIN columns |-> f[columns[i]]]
    BY <1>10, <1>13, <2>2
  <2>6. QED
    BY <1>8, <1>9, <1>13, <2>2, <2>4, <2>5
<1>14. QED
  BY <1>12, <1>13

\* What a thing is linked to, with two values of what has some relation to it.
IsLinking(q, p, o, e, g, d, h, m, v, u) ==
  /\ q # "q08"
  /\ {p, o, e, g, d, h, m, v, u} \intersect Vars = {}
  /\ SPARQL[q] = {Select(<<"?l", "?lat", "?long">>,
                      <<<<"?p", p, o>>, <<"?p", e, "?l">>, <<"?c", "?j", "?l">>,
                        <<"?c", g, d>>, <<"?c", h, m>>, <<"?c", v, "?lat">>,
                        <<"?c", u, "?long">>>>)}

LEMMA TextLinking ==
  ASSUME NEW q, NEW p, NEW o, NEW e, NEW g, NEW d, NEW h, NEW m, NEW v, NEW u,
         IsLinking(q, p, o, e, g, d, h, m, v, u),
         NEW quads, NEW t
  PROVE  t \in Asked(q, quads) <=>
           \E a, l, c, j, x, y :
             /\ In(quads, a, KM(p), KM(o)) /\ In(quads, a, KM(e), l) /\ In(quads, c, j, l)
             /\ In(quads, c, KM(g), KM(d)) /\ In(quads, c, KM(h), KM(m))
             /\ In(quads, c, KM(v), x) /\ In(quads, c, KM(u), y)
             /\ t = <<l, x, y>>
<1>a. /\ q # "q08"
      /\ {p, o, e, g, d, h, m, v, u} \intersect Vars = {}
  BY DEF IsLinking
<1> USE <1>a
<1>1. PICK T, columns : T = <<<<"?p", p, o>>, <<"?p", e, "?l">>, <<"?c", "?j", "?l">>,
                                <<"?c", g, d>>, <<"?c", h, m>>, <<"?c", v, "?lat">>,
                                <<"?c", u, "?long">>>>
                        /\ columns = <<"?l", "?lat", "?long">>
  OBVIOUS
<1>2. SPARQL[q] = {Select(columns, T)}
  BY <1>1 DEF About, IsLinking
<1>3. /\ \A name \in {"?p", "?l", "?c", "?j", "?lat", "?long"} : name \in Vars
      /\ \A word \in {p, o, e, g, d, h, m, v, u} : word \notin Vars
  <2>1. "?p" \in Vars /\ "?l" \in Vars /\ "?c" \in Vars /\ "?j" \in Vars
        /\ "?lat" \in Vars /\ "?long" \in Vars
    BY DEF Vars
  <2>2. QED
    BY <2>1
<1>4. DOMAIN T = 1 .. 7 /\ \A i : i \in 1 .. 7 <=> i = 1 \/ i = 2 \/ i = 3 \/ i = 4 \/ i = 5 \/ i = 6 \/ i = 7
  BY <1>1
<1>5. T[1] = <<"?p", p, o>> /\ T[2] = <<"?p", e, "?l">> /\ T[3] = <<"?c", "?j", "?l">>
      /\ T[4] = <<"?c", g, d>> /\ T[5] = <<"?c", h, m>> /\ T[6] = <<"?c", v, "?lat">>
      /\ T[7] = <<"?c", u, "?long">>
  BY <1>1
<1>c. /\ DOMAIN columns = 1 .. 3 /\ \A i : i \in 1 .. 3 <=> i = 1 \/ i = 2 \/ i = 3
      /\ columns[1] = "?l" /\ columns[2] = "?lat" /\ columns[3] = "?long"
  BY <1>1, TupleOf3
<1> HIDE <1>1
<1>6. \A i \in 1 .. 7 : Plain(T[i])
  <2>1. /\ "?p" # p /\ "?p" # o
        /\ "?p" # e /\ "?p" # "?l" /\ e # "?l"
        /\ "?c" # "?j" /\ "?c" # "?l" /\ "?j" # "?l"
        /\ "?c" # g /\ "?c" # d
        /\ "?c" # h /\ "?c" # m
        /\ "?c" # v /\ "?c" # "?lat" /\ v # "?lat"
        /\ "?c" # u /\ "?c" # "?long" /\ u # "?long"
    BY <1>3
  <2>2. Plain(T[1]) /\ Plain(T[2]) /\ Plain(T[3]) /\ Plain(T[4]) /\ Plain(T[5])
        /\ Plain(T[6]) /\ Plain(T[7])
    BY <2>1, <1>3, <1>5 DEF Plain
  <2>3. QED
    BY <1>4, <2>2
<1>7. \A i \in DOMAIN columns : columns[i] \in VarsUpTo(T, 7)
  <2>1. columns[1] \in VarsOf(T[2]) /\ columns[2] \in VarsOf(T[6])
        /\ columns[3] \in VarsOf(T[7])
    BY <1>3, <1>5, <1>c DEF VarsOf
  <2>2. QED
    BY <1>4, <1>c, <2>1 DEF VarsUpTo
<1>8. t \in Asked(q, quads) <=>
        \E f : /\ \A i \in 1 .. 7 : Holds(quads, f, T[i])
               /\ OfType(q, f)
               /\ t = [i \in DOMAIN columns |-> f[columns[i]]]
  <2>1. PICK n \in Nat : n = 7
    OBVIOUS
  <2>2. DOMAIN T = 1 .. n /\ \A i \in 1 .. n : Plain(T[i])
    BY <1>4, <1>6, <2>1
  <2>3. \A i \in DOMAIN columns : columns[i] \in VarsUpTo(T, n)
    BY <1>7, <2>1
  <2>4. q = "q08" => "?a" \in VarsUpTo(T, n)
    OBVIOUS
  <2>5. t \in Asked(q, quads) <=>
          \E f : /\ \A i \in 1 .. n : Holds(quads, f, T[i])
                 /\ OfType(q, f)
                 /\ t = [i \in DOMAIN columns |-> f[columns[i]]]
    <3>1. Selecting(q, columns, T, n)
      BY <1>2, <2>2, <2>3, <2>4, Zenon DEF Selecting
    <3>2. t \in Asked(q, quads) <=> Reads(q, quads, columns, T, n, t)
      BY <2>1, <3>1, AskedIs, Zenon
    <3>3. QED
      BY <3>2, Zenon DEF Reads
  <2>6. QED
    BY <2>1, <2>5
<1>9. \A f : OfType(q, f)
  BY DEF OfType
<1>10. \A f : [i \in DOMAIN columns |-> f[columns[i]]] = <<f["?l"], f["?lat"], f["?long"]>>
  BY <1>c
<1>11. ASSUME NEW f
       PROVE  (\A i \in 1 .. 7 : Holds(quads, f, T[i])) <=>
               /\ In(quads, f["?p"], KM(p), KM(o)) /\ In(quads, f["?p"], KM(e), f["?l"])
               /\ In(quads, f["?c"], f["?j"], f["?l"])
               /\ In(quads, f["?c"], KM(g), KM(d)) /\ In(quads, f["?c"], KM(h), KM(m))
               /\ In(quads, f["?c"], KM(v), f["?lat"])
               /\ In(quads, f["?c"], KM(u), f["?long"])
  <2>1. /\ Holds(quads, f, T[1]) <=> In(quads, f["?p"], KM(p), KM(o))
        /\ Holds(quads, f, T[2]) <=> In(quads, f["?p"], KM(e), f["?l"])
        /\ Holds(quads, f, T[3]) <=> In(quads, f["?c"], f["?j"], f["?l"])
        /\ Holds(quads, f, T[4]) <=> In(quads, f["?c"], KM(g), KM(d))
        /\ Holds(quads, f, T[5]) <=> In(quads, f["?c"], KM(h), KM(m))
        /\ Holds(quads, f, T[6]) <=> In(quads, f["?c"], KM(v), f["?lat"])
        /\ Holds(quads, f, T[7]) <=> In(quads, f["?c"], KM(u), f["?long"])
    BY <1>3, <1>5 DEF Holds, TermId
  <2>2. QED
    BY <1>4, <2>1
<1>12. ASSUME t \in Asked(q, quads)
       PROVE  \E a, l, c, j, x, y :
                /\ In(quads, a, KM(p), KM(o)) /\ In(quads, a, KM(e), l)
                /\ In(quads, c, j, l) /\ In(quads, c, KM(g), KM(d))
                /\ In(quads, c, KM(h), KM(m)) /\ In(quads, c, KM(v), x)
                /\ In(quads, c, KM(u), y)
                /\ t = <<l, x, y>>
  <2>1. PICK f : /\ \A i \in 1 .. 7 : Holds(quads, f, T[i])
                 /\ OfType(q, f)
                 /\ t = [i \in DOMAIN columns |-> f[columns[i]]]
    BY <1>8, <1>12
  <2>2. t = <<f["?l"], f["?lat"], f["?long"]>>
    BY <1>10, <2>1
  <2>3. /\ In(quads, f["?p"], KM(p), KM(o)) /\ In(quads, f["?p"], KM(e), f["?l"])
        /\ In(quads, f["?c"], f["?j"], f["?l"]) /\ In(quads, f["?c"], KM(g), KM(d))
        /\ In(quads, f["?c"], KM(h), KM(m)) /\ In(quads, f["?c"], KM(v), f["?lat"])
        /\ In(quads, f["?c"], KM(u), f["?long"])
    BY <1>9, <1>11, <2>1
  <2>4. QED
    BY <2>2, <2>3
<1>13. ASSUME NEW a, NEW l, NEW c, NEW j, NEW x, NEW y,
              In(quads, a, KM(p), KM(o)), In(quads, a, KM(e), l), In(quads, c, j, l),
              In(quads, c, KM(g), KM(d)), In(quads, c, KM(h), KM(m)),
              In(quads, c, KM(v), x), In(quads, c, KM(u), y),
              t = <<l, x, y>>
       PROVE  t \in Asked(q, quads)
  <2>1. PICK f : f = [name \in Vars |-> CASE name = "?p" -> a [] name = "?l" -> l
                                          [] name = "?c" -> c [] name = "?j" -> j
                                          [] name = "?lat" -> x [] name = "?long" -> y]
    OBVIOUS
  <2>2. f["?p"] = a /\ f["?l"] = l /\ f["?c"] = c /\ f["?j"] = j /\ f["?lat"] = x
        /\ f["?long"] = y
    BY <1>3, <2>1
  <2>3. In(quads, f["?p"], KM(p), KM(o)) /\ In(quads, f["?p"], KM(e), f["?l"])
        /\ In(quads, f["?c"], f["?j"], f["?l"]) /\ In(quads, f["?c"], KM(g), KM(d))
        /\ In(quads, f["?c"], KM(h), KM(m)) /\ In(quads, f["?c"], KM(v), f["?lat"])
        /\ In(quads, f["?c"], KM(u), f["?long"])
    BY <1>13, <2>2, Zenon
  <2>4. \A i \in 1 .. 7 : Holds(quads, f, T[i])
    BY <1>11, <2>3
  <2>5. t = [i \in DOMAIN columns |-> f[columns[i]]]
    BY <1>10, <1>13, <2>2
  <2>6. QED
    BY <1>8, <1>9, <1>13, <2>2, <2>4, <2>5
<1>14. QED
  BY <1>12, <1>13

\* Two values of what has some relation to what a thing is linked to.
IsPaging(q, p, o, e, g, d, v) ==
  /\ q # "q08"
  /\ {p, o, e, g, d, v} \intersect Vars = {}
  /\ SPARQL[q] = {Select(<<"?desc", "?page">>,
                      <<<<"?p", p, o>>, <<"?p", e, "?l">>, <<"?c", "?j", "?l">>,
                        <<"?c", g, d>>, <<"?c", v, "?desc">>, <<"?c", p, "?page">>>>)}

LEMMA TextPaging ==
  ASSUME NEW q, NEW p, NEW o, NEW e, NEW g, NEW d, NEW v,
         IsPaging(q, p, o, e, g, d, v),
         NEW quads, NEW t
  PROVE  t \in Asked(q, quads) <=>
           \E a, l, c, j, x, y :
             /\ In(quads, a, KM(p), KM(o)) /\ In(quads, a, KM(e), l) /\ In(quads, c, j, l)
             /\ In(quads, c, KM(g), KM(d)) /\ In(quads, c, KM(v), x)
             /\ In(quads, c, KM(p), y)
             /\ t = <<x, y>>
<1>a. /\ q # "q08"
      /\ {p, o, e, g, d, v} \intersect Vars = {}
  BY DEF IsPaging
<1> USE <1>a
<1>1. PICK T, columns : T = <<<<"?p", p, o>>, <<"?p", e, "?l">>, <<"?c", "?j", "?l">>,
                                <<"?c", g, d>>, <<"?c", v, "?desc">>,
                                <<"?c", p, "?page">>>>
                        /\ columns = <<"?desc", "?page">>
  OBVIOUS
<1>2. SPARQL[q] = {Select(columns, T)}
  BY <1>1 DEF About, IsPaging
<1>3. /\ \A name \in {"?p", "?l", "?c", "?j", "?desc", "?page"} : name \in Vars
      /\ \A word \in {p, o, e, g, d, v} : word \notin Vars
  <2>1. "?p" \in Vars /\ "?l" \in Vars /\ "?c" \in Vars /\ "?j" \in Vars
        /\ "?desc" \in Vars /\ "?page" \in Vars
    BY DEF Vars
  <2>2. QED
    BY <2>1
<1>4. DOMAIN T = 1 .. 6 /\ \A i : i \in 1 .. 6 <=> i = 1 \/ i = 2 \/ i = 3 \/ i = 4 \/ i = 5 \/ i = 6
  BY <1>1
<1>5. T[1] = <<"?p", p, o>> /\ T[2] = <<"?p", e, "?l">> /\ T[3] = <<"?c", "?j", "?l">>
      /\ T[4] = <<"?c", g, d>> /\ T[5] = <<"?c", v, "?desc">>
      /\ T[6] = <<"?c", p, "?page">>
  BY <1>1
<1>c. /\ DOMAIN columns = 1 .. 2 /\ \A i : i \in 1 .. 2 <=> i = 1 \/ i = 2
      /\ columns[1] = "?desc" /\ columns[2] = "?page"
  BY <1>1
<1> HIDE <1>1
<1>6. \A i \in 1 .. 6 : Plain(T[i])
  <2>1. /\ "?p" # p /\ "?p" # o
        /\ "?p" # e /\ "?p" # "?l" /\ e # "?l"
        /\ "?c" # "?j" /\ "?c" # "?l" /\ "?j" # "?l"
        /\ "?c" # g /\ "?c" # d
        /\ "?c" # v /\ "?c" # "?desc" /\ v # "?desc"
        /\ "?c" # p /\ "?c" # "?page" /\ p # "?page"
    BY <1>3
  <2>2. Plain(T[1]) /\ Plain(T[2]) /\ Plain(T[3]) /\ Plain(T[4]) /\ Plain(T[5])
        /\ Plain(T[6])
    BY <2>1, <1>3, <1>5 DEF Plain
  <2>3. QED
    BY <1>4, <2>2
<1>7. \A i \in DOMAIN columns : columns[i] \in VarsUpTo(T, 6)
  <2>1. columns[1] \in VarsOf(T[5]) /\ columns[2] \in VarsOf(T[6])
    BY <1>3, <1>5, <1>c DEF VarsOf
  <2>2. QED
    BY <1>4, <1>c, <2>1 DEF VarsUpTo
<1>8. t \in Asked(q, quads) <=>
        \E f : /\ \A i \in 1 .. 6 : Holds(quads, f, T[i])
               /\ OfType(q, f)
               /\ t = [i \in DOMAIN columns |-> f[columns[i]]]
  <2>1. PICK n \in Nat : n = 6
    OBVIOUS
  <2>2. DOMAIN T = 1 .. n /\ \A i \in 1 .. n : Plain(T[i])
    BY <1>4, <1>6, <2>1
  <2>3. \A i \in DOMAIN columns : columns[i] \in VarsUpTo(T, n)
    BY <1>7, <2>1
  <2>4. q = "q08" => "?a" \in VarsUpTo(T, n)
    OBVIOUS
  <2>5. t \in Asked(q, quads) <=>
          \E f : /\ \A i \in 1 .. n : Holds(quads, f, T[i])
                 /\ OfType(q, f)
                 /\ t = [i \in DOMAIN columns |-> f[columns[i]]]
    <3>1. Selecting(q, columns, T, n)
      BY <1>2, <2>2, <2>3, <2>4, Zenon DEF Selecting
    <3>2. t \in Asked(q, quads) <=> Reads(q, quads, columns, T, n, t)
      BY <2>1, <3>1, AskedIs, Zenon
    <3>3. QED
      BY <3>2, Zenon DEF Reads
  <2>6. QED
    BY <2>1, <2>5
<1>9. \A f : OfType(q, f)
  BY DEF OfType
<1>10. \A f : [i \in DOMAIN columns |-> f[columns[i]]] = <<f["?desc"], f["?page"]>>
  BY <1>c
<1>11. ASSUME NEW f
       PROVE  (\A i \in 1 .. 6 : Holds(quads, f, T[i])) <=>
               /\ In(quads, f["?p"], KM(p), KM(o)) /\ In(quads, f["?p"], KM(e), f["?l"])
               /\ In(quads, f["?c"], f["?j"], f["?l"])
               /\ In(quads, f["?c"], KM(g), KM(d))
               /\ In(quads, f["?c"], KM(v), f["?desc"])
               /\ In(quads, f["?c"], KM(p), f["?page"])
  <2>1. /\ Holds(quads, f, T[1]) <=> In(quads, f["?p"], KM(p), KM(o))
        /\ Holds(quads, f, T[2]) <=> In(quads, f["?p"], KM(e), f["?l"])
        /\ Holds(quads, f, T[3]) <=> In(quads, f["?c"], f["?j"], f["?l"])
        /\ Holds(quads, f, T[4]) <=> In(quads, f["?c"], KM(g), KM(d))
        /\ Holds(quads, f, T[5]) <=> In(quads, f["?c"], KM(v), f["?desc"])
        /\ Holds(quads, f, T[6]) <=> In(quads, f["?c"], KM(p), f["?page"])
    BY <1>3, <1>5 DEF Holds, TermId
  <2>2. QED
    BY <1>4, <2>1
<1>12. ASSUME t \in Asked(q, quads)
       PROVE  \E a, l, c, j, x, y :
                /\ In(quads, a, KM(p), KM(o)) /\ In(quads, a, KM(e), l)
                /\ In(quads, c, j, l) /\ In(quads, c, KM(g), KM(d))
                /\ In(quads, c, KM(v), x) /\ In(quads, c, KM(p), y)
                /\ t = <<x, y>>
  <2>1. PICK f : /\ \A i \in 1 .. 6 : Holds(quads, f, T[i])
                 /\ OfType(q, f)
                 /\ t = [i \in DOMAIN columns |-> f[columns[i]]]
    BY <1>8, <1>12
  <2>2. t = <<f["?desc"], f["?page"]>>
    BY <1>10, <2>1
  <2>3. /\ In(quads, f["?p"], KM(p), KM(o)) /\ In(quads, f["?p"], KM(e), f["?l"])
        /\ In(quads, f["?c"], f["?j"], f["?l"]) /\ In(quads, f["?c"], KM(g), KM(d))
        /\ In(quads, f["?c"], KM(v), f["?desc"])
        /\ In(quads, f["?c"], KM(p), f["?page"])
    BY <1>9, <1>11, <2>1
  <2>4. QED
    BY <2>2, <2>3
<1>13. ASSUME NEW a, NEW l, NEW c, NEW j, NEW x, NEW y,
              In(quads, a, KM(p), KM(o)), In(quads, a, KM(e), l), In(quads, c, j, l),
              In(quads, c, KM(g), KM(d)), In(quads, c, KM(v), x), In(quads, c, KM(p), y),
              t = <<x, y>>
       PROVE  t \in Asked(q, quads)
  <2>1. PICK f : f = [name \in Vars |-> CASE name = "?p" -> a [] name = "?l" -> l
                                          [] name = "?c" -> c [] name = "?j" -> j
                                          [] name = "?desc" -> x [] name = "?page" -> y]
    OBVIOUS
  <2>2. f["?p"] = a /\ f["?l"] = l /\ f["?c"] = c /\ f["?j"] = j /\ f["?desc"] = x
        /\ f["?page"] = y
    BY <1>3, <2>1
  <2>3. In(quads, f["?p"], KM(p), KM(o)) /\ In(quads, f["?p"], KM(e), f["?l"])
        /\ In(quads, f["?c"], f["?j"], f["?l"]) /\ In(quads, f["?c"], KM(g), KM(d))
        /\ In(quads, f["?c"], KM(v), f["?desc"])
        /\ In(quads, f["?c"], KM(p), f["?page"])
    BY <1>13, <2>2, Zenon
  <2>4. \A i \in 1 .. 6 : Holds(quads, f, T[i])
    BY <1>11, <2>3
  <2>5. t = [i \in DOMAIN columns |-> f[columns[i]]]
    BY <1>10, <1>13, <2>2
  <2>6. QED
    BY <1>8, <1>9, <1>13, <2>2, <2>4, <2>5
<1>14. QED
  BY <1>12, <1>13

\* What has one of two values of a relation.
IsUnion(q, p, o1, o2) ==
  /\ q # "q08"
  /\ {p, o1, o2} \intersect Vars = {}
  /\ SPARQL[q] = {Select(<<"?s">>, <<<<"?s", p, o1>>>>), Select(<<"?s">>, <<<<"?s", p, o2>>>>)}

LEMMA TextUnion ==
  ASSUME NEW q, NEW p, NEW o1, NEW o2, IsUnion(q, p, o1, o2), NEW quads, NEW t
  PROVE  t \in Asked(q, quads) <=>
           \E s : (In(quads, s, KM(p), KM(o1)) \/ In(quads, s, KM(p), KM(o2))) /\ t = <<s>>
<1>0. q # "q08" /\ {p, o1, o2} \intersect Vars = {}
  BY DEF IsUnion
<1>1. "?s" \in Vars /\ p \notin Vars /\ o1 \notin Vars /\ o2 \notin Vars
  BY <1>0 DEF Vars
<1>2. ASSUME NEW o, o \notin Vars, NEW sel, sel = Select(<<"?s">>, <<<<"?s", p, o>>>>)
      PROVE  /\ \E n \in Nat : Formed(q, sel, n)
             /\ Chosen(q, quads, sel, t) <=> \E s : In(quads, s, KM(p), KM(o)) /\ t = <<s>>
  <2>1. PICK T, columns : T = sel.patterns /\ columns = sel.columns
    OBVIOUS
  <2>2. /\ DOMAIN T = 1 .. 1 /\ T[1] = <<"?s", p, o>>
        /\ DOMAIN columns = 1 .. 1 /\ columns[1] = "?s"
    BY <1>2, <2>1 DEF Select
  <2>3. Plain(T[1]) /\ VarsOf(T[1]) = {"?s"}
    BY <1>1, <1>2, <2>2 DEF Plain, VarsOf
  <2>4. VarsUpTo(T, 1) = {"?s"}
    BY <2>3 DEF VarsUpTo
  <2>5. Formed(q, sel, 1)
    BY <1>0, <2>1, <2>2, <2>3, <2>4 DEF Formed
  <2>6. \A f : OfType(q, f)
    BY <1>0 DEF OfType
  <2>7. \A f : Holds(quads, f, T[1]) <=> In(quads, f["?s"], KM(p), KM(o))
    BY <1>1, <1>2, <2>2 DEF Holds, TermId
  <2>8. \A f : [i \in DOMAIN columns |-> f[columns[i]]] = <<f["?s"]>>
    BY <2>2
  <2>9. Chosen(q, quads, sel, t) <=> \E f : In(quads, f["?s"], KM(p), KM(o)) /\ t = <<f["?s"]>>
    BY <2>1, <2>2, <2>6, <2>7, <2>8 DEF Chosen
  <2>10. ASSUME NEW s, In(quads, s, KM(p), KM(o)), t = <<s>>
         PROVE  \E f : In(quads, f["?s"], KM(p), KM(o)) /\ t = <<f["?s"]>>
    <3>1. PICK f : f = [name \in {"?s"} |-> s]
      OBVIOUS
    <3>2. f["?s"] = s
      BY <3>1
    <3>3. QED
      BY <2>10, <3>2
  <2>11. QED
    BY <2>5, <2>9, <2>10
<1>3. PICK s1, s2 : /\ s1 = Select(<<"?s">>, <<<<"?s", p, o1>>>>)
                    /\ s2 = Select(<<"?s">>, <<<<"?s", p, o2>>>>)
  OBVIOUS
<1>4. SPARQL[q] = {s1, s2}
  BY <1>3 DEF IsUnion
<1>5. /\ \E n \in Nat : Formed(q, s1, n)
      /\ Chosen(q, quads, s1, t) <=> \E s : In(quads, s, KM(p), KM(o1)) /\ t = <<s>>
  BY <1>1, <1>2, <1>3
<1>6. /\ \E n \in Nat : Formed(q, s2, n)
      /\ Chosen(q, quads, s2, t) <=> \E s : In(quads, s, KM(p), KM(o2)) /\ t = <<s>>
  BY <1>1, <1>2, <1>3
<1>7. t \in Asked(q, quads) <=> Chosen(q, quads, s1, t) \/ Chosen(q, quads, s2, t)
  BY <1>4, <1>5, <1>6, AskedChosen
<1>8. QED
  BY <1>5, <1>6, <1>7
------------------------------------------------------------------------------
(***************************************************************************)
(* The queries that answer at once.                                        *)
(***************************************************************************)

\* What an answer owes its query: to show its solutions, to name no context that
\* is filtered, and to name those that explain what it shows.
Explains(q, a) ==
  /\ ProvTrigerON => a.named \subseteq ProvUris
  /\ a.answers \subseteq Asked(q, Within(Visible, a.named))
Exhausts(q, a) == Asked(q, Visible) \subseteq a.answers
Right(q, a) == Explains(q, a) /\ Exhausts(q, a)

\* After the load, with the trigger on or off.
Ready == StoreInv /\ phase = "loaded" /\ ProvTrigerON \in BOOLEAN

LEMMA VisibleIsSeen ==
  ASSUME Ready
  PROVE  Visible = SeenQuads(ProvTrigerON, ProvUris) /\ Visible \subseteq StoredQuads
BY StoredIsStore DEF Ready, Visible, SeenQuads

LEMMA InTyped ==
  ASSUME StoreInv, NEW W, W \subseteq StoredQuads, NEW s, NEW p, NEW o, In(W, s, p, o)
  PROVE  s \in KEY_ID /\ o \in KEY_ID
<1>1. PICK x \in KEY_ID : \E e \in Elements(molecules[x]) : In({Decoded(x, e)}, s, p, o)
  BY StoredQuadsDecoded DEF In
<1>2. PICK e \in Elements(molecules[x]) : In({Decoded(x, e)}, s, p, o)
  BY <1>1
<1>3. s = x /\ o = e.obj
  BY <1>2 DEF In, Decoded
<1>4. QED
  BY <1>2, <1>3 DEF StoreInv, ElementsTyped

\* Patterns over quads: with an object, with any predicate, and projections.
LEMMA MeetsHas ==
  ASSUME NEW W, NEW s, NEW p, NEW o
  PROVE  Meets(W, s, Has(p, o)) <=> In(W, s, KM(p), KM(o))
<1>1. KM(p) # Wild /\ KM(o) # Wild
  BY WordType
<1>2. Has(p, o).predicate = KM(p) /\ Has(p, o).object = KM(o)
  BY DEF Has
<1>3. QED
  BY <1>1, <1>2 DEF Meets, In

LEMMA MeetsMentions ==
  ASSUME NEW W, NEW s, NEW k, k # Wild
  PROVE  Meets(W, s, Mentions(k)) <=> \E j : In(W, s, j, k)
<1>1. Mentions(k).predicate = Wild /\ Mentions(k).object = k
  BY DEF Mentions
<1>2. QED
  BY <1>1 DEF Meets, In

LEMMA FindsSays ==
  ASSUME NEW W, NEW s, NEW x, NEW p, NEW y, NEW k
  PROVE  Finds(W, s, Says(x, p, y), k) <=> In(W, s, KM(p), k)
<1>1. KM(p) # Wild /\ Says(x, p, y).predicate = KM(p)
  BY WordType DEF Says
<1>2. QED
  BY <1>1 DEF Finds, In

\* The patterns of a star: constraints on one subject, found by the object of the
\* first, and values of it.
Leads(cs, selected) ==
  /\ Len(cs) \in Nat /\ DOMAIN cs = 1 .. Len(cs) /\ 1 \in DOMAIN cs
  /\ cs[1].prov = 0 /\ cs[1].subject = 0 /\ cs[1].object # Wild
  /\ Len(selected) \in Nat /\ DOMAIN selected = 1 .. Len(selected)
Wants(selected) == [i \in DOMAIN selected |-> Wanted(selected[i])]

\* The subject and the values a star shows, over some quads.
Shines(W, cs, selected, s, t) ==
  /\ Meeting(W, s, cs)
  /\ \A i \in 1 .. Len(selected) : In(W, s, KM(selected[i]), t[i])

LEMMA StarAnswered ==
  ASSUME NEW cs, NEW selected, Leads(cs, selected)
  PROVE  /\ Startable(cs, Wants(selected))
         /\ Len(Wants(selected)) = Len(selected)
         /\ \A W, s, t : Answered(W, cs, Wants(selected), s, t)
                           <=> s \in KEY_ID /\ Shines(W, cs, selected, s, t)
<1>1. PICK n, ps : n = Len(selected) /\ ps = Wants(selected)
  OBVIOUS
<1>2. n \in Nat /\ DOMAIN selected = 1 .. n
  BY <1>1 DEF Leads
<1>3. DOMAIN ps = 1 .. n /\ ps = [i \in 1 .. n |-> ps[i]]
      /\ \A i \in 1 .. n : ps[i] = Says(0, selected[i], 0)
  BY <1>1, <1>2 DEF Wants, Wanted
<1>4. Len(ps) = n
  BY <1>2, <1>3
<1>5. \A i \in DOMAIN ps : ps[i].prov = 0
  BY <1>3 DEF Says
<1>6. cs # <<>>
  BY DEF Leads
<1>7. Startable(cs, ps)
  BY <1>2, <1>3, <1>4, <1>5, <1>6 DEF Startable, Leads
<1>8. ASSUME NEW W, NEW s, NEW t
      PROVE  Answered(W, cs, ps, s, t) <=> s \in KEY_ID /\ Shines(W, cs, selected, s, t)
  <2>1. FromSubject(cs, ps, s)
    BY <1>6 DEF FromSubject, Leads
  <2>2. \A i \in 1 .. n : Finds(W, s, ps[i], t[i]) <=> In(W, s, KM(selected[i]), t[i])
    BY <1>3, FindsSays
  <2>3. QED
    BY <1>1, <1>4, <2>1, <2>2 DEF Answered, Shines
<1>9. QED
  BY <1>1, <1>4, <1>7, <1>8

\* A text with that meaning.
IsStar(q, cs, selected) ==
  \A W : W \subseteq StoredQuads =>
    \A t : t \in Asked(q, W) <=> /\ t = [i \in 1 .. Len(selected) |-> t[i]]
                                 /\ \E s : s \in KEY_ID /\ Shines(W, cs, selected, s, t)

LEMMA StarRuns ==
  ASSUME Ready, NEW cs, NEW selected, Leads(cs, selected), NEW q, IsStar(q, cs, selected)
  PROVE  Right(q, Star(cs, selected))
<1>1. PICK ps, rows : ps = Wants(selected) /\ rows = Triples(cs, ps)
  OBVIOUS
<1>2. rows = TriplePatern(cs, ps, ProvTrigerON, ProvUris)
  BY <1>1 DEF Triples
<1>3. Star(cs, selected).answers = ShownRows(rows) /\ Star(cs, selected).named = ContextsOf(rows)
  BY <1>1 DEF Star, Wants
<1>4. /\ Startable(cs, ps) /\ Len(ps) = Len(selected)
      /\ \A W, s, t : Answered(W, cs, ps, s, t) <=> s \in KEY_ID /\ Shines(W, cs, selected, s, t)
  BY <1>1, StarAnswered
<1>5. StoreInv /\ ProvTrigerON \in BOOLEAN
  BY DEF Ready
<1>6. PICK V, N : V = SeenQuads(ProvTrigerON, ProvUris) /\ N = ContextsOf(rows)
  OBVIOUS
<1>7. Visible = V /\ V \subseteq StoredQuads /\ Within(V, N) \subseteq StoredQuads
  BY <1>6, VisibleIsSeen DEF Within
<1>8. ASSUME NEW t \in ShownRows(rows) PROVE t \in Asked(q, Within(V, N))
  <2>1. /\ t = [i \in 1 .. Len(ps) |-> t[i]]
        /\ \E s : Answered(Within(V, N), cs, ps, s, t)
    BY <1>2, <1>4, <1>5, <1>6, ShownIsAnswered
  <2>2. QED
    BY <1>4, <1>7, <2>1 DEF IsStar
<1>9. ASSUME NEW t \in Asked(q, V) PROVE t \in ShownRows(rows)
  <2>1. PICK s : s \in KEY_ID /\ Shines(V, cs, selected, s, t)
    BY <1>7 DEF IsStar
  <2>2. t = [i \in 1 .. Len(selected) |-> t[i]]
    BY <1>7 DEF IsStar
  <2>3. Answered(V, cs, ps, s, t) /\ t = [i \in 1 .. Len(ps) |-> t[i]]
    BY <1>4, <2>1, <2>2
  <2>4. QED
    BY <1>2, <1>4, <1>5, <1>6, <2>3, AnsweredIsShown
<1>10. ProvTrigerON => N \subseteq ProvUris
  BY <1>2, <1>4, <1>5, <1>6, NamedAreSelected
<1>11. QED
  BY <1>3, <1>6, <1>7, <1>8, <1>9, <1>10 DEF Right, Explains, Exhausts

\* Stars of two and of three values.
ReadsTwo(q, cs, v, u) ==
  \A W, t : t \in Asked(q, W) <=>
    \E s, k, l : /\ Meeting(W, s, cs)
                 /\ In(W, s, KM(v), k) /\ In(W, s, KM(u), l) /\ t = <<k, l>>
ReadsThree(q, cs, v, u, r) ==
  \A W, t : t \in Asked(q, W) <=>
    \E s, k, l, m : /\ Meeting(W, s, cs)
                    /\ In(W, s, KM(v), k) /\ In(W, s, KM(u), l) /\ In(W, s, KM(r), m)
                    /\ t = <<k, l, m>>

LEMMA StarOfTwo ==
  ASSUME StoreInv, NEW cs, NEW v, NEW u, NEW selected, selected = <<v, u>>, NEW q,
         ReadsTwo(q, cs, v, u)
  PROVE  IsStar(q, cs, selected)
<1>1. Len(selected) = 2 /\ selected[1] = v /\ selected[2] = u
  OBVIOUS
<1>2. SUFFICES ASSUME NEW W, W \subseteq StoredQuads, NEW t
               PROVE  t \in Asked(q, W) <=> /\ t = [i \in 1 .. 2 |-> t[i]]
                                            /\ \E s : s \in KEY_ID /\ Shines(W, cs, selected, s, t)
  BY <1>1 DEF IsStar
<1>3. \A i : i \in 1 .. 2 <=> i = 1 \/ i = 2
  OBVIOUS
<1>4. \A s : Shines(W, cs, selected, s, t)
               <=> Meeting(W, s, cs) /\ In(W, s, KM(v), t[1]) /\ In(W, s, KM(u), t[2])
  BY <1>1, <1>3 DEF Shines
<1>5. \A k, l : t = <<k, l>> <=> t = [i \in 1 .. 2 |-> t[i]] /\ t[1] = k /\ t[2] = l
  OBVIOUS
<1>6. \A s, k : In(W, s, KM(v), k) => s \in KEY_ID
  BY <1>2, InTyped
<1>7. QED
  BY <1>2, <1>4, <1>5, <1>6 DEF ReadsTwo

LEMMA StarOfThree ==
  ASSUME StoreInv, NEW cs, NEW v, NEW u, NEW r, NEW selected, selected = <<v, u, r>>, NEW q,
         ReadsThree(q, cs, v, u, r)
  PROVE  IsStar(q, cs, selected)
<1>1. Len(selected) = 3 /\ selected[1] = v /\ selected[2] = u /\ selected[3] = r
  OBVIOUS
<1>2. SUFFICES ASSUME NEW W, W \subseteq StoredQuads, NEW t
               PROVE  t \in Asked(q, W) <=> /\ t = [i \in 1 .. 3 |-> t[i]]
                                            /\ \E s : s \in KEY_ID /\ Shines(W, cs, selected, s, t)
  BY <1>1 DEF IsStar
<1>3. \A i : i \in 1 .. 3 <=> i = 1 \/ i = 2 \/ i = 3
  OBVIOUS
<1>4. \A s : Shines(W, cs, selected, s, t)
               <=> /\ Meeting(W, s, cs)
                   /\ In(W, s, KM(v), t[1]) /\ In(W, s, KM(u), t[2]) /\ In(W, s, KM(r), t[3])
  BY <1>1, <1>3 DEF Shines
<1>5. \A k, l, m : t = <<k, l, m>> <=> /\ t = [i \in 1 .. 3 |-> t[i]]
                                       /\ t[1] = k /\ t[2] = l /\ t[3] = m
  OBVIOUS
<1>6. \A s, k : In(W, s, KM(v), k) => s \in KEY_ID
  BY <1>2, InTyped
<1>7. QED
  BY <1>2, <1>4, <1>5, <1>6 DEF ReadsThree

\* One constraint, two of them, and one with an optional other.
LEMMA MeetingOne ==
  ASSUME NEW c, c.prov = 0, NEW cs, cs = <<c>>, NEW W, NEW s
  PROVE  Meeting(W, s, cs) <=> Meets(W, s, c)
<1>1. \A i : i \in DOMAIN cs <=> i = 1
  OBVIOUS
<1>2. cs[1] = c
  OBVIOUS
<1>3. QED
  BY <1>1, <1>2 DEF Meeting

LEMMA MeetingTwo ==
  ASSUME NEW c, c.prov = 0, NEW d, NEW cs, cs = <<c, d>>, NEW W, NEW s
  PROVE  Meeting(W, s, cs) <=> Meets(W, s, c) /\ (d.prov = 0 => Meets(W, s, d))
<1>1. \A i : i \in DOMAIN cs <=> i = 1 \/ i = 2
  OBVIOUS
<1>2. cs[1] = c /\ cs[2] = d
  OBVIOUS
<1>3. QED
  BY <1>1, <1>2 DEF Meeting

\* The shapes of the eight queries.
LEMMA MentioningRuns ==
  ASSUME Ready, NEW q, NEW w, NEW p, NEW o, NEW v, NEW u,
         \A W, t : t \in Asked(q, W) <=>
           \E a, j, k, l :
             /\ In(W, a, j, KM(w)) /\ In(W, a, KM(p), KM(o))
             /\ In(W, a, KM(v), k) /\ In(W, a, KM(u), l)
             /\ t = <<k, l>>
  PROVE  Right(q, Star(<<Mentions(KM(w)), Has(p, o)>>, <<v, u>>))
<1>1. PICK c, d, cs, selected : /\ c = Mentions(KM(w)) /\ d = Has(p, o) /\ cs = <<c, d>>
                                /\ selected = <<v, u>>
  OBVIOUS
<1>2. KM(w) # Wild /\ c.prov = 0 /\ d.prov = 0
  BY <1>1, WordType DEF Mentions, Has
<1>3. \A W, s : Meeting(W, s, cs) <=> (\E j : In(W, s, j, KM(w))) /\ In(W, s, KM(p), KM(o))
  <2>1. \A W, s : Meets(W, s, c) <=> \E j : In(W, s, j, KM(w))
    BY <1>1, <1>2, MeetsMentions
  <2>2. \A W, s : Meets(W, s, d) <=> In(W, s, KM(p), KM(o))
    BY <1>1, MeetsHas
  <2>3. \A W, s : Meeting(W, s, cs) <=> Meets(W, s, c) /\ Meets(W, s, d)
    BY <1>1, <1>2, MeetingTwo
  <2>4. QED
    BY <2>1, <2>2, <2>3
<1>4. Leads(cs, selected)
  <2>1. /\ DOMAIN cs = 1 .. 2 /\ Len(cs) = 2 /\ cs[1] = c
        /\ DOMAIN selected = 1 .. 2 /\ Len(selected) = 2
    BY <1>1
  <2>2. c.prov = 0 /\ c.subject = 0 /\ c.object # Wild
    BY <1>1, <1>2 DEF Mentions, Has
  <2>3. QED
    BY <2>1, <2>2 DEF Leads
<1>5. ReadsTwo(q, cs, v, u)
  BY <1>3 DEF ReadsTwo
<1>6. IsStar(q, cs, selected)
  BY <1>1, <1>5, StarOfTwo DEF Ready
<1>7. QED
  BY <1>1, <1>4, <1>6, StarRuns

LEMMA MentionedRuns ==
  ASSUME Ready, NEW q, NEW w, NEW v, NEW u, NEW r,
         \A W, t : t \in Asked(q, W) <=>
           \E a, j, k, l, m :
             /\ In(W, a, j, KM(w))
             /\ In(W, a, KM(v), k) /\ In(W, a, KM(u), l) /\ In(W, a, KM(r), m)
             /\ t = <<k, l, m>>
  PROVE  Right(q, Star(<<Mentions(KM(w))>>, <<v, u, r>>))
<1>1. PICK c, cs, selected : /\ c = Mentions(KM(w)) /\ cs = <<c>>
                             /\ selected = <<v, u, r>>
  OBVIOUS
<1>2. KM(w) # Wild /\ c.prov = 0
  BY <1>1, WordType DEF Mentions
<1>3. \A W, s : Meeting(W, s, cs) <=> \E j : In(W, s, j, KM(w))
  BY <1>1, <1>2, MeetsMentions, MeetingOne
<1>4. Leads(cs, selected)
  <2>1. /\ DOMAIN cs = 1 .. 1 /\ Len(cs) = 1 /\ cs[1] = c
        /\ DOMAIN selected = 1 .. 3 /\ Len(selected) = 3
    BY <1>1
  <2>2. c.prov = 0 /\ c.subject = 0 /\ c.object # Wild
    BY <1>1, <1>2 DEF Mentions, Has
  <2>3. QED
    BY <2>1, <2>2 DEF Leads
<1>5. ReadsThree(q, cs, v, u, r)
  BY <1>3 DEF ReadsThree
<1>6. IsStar(q, cs, selected)
  BY <1>1, <1>5, StarOfThree DEF Ready
<1>7. QED
  BY <1>1, <1>4, <1>6, StarRuns

LEMMA HavingTwoRuns ==
  ASSUME Ready, NEW q, NEW p, NEW o, NEW e, NEW d, NEW v, NEW u, NEW r,
         \A W, t : t \in Asked(q, W) <=>
           \E a, k, l, m :
             /\ In(W, a, KM(p), KM(o)) /\ In(W, a, KM(e), KM(d))
             /\ In(W, a, KM(v), k) /\ In(W, a, KM(u), l) /\ In(W, a, KM(r), m)
             /\ t = <<k, l, m>>
  PROVE  Right(q, Star(<<Has(p, o), Has(e, d)>>, <<v, u, r>>))
<1>1. PICK c, b, cs, selected : /\ c = Has(p, o) /\ b = Has(e, d) /\ cs = <<c, b>>
                                /\ selected = <<v, u, r>>
  OBVIOUS
<1>2. KM(o) # Wild /\ c.prov = 0 /\ b.prov = 0
  BY <1>1, WordType DEF Has
<1>3. \A W, s : Meeting(W, s, cs) <=> In(W, s, KM(p), KM(o)) /\ In(W, s, KM(e), KM(d))
  BY <1>1, <1>2, MeetsHas, MeetingTwo
<1>4. Leads(cs, selected)
  <2>1. /\ DOMAIN cs = 1 .. 2 /\ Len(cs) = 2 /\ cs[1] = c
        /\ DOMAIN selected = 1 .. 3 /\ Len(selected) = 3
    BY <1>1
  <2>2. c.prov = 0 /\ c.subject = 0 /\ c.object # Wild
    BY <1>1, <1>2 DEF Mentions, Has
  <2>3. QED
    BY <2>1, <2>2 DEF Leads
<1>5. ReadsThree(q, cs, v, u, r)
  BY <1>3 DEF ReadsThree
<1>6. IsStar(q, cs, selected)
  BY <1>1, <1>5, StarOfThree DEF Ready
<1>7. QED
  BY <1>1, <1>4, <1>6, StarRuns

LEMMA HavingOneRuns ==
  ASSUME Ready, NEW q, NEW p, NEW o, NEW e, NEW d, NEW v, NEW u, NEW r,
         \A W, t : t \in Asked(q, W) <=>
           \E a, k, l, m :
             /\ In(W, a, KM(p), KM(o))
             /\ In(W, a, KM(v), k) /\ In(W, a, KM(u), l) /\ In(W, a, KM(r), m)
             /\ t = <<k, l, m>>
  PROVE  Right(q, Star(<<Has(p, o), Maybe(e, d)>>, <<v, u, r>>))
<1>1. PICK c, b, cs, selected : /\ c = Has(p, o) /\ b = Maybe(e, d) /\ cs = <<c, b>>
                                /\ selected = <<v, u, r>>
  OBVIOUS
<1>2. KM(o) # Wild /\ c.prov = 0 /\ b.prov # 0
  BY <1>1, WordType DEF Has, Maybe
<1>3. \A W, s : Meeting(W, s, cs) <=> In(W, s, KM(p), KM(o))
  BY <1>1, <1>2, MeetsHas, MeetingTwo
<1>4. Leads(cs, selected)
  <2>1. /\ DOMAIN cs = 1 .. 2 /\ Len(cs) = 2 /\ cs[1] = c
        /\ DOMAIN selected = 1 .. 3 /\ Len(selected) = 3
    BY <1>1
  <2>2. c.prov = 0 /\ c.subject = 0 /\ c.object # Wild
    BY <1>1, <1>2 DEF Mentions, Has
  <2>3. QED
    BY <2>1, <2>2 DEF Leads
<1>5. ReadsThree(q, cs, v, u, r)
  BY <1>3 DEF ReadsThree
<1>6. IsStar(q, cs, selected)
  BY <1>1, <1>5, StarOfThree DEF Ready
<1>7. QED
  BY <1>1, <1>4, <1>6, StarRuns

\* The eight of them.
LEMMA Right_q01 == Ready => Right("q01", q01)
<1>1. PICK w, p, o, v, u :
        /\ w = "Eiffel Tower" /\ p = "inCountry" /\ o = "FR"
        /\ v = "lat" /\ u = "long"
  OBVIOUS
<1>2. IsMentioning("q01", w, p, o, v, u, "?lat", "?long")
  <2>1. SPARQL["q01"] = {Select(<<"?lat", "?long">>,
           <<About("?j", w), About(p, o), About(v, "?lat"), About(u, "?long")>>)}
    BY <1>1 DEF SPARQL
  <2>2. {w, p, o, v, u} \intersect Vars = {}
    BY <1>1 DEF Vars
  <2>3. {"?lat", "?long"} \subseteq Vars \ {"?a", "?j"}
    BY DEF Vars
  <2>4. "?lat" # "?long" /\ "q01" # "q08"
    OBVIOUS
  <2>5. QED
    BY <2>1, <2>2, <2>3, <2>4, Zenon DEF IsMentioning
<1>4. \A W, t : t \in Asked("q01", W) <=>
        \E a, j, k, l :
          /\ In(W, a, j, KM(w)) /\ In(W, a, KM(p), KM(o))
          /\ In(W, a, KM(v), k) /\ In(W, a, KM(u), l)
          /\ t = <<k, l>>
  BY <1>2, TextMentioning
<1>5. Ready => Right("q01", Star(<<Mentions(KM(w)), Has(p, o)>>, <<v, u>>))
  BY <1>4, MentioningRuns, Zenon
<1>6. q01 = Star(<<Mentions(KM(w)), Has(p, o)>>, <<v, u>>)
  BY <1>1, Zenon DEF q01
<1>7. QED
  BY <1>5, <1>6, Zenon

LEMMA Right_w01 == Ready => Right("w01", w01)
<1>1. PICK w, p, o, v, u :
        /\ w = "fortis-angelo" /\ p = "site_name" /\ o = "PagineBianche"
        /\ v = "title" /\ u = "description"
  OBVIOUS
<1>2. IsMentioning("w01", w, p, o, v, u, "?t", "?desc")
  <2>1. SPARQL["w01"] = {Select(<<"?t", "?desc">>,
           <<About("?j", w), About(p, o), About(v, "?t"), About(u, "?desc")>>)}
    BY <1>1 DEF SPARQL
  <2>2. {w, p, o, v, u} \intersect Vars = {}
    BY <1>1 DEF Vars
  <2>3. {"?t", "?desc"} \subseteq Vars \ {"?a", "?j"}
    BY DEF Vars
  <2>4. "?t" # "?desc" /\ "w01" # "q08"
    OBVIOUS
  <2>5. QED
    BY <2>1, <2>2, <2>3, <2>4, Zenon DEF IsMentioning
<1>4. \A W, t : t \in Asked("w01", W) <=>
        \E a, j, k, l :
          /\ In(W, a, j, KM(w)) /\ In(W, a, KM(p), KM(o))
          /\ In(W, a, KM(v), k) /\ In(W, a, KM(u), l)
          /\ t = <<k, l>>
  BY <1>2, TextMentioning
<1>5. Ready => Right("w01", Star(<<Mentions(KM(w)), Has(p, o)>>, <<v, u>>))
  BY <1>4, MentioningRuns, Zenon
<1>6. w01 = Star(<<Mentions(KM(w)), Has(p, o)>>, <<v, u>>)
  BY <1>1, Zenon DEF w01
<1>7. QED
  BY <1>5, <1>6, Zenon

LEMMA Right_q02 == Ready => Right("q02", q02)
<1>1. PICK w, v, u, r :
        /\ w = "Tim Berners-Lee" /\ v = "dateOfBirth"
        /\ u = "placeOfBirth" /\ r = "name"
  OBVIOUS
<1>2. IsMentioned("q02", w, v, u, r, "?b", "?p", "?n")
  <2>1. SPARQL["q02"] = {Select(<<"?b", "?p", "?n">>,
           <<About("?j", w), About(v, "?b"), About(u, "?p"), About(r, "?n")>>)}
    BY <1>1 DEF SPARQL
  <2>2. {w, v, u, r} \intersect Vars = {}
    BY <1>1 DEF Vars
  <2>3. {"?b", "?p", "?n"} \subseteq Vars \ {"?a", "?j"}
    BY DEF Vars
  <2>4. "?b" # "?p" /\ "?b" # "?n" /\ "?p" # "?n" /\ "q02" # "q08"
    OBVIOUS
  <2>5. QED
    BY <2>1, <2>2, <2>3, <2>4, Zenon DEF IsMentioned
<1>4. \A W, t : t \in Asked("q02", W) <=>
        \E a, j, k, l, m :
          /\ In(W, a, j, KM(w))
          /\ In(W, a, KM(v), k) /\ In(W, a, KM(u), l) /\ In(W, a, KM(r), m)
          /\ t = <<k, l, m>>
  BY <1>2, TextMentioned
<1>5. Ready => Right("q02", Star(<<Mentions(KM(w))>>, <<v, u, r>>))
  BY <1>4, MentionedRuns, Zenon
<1>6. q02 = Star(<<Mentions(KM(w))>>, <<v, u, r>>)
  BY <1>1, Zenon DEF q02
<1>7. QED
  BY <1>5, <1>6, Zenon

LEMMA Right_w02 == Ready => Right("w02", w02)
<1>1. PICK w, v, u, r :
        /\ w = "fortyagency" /\ v = "og:image"
        /\ u = "og:description" /\ r = "og:title"
  OBVIOUS
<1>2. IsMentioned("w02", w, v, u, r, "?b", "?p", "?n")
  <2>1. SPARQL["w02"] = {Select(<<"?b", "?p", "?n">>,
           <<About("?j", w), About(v, "?b"), About(u, "?p"), About(r, "?n")>>)}
    BY <1>1 DEF SPARQL
  <2>2. {w, v, u, r} \intersect Vars = {}
    BY <1>1 DEF Vars
  <2>3. {"?b", "?p", "?n"} \subseteq Vars \ {"?a", "?j"}
    BY DEF Vars
  <2>4. "?b" # "?p" /\ "?b" # "?n" /\ "?p" # "?n" /\ "w02" # "q08"
    OBVIOUS
  <2>5. QED
    BY <2>1, <2>2, <2>3, <2>4, Zenon DEF IsMentioned
<1>4. \A W, t : t \in Asked("w02", W) <=>
        \E a, j, k, l, m :
          /\ In(W, a, j, KM(w))
          /\ In(W, a, KM(v), k) /\ In(W, a, KM(u), l) /\ In(W, a, KM(r), m)
          /\ t = <<k, l, m>>
  BY <1>2, TextMentioned
<1>5. Ready => Right("w02", Star(<<Mentions(KM(w))>>, <<v, u, r>>))
  BY <1>4, MentionedRuns, Zenon
<1>6. w02 = Star(<<Mentions(KM(w))>>, <<v, u, r>>)
  BY <1>1, Zenon DEF w02
<1>7. QED
  BY <1>5, <1>6, Zenon

LEMMA Right_q03 == Ready => Right("q03", q03)
<1>1. PICK p, o, e, d, v, u, r :
        /\ p = "wikilink" /\ o = "List" /\ e = "wikilink" /\ d = "Middle_Ages"
        /\ v = "title" /\ u = "lat" /\ r = "long"
  OBVIOUS
<1>2. IsHavingTwo("q03", p, o, e, d, v, u, r, "?t", "?lat", "?long")
  <2>1. SPARQL["q03"] = {Select(<<"?t", "?lat", "?long">>,
           <<About(p, o), About(e, d), About(v, "?t"), About(u, "?lat"), About(r, "?long")>>)}
    BY <1>1 DEF SPARQL
  <2>2. {p, o, e, d, v, u, r} \intersect Vars = {}
    BY <1>1 DEF Vars
  <2>3. {"?t", "?lat", "?long"} \subseteq Vars \ {"?a", "?j"}
    BY DEF Vars
  <2>4. "?t" # "?lat" /\ "?t" # "?long" /\ "?lat" # "?long" /\ "q03" # "q08"
    OBVIOUS
  <2>5. QED
    BY <2>1, <2>2, <2>3, <2>4, Zenon DEF IsHavingTwo
<1>4. \A W, t : t \in Asked("q03", W) <=>
        \E a, k, l, m :
          /\ In(W, a, KM(p), KM(o)) /\ In(W, a, KM(e), KM(d))
          /\ In(W, a, KM(v), k) /\ In(W, a, KM(u), l) /\ In(W, a, KM(r), m)
          /\ t = <<k, l, m>>
  BY <1>2, TextHavingTwo
<1>5. Ready => Right("q03", Star(<<Has(p, o), Has(e, d)>>, <<v, u, r>>))
  BY <1>4, HavingTwoRuns, Zenon
<1>6. q03 = Star(<<Has(p, o), Has(e, d)>>, <<v, u, r>>)
  BY <1>1, Zenon DEF q03
<1>7. QED
  BY <1>5, <1>6, Zenon

LEMMA Right_w03 == Ready => Right("w03", w03)
<1>1. PICK p, o, e, d, v, u, r :
        /\ p = "country-name" /\ o = "United States" /\ e = "region" /\ d = "Maine"
        /\ v = "title" /\ u = "latitude" /\ r = "longitude"
  OBVIOUS
<1>2. IsHavingTwo("w03", p, o, e, d, v, u, r, "?t", "?lat", "?long")
  <2>1. SPARQL["w03"] = {Select(<<"?t", "?lat", "?long">>,
           <<About(p, o), About(e, d), About(v, "?t"), About(u, "?lat"), About(r, "?long")>>)}
    BY <1>1 DEF SPARQL
  <2>2. {p, o, e, d, v, u, r} \intersect Vars = {}
    BY <1>1 DEF Vars
  <2>3. {"?t", "?lat", "?long"} \subseteq Vars \ {"?a", "?j"}
    BY DEF Vars
  <2>4. "?t" # "?lat" /\ "?t" # "?long" /\ "?lat" # "?long" /\ "w03" # "q08"
    OBVIOUS
  <2>5. QED
    BY <2>1, <2>2, <2>3, <2>4, Zenon DEF IsHavingTwo
<1>4. \A W, t : t \in Asked("w03", W) <=>
        \E a, k, l, m :
          /\ In(W, a, KM(p), KM(o)) /\ In(W, a, KM(e), KM(d))
          /\ In(W, a, KM(v), k) /\ In(W, a, KM(u), l) /\ In(W, a, KM(r), m)
          /\ t = <<k, l, m>>
  BY <1>2, TextHavingTwo
<1>5. \A W, t : t \in Asked("w03", W) <=>
        \E a, k, l, m :
          /\ In(W, a, KM(e), KM(d)) /\ In(W, a, KM(p), KM(o))
          /\ In(W, a, KM(v), k) /\ In(W, a, KM(u), l) /\ In(W, a, KM(r), m)
          /\ t = <<k, l, m>>
  BY <1>4
<1>6. Ready => Right("w03", Star(<<Has(e, d), Has(p, o)>>, <<v, u, r>>))
  BY <1>5, HavingTwoRuns, Zenon
<1>7. w03 = Star(<<Has(e, d), Has(p, o)>>, <<v, u, r>>)
  BY <1>1, Zenon DEF w03
<1>8. QED
  BY <1>6, <1>7, Zenon

LEMMA Right_q10 == Ready => Right("q10", q10)
<1>1. PICK p, o, v, u, r :
        /\ p = "wikilink" /\ o = "List" /\ v = "title"
        /\ u = "lat" /\ r = "long"
  OBVIOUS
<1>2. IsHavingOne("q10", p, o, v, u, r, "?t", "?lat", "?long")
  <2>1. SPARQL["q10"] = {Select(<<"?t", "?lat", "?long">>,
           <<About(p, o), About(v, "?t"), About(u, "?lat"), About(r, "?long")>>)}
    BY <1>1 DEF SPARQL
  <2>2. {p, o, v, u, r} \intersect Vars = {}
    BY <1>1 DEF Vars
  <2>3. {"?t", "?lat", "?long"} \subseteq Vars \ {"?a", "?j"}
    BY DEF Vars
  <2>4. "?t" # "?lat" /\ "?t" # "?long" /\ "?lat" # "?long" /\ "q10" # "q08"
    OBVIOUS
  <2>5. QED
    BY <2>1, <2>2, <2>3, <2>4, Zenon DEF IsHavingOne
<1>4. \A W, t : t \in Asked("q10", W) <=>
        \E a, k, l, m :
          /\ In(W, a, KM(p), KM(o))
          /\ In(W, a, KM(v), k) /\ In(W, a, KM(u), l) /\ In(W, a, KM(r), m)
          /\ t = <<k, l, m>>
  BY <1>2, TextHavingOne
<1>5. PICK e, d : e = "wikilink" /\ d = "Middle_Ages"
  OBVIOUS
<1>6. Ready => Right("q10", Star(<<Has(p, o), Maybe(e, d)>>, <<v, u, r>>))
  BY <1>4, HavingOneRuns, Zenon
<1>7. q10 = Star(<<Has(p, o), Maybe(e, d)>>, <<v, u, r>>)
  BY <1>1, <1>5, Zenon DEF q10
<1>8. QED
  BY <1>6, <1>7, Zenon

LEMMA Right_w07 == Ready => Right("w07", w07)
<1>1. PICK p, o, v, u, r :
        /\ p = "region" /\ o = "Maine" /\ v = "title"
        /\ u = "latitude" /\ r = "longitude"
  OBVIOUS
<1>2. IsHavingOne("w07", p, o, v, u, r, "?t", "?lat", "?long")
  <2>1. SPARQL["w07"] = {Select(<<"?t", "?lat", "?long">>,
           <<About(p, o), About(v, "?t"), About(u, "?lat"), About(r, "?long")>>)}
    BY <1>1 DEF SPARQL
  <2>2. {p, o, v, u, r} \intersect Vars = {}
    BY <1>1 DEF Vars
  <2>3. {"?t", "?lat", "?long"} \subseteq Vars \ {"?a", "?j"}
    BY DEF Vars
  <2>4. "?t" # "?lat" /\ "?t" # "?long" /\ "?lat" # "?long" /\ "w07" # "q08"
    OBVIOUS
  <2>5. QED
    BY <2>1, <2>2, <2>3, <2>4, Zenon DEF IsHavingOne
<1>4. \A W, t : t \in Asked("w07", W) <=>
        \E a, k, l, m :
          /\ In(W, a, KM(p), KM(o))
          /\ In(W, a, KM(v), k) /\ In(W, a, KM(u), l) /\ In(W, a, KM(r), m)
          /\ t = <<k, l, m>>
  BY <1>2, TextHavingOne
<1>5. PICK e, d : e = "country-name" /\ d = "United States"
  OBVIOUS
<1>6. Ready => Right("w07", Star(<<Has(p, o), Maybe(e, d)>>, <<v, u, r>>))
  BY <1>4, HavingOneRuns, Zenon
<1>7. w07 = Star(<<Has(p, o), Maybe(e, d)>>, <<v, u, r>>)
  BY <1>1, <1>5, Zenon DEF w07
<1>8. QED
  BY <1>6, <1>7, Zenon
------------------------------------------------------------------------------
(***************************************************************************)
(* The look-ups that find subjects and objects without TriplePatern.       *)
(***************************************************************************)

\* The contexts of what is said of s.
Contexts(W, s, p, o) ==
  {q.prov : q \in {x \in W : x.subject = s /\ x.predicate = p /\ x.object = o}}

LEMMA InContexts ==
  ASSUME NEW W, NEW s, NEW p, NEW o
  PROVE  /\ Contexts(W, s, p, o) # {} <=> In(W, s, p, o)
         /\ \A N : (\E x \in Contexts(W, s, p, o) : x \in N) <=> In(Within(W, N), s, p, o)
BY DEF Contexts, In, Within

LEMMA SaysSoQuads ==
  ASSUME Ready, NEW s \in KEY_ID, NEW o, o # Wild, NEW p, p # Wild
  PROVE  /\ SubjectProv(s, o, p, ProvTrigerON, ProvUris) = Contexts(Visible, s, p, o)
         /\ ProvTrigerON => Contexts(Visible, s, p, o) \subseteq ProvUris
<1>1. PICK c : c = [predicate |-> p, object |-> o]
  OBVIOUS
<1>2. c.predicate = p /\ c.object = o
  BY <1>1
<1>3. SubjectProv(s, o, p, ProvTrigerON, ProvUris) = ConstraintProv(s, c, ProvTrigerON, ProvUris)
  BY <1>2 DEF SubjectProv, ConstraintProv
<1>4. ConstraintProv(s, c, ProvTrigerON, ProvUris)
        = {q.prov : q \in MatchingQuads(s, p, o, ProvTrigerON, ProvUris)}
  BY <1>2, ConstraintQuads DEF Ready
<1>5. MatchingQuads(s, p, o, ProvTrigerON, ProvUris)
        = {x \in Visible : x.subject = s /\ x.predicate = p /\ x.object = o}
  BY VisibleIsSeen DEF MatchingQuads, SeenQuads
<1>6. \A q \in Visible : ProvTrigerON => q.prov \in ProvUris
  BY DEF Visible
<1>7. QED
  BY <1>3, <1>4, <1>5, <1>6 DEF Contexts

LEMMA SubjectsIn ==
  ASSUME Ready, NEW o, NEW p, NEW s
  PROVE  s \in Subjects(o, p) <=> In(Visible, s, KM(p), KM(o))
<1>1. KM(o) # Wild /\ KM(p) # Wild
  BY WordType
<1>2. s \in Subjects(o, p) <=> /\ s \in GetMoleculesFromInvertedIdx(KM(o))
                               /\ SubjectProv(s, KM(o), KM(p), ProvTrigerON, ProvUris) # {}
  BY DEF Subjects, GetSubjects
<1>3. s \in GetMoleculesFromInvertedIdx(KM(o)) => s \in KEY_ID
  BY IndexedType DEF Ready
<1>4. In(Visible, s, KM(p), KM(o)) => s \in GetMoleculesFromInvertedIdx(KM(o))
  BY VisibleIsSeen, SubjectsAreFound DEF Ready, In
<1>5. s \in KEY_ID => (SubjectProv(s, KM(o), KM(p), ProvTrigerON, ProvUris) # {}
                         <=> In(Visible, s, KM(p), KM(o)))
  BY <1>1, SaysSoQuads, InContexts
<1>6. QED
  BY <1>2, <1>3, <1>4, <1>5

\* GetObjects: the objects, and the contexts they are from.
LEMMA ObjectsIn ==
  ASSUME Ready, NEW s \in KEY_ID, NEW p
  PROVE  /\ \A k : k \in {e.obj : e \in Objects(s, p)} <=> In(Visible, s, KM(p), k)
         /\ \A N, k : {e.prov : e \in Objects(s, p)} \subseteq N /\ In(Visible, s, KM(p), k)
                        => In(Within(Visible, N), s, KM(p), k)
         /\ ProvTrigerON => {e.prov : e \in Objects(s, p)} \subseteq ProvUris
<1>1. PICK c : c = [predicate |-> KM(p)]
  OBVIOUS
<1>2. c.predicate = KM(p) /\ KM(p) # Wild
  BY <1>1, WordType
<1>3. CASE GetPair(s) = {}
  <2>1. Objects(s, p) = {}
    BY <1>3 DEF Objects, GetObjects
  <2>2. \A k : ~ In(Visible, s, KM(p), k)
    BY <1>3, VisibleIsSeen, SubjectsAreFound DEF Ready, In
  <2>3. QED
    BY <2>1, <2>2
<1>4. CASE GetPair(s) # {}
  <2>1. Objects(s, p) = Projected(s, c, ProvTrigerON, ProvUris)
    BY <1>2, <1>4 DEF Objects, GetObjects, Projected
  <2>2. PICK os, ns : /\ os = {e.obj : e \in Objects(s, p)}
                      /\ ns = {e.prov : e \in Objects(s, p)}
    OBVIOUS
  <2>3. /\ os = ObjectsProjected(s, c, ProvTrigerON, ProvUris)
        /\ ns = ContextsProjected(s, c, ProvTrigerON, ProvUris)
    BY <2>1, <2>2 DEF ObjectsProjected, ContextsProjected
  <2>4. StoreInv /\ ProvTrigerON \in BOOLEAN
    BY DEF Ready
  <2>5. \A W, k : Finds(W, s, c, k) <=> In(W, s, KM(p), k)
    BY <1>2 DEF Finds, In
  <2>6. \A k : k \in os <=> In(Visible, s, KM(p), k)
    BY <2>3, <2>4, <2>5, ProjectionFinds, VisibleIsSeen
  <2>7. \A N, k : ns \subseteq N /\ In(Visible, s, KM(p), k)
                    => In(Within(Visible, N), s, KM(p), k)
    BY <2>3, <2>4, <2>5, ProjectionWithin, VisibleIsSeen
  <2>8. ProvTrigerON => ns \subseteq ProvUris
    BY <2>3, <2>4, ProjectionFinds
  <2>9. QED
    BY <2>2, <2>6, <2>7, <2>8
<1>5. QED
  BY <1>3, <1>4

\* The two unions.
LEMMA UnionRuns ==
  ASSUME Ready, NEW q, NEW p, NEW o1, NEW o2,
         \A W, t : t \in Asked(q, W) <=>
           \E s : (In(W, s, KM(p), KM(o1)) \/ In(W, s, KM(p), KM(o2))) /\ t = <<s>>
  PROVE  Right(q, Union(p, o1, o2))
<1>1. PICK named1, named2 :
        /\ named1 = GetSubjectsProv(KM(o1), KM(p), ProvTrigerON, ProvUris)
        /\ named2 = GetSubjectsProv(KM(o2), KM(p), ProvTrigerON, ProvUris)
  OBVIOUS
<1>2. /\ Union(p, o1, o2).answers = {<<s>> : s \in Subjects(o1, p) \union Subjects(o2, p)}
      /\ Union(p, o1, o2).named = named1 \union named2
  BY <1>1 DEF Union
<1>3. KM(o1) # Wild /\ KM(o2) # Wild /\ KM(p) # Wild
  BY WordType
<1>4. ASSUME NEW o, KM(o) # Wild, NEW names,
             names = GetSubjectsProv(KM(o), KM(p), ProvTrigerON, ProvUris)
      PROVE  /\ \A s \in Subjects(o, p) : \A N : names \subseteq N =>
                  In(Within(Visible, N), s, KM(p), KM(o))
             /\ ProvTrigerON => names \subseteq ProvUris
  <2>1. names = UNION {SubjectProv(s, KM(o), KM(p), ProvTrigerON, ProvUris) : s \in Subjects(o, p)}
    BY <1>4 DEF GetSubjectsProv, Subjects
  <2>2. \A s \in Subjects(o, p) : s \in KEY_ID /\ In(Visible, s, KM(p), KM(o))
    BY SubjectsIn, VisibleIsSeen, InTyped DEF Ready
  <2>3. \A s \in Subjects(o, p) :
          /\ SubjectProv(s, KM(o), KM(p), ProvTrigerON, ProvUris)
               = Contexts(Visible, s, KM(p), KM(o))
          /\ ProvTrigerON => Contexts(Visible, s, KM(p), KM(o)) \subseteq ProvUris
    BY <1>3, <1>4, <2>2, SaysSoQuads
  <2>4. ASSUME NEW s \in Subjects(o, p), NEW N, names \subseteq N
        PROVE  In(Within(Visible, N), s, KM(p), KM(o))
    <3>1. Contexts(Visible, s, KM(p), KM(o)) # {}
      BY <2>2, InContexts
    <3>2. Contexts(Visible, s, KM(p), KM(o)) \subseteq N
      BY <2>1, <2>3, <2>4
    <3>3. QED
      BY <3>1, <3>2, InContexts
  <2>5. QED
    BY <2>1, <2>3, <2>4
<1>5. /\ \A s \in Subjects(o1, p) : \A N : named1 \subseteq N =>
           In(Within(Visible, N), s, KM(p), KM(o1))
      /\ ProvTrigerON => named1 \subseteq ProvUris
  BY <1>1, <1>3, <1>4
<1>6. /\ \A s \in Subjects(o2, p) : \A N : named2 \subseteq N =>
           In(Within(Visible, N), s, KM(p), KM(o2))
      /\ ProvTrigerON => named2 \subseteq ProvUris
  BY <1>1, <1>3, <1>4
<1>7. PICK N : N = named1 \union named2
  OBVIOUS
<1>8. \A t \in Union(p, o1, o2).answers : t \in Asked(q, Within(Visible, N))
  <2>1. SUFFICES ASSUME NEW s \in Subjects(o1, p) \union Subjects(o2, p)
                 PROVE  <<s>> \in Asked(q, Within(Visible, N))
    BY <1>2
  <2>2. In(Within(Visible, N), s, KM(p), KM(o1)) \/ In(Within(Visible, N), s, KM(p), KM(o2))
    BY <1>5, <1>6, <1>7, <2>1
  <2>3. QED
    BY <2>2
<1>9. \A t \in Asked(q, Visible) : t \in Union(p, o1, o2).answers
  <2>1. \A t \in Asked(q, Visible) : \E s :
          (In(Visible, s, KM(p), KM(o1)) \/ In(Visible, s, KM(p), KM(o2))) /\ t = <<s>>
    OBVIOUS
  <2>2. QED
    BY <1>2, <2>1, SubjectsIn
<1>10. QED
  BY <1>2, <1>5, <1>6, <1>7, <1>8, <1>9 DEF Right, Explains, Exhausts

LEMMA Right_q09 == Ready => Right("q09", q09)
<1>1. PICK p, o1, o2 : p = "foaf:name" /\ o1 = "Samuel" /\ o2 = "Elisabeth"
  OBVIOUS
<1>2. IsUnion("q09", p, o1, o2)
  <2>1. SPARQL["q09"] = {Select(<<"?s">>, <<<<"?s", p, o1>>>>), Select(<<"?s">>, <<<<"?s", p, o2>>>>)}
    BY <1>1 DEF SPARQL
  <2>2. {p, o1, o2} \intersect Vars = {} /\ "q09" # "q08"
    BY <1>1 DEF Vars
  <2>3. QED
    BY <2>1, <2>2 DEF IsUnion
<1>3. \A W, t : t \in Asked("q09", W) <=>
        \E s : (In(W, s, KM(p), KM(o1)) \/ In(W, s, KM(p), KM(o2))) /\ t = <<s>>
  BY <1>2, TextUnion
<1>4. Ready => Right("q09", Union(p, o1, o2))
  BY <1>3, UnionRuns, Zenon
<1>5. q09 = Union(p, o1, o2)
  BY <1>1, Zenon DEF q09
<1>6. QED
  BY <1>4, <1>5, Zenon

LEMMA Right_w06 == Ready => Right("w06", w06)
<1>1. PICK p, o1, o2 : p = "og:site_name" /\ o1 = "fosiki" /\ o2 = "Fotogard"
  OBVIOUS
<1>2. IsUnion("w06", p, o1, o2)
  <2>1. SPARQL["w06"] = {Select(<<"?s">>, <<<<"?s", p, o1>>>>), Select(<<"?s">>, <<<<"?s", p, o2>>>>)}
    BY <1>1 DEF SPARQL
  <2>2. {p, o1, o2} \intersect Vars = {} /\ "w06" # "q08"
    BY <1>1 DEF Vars
  <2>3. QED
    BY <2>1, <2>2 DEF IsUnion
<1>3. \A W, t : t \in Asked("w06", W) <=>
        \E s : (In(W, s, KM(p), KM(o1)) \/ In(W, s, KM(p), KM(o2))) /\ t = <<s>>
  BY <1>2, TextUnion
<1>4. Ready => Right("w06", Union(p, o1, o2))
  BY <1>3, UnionRuns, Zenon
<1>5. w06 = Union(p, o1, o2)
  BY <1>1, Zenon DEF w06
<1>6. QED
  BY <1>4, <1>5, Zenon
------------------------------------------------------------------------------
(***************************************************************************)
(* The two queries whose second TriplePatern asks for the values of the    *)
(* first.                                                                  *)
(***************************************************************************)

\* SetToSeq lists a finite set: its elements and nothing else.
LEMMA SetAsSequence ==
  ASSUME NEW S, IsFiniteSet(S)
  PROVE  /\ SetToSeq(S) \in Seq(S)
         /\ Range(SetToSeq(S)) = S
<1>1. PICK n : n = Cardinality(S)
  OBVIOUS
<1>2. n \in Nat /\ ExistsBijection(1 .. n, S)
  BY <1>1, FS_CardinalityType
<1>3. PICK f : f \in Bijection(1 .. n, S)
  BY <1>2 DEF ExistsBijection
<1>4. f \in [1 .. n -> S] /\ IsInjective(f)
  BY <1>3, Zenon DEF Bijection, Injection
<1>5. PICK g : g = SetToSeq(S)
  OBVIOUS
<1>6. g \in [1 .. n -> S] /\ IsInjective(g)
  BY <1>1, <1>4, <1>5, Zenon DEF SetToSeq
<1>7. g \in Injection(1 .. n, S)
  BY <1>6, Zenon DEF Injection
<1>8. Cardinality(1 .. n) = n
  BY <1>2, FS_Interval
<1>9. g \in Surjection(1 .. n, S)
  BY <1>1, <1>7, <1>8, FS_Injection
<1>10. \A x \in S : \E i \in 1 .. n : g[i] = x
  BY <1>9, Zenon DEF Surjection
<1>11. DOMAIN g = 1 .. n
  BY <1>6
<1>12. Range(g) = S
  BY <1>6, <1>10, <1>11 DEF Range
<1>13. g \in Seq(S)
  BY <1>2, <1>6
<1>14. QED
  BY <1>5, <1>12, <1>13

\* The lines that are visible are finitely many, and so are their objects.
LEMMA VisibleFinite ==
  ASSUME Ready
  PROVE  IsFiniteSet({q.object : q \in Visible})
<1>1. tripleIDs \in Seq(Lines)
  BY DEF Ready, StoreInv, LoadInv, TypeOK
<1>2. PICK n : n = Len(tripleIDs)
  OBVIOUS
<1>3. n \in Nat /\ DOMAIN tripleIDs = 1 .. n /\ tripleIDs = [i \in 1 .. n |-> tripleIDs[i]]
  BY <1>1, <1>2
<1>4. tripleIDs \in Surjection(1 .. n, Range(tripleIDs))
  BY <1>3 DEF Surjection, Range
<1>5. IsFiniteSet(1 .. n)
  BY <1>3, FS_Interval
<1>6. IsFiniteSet(Range(tripleIDs))
  BY <1>4, <1>5, FS_Surjection
<1>7. Visible \in SUBSET Range(tripleIDs)
  BY DEF Visible, Stored
<1>8. IsFiniteSet(Visible)
  BY <1>6, <1>7, FS_Subset
<1>9. PICK V, O, f : V = Visible /\ O = {q.object : q \in V} /\ f = [q \in V |-> q.object]
  OBVIOUS
<1>10. f \in Surjection(V, O)
  BY <1>9 DEF Surjection
<1>11. IsFiniteSet(O)
  BY <1>8, <1>9, <1>10, FS_Surjection
<1>12. QED
  BY <1>9, <1>11

\* More quads lose no answer.
LEMMA AnsweredGrows ==
  ASSUME NEW W, NEW X, W \subseteq X, NEW cs, NEW ps, NEW s, NEW t, Answered(W, cs, ps, s, t)
  PROVE  Answered(X, cs, ps, s, t)
<1>1. \A c : Meets(W, s, c) => Meets(X, s, c)
  BY DEF Meets
<1>2. \A p, k : Finds(W, s, p, k) => Finds(X, s, p, k)
  BY DEF Finds
<1>3. QED
  BY <1>1, <1>2 DEF Answered, Meeting

\* A tuple of n values.
IsRow(t, n) == t = [i \in 1 .. n |-> t[i]]

LEMMA RowOfOne ==
  ASSUME NEW t
  PROVE  IsRow(t, 1) <=> t = <<t[1]>>
BY DEF IsRow

LEMMA RowOfTwo ==
  ASSUME NEW t
  PROVE  IsRow(t, 2) <=> t = <<t[1], t[2]>>
BY DEF IsRow

\* The rows of a query show what it asks of the visible lines, explained by the
\* contexts they name.
LEMMA RowsShow ==
  ASSUME Ready, NEW cs, NEW ps, Startable(cs, ps), NEW rows,
         rows = TriplePatern(cs, ps, ProvTrigerON, ProvUris)
  PROVE  /\ \A N, t : ContextsOf(rows) \subseteq N /\ t \in ShownRows(rows) =>
              /\ IsRow(t, Len(ps))
              /\ \E s : Answered(Within(Visible, N), cs, ps, s, t)
         /\ \A s, t : IsRow(t, Len(ps)) /\ Answered(Visible, cs, ps, s, t)
                       => t \in ShownRows(rows)
         /\ ProvTrigerON => ContextsOf(rows) \subseteq ProvUris
<1>2. StoreInv /\ ProvTrigerON \in BOOLEAN
  BY DEF Ready
<1>3. PICK V, C : V = SeenQuads(ProvTrigerON, ProvUris) /\ C = ContextsOf(rows)
  OBVIOUS
<1>a. Startable(cs, ps)
  OBVIOUS
<1>b. ASSUME NEW t \in ShownRows(rows)
      PROVE  IsRow(t, Len(ps)) /\ \E s : Answered(Within(V, C), cs, ps, s, t)
  <2>1. ContextsOf(rows) \subseteq C
    BY <1>3
  <2>2. rows = TriplePatern(cs, ps, ProvTrigerON, ProvUris)
    OBVIOUS
  <2>3. t \in ShownRows(rows)
    OBVIOUS
  <2>4. t = [i \in 1 .. Len(ps) |-> t[i]]
    BY <1>2, <1>a, <2>1, <2>2, <2>3, ShownIsAnswered, SMT
  <2>5. \E s : Answered(Within(SeenQuads(ProvTrigerON, ProvUris), C), cs, ps, s, t)
    BY <1>2, <1>a, <2>1, <2>2, <2>3, ShownIsAnswered, Zenon
  <2>6. QED
    BY <1>3, <2>4, <2>5 DEF IsRow
<1>4. Visible = V
  BY <1>3, VisibleIsSeen
<1>5. ASSUME NEW N, NEW t, ContextsOf(rows) \subseteq N, t \in ShownRows(rows)
      PROVE  /\ IsRow(t, Len(ps))
             /\ \E s : Answered(Within(V, N), cs, ps, s, t)
  <2>1. Within(V, C) \subseteq Within(V, N)
    BY <1>3, <1>5 DEF Within
  <2>2. QED
    BY <1>5, <1>b, <2>1, AnsweredGrows
<1>6. ASSUME NEW s, NEW t, IsRow(t, Len(ps)), Answered(V, cs, ps, s, t)
      PROVE  t \in ShownRows(rows)
  BY <1>2, <1>3, <1>6, AnsweredIsShown DEF IsRow
<1>7. ProvTrigerON => ContextsOf(rows) \subseteq ProvUris
  BY <1>2, NamedAreSelected
<1>8. QED
  BY <1>4, <1>5, <1>6, <1>7

\* With one projection, and with two.
LEMMA AnsweredOne ==
  ASSUME NEW d, NEW ps, ps = <<d>>, NEW cs, NEW W, NEW s, NEW t
  PROVE  Answered(W, cs, ps, s, t) <=> /\ s \in KEY_ID /\ FromSubject(cs, ps, s)
                                       /\ Meeting(W, s, cs) /\ Finds(W, s, d, t[1])
<1>1. Len(ps) = 1 /\ ps[1] = d /\ \A i : i \in 1 .. 1 <=> i = 1
  OBVIOUS
<1>2. QED
  BY <1>1 DEF Answered

LEMMA AnsweredTwo ==
  ASSUME NEW d, NEW e, NEW ps, ps = <<d, e>>, NEW cs, NEW W, NEW s, NEW t
  PROVE  Answered(W, cs, ps, s, t) <=> /\ s \in KEY_ID /\ FromSubject(cs, ps, s)
                                       /\ Meeting(W, s, cs)
                                       /\ Finds(W, s, d, t[1]) /\ Finds(W, s, e, t[2])
<1>1. Len(ps) = 2 /\ ps[1] = d /\ ps[2] = e /\ \A i : i \in 1 .. 2 <=> i = 1 \/ i = 2
  OBVIOUS
<1>2. QED
  BY <1>1 DEF Answered

\* The values of a first TriplePatern, with one constraint and one projection.
Looks(c, d) ==
  /\ c.prov = 0 /\ c.subject = 0 /\ c.object # Wild
  /\ d.prov = 0

LEMMA ValuesFound ==
  ASSUME Ready, NEW c, NEW d, Looks(c, d), NEW rows, rows = Triples(<<c>>, <<d>>)
  PROVE  /\ \A k : k \in ValuesOf(rows)
                     <=> \E s : s \in KEY_ID /\ Meets(Visible, s, c) /\ Finds(Visible, s, d, k)
         /\ \A N, k : ContextsOf(rows) \subseteq N /\ k \in ValuesOf(rows) =>
              \E s : /\ s \in KEY_ID
                     /\ Meets(Within(Visible, N), s, c) /\ Finds(Within(Visible, N), s, d, k)
         /\ ProvTrigerON => ContextsOf(rows) \subseteq ProvUris
<1>1. PICK cs, ps : cs = <<c>> /\ ps = <<d>>
  OBVIOUS
<1>2. /\ Len(cs) = 1 /\ DOMAIN cs = 1 .. 1 /\ cs[1] = c /\ cs # <<>>
      /\ Len(ps) = 1 /\ DOMAIN ps = 1 .. 1 /\ ps[1] = d
  BY <1>1
<1>3. Startable(cs, ps) /\ rows = Triples(cs, ps)
  BY <1>1, <1>2 DEF Startable, Looks
<1>4. StoreInv /\ ProvTrigerON \in BOOLEAN
  BY DEF Ready
<1>5. rows = TriplePatern(cs, ps, ProvTrigerON, ProvUris)
  BY <1>1 DEF Triples
<1>6. \A W, s, t : Answered(W, cs, ps, s, t)
                     <=> s \in KEY_ID /\ Meets(W, s, c) /\ Finds(W, s, d, t[1])
  <2>1. \A W, s : Meeting(W, s, cs) <=> Meets(W, s, c)
    BY <1>1, MeetingOne DEF Looks
  <2>2. \A s : FromSubject(cs, ps, s)
    BY <1>2 DEF FromSubject, Looks
  <2>3. \A i : i \in 1 .. 1 <=> i = 1
    OBVIOUS
  <2>4. QED
    BY <1>2, <2>1, <2>2, <2>3 DEF Answered
<1>7. \A k : k \in ValuesOf(rows) <=> <<k>> \in ShownRows(rows)
  BY <1>2, <1>3, <1>4, <1>5, ValuesAreShown
<1>8. ASSUME NEW N, NEW k, ContextsOf(rows) \subseteq N, k \in ValuesOf(rows)
      PROVE  \E s : /\ s \in KEY_ID
                    /\ Meets(Within(Visible, N), s, c) /\ Finds(Within(Visible, N), s, d, k)
  <2>1. PICK t : t = <<k>>
    OBVIOUS
  <2>2. t \in ShownRows(rows) /\ t[1] = k
    BY <1>7, <1>8, <2>1
  <2>3. \E s : Answered(Within(Visible, N), cs, ps, s, t)
    BY <1>3, <1>5, <1>8, <2>2, RowsShow
  <2>4. QED
    BY <1>6, <2>2, <2>3
<1>9. ASSUME NEW k, NEW s \in KEY_ID, Meets(Visible, s, c), Finds(Visible, s, d, k)
      PROVE  k \in ValuesOf(rows)
  <2>1. PICK t : t = <<k>>
    OBVIOUS
  <2>2. t = [i \in 1 .. 1 |-> t[i]] /\ t[1] = k
    BY <2>1
  <2>3. Answered(Visible, cs, ps, s, t) /\ IsRow(t, Len(ps))
    BY <1>2, <1>6, <1>9, <2>2 DEF IsRow
  <2>4. t \in ShownRows(rows)
    BY <1>3, <1>5, <2>3, RowsShow
  <2>5. QED
    BY <1>7, <2>1, <2>4
<1>10. \A W : Within(W, ContextsOf(rows)) \subseteq W
  BY DEF Within
<1>11. \A s, k : /\ Meets(Within(Visible, ContextsOf(rows)), s, c) => Meets(Visible, s, c)
                 /\ Finds(Within(Visible, ContextsOf(rows)), s, d, k) => Finds(Visible, s, d, k)
  BY DEF Meets, Finds, Within
<1>12. ASSUME NEW k \in ValuesOf(rows)
       PROVE  \E s : s \in KEY_ID /\ Meets(Visible, s, c) /\ Finds(Visible, s, d, k)
  <2>1. PICK N : N = ContextsOf(rows)
    OBVIOUS
  <2>2. ContextsOf(rows) \subseteq N
    BY <2>1
  <2>3. \E s : /\ s \in KEY_ID
               /\ Meets(Within(Visible, N), s, c) /\ Finds(Within(Visible, N), s, d, k)
    BY <1>8, <2>2
  <2>4. QED
    BY <1>11, <2>1, <2>3
<1>13. ProvTrigerON => ContextsOf(rows) \subseteq ProvUris
  BY <1>3, <1>5, RowsShow
<1>14. QED
  BY <1>8, <1>9, <1>12, <1>13

\* They are identifiers, and finitely many.
LEMMA ValuesFinite ==
  ASSUME Ready, NEW c, NEW d, Looks(c, d), NEW rows, rows = Triples(<<c>>, <<d>>)
  PROVE  ValuesOf(rows) \subseteq KEY_ID /\ IsFiniteSet(ValuesOf(rows))
<1>1. \A s, k : Finds(Visible, s, d, k) => k \in {q.object : q \in Visible}
  BY DEF Finds
<1>2. ValuesOf(rows) \subseteq {q.object : q \in Visible}
  BY <1>1, ValuesFound
<1>3. \A q \in Visible : In(Visible, q.subject, q.predicate, q.object)
  BY DEF In
<1>4. {q.object : q \in Visible} \subseteq KEY_ID
  BY <1>3, InTyped, VisibleIsSeen DEF Ready
<1>5. QED
  BY <1>2, <1>4, VisibleFinite, FS_Subset

\* All values become constraints, before others.
LEMMA LinkedConstraints ==
  ASSUME NEW L \in SUBSET KEY_ID, IsFiniteSet(L), L # {},
         NEW links, links = SetToSeq({Mentions(v) : v \in L}),
         NEW tail, tail \in Seq(Range(tail)), NEW cs, cs = links \o tail,
         NEW d, NEW e, NEW ps, ps = <<d, e>>, d.prov = 0, e.prov = 0
  PROVE  /\ Startable(cs, ps)
         /\ \A s : FromSubject(cs, ps, s)
         /\ \A W, s : Meeting(W, s, cs)
                        <=> (\A v \in L : \E j : In(W, s, j, v)) /\ Meeting(W, s, tail)
<1>1. PICK M, f : M = {Mentions(v) : v \in L} /\ f = [v \in L |-> Mentions(v)]
  OBVIOUS
<1>2. f \in Surjection(L, M)
  BY <1>1 DEF Surjection
<1>3. IsFiniteSet(M)
  BY <1>2, FS_Surjection
<1>4. links \in Seq(M) /\ Range(links) = M
  BY <1>1, <1>3, SetAsSequence
<1>5. PICK S : S = M \union Range(tail)
  OBVIOUS
<1>6. links \in Seq(S) /\ tail \in Seq(S)
  BY <1>4, <1>5
<1>7. cs \in Seq(S) /\ \A x : x \in Range(cs) <=> x \in Range(links) \/ x \in Range(tail)
  BY <1>6, RangeOfConcat
<1>8. links # <<>>
  <2>1. M # {}
    BY <1>1
  <2>2. QED
    BY <1>4, <2>1 DEF Range
<1>9. /\ Len(cs) \in Nat /\ DOMAIN cs = 1 .. Len(cs) /\ 1 \in DOMAIN cs /\ cs[1] = links[1]
      /\ 1 \in DOMAIN links
  <2>1. /\ DOMAIN cs = 1 .. (Len(links) + Len(tail)) /\ Len(links) \in Nat /\ Len(tail) \in Nat
        /\ DOMAIN links = 1 .. Len(links)
        /\ \A i \in 1 .. Len(links) : cs[i] = links[i]
    BY <1>6, ConcatByPosition
  <2>2. Len(links) # 0
    BY <1>6, <1>8
  <2>3. QED
    BY <1>7, <2>1, <2>2
<1>10. \A v \in L : v \in KEY_ID /\ v # Wild
  BY KeyAssumption DEF Wild
<1>11. PICK v \in L : links[1] = Mentions(v)
  <2>1. links[1] \in M
    BY <1>4, <1>9 DEF Range
  <2>2. QED
    BY <1>1, <2>1
<1>12. Startable(cs, ps) /\ \A s : FromSubject(cs, ps, s)
  <2>1. cs[1].prov = 0 /\ cs[1].subject = 0 /\ cs[1].object # Wild
    BY <1>9, <1>10, <1>11 DEF Mentions
  <2>2. Len(ps) = 2 /\ DOMAIN ps = 1 .. 2 /\ \A i \in DOMAIN ps : ps[i].prov = 0
    OBVIOUS
  <2>3. cs # <<>>
    BY <1>9
  <2>4. QED
    BY <1>9, <2>1, <2>2, <2>3 DEF Startable, FromSubject
<1>13. ASSUME NEW W, NEW s
       PROVE  Meeting(W, s, cs) <=> (\A x \in L : \E j : In(W, s, j, x)) /\ Meeting(W, s, tail)
  <2>1. \A g : Meeting(W, s, g) <=> \A c \in Range(g) : c.prov = 0 => Meets(W, s, c)
    BY DEF Meeting, Range
  <2>2. \A x \in L : Mentions(x).prov = 0
    BY DEF Mentions
  <2>3. \A x \in L : Meets(W, s, Mentions(x)) <=> \E j : In(W, s, j, x)
    BY <1>10, MeetsMentions
  <2>4. (\A c \in M : c.prov = 0 => Meets(W, s, c)) <=> \A x \in L : \E j : In(W, s, j, x)
    BY <1>1, <2>2, <2>3
  <2>5. QED
    BY <1>4, <1>7, <2>1, <2>4
<1>14. QED
  BY <1>12, <1>13

\* A text whose first two patterns lead to ?l.
Begins(q, p, o, e) ==
  \E columns, T :
    /\ SPARQL[q] = {Select(columns, T)}
    /\ T \in Seq(Range(T)) /\ Len(T) >= 2
    /\ T[1] = <<"?p", p, o>> /\ T[2] = <<"?p", e, "?l">>
    /\ {p, o, e} \intersect Vars = {}

LEMMA LinksIn ==
  ASSUME NEW q, NEW p, NEW o, NEW e, Begins(q, p, o, e), NEW k
  PROVE  k \in LinksOf(q) <=> \E a : In(Visible, a, KM(p), KM(o)) /\ In(Visible, a, KM(e), k)
<1>1. PICK columns, T :
        /\ SPARQL[q] = {Select(columns, T)}
        /\ T \in Seq(Range(T)) /\ Len(T) >= 2
        /\ T[1] = <<"?p", p, o>> /\ T[2] = <<"?p", e, "?l">>
        /\ {p, o, e} \intersect Vars = {}
  BY DEF Begins
<1>2. PICK D : D = SubSeq(T, 1, 2)
  OBVIOUS
<1>3. DOMAIN D = 1 .. 2 /\ D[1] = <<"?p", p, o>> /\ D[2] = <<"?p", e, "?l">>
  BY <1>1, <1>2
<1>4. LinksOf(q) = {b["?l"] : b \in Solutions(Visible, D)}
  <2>1. PICK sel : sel = CHOOSE x \in SPARQL[q] : TRUE
    OBVIOUS
  <2>2. sel = Select(columns, T)
    BY <1>1, <2>1
  <2>3. sel.patterns = T
    BY <2>2 DEF Select
  <2>4. QED
    BY <1>2, <2>1, <2>3, Zenon DEF LinksOf
<1>5. "?p" \in Vars /\ "?l" \in Vars /\ p \notin Vars /\ o \notin Vars /\ e \notin Vars
  BY <1>1 DEF Vars
<1>6. Plain(D[1]) /\ Plain(D[2])
  BY <1>3, <1>5 DEF Plain
<1>7. \A i : i \in 1 .. 2 <=> i = 1 \/ i = 2
  OBVIOUS
<1>8. \A f : /\ Holds(Visible, f, D[1]) <=> In(Visible, f["?p"], KM(p), KM(o))
             /\ Holds(Visible, f, D[2]) <=> In(Visible, f["?p"], KM(e), f["?l"])
  BY <1>3, <1>5 DEF Holds, TermId
<1>9. PICK n \in Nat : n = 2
  OBVIOUS
<1>10. DOMAIN D = 1 .. n /\ \A i \in 1 .. n : Plain(D[i])
  BY <1>3, <1>6, <1>7, <1>9
<1>11. ASSUME NEW b \in Solutions(Visible, D), k = b["?l"]
       PROVE  \E a : In(Visible, a, KM(p), KM(o)) /\ In(Visible, a, KM(e), k)
  <2>1. Solved(Visible, D, n, b)
    BY <1>10, <1>11, SolutionsSolve
  <2>2. Holds(Visible, b, D[1]) /\ Holds(Visible, b, D[2])
    BY <1>7, <1>9, <2>1 DEF Solved
  <2>3. QED
    BY <1>8, <1>11, <2>2
<1>12. ASSUME NEW a, In(Visible, a, KM(p), KM(o)), In(Visible, a, KM(e), k)
       PROVE  \E b \in Solutions(Visible, D) : k = b["?l"]
  <2>1. PICK f : f = [name \in Vars |-> IF name = "?l" THEN k ELSE a]
    OBVIOUS
  <2>2. f["?l"] = k /\ f["?p"] = a
    BY <1>5, <2>1
  <2>3. \A i \in 1 .. n : Holds(Visible, f, D[i])
    BY <1>7, <1>8, <1>9, <1>12, <2>2
  <2>4. PICK b : b = [x \in VarsUpTo(D, n) |-> f[x]]
    OBVIOUS
  <2>5. b \in Solutions(Visible, D)
    BY <1>10, <2>3, <2>4, HoldingIsSolution
  <2>6. "?l" \in VarsUpTo(D, n)
    <3>1. "?l" \in VarsOf(D[2])
      BY <1>3, <1>5 DEF VarsOf
    <3>2. QED
      BY <1>7, <1>9, <3>1 DEF VarsUpTo
  <2>7. QED
    BY <2>2, <2>4, <2>5, <2>6
<1>13. QED
  BY <1>4, <1>11, <1>12

\* The rows of the second TriplePatern.
Joins(W, L, tail, s) == (\A l \in L : \E j : In(W, s, j, l)) /\ Meeting(W, s, tail)

LEMMA LinkedRows ==
  ASSUME Ready, NEW L \in SUBSET KEY_ID, IsFiniteSet(L), L # {},
         NEW tail, tail \in Seq(Range(tail)), NEW cs,
         cs = SetToSeq({Mentions(l) : l \in L}) \o tail,
         NEW v, NEW u, NEW ps, ps = <<Wanted(v), Wanted(u)>>, NEW rows,
         rows = TriplePatern(cs, ps, ProvTrigerON, ProvUris)
  PROVE  /\ \A N, t : ContextsOf(rows) \subseteq N /\ t \in ShownRows(rows) =>
              /\ IsRow(t, 2)
              /\ \E s : /\ Joins(Within(Visible, N), L, tail, s)
                        /\ In(Within(Visible, N), s, KM(v), t[1])
                        /\ In(Within(Visible, N), s, KM(u), t[2])
         /\ \A s, t : (/\ IsRow(t, 2) /\ Joins(Visible, L, tail, s)
                       /\ In(Visible, s, KM(v), t[1]) /\ In(Visible, s, KM(u), t[2]))
                       => t \in ShownRows(rows)
         /\ ProvTrigerON => ContextsOf(rows) \subseteq ProvUris
<1>1. PICK d, e, links : /\ d = Wanted(v) /\ e = Wanted(u)
                         /\ links = SetToSeq({Mentions(l) : l \in L})
  OBVIOUS
<1>2. d.prov = 0 /\ e.prov = 0 /\ ps = <<d, e>> /\ Len(ps) = 2
  BY <1>1 DEF Wanted, Says
<1>3. cs = links \o tail
  BY <1>1
<1>4. /\ Startable(cs, ps)
      /\ \A s : FromSubject(cs, ps, s)
      /\ \A W, s : Meeting(W, s, cs) <=> Joins(W, L, tail, s)
  BY <1>1, <1>2, <1>3, LinkedConstraints DEF Joins
<1>5. \A W, s, t : Answered(W, cs, ps, s, t)
                     <=> /\ s \in KEY_ID /\ Joins(W, L, tail, s)
                         /\ In(W, s, KM(v), t[1]) /\ In(W, s, KM(u), t[2])
  <2>1. \A W, s, k : /\ Finds(W, s, d, k) <=> In(W, s, KM(v), k)
                     /\ Finds(W, s, e, k) <=> In(W, s, KM(u), k)
    BY <1>1, FindsSays DEF Wanted
  <2>2. \A W, s, t : Answered(W, cs, ps, s, t) <=>
          /\ s \in KEY_ID /\ FromSubject(cs, ps, s)
          /\ Meeting(W, s, cs) /\ Finds(W, s, d, t[1]) /\ Finds(W, s, e, t[2])
    BY <1>2, AnsweredTwo
  <2>3. QED
    BY <1>4, <2>1, <2>2, Zenon
<1>6. \A t : IsRow(t, Len(ps)) <=> IsRow(t, 2)
  BY <1>2
<1>7. \A N, t : ContextsOf(rows) \subseteq N /\ t \in ShownRows(rows) =>
        /\ IsRow(t, 2)
        /\ \E s : Answered(Within(Visible, N), cs, ps, s, t)
  <2>1. \A N, t : ContextsOf(rows) \subseteq N /\ t \in ShownRows(rows) =>
          /\ IsRow(t, Len(ps))
          /\ \E s : Answered(Within(Visible, N), cs, ps, s, t)
    BY <1>4, RowsShow, Zenon
  <2>2. QED
    BY <1>6, <2>1
<1>8. \A s, t : (/\ IsRow(t, 2) /\ Joins(Visible, L, tail, s)
                 /\ In(Visible, s, KM(v), t[1]) /\ In(Visible, s, KM(u), t[2]))
                 => t \in ShownRows(rows)
  <2>1. SUFFICES ASSUME NEW s, NEW t, IsRow(t, 2), Joins(Visible, L, tail, s),
                        In(Visible, s, KM(v), t[1]), In(Visible, s, KM(u), t[2])
                 PROVE  t \in ShownRows(rows)
    OBVIOUS
  <2>2. s \in KEY_ID
    BY <2>1, InTyped, VisibleIsSeen DEF Ready
  <2>3. IsRow(t, Len(ps)) /\ Answered(Visible, cs, ps, s, t)
    BY <1>5, <1>6, <2>1, <2>2, Zenon
  <2>4. QED
    BY <1>4, <2>3, RowsShow
<1>9. ProvTrigerON => ContextsOf(rows) \subseteq ProvUris
  BY <1>4, RowsShow
<1>10. \A N, t : ContextsOf(rows) \subseteq N /\ t \in ShownRows(rows) =>
         /\ IsRow(t, 2)
         /\ \E s : /\ Joins(Within(Visible, N), L, tail, s)
                   /\ In(Within(Visible, N), s, KM(v), t[1])
                   /\ In(Within(Visible, N), s, KM(u), t[2])
  <2>1. SUFFICES ASSUME NEW N, NEW t, ContextsOf(rows) \subseteq N, t \in ShownRows(rows)
                 PROVE  /\ IsRow(t, 2)
                        /\ \E s : /\ Joins(Within(Visible, N), L, tail, s)
                                  /\ In(Within(Visible, N), s, KM(v), t[1])
                                  /\ In(Within(Visible, N), s, KM(u), t[2])
    OBVIOUS
  <2>2. IsRow(t, 2) /\ \E s : Answered(Within(Visible, N), cs, ps, s, t)
    BY <1>7, <2>1, Zenon
  <2>3. PICK W : W = Within(Visible, N)
    OBVIOUS
  <2>4. PICK s : Answered(W, cs, ps, s, t)
    BY <2>2, <2>3, Zenon
  <2>5. Joins(W, L, tail, s) /\ In(W, s, KM(v), t[1]) /\ In(W, s, KM(u), t[2])
    BY <1>5, <2>4, Zenon
  <2>6. \E x : Joins(W, L, tail, x) /\ In(W, x, KM(v), t[1]) /\ In(W, x, KM(u), t[2])
    BY <2>5, Zenon
  <2>7. QED
    BY <2>2, <2>3, <2>6, Zenon
<1>11. QED
  BY <1>8, <1>9, <1>10, Zenon

\* The values of the first, for a relation to a word.
LEMMA FirstValues ==
  ASSUME Ready, NEW p, NEW o, NEW e, NEW rows, rows = Triples(<<Has(p, o)>>, <<Wanted(e)>>)
  PROVE  /\ \A k : k \in ValuesOf(rows)
                     <=> \E a : In(Visible, a, KM(p), KM(o)) /\ In(Visible, a, KM(e), k)
         /\ \A N, k : ContextsOf(rows) \subseteq N /\ k \in ValuesOf(rows) =>
              \E a : In(Within(Visible, N), a, KM(p), KM(o)) /\ In(Within(Visible, N), a, KM(e), k)
         /\ ProvTrigerON => ContextsOf(rows) \subseteq ProvUris
         /\ ValuesOf(rows) \subseteq KEY_ID /\ IsFiniteSet(ValuesOf(rows))
<1>1. PICK c, d : c = Has(p, o) /\ d = Wanted(e)
  OBVIOUS
<1>2. rows = Triples(<<c>>, <<d>>)
  BY <1>1
<1>3. Looks(c, d)
  BY <1>1, WordType DEF Looks, Has, Wanted, Says
<1>4. \A W, s, k : /\ Meets(W, s, c) <=> In(W, s, KM(p), KM(o))
                   /\ Finds(W, s, d, k) <=> In(W, s, KM(e), k)
  BY <1>1, MeetsHas, FindsSays DEF Wanted
<1>5. \A s, k : In(Visible, s, KM(e), k) => s \in KEY_ID
  BY InTyped, VisibleIsSeen DEF Ready
<1>6. /\ \A k : k \in ValuesOf(rows)
                  <=> \E s : s \in KEY_ID /\ Meets(Visible, s, c) /\ Finds(Visible, s, d, k)
      /\ \A N, k : ContextsOf(rows) \subseteq N /\ k \in ValuesOf(rows) =>
           \E s : /\ s \in KEY_ID
                  /\ Meets(Within(Visible, N), s, c) /\ Finds(Within(Visible, N), s, d, k)
      /\ ProvTrigerON => ContextsOf(rows) \subseteq ProvUris
  BY <1>2, <1>3, ValuesFound
<1>7. ValuesOf(rows) \subseteq KEY_ID /\ IsFiniteSet(ValuesOf(rows))
  BY <1>2, <1>3, ValuesFinite
<1>8. QED
  BY <1>4, <1>5, <1>6, <1>7
\* A value before a row.
Ahead(l, t) == <<l>> \o t

LEMMA LeadingValue ==
  ASSUME NEW l, NEW t, IsRow(t, 2)
  PROVE  Ahead(l, t) = <<l, t[1], t[2]>>
<1>1. t = <<t[1], t[2]>>
  BY RowOfTwo
<1>2. PICK x, y : t = <<x, y>>
  BY <1>1
<1>3. t[1] = x /\ t[2] = y
  BY <1>2
<1>4. <<l>> \o <<x, y>> = <<l, x, y>>
  <2>1. PICK S, f, g, c : S = {l, x, y} /\ f = <<l>> /\ g = <<x, y>> /\ c = f \o g
    OBVIOUS
  <2>2. f \in Seq(S) /\ g \in Seq(S) /\ Len(f) = 1 /\ Len(g) = 2
        /\ f[1] = l /\ g[1] = x /\ g[2] = y
    BY <2>1
  <2>3. /\ c \in Seq(S) /\ DOMAIN c = 1 .. 3
        /\ c[1] = f[1] /\ c[1 + 1] = g[1] /\ c[1 + 2] = g[2]
    BY <2>1, <2>2
  <2>4. c[1] = l /\ c[2] = x /\ c[3] = y /\ c = [i \in 1 .. 3 |-> c[i]]
    BY <2>2, <2>3
  <2>5. c = <<l, x, y>>
    BY <2>4
  <2>6. QED
    BY <2>1, <2>5, Zenon
<1>5. <<l>> \o t = <<l>> \o <<x, y>>
  BY <1>2
<1>6. QED
  BY <1>3, <1>4, <1>5, Zenon DEF Ahead

LEMMA MeetingHasTwo ==
  ASSUME NEW g, NEW d, NEW h, NEW m, NEW tail, tail = <<Has(g, d), Has(h, m)>>
  PROVE  /\ tail \in Seq(Range(tail))
         /\ \A W, s : Meeting(W, s, tail) <=> In(W, s, KM(g), KM(d)) /\ In(W, s, KM(h), KM(m))
<1>1. PICK c, e : c = Has(g, d) /\ e = Has(h, m)
  OBVIOUS
<1>2. tail = <<c, e>> /\ c.prov = 0 /\ e.prov = 0
  BY <1>1 DEF Has
<1>3. tail \in Seq(Range(tail))
  <2>1. DOMAIN tail = 1 .. 2 /\ tail = [i \in 1 .. 2 |-> tail[i]]
    BY <1>2
  <2>2. \A i \in 1 .. 2 : tail[i] \in Range(tail)
    BY <2>1 DEF Range
  <2>3. QED
    BY <2>1, <2>2
<1>4. \A W, s : Meeting(W, s, tail) <=> Meets(W, s, c) /\ Meets(W, s, e)
  BY <1>2, MeetingTwo
<1>5. QED
  BY <1>1, <1>3, <1>4, MeetsHas

LEMMA MeetingHasOne ==
  ASSUME NEW g, NEW d, NEW tail, tail = <<Has(g, d)>>
  PROVE  /\ tail \in Seq(Range(tail))
         /\ \A W, s : Meeting(W, s, tail) <=> In(W, s, KM(g), KM(d))
<1>1. PICK c : c = Has(g, d)
  OBVIOUS
<1>2. tail = <<c>> /\ c.prov = 0
  BY <1>1 DEF Has
<1>3. tail \in Seq(Range(tail))
  <2>1. DOMAIN tail = 1 .. 1 /\ tail = [i \in 1 .. 1 |-> tail[i]]
    BY <1>2
  <2>2. \A i \in 1 .. 1 : tail[i] \in Range(tail)
    BY <2>1 DEF Range
  <2>3. QED
    BY <2>1, <2>2
<1>4. \A W, s : Meeting(W, s, tail) <=> Meets(W, s, c)
  BY <1>2, MeetingOne
<1>5. QED
  BY <1>1, <1>3, <1>4, MeetsHas

\* What the second TriplePatern shows, with the links it had and what the first
\* has found them by.
Linked(q, L, links, p, o, e, first, tail, v, u, rows) ==
  /\ \A N, t : ContextsOf(rows) \subseteq N /\ t \in ShownRows(rows) =>
       /\ IsRow(t, 2)
       /\ \E s : /\ Joins(Within(Visible, N), L, tail, s)
                 /\ In(Within(Visible, N), s, KM(v), t[1])
                 /\ In(Within(Visible, N), s, KM(u), t[2])
  /\ \A s, t : (/\ IsRow(t, 2) /\ Joins(Visible, L, tail, s)
                /\ In(Visible, s, KM(v), t[1]) /\ In(Visible, s, KM(u), t[2]))
                => t \in ShownRows(rows)
  /\ ProvTrigerON => ContextsOf(first) \union ContextsOf(rows) \subseteq ProvUris
  /\ \A N, k : ContextsOf(first) \subseteq N /\ k \in L =>
       \E a : In(Within(Visible, N), a, KM(p), KM(o)) /\ In(Within(Visible, N), a, KM(e), k)
  /\ \A a, k : In(Visible, a, KM(p), KM(o)) /\ In(Visible, a, KM(e), k) => k \in L
  /\ L = links
  /\ Cardinality(links) = 1 => \E k : L = {k}

LEMMA LinkedBegins ==
  ASSUME Ready, NEW q, NEW p, NEW o, NEW e, Begins(q, p, o, e),
         NEW first, first = Triples(<<Has(p, o)>>, <<Wanted(e)>>),
         NEW L, L = ValuesOf(first), L # {},
         NEW tail, tail \in Seq(Range(tail)), NEW v, NEW u, NEW rows,
         rows = TriplePatern(SetToSeq({Mentions(l) : l \in L}) \o tail,
                             <<Wanted(v), Wanted(u)>>, ProvTrigerON, ProvUris)
  PROVE  Linked(q, L, LinksOf(q), p, o, e, first, tail, v, u, rows)
<1>1. /\ L \subseteq KEY_ID /\ IsFiniteSet(L)
      /\ \A k : k \in L <=> \E a : In(Visible, a, KM(p), KM(o)) /\ In(Visible, a, KM(e), k)
      /\ \A N, k : ContextsOf(first) \subseteq N /\ k \in L =>
           \E a : In(Within(Visible, N), a, KM(p), KM(o)) /\ In(Within(Visible, N), a, KM(e), k)
      /\ ProvTrigerON => ContextsOf(first) \subseteq ProvUris
  BY FirstValues
<1>2. L = LinksOf(q)
  <2>1. \A k : k \in LinksOf(q)
                 <=> \E a : In(Visible, a, KM(p), KM(o)) /\ In(Visible, a, KM(e), k)
    BY LinksIn
  <2>2. \A k : k \in L <=> k \in LinksOf(q)
    BY <1>1, <2>1, Zenon
  <2>3. QED
    BY <2>2
<1>3. Cardinality(LinksOf(q)) = 1 => \E k : L = {k}
  BY <1>1, <1>2, FS_Singleton
<1>4. /\ \A N, t : ContextsOf(rows) \subseteq N /\ t \in ShownRows(rows) =>
           /\ IsRow(t, 2)
           /\ \E s : /\ Joins(Within(Visible, N), L, tail, s)
                     /\ In(Within(Visible, N), s, KM(v), t[1])
                     /\ In(Within(Visible, N), s, KM(u), t[2])
      /\ \A s, t : (/\ IsRow(t, 2) /\ Joins(Visible, L, tail, s)
                    /\ In(Visible, s, KM(v), t[1]) /\ In(Visible, s, KM(u), t[2]))
                    => t \in ShownRows(rows)
      /\ ProvTrigerON => ContextsOf(rows) \subseteq ProvUris
  <2>1. PICK cs, ps : /\ cs = SetToSeq({Mentions(l) : l \in L}) \o tail
                      /\ ps = <<Wanted(v), Wanted(u)>>
    OBVIOUS
  <2>2. rows = TriplePatern(cs, ps, ProvTrigerON, ProvUris)
    BY <2>1
  <2>3. QED
    BY <1>1, <2>1, <2>2, LinkedRows, Zenon
<1>5. ProvTrigerON => ContextsOf(first) \union ContextsOf(rows) \subseteq ProvUris
  BY <1>1, <1>4
<1>6. QED
  BY <1>1, <1>2, <1>3, <1>4, <1>5, Zenon DEF Linked
\* What is shown and named is right, but that it is complete with one link only.
Proper(q, L, rows, N) ==
  /\ ProvTrigerON => N \subseteq ProvUris
  /\ \A l \in L : \A t \in ShownRows(rows) : Ahead(l, t) \in Asked(q, Within(Visible, N))
  /\ Cardinality(LinksOf(q)) = 1 =>
       \A z \in Asked(q, Visible) : \E l \in L, t \in ShownRows(rows) : z = Ahead(l, t)

\* q04: the link is shown.
LEMMA LinkingRuns ==
  ASSUME Ready, NEW q, NEW p, NEW o, NEW e, NEW g, NEW d, NEW h, NEW m, NEW v, NEW u,
         IsLinking(q, p, o, e, g, d, h, m, v, u), NEW L, NEW first, NEW tail,
         tail = <<Has(g, d), Has(h, m)>>, NEW rows,
         Linked(q, L, LinksOf(q), p, o, e, first, tail, v, u, rows),
         NEW N, N = ContextsOf(first) \union ContextsOf(rows)
  PROVE  Proper(q, L, rows, N)
<1>1. \A W, s : Meeting(W, s, tail) <=> In(W, s, KM(g), KM(d)) /\ In(W, s, KM(h), KM(m))
  BY MeetingHasTwo
<1>2. \A W, s : Joins(W, L, tail, s) <=> /\ \A l \in L : \E j : In(W, s, j, l)
                                         /\ In(W, s, KM(g), KM(d)) /\ In(W, s, KM(h), KM(m))
  BY <1>1 DEF Joins
<1>3. \A W, t : t \in Asked(q, W) <=>
        \E a, l, c, j, x, y :
          /\ In(W, a, KM(p), KM(o)) /\ In(W, a, KM(e), l) /\ In(W, c, j, l)
          /\ In(W, c, KM(g), KM(d)) /\ In(W, c, KM(h), KM(m))
          /\ In(W, c, KM(v), x) /\ In(W, c, KM(u), y)
          /\ t = <<l, x, y>>
  BY TextLinking
<1>4. ASSUME NEW l \in L, NEW t \in ShownRows(rows)
      PROVE  Ahead(l, t) \in Asked(q, Within(Visible, N))
  <2>1. PICK W : W = Within(Visible, N)
    OBVIOUS
  <2>2. ContextsOf(rows) \subseteq N /\ ContextsOf(first) \subseteq N
    OBVIOUS
  <2>3. IsRow(t, 2) /\ \E s : /\ Joins(W, L, tail, s)
                              /\ In(W, s, KM(v), t[1]) /\ In(W, s, KM(u), t[2])
    BY <1>4, <2>1, <2>2, Zenon DEF Linked
  <2>4. PICK c : Joins(W, L, tail, c) /\ In(W, c, KM(v), t[1]) /\ In(W, c, KM(u), t[2])
    BY <2>3
  <2>5. PICK j : In(W, c, j, l)
    BY <1>2, <1>4, <2>4
  <2>6. PICK a : In(W, a, KM(p), KM(o)) /\ In(W, a, KM(e), l)
    BY <1>4, <2>1, <2>2, Zenon DEF Linked
  <2>7. In(W, c, KM(g), KM(d)) /\ In(W, c, KM(h), KM(m))
    BY <1>2, <2>4
  <2>8. <<l, t[1], t[2]>> \in Asked(q, W)
    BY <1>3, <2>4, <2>5, <2>6, <2>7, Zenon
  <2>9. Ahead(l, t) = <<l, t[1], t[2]>>
    BY <2>3, LeadingValue
  <2>10. QED
    BY <2>1, <2>8, <2>9, Zenon
<1>5. ASSUME Cardinality(LinksOf(q)) = 1, NEW z \in Asked(q, Visible)
      PROVE  \E l \in L, t \in ShownRows(rows) : z = Ahead(l, t)
  <2>1. PICK a, l, c, j, x, y :
          /\ In(Visible, a, KM(p), KM(o)) /\ In(Visible, a, KM(e), l) /\ In(Visible, c, j, l)
          /\ In(Visible, c, KM(g), KM(d)) /\ In(Visible, c, KM(h), KM(m))
          /\ In(Visible, c, KM(v), x) /\ In(Visible, c, KM(u), y)
          /\ z = <<l, x, y>>
    BY <1>3, <1>5, SMT
  <2>2. l \in L
    BY <2>1, Zenon DEF Linked
  <2>3. \E k : L = {k}
    BY <1>5, Zenon DEF Linked
  <2>4. \A k \in L : k = l
    BY <2>2, <2>3
  <2>5. Joins(Visible, L, tail, c)
    BY <1>2, <2>1, <2>4
  <2>6. PICK t : t = <<x, y>>
    OBVIOUS
  <2>7. t = <<t[1], t[2]>> /\ t[1] = x /\ t[2] = y
    BY <2>6
  <2>8. IsRow(t, 2)
    BY <2>7, RowOfTwo
  <2>9. In(Visible, c, KM(v), t[1]) /\ In(Visible, c, KM(u), t[2])
    BY <2>1, <2>7
  <2>10. t \in ShownRows(rows)
    BY <2>5, <2>8, <2>9, Zenon DEF Linked
  <2>11. z = Ahead(l, t)
    BY <2>1, <2>7, <2>8, LeadingValue, Zenon
  <2>12. QED
    BY <2>2, <2>10, <2>11
<1>6. ProvTrigerON => N \subseteq ProvUris
  BY Zenon DEF Linked
<1>7. QED
  BY <1>4, <1>5, <1>6, Zenon DEF Proper

\* w04: the link is not shown.
LEMMA LinkedRuns_w04 ==
  ASSUME Ready, NEW q, NEW p, NEW o, NEW e, NEW g, NEW d, NEW v,
         IsPaging(q, p, o, e, g, d, v), NEW L, L # {},
         NEW first, NEW tail,
         tail = <<Has(g, d)>>, NEW rows,
         Linked(q, L, LinksOf(q), p, o, e, first, tail, v, p, rows),
         NEW N, N = ContextsOf(first) \union ContextsOf(rows)
  PROVE  /\ ProvTrigerON => N \subseteq ProvUris
         /\ ShownRows(rows) \subseteq Asked(q, Within(Visible, N))
         /\ Cardinality(LinksOf(q)) = 1 => Asked(q, Visible) \subseteq ShownRows(rows)
<1>3. \A W, t : t \in Asked(q, W) <=>
        \E a, l, c, j, x, y :
          /\ In(W, a, KM(p), KM(o)) /\ In(W, a, KM(e), l) /\ In(W, c, j, l)
          /\ In(W, c, KM(g), KM(d))
          /\ In(W, c, KM(v), x) /\ In(W, c, KM(p), y)
          /\ t = <<x, y>>
  BY TextPaging
<1>1. \A W, s : Meeting(W, s, tail) <=> In(W, s, KM(g), KM(d))
  BY MeetingHasOne, Zenon
<1>2. \A W, s : Joins(W, L, tail, s) <=> (\A l \in L : \E j : In(W, s, j, l))
                                           /\ In(W, s, KM(g), KM(d))
  BY <1>1, Zenon DEF Joins
<1>4. ASSUME NEW t \in ShownRows(rows)
      PROVE  t \in Asked(q, Within(Visible, N))
  <2>1. PICK W : W = Within(Visible, N)
    OBVIOUS
  <2>2. ContextsOf(rows) \subseteq N /\ ContextsOf(first) \subseteq N
    OBVIOUS
  <2>3. IsRow(t, 2) /\ \E s : /\ Joins(W, L, tail, s)
                              /\ In(W, s, KM(v), t[1]) /\ In(W, s, KM(p), t[2])
    BY <1>4, <2>1, <2>2, Zenon DEF Linked
  <2>4. PICK c : Joins(W, L, tail, c) /\ In(W, c, KM(v), t[1]) /\ In(W, c, KM(p), t[2])
    BY <2>3, Zenon
  <2>a. PICK l : l \in L
    OBVIOUS
  <2>5. PICK j : In(W, c, j, l)
    BY <1>2, <2>a, <2>4, Zenon
  <2>6. PICK a : In(W, a, KM(p), KM(o)) /\ In(W, a, KM(e), l)
    BY <2>a, <2>1, <2>2, Zenon DEF Linked
  <2>7. In(W, c, KM(g), KM(d))
    BY <1>2, <2>4, Zenon
  <2>8. <<t[1], t[2]>> \in Asked(q, W)
    BY <1>3, <2>4, <2>5, <2>6, <2>7, Zenon
  <2>9. t = <<t[1], t[2]>>
    BY <2>3, RowOfTwo
  <2>10. QED
    BY <2>1, <2>8, <2>9, Zenon
<1>5. ASSUME Cardinality(LinksOf(q)) = 1, NEW z \in Asked(q, Visible)
      PROVE  z \in ShownRows(rows)
  <2>1. PICK a, l, c, j, x, y :
          /\ In(Visible, a, KM(p), KM(o)) /\ In(Visible, a, KM(e), l) /\ In(Visible, c, j, l)
          /\ In(Visible, c, KM(g), KM(d))
          /\ In(Visible, c, KM(v), x) /\ In(Visible, c, KM(p), y)
          /\ z = <<x, y>>
    BY <1>3, <1>5, SMT
  <2>2. l \in L
    BY <2>1, Zenon DEF Linked
  <2>3. \E k : L = {k}
    BY <1>5, Zenon DEF Linked
  <2>4. \A k \in L : k = l
    BY <2>2, <2>3
  <2>5. Joins(Visible, L, tail, c)
    BY <1>2, <2>1, <2>4
  <2>7. z = <<z[1], z[2]>> /\ z[1] = x /\ z[2] = y
    BY <2>1
  <2>8. IsRow(z, 2)
    BY <2>7, RowOfTwo
  <2>9. In(Visible, c, KM(v), z[1]) /\ In(Visible, c, KM(p), z[2])
    BY <2>1, <2>7
  <2>10. QED
    BY <2>5, <2>8, <2>9, Zenon DEF Linked
<1>6. ProvTrigerON => N \subseteq ProvUris
  BY Zenon DEF Linked
<1>7. QED
  BY <1>4, <1>5, <1>6, Zenon
\* A pattern before others.
LEMMA StartsWith ==
  ASSUME NEW c, c.prov = 0, c.object # Wild,
         NEW tail, tail \in Seq(Range(tail)), NEW cs, cs = <<c>> \o tail,
         NEW d, NEW e, NEW ps, ps = <<d, e>>, d.prov = 0, e.prov = 0
  PROVE  Startable(cs, ps)
<1>1. PICK S, f : S = {c} \union Range(tail) /\ f = <<c>>
  OBVIOUS
<1>2. f \in Seq(S) /\ tail \in Seq(S) /\ Len(f) = 1 /\ f[1] = c
  BY <1>1
<1>3. cs \in Seq(S) /\ DOMAIN cs = 1 .. (1 + Len(tail)) /\ cs[1] = c /\ Len(tail) \in Nat
  BY <1>1, <1>2, ConcatByPosition
<1>4. Len(cs) \in Nat /\ DOMAIN cs = 1 .. Len(cs) /\ 1 \in DOMAIN cs
  BY <1>3
<1>5. Len(ps) = 2 /\ DOMAIN ps = 1 .. 2 /\ \A i \in DOMAIN ps : ps[i].prov = 0
  OBVIOUS
<1>6. QED
  BY <1>3, <1>4, <1>5 DEF Startable

LEMMA LinkingBegins ==
  ASSUME NEW q, NEW p, NEW o, NEW e, NEW g, NEW d, NEW h, NEW m, NEW v, NEW u,
         IsLinking(q, p, o, e, g, d, h, m, v, u)
  PROVE  Begins(q, p, o, e)
<1>1. PICK columns, T :
        /\ T = <<<<"?p", p, o>>, <<"?p", e, "?l">>, <<"?c", "?j", "?l">>,
                 <<"?c", g, d>>, <<"?c", h, m>>, <<"?c", v, "?lat">>, <<"?c", u, "?long">>>>
        /\ columns = <<"?l", "?lat", "?long">>
  OBVIOUS
<1>2. SPARQL[q] = {Select(columns, T)}
  BY <1>1 DEF IsLinking
<1>3. T[1] = <<"?p", p, o>> /\ T[2] = <<"?p", e, "?l">> /\ Len(T) >= 2
  BY <1>1
<1>4. DOMAIN T = 1 .. 7 /\ T = [i \in 1 .. 7 |-> T[i]] /\ \A i \in 1 .. 7 : T[i] \in Range(T)
  BY <1>1 DEF Range
<1>5. T \in Seq(Range(T))
  BY <1>4
<1>6. {p, o, e} \intersect Vars = {}
  BY DEF IsLinking
<1>7. QED
  BY <1>2, <1>3, <1>5, <1>6, Zenon DEF Begins

LEMMA PagingBegins ==
  ASSUME NEW q, NEW p, NEW o, NEW e, NEW g, NEW d, NEW v,
         IsPaging(q, p, o, e, g, d, v)
  PROVE  Begins(q, p, o, e)
<1>1. PICK columns, T :
        /\ T = <<<<"?p", p, o>>, <<"?p", e, "?l">>, <<"?c", "?j", "?l">>,
                 <<"?c", g, d>>, <<"?c", v, "?desc">>, <<"?c", p, "?page">>>>
        /\ columns = <<"?desc", "?page">>
  OBVIOUS
<1>2. SPARQL[q] = {Select(columns, T)}
  BY <1>1 DEF IsPaging
<1>3. T[1] = <<"?p", p, o>> /\ T[2] = <<"?p", e, "?l">> /\ Len(T) >= 2
  BY <1>1
<1>4. DOMAIN T = 1 .. 6 /\ T = [i \in 1 .. 6 |-> T[i]] /\ \A i \in 1 .. 6 : T[i] \in Range(T)
  BY <1>1 DEF Range
<1>5. T \in Seq(Range(T))
  BY <1>4
<1>6. {p, o, e} \intersect Vars = {}
  BY DEF IsPaging
<1>7. QED
  BY <1>2, <1>3, <1>5, <1>6, Zenon DEF Begins

\* q04 over its words.
LinkingAnswer(p, o, e, g, d, h, m, v, u) ==
  LET first == Triples(<<Has(p, o)>>, <<Wanted(e)>>)
      links == IF ValuesOf(first) = {} THEN <<Wanted("")>> ELSE MentionsAll(first)
      second == Triples(links \o <<Has(g, d), Has(h, m)>>, <<Wanted(v), Wanted(u)>>)
  IN  [answers |-> UNION {Following(<<l>>, second) : l \in ValuesOf(first)},
       named |-> IF second = <<>> THEN {} ELSE ContextsOf(first) \union ContextsOf(second)]

LinkedAnswer(L, second, N) ==
  [answers |-> UNION {Following(<<l>>, second) : l \in L},
   named |-> IF second = <<>> THEN {} ELSE N]

LEMMA LinkingAnswers ==
  ASSUME Ready, NEW q, NEW p, NEW o, NEW e, NEW g, NEW d, NEW h, NEW m, NEW v, NEW u,
         IsLinking(q, p, o, e, g, d, h, m, v, u),
         NEW a, a = LinkingAnswer(p, o, e, g, d, h, m, v, u)
  PROVE  Explains(q, a) /\ (Cardinality(LinksOf(q)) = 1 => Exhausts(q, a))
<1>1. PICK first, L, tail, links, second, N :
        /\ first = Triples(<<Has(p, o)>>, <<Wanted(e)>>)
        /\ L = ValuesOf(first)
        /\ tail = <<Has(g, d), Has(h, m)>>
        /\ links = (IF L = {} THEN <<Wanted("")>> ELSE MentionsAll(first))
        /\ second = Triples(links \o tail, <<Wanted(v), Wanted(u)>>)
        /\ N = ContextsOf(first) \union ContextsOf(second)
  OBVIOUS
<1>2. /\ \A z : z \in a.answers <=> \E l \in L, t \in ShownRows(second) : z = Ahead(l, t)
      /\ a.named = IF second = <<>> THEN {} ELSE N
  <2>1. a = LinkedAnswer(L, second, N)
    BY <1>1, Zenon DEF LinkingAnswer, LinkedAnswer
  <2>2. /\ a.answers = UNION {Following(<<l>>, second) : l \in L}
        /\ a.named = IF second = <<>> THEN {} ELSE N
    BY <2>1 DEF LinkedAnswer
  <2>3. \A l, z : z \in Following(<<l>>, second) <=> \E t \in ShownRows(second) : z = Ahead(l, t)
    BY Zenon DEF Following, Ahead
  <2>4. \A z : z \in a.answers <=> \E l \in L : z \in Following(<<l>>, second)
    BY <2>2
  <2>5. \A z : z \in a.answers <=> \E l \in L, t \in ShownRows(second) : z = Ahead(l, t)
    <3>1. TAKE z
    <3>2. z \in a.answers <=> \E l \in L : z \in Following(<<l>>, second)
      BY <2>4
    <3>3. \A l : z \in Following(<<l>>, second) <=> \E t \in ShownRows(second) : z = Ahead(l, t)
      BY <2>3, Zenon
    <3>4. QED
      BY <3>2, <3>3, Zenon
  <2>6. QED
    BY <2>2, <2>5, Zenon
<1>3. second = TriplePatern(links \o tail, <<Wanted(v), Wanted(u)>>, ProvTrigerON, ProvUris)
  BY <1>1 DEF Triples
<1>4. Begins(q, p, o, e)
  BY LinkingBegins
<1>5. tail \in Seq(Range(tail))
  BY <1>1, MeetingHasTwo
<1>6. CASE L = {}
  <2>1. a.answers = {}
    BY <1>2, <1>6
  <2>2. PICK c, x, y, cs, ps : /\ c = Wanted("") /\ x = Wanted(v) /\ y = Wanted(u)
                               /\ cs = <<c>> \o tail /\ ps = <<x, y>>
    OBVIOUS
  <2>3. c.prov = 0 /\ c.object # Wild /\ x.prov = 0 /\ y.prov = 0
    <3>1. \A w : Wanted(w).prov = 0 /\ Wanted(w).object = 0
      BY DEF Wanted, Says
    <3>2. 0 # Wild
      BY DEF Wild
    <3>3. QED
      BY <2>2, <3>1, <3>2, Zenon
  <2>4. Startable(cs, ps)
    BY <1>5, <2>2, <2>3, StartsWith, Zenon
  <2>5. second = TriplePatern(cs, ps, ProvTrigerON, ProvUris)
    BY <1>1, <1>3, <1>6, <2>2, Zenon
  <2>6. ProvTrigerON => ContextsOf(second) \subseteq ProvUris
    BY <2>4, <2>5, NamedAreSelected, Zenon DEF Ready
  <2>7. ProvTrigerON => ContextsOf(first) \subseteq ProvUris
    BY <1>1, FirstValues, Zenon
  <2>8. ProvTrigerON => a.named \subseteq ProvUris
    BY <1>1, <1>2, <2>6, <2>7
  <2>9. LinksOf(q) = {}
    <3>1. \A k : k \in L <=> \E s : In(Visible, s, KM(p), KM(o)) /\ In(Visible, s, KM(e), k)
      BY <1>1, FirstValues
    <3>2. \A k : k \in LinksOf(q)
                   <=> \E s : In(Visible, s, KM(p), KM(o)) /\ In(Visible, s, KM(e), k)
      BY <1>4, LinksIn
    <3>3. \A k : k \notin LinksOf(q)
      BY <1>6, <3>1, <3>2
    <3>4. QED
      BY <3>3
  <2>10. Cardinality(LinksOf(q)) # 1
    BY <2>9, FS_EmptySet
  <2>11. QED
    BY <2>1, <2>8, <2>10 DEF Explains
<1>7. CASE L # {}
  <2>1. links = SetToSeq({Mentions(l) : l \in L})
    BY <1>1, <1>7 DEF MentionsAll
  <2>2. second = TriplePatern(SetToSeq({Mentions(l) : l \in L}) \o tail,
                              <<Wanted(v), Wanted(u)>>, ProvTrigerON, ProvUris)
    BY <1>3, <2>1, Zenon
  <2>3. Linked(q, L, LinksOf(q), p, o, e, first, tail, v, u, second)
    BY <1>1, <1>4, <1>5, <1>7, <2>2, LinkedBegins, Zenon
  <2>4. /\ ProvTrigerON => N \subseteq ProvUris
        /\ \A l \in L : \A t \in ShownRows(second) : Ahead(l, t) \in Asked(q, Within(Visible, N))
        /\ Cardinality(LinksOf(q)) = 1 =>
             \A z \in Asked(q, Visible) : \E l \in L, t \in ShownRows(second) : z = Ahead(l, t)
    <3>1. tail = <<Has(g, d), Has(h, m)>> /\ N = ContextsOf(first) \union ContextsOf(second)
      BY <1>1
    <3>2. Proper(q, L, second, N)
      BY <2>3, <3>1, LinkingRuns
    <3>3. QED
      BY <3>2, Zenon DEF Proper
  <2>5. second = <<>> => a.answers = {}
    <3>1. second = <<>> => ShownRows(second) = {}
      BY NoRowsShowNothing, Zenon
    <3>2. QED
      BY <1>2, <3>1
  <2>6. \A z \in a.answers : z \in Asked(q, Within(Visible, a.named))
    <3>1. CASE second = <<>>
      BY <2>5, <3>1
    <3>2. CASE second # <<>>
      <4>1. a.named = N
        BY <1>2, <3>2, Zenon
      <4>2. \A z \in a.answers : \E l \in L, t \in ShownRows(second) : z = Ahead(l, t)
        BY <1>2, Zenon
      <4>3. QED
        BY <2>4, <4>1, <4>2, Zenon
    <3>3. QED
      BY <3>1, <3>2
  <2>7. ProvTrigerON => a.named \subseteq ProvUris
    <3>1. a.named = {} \/ a.named = N
      BY <1>2, Zenon
    <3>2. QED
      BY <2>4, <3>1
  <2>8. Cardinality(LinksOf(q)) = 1 => \A z \in Asked(q, Visible) : z \in a.answers
    BY <1>2, <2>4, Zenon
  <2>9. QED
    BY <2>6, <2>7, <2>8 DEF Explains, Exhausts
<1>8. QED
  BY <1>6, <1>7

LEMMA Right_q04 ==
  Ready => Explains("q04", q04) /\ (Cardinality(LinksOf("q04")) = 1 => Exhausts("q04", q04))
<1>1. PICK p, o, e, g, d, h, m, v, u :
        /\ p = "name" /\ o = "Krebs, Emil" /\ e = "deathPlace" /\ g = "featureClass" /\ d = "P"
        /\ h = "inCountry" /\ m = "DE" /\ v = "lat" /\ u = "long"
  OBVIOUS
<1>2. IsLinking("q04", p, o, e, g, d, h, m, v, u)
  <2>1. SPARQL["q04"] = {Select(<<"?l", "?lat", "?long">>,
              <<<<"?p", p, o>>, <<"?p", e, "?l">>, <<"?c", "?j", "?l">>, <<"?c", g, d>>,
                <<"?c", h, m>>, <<"?c", v, "?lat">>, <<"?c", u, "?long">>>>)}
    BY <1>1, Zenon DEF SPARQL
  <2>2. {p, o, e, g, d, h, m, v, u} \intersect Vars = {}
    BY <1>1 DEF Vars
  <2>3. "q04" # "q08"
    OBVIOUS
  <2>4. QED
    BY <2>1, <2>2, <2>3, Zenon DEF IsLinking
<1>3. q04 = LinkingAnswer(p, o, e, g, d, h, m, v, u)
  <2>1. q04 = LinkingAnswer("name", "Krebs, Emil", "deathPlace", "featureClass", "P",
                            "inCountry", "DE", "lat", "long")
    BY Zenon DEF q04, LinkingAnswer
  <2>2. QED
    BY <1>1, <2>1, Zenon
<1>4. QED
  BY <1>2, <1>3, LinkingAnswers, Zenon

\* w04 over its words.
PagingAnswer(p, o, e, g, d, v) ==
  LET first == Triples(<<Has(p, o)>>, <<Wanted(e)>>)
      second == Triples(MentionsAll(first) \o <<Has(g, d)>>, <<Wanted(v), Wanted(p)>>)
  IN  [answers |-> ShownRows(second), named |-> ContextsOf(first) \union ContextsOf(second)]

LEMMA PagingAnswers ==
  ASSUME Ready, NEW q, NEW p, NEW o, NEW e, NEW g, NEW d, NEW v,
         IsPaging(q, p, o, e, g, d, v), LinksOf(q) # {},
         NEW a, a = PagingAnswer(p, o, e, g, d, v)
  PROVE  Explains(q, a) /\ (Cardinality(LinksOf(q)) = 1 => Exhausts(q, a))
<1>1. PICK first, L, tail, second, N :
        /\ first = Triples(<<Has(p, o)>>, <<Wanted(e)>>)
        /\ L = ValuesOf(first)
        /\ tail = <<Has(g, d)>>
        /\ second = Triples(MentionsAll(first) \o tail, <<Wanted(v), Wanted(p)>>)
        /\ N = ContextsOf(first) \union ContextsOf(second)
  OBVIOUS
<1>2. a.answers = ShownRows(second) /\ a.named = N
  BY <1>1 DEF PagingAnswer
<1>3. second = TriplePatern(SetToSeq({Mentions(l) : l \in L}) \o tail,
                            <<Wanted(v), Wanted(p)>>, ProvTrigerON, ProvUris)
  BY <1>1, Zenon DEF Triples, MentionsAll
<1>4. Begins(q, p, o, e)
  BY PagingBegins
<1>5. tail \in Seq(Range(tail))
  BY <1>1, MeetingHasOne
<1>6. L # {}
  <2>1. \A k : k \in L <=> \E s : In(Visible, s, KM(p), KM(o)) /\ In(Visible, s, KM(e), k)
    BY <1>1, FirstValues
  <2>2. \A k : k \in LinksOf(q)
                 <=> \E s : In(Visible, s, KM(p), KM(o)) /\ In(Visible, s, KM(e), k)
    BY <1>4, LinksIn
  <2>3. QED
    BY <2>1, <2>2
<1>7. Linked(q, L, LinksOf(q), p, o, e, first, tail, v, p, second)
  BY <1>1, <1>3, <1>4, <1>5, <1>6, LinkedBegins, Zenon
<1>8. /\ ProvTrigerON => N \subseteq ProvUris
      /\ ShownRows(second) \subseteq Asked(q, Within(Visible, N))
      /\ Cardinality(LinksOf(q)) = 1 => Asked(q, Visible) \subseteq ShownRows(second)
  BY <1>1, <1>6, <1>7, LinkedRuns_w04
<1>9. QED
  BY <1>2, <1>8, Zenon DEF Explains, Exhausts

LEMMA Right_w04 ==
  Ready /\ LinksOf("w04") # {} =>
    Explains("w04", w04) /\ (Cardinality(LinksOf("w04")) = 1 => Exhausts("w04", w04))
<1>1. PICK p, o, e, g, d, v :
        /\ p = "foaf:page" /\ o = "lampions" /\ e = "hasBusinessFunction"
        /\ g = "hasStockKeepingUnit" /\ d = "DUB073" /\ v = "gr:description"
  OBVIOUS
<1>2. IsPaging("w04", p, o, e, g, d, v)
  <2>1. SPARQL["w04"] = {Select(<<"?desc", "?page">>,
              <<<<"?p", p, o>>, <<"?p", e, "?l">>, <<"?c", "?j", "?l">>, <<"?c", g, d>>,
                <<"?c", v, "?desc">>, <<"?c", p, "?page">>>>)}
    BY <1>1, Zenon DEF SPARQL
  <2>2. {p, o, e, g, d, v} \intersect Vars = {}
    BY <1>1 DEF Vars
  <2>3. "w04" # "q08"
    OBVIOUS
  <2>4. QED
    BY <2>1, <2>2, <2>3, Zenon DEF IsPaging
<1>3. w04 = PagingAnswer(p, o, e, g, d, v)
  BY <1>1, Zenon DEF w04, PagingAnswer
<1>4. QED
  BY <1>2, <1>3, PagingAnswers, Zenon
------------------------------------------------------------------------------
(***************************************************************************)
(* The turns of the loops: the rows of one item.                           *)
(***************************************************************************)

LEMMA MeetsSays ==
  ASSUME NEW W, NEW s, NEW x, NEW p, NEW y
  PROVE  Meets(W, s, Says(x, p, y)) <=> IF y = Wild THEN \E k : In(W, s, KM(p), k)
                                                    ELSE In(W, s, KM(p), y)
<1>1. KM(p) # Wild /\ Says(x, p, y).predicate = KM(p) /\ Says(x, p, y).object = y
  BY WordType DEF Says
<1>2. QED
  BY <1>1 DEF Meets, In

\* Two values of one thing.
Locates(rows, l, v, u) ==
  /\ \A N, t : ContextsOf(rows) \subseteq N /\ t \in ShownRows(rows) =>
       /\ IsRow(t, 2)
       /\ In(Within(Visible, N), l, KM(v), t[1]) /\ In(Within(Visible, N), l, KM(u), t[2])
  /\ \A t : (IsRow(t, 2) /\ In(Visible, l, KM(v), t[1]) /\ In(Visible, l, KM(u), t[2]))
              => t \in ShownRows(rows)
  /\ ProvTrigerON => ContextsOf(rows) \subseteq ProvUris

LEMMA LocatesOf ==
  ASSUME Ready, NEW cs, NEW ps, Startable(cs, ps), NEW rows,
         rows = TriplePatern(cs, ps, ProvTrigerON, ProvUris),
         Len(ps) = 2, NEW l, NEW v, NEW u,
         \A W, s, t : Answered(W, cs, ps, s, t)
                        <=> s \in KEY_ID /\ s = l /\ In(W, s, KM(v), t[1]) /\ In(W, s, KM(u), t[2])
  PROVE  Locates(rows, l, v, u)
<1>1. ASSUME NEW N, NEW t, ContextsOf(rows) \subseteq N, t \in ShownRows(rows)
      PROVE  /\ IsRow(t, 2)
             /\ In(Within(Visible, N), l, KM(v), t[1]) /\ In(Within(Visible, N), l, KM(u), t[2])
  <2>1. PICK W : W = Within(Visible, N)
    OBVIOUS
  <2>2. IsRow(t, Len(ps)) /\ \E s : Answered(W, cs, ps, s, t)
    BY <1>1, <2>1, RowsShow, Zenon
  <2>3. PICK s : Answered(W, cs, ps, s, t)
    BY <2>2
  <2>4. In(W, l, KM(v), t[1]) /\ In(W, l, KM(u), t[2])
    BY <2>3, Zenon
  <2>5. QED
    BY <2>1, <2>2, <2>4
<1>2. ASSUME NEW t, IsRow(t, 2), In(Visible, l, KM(v), t[1]), In(Visible, l, KM(u), t[2])
      PROVE  t \in ShownRows(rows)
  <2>1. l \in KEY_ID
    BY <1>2, InTyped, VisibleIsSeen DEF Ready
  <2>2. Answered(Visible, cs, ps, l, t)
    BY <1>2, <2>1, Zenon
  <2>3. IsRow(t, Len(ps))
    BY <1>2
  <2>4. QED
    BY <2>2, <2>3, RowsShow, Zenon
<1>3. ProvTrigerON => ContextsOf(rows) \subseteq ProvUris
  BY RowsShow, Zenon
<1>4. QED
  BY <1>1, <1>2, <1>3, Zenon DEF Locates

\* With both as constraints too.
LEMMA LocatedTwice ==
  ASSUME Ready, NEW l \in KEY_ID, NEW v, NEW u, NEW rows,
         rows = Triples(<<Says(l, v, Wild), Says(l, u, Wild)>>, <<Says(l, v, 0), Says(l, u, 0)>>)
  PROVE  Locates(rows, l, v, u)
<1>1. PICK c, k, d, e, cs, ps :
        /\ c = Says(l, v, Wild) /\ k = Says(l, u, Wild)
        /\ d = Says(l, v, 0) /\ e = Says(l, u, 0)
        /\ cs = <<c, k>> /\ ps = <<d, e>>
  OBVIOUS
<1>2. rows = TriplePatern(cs, ps, ProvTrigerON, ProvUris)
  BY <1>1, Zenon DEF Triples
<1>3. c.prov = 0 /\ c.subject = l /\ k.prov = 0 /\ d.prov = 0 /\ e.prov = 0 /\ l # 0
  BY <1>1, KeyAssumption DEF Says
<1>4. /\ Len(cs) = 2 /\ DOMAIN cs = 1 .. 2 /\ cs[1] = c /\ cs # <<>>
      /\ Len(ps) = 2 /\ DOMAIN ps = 1 .. 2 /\ ps[1] = d /\ ps[2] = e
      /\ \A i : i \in 1 .. 2 <=> i = 1 \/ i = 2
  BY <1>1
<1>5. Startable(cs, ps)
  BY <1>3, <1>4 DEF Startable
<1>6. \A s : FromSubject(cs, ps, s) <=> s = l
  BY <1>3, <1>4 DEF FromSubject
<1>7. \A W, s : Meeting(W, s, cs) <=> Meets(W, s, c) /\ Meets(W, s, k)
  BY <1>1, <1>3, MeetingTwo, Zenon
<1>8. \A W, s : /\ Meets(W, s, c) <=> \E x : In(W, s, KM(v), x)
                /\ Meets(W, s, k) <=> \E x : In(W, s, KM(u), x)
  BY <1>1, MeetsSays
<1>9. \A W, s, x : /\ Finds(W, s, d, x) <=> In(W, s, KM(v), x)
                   /\ Finds(W, s, e, x) <=> In(W, s, KM(u), x)
  BY <1>1, FindsSays
<1>10. \A W, s, t : Answered(W, cs, ps, s, t)
                      <=> /\ s \in KEY_ID /\ FromSubject(cs, ps, s) /\ Meeting(W, s, cs)
                          /\ Finds(W, s, d, t[1]) /\ Finds(W, s, e, t[2])
  BY <1>1, AnsweredTwo, Zenon
<1>11. \A W, s, t : Answered(W, cs, ps, s, t)
                      <=> s \in KEY_ID /\ s = l /\ In(W, s, KM(v), t[1]) /\ In(W, s, KM(u), t[2])
  BY <1>6, <1>7, <1>8, <1>9, <1>10, Zenon
<1>12. Len(ps) = 2
  BY <1>4
<1>13. QED
  BY <1>2, <1>5, <1>11, <1>12, LocatesOf, Zenon

\* Without constraints.
LEMMA LocatedAlone ==
  ASSUME Ready, NEW l \in KEY_ID, NEW v, NEW u, NEW rows,
         rows = Triples(<<>>, <<Says(l, v, 0), Says(l, u, 0)>>)
  PROVE  Locates(rows, l, v, u)
<1>1. PICK d, e, cs, ps :
        /\ d = Says(l, v, 0) /\ e = Says(l, u, 0)
        /\ cs = <<>> /\ ps = <<d, e>>
  OBVIOUS
<1>2. rows = TriplePatern(cs, ps, ProvTrigerON, ProvUris)
  BY <1>1, Zenon DEF Triples
<1>3. d.prov = 0 /\ e.prov = 0 /\ d.subject = l
  BY <1>1 DEF Says
<1>4. /\ Len(cs) = 0 /\ DOMAIN cs = {} /\ DOMAIN cs = 1 .. 0 /\ cs = <<>>
      /\ Len(ps) = 2 /\ DOMAIN ps = 1 .. 2 /\ ps[1] = d /\ ps[2] = e
      /\ \A i : i \in 1 .. 2 <=> i = 1 \/ i = 2
  BY <1>1
<1>5. Startable(cs, ps)
  BY <1>3, <1>4 DEF Startable
<1>6. \A s : FromSubject(cs, ps, s) <=> s = l
  BY <1>3, <1>4 DEF FromSubject
<1>7. \A W, s : Meeting(W, s, cs)
  BY <1>4 DEF Meeting
<1>9. \A W, s, x : /\ Finds(W, s, d, x) <=> In(W, s, KM(v), x)
                   /\ Finds(W, s, e, x) <=> In(W, s, KM(u), x)
  BY <1>1, FindsSays
<1>10. \A W, s, t : Answered(W, cs, ps, s, t)
                      <=> /\ s \in KEY_ID /\ FromSubject(cs, ps, s) /\ Meeting(W, s, cs)
                          /\ Finds(W, s, d, t[1]) /\ Finds(W, s, e, t[2])
  BY <1>1, AnsweredTwo, Zenon
<1>11. \A W, s, t : Answered(W, cs, ps, s, t)
                      <=> s \in KEY_ID /\ s = l /\ In(W, s, KM(v), t[1]) /\ In(W, s, KM(u), t[2])
  BY <1>6, <1>7, <1>9, <1>10, Zenon
<1>12. Len(ps) = 2
  BY <1>4
<1>13. QED
  BY <1>2, <1>5, <1>11, <1>12, LocatesOf, Zenon
\* One value of what is related to two things; with x # 0, of x only.
Related(rows, x, v, c, u, b, r) ==
  /\ \A N, t : ContextsOf(rows) \subseteq N /\ t \in ShownRows(rows) =>
       /\ IsRow(t, 1)
       /\ \E s : /\ x # 0 => s = x
                 /\ In(Within(Visible, N), s, KM(v), c) /\ In(Within(Visible, N), s, KM(u), b)
                 /\ In(Within(Visible, N), s, KM(r), t[1])
  /\ \A s, t : (/\ IsRow(t, 1) /\ (x # 0 => s = x)
                /\ In(Visible, s, KM(v), c) /\ In(Visible, s, KM(u), b)
                /\ In(Visible, s, KM(r), t[1]))
                => t \in ShownRows(rows)
  /\ ProvTrigerON => ContextsOf(rows) \subseteq ProvUris

LEMMA RelatedRows ==
  ASSUME Ready, NEW x \in KEY_ID \union {0}, NEW v, NEW u, NEW r, NEW c \in KEY_ID, NEW b \in KEY_ID,
         NEW rows, rows = Triples(<<Says(x, v, c), Says(x, u, b)>>, <<Wanted(r)>>)
  PROVE  Related(rows, x, v, c, u, b, r)
<1>1. PICK e, k, d, cs, ps :
        /\ e = Says(x, v, c) /\ k = Says(x, u, b) /\ d = Wanted(r)
        /\ cs = <<e, k>> /\ ps = <<d>>
  OBVIOUS
<1>2. rows = TriplePatern(cs, ps, ProvTrigerON, ProvUris)
  BY <1>1, Zenon DEF Triples
<1>3. /\ e.prov = 0 /\ e.subject = x /\ e.object = c /\ k.prov = 0 /\ d.prov = 0
      /\ c # Wild /\ b # Wild
  BY <1>1, KeyAssumption DEF Says, Wanted, Wild
<1>4. /\ Len(cs) = 2 /\ DOMAIN cs = 1 .. 2 /\ cs[1] = e /\ cs # <<>>
      /\ Len(ps) = 1 /\ DOMAIN ps = 1 .. 1 /\ ps[1] = d
  BY <1>1
<1>5. Startable(cs, ps)
  BY <1>3, <1>4 DEF Startable
<1>6. \A s : FromSubject(cs, ps, s) <=> (x # 0 => s = x)
  BY <1>3, <1>4 DEF FromSubject
<1>7. \A W, s : Meeting(W, s, cs) <=> Meets(W, s, e) /\ Meets(W, s, k)
  BY <1>1, <1>3, MeetingTwo, Zenon
<1>8. \A W, s : /\ Meets(W, s, e) <=> In(W, s, KM(v), c)
                /\ Meets(W, s, k) <=> In(W, s, KM(u), b)
  BY <1>1, <1>3, MeetsSays
<1>9. \A W, s, y : Finds(W, s, d, y) <=> In(W, s, KM(r), y)
  BY <1>1, FindsSays DEF Wanted
<1>10. \A W, s, t : Answered(W, cs, ps, s, t)
                      <=> /\ s \in KEY_ID /\ FromSubject(cs, ps, s) /\ Meeting(W, s, cs)
                          /\ Finds(W, s, d, t[1])
  BY <1>1, AnsweredOne, Zenon
<1>11. \A W, s, t : Answered(W, cs, ps, s, t)
                      <=> /\ s \in KEY_ID /\ (x # 0 => s = x)
                          /\ In(W, s, KM(v), c) /\ In(W, s, KM(u), b) /\ In(W, s, KM(r), t[1])
  BY <1>6, <1>7, <1>8, <1>9, <1>10, Zenon
<1>12. ASSUME NEW N, NEW t, ContextsOf(rows) \subseteq N, t \in ShownRows(rows)
       PROVE  /\ IsRow(t, 1)
              /\ \E s : /\ x # 0 => s = x
                        /\ In(Within(Visible, N), s, KM(v), c) /\ In(Within(Visible, N), s, KM(u), b)
                        /\ In(Within(Visible, N), s, KM(r), t[1])
  <2>1. PICK W : W = Within(Visible, N)
    OBVIOUS
  <2>2. IsRow(t, Len(ps)) /\ \E s : Answered(W, cs, ps, s, t)
    BY <1>2, <1>5, <1>12, <2>1, RowsShow, Zenon
  <2>3. PICK s : Answered(W, cs, ps, s, t)
    BY <2>2
  <2>4. (x # 0 => s = x) /\ In(W, s, KM(v), c) /\ In(W, s, KM(u), b) /\ In(W, s, KM(r), t[1])
    <3>1. s \in KEY_ID /\ FromSubject(cs, ps, s) /\ Meeting(W, s, cs) /\ Finds(W, s, d, t[1])
      BY <1>10, <2>3, Zenon
    <3>2. (x # 0 => s = x) /\ Meets(W, s, e) /\ Meets(W, s, k)
      BY <1>6, <1>7, <3>1, Zenon
    <3>3. QED
      BY <1>8, <1>9, <3>1, <3>2, Zenon
  <2>5. IsRow(t, 1)
    BY <1>4, <2>2, Zenon
  <2>6. QED
    BY <2>1, <2>4, <2>5, Zenon
<1>13. ASSUME NEW s, NEW t, IsRow(t, 1), x # 0 => s = x,
              In(Visible, s, KM(v), c), In(Visible, s, KM(u), b), In(Visible, s, KM(r), t[1])
       PROVE  t \in ShownRows(rows)
  <2>1. s \in KEY_ID
    BY <1>13, InTyped, VisibleIsSeen DEF Ready
  <2>2. Answered(Visible, cs, ps, s, t)
    BY <1>11, <1>13, <2>1, Zenon
  <2>3. IsRow(t, Len(ps))
    BY <1>4, <1>13, Zenon
  <2>4. QED
    BY <1>2, <1>5, <2>2, <2>3, RowsShow, Zenon
<1>14. ProvTrigerON => ContextsOf(rows) \subseteq ProvUris
  BY <1>2, <1>5, RowsShow, Zenon
<1>15. QED
  BY <1>12, <1>13, <1>14, Zenon DEF Related

\* One value of a thing with one relation.
Valued(rows, l, e, n, v) ==
  /\ \A N, t : ContextsOf(rows) \subseteq N /\ t \in ShownRows(rows) =>
       /\ IsRow(t, 1)
       /\ In(Within(Visible, N), l, KM(e), n) /\ In(Within(Visible, N), l, KM(v), t[1])
  /\ \A t : (IsRow(t, 1) /\ In(Visible, l, KM(e), n) /\ In(Visible, l, KM(v), t[1]))
              => t \in ShownRows(rows)
  /\ ProvTrigerON => ContextsOf(rows) \subseteq ProvUris

LEMMA ValuedRows ==
  ASSUME Ready, NEW l \in KEY_ID, NEW e, NEW v, NEW n \in KEY_ID,
         NEW rows, rows = Triples(<<Says(l, e, n)>>, <<Wanted(v)>>)
  PROVE  Valued(rows, l, e, n, v)
<1>1. PICK c, d, cs, ps : c = Says(l, e, n) /\ d = Wanted(v) /\ cs = <<c>> /\ ps = <<d>>
  OBVIOUS
<1>2. rows = TriplePatern(cs, ps, ProvTrigerON, ProvUris)
  BY <1>1, Zenon DEF Triples
<1>3. c.prov = 0 /\ c.subject = l /\ d.prov = 0 /\ n # Wild /\ l # 0
  BY <1>1, KeyAssumption DEF Says, Wanted, Wild
<1>4. /\ Len(cs) = 1 /\ DOMAIN cs = 1 .. 1 /\ cs[1] = c /\ cs # <<>>
      /\ Len(ps) = 1 /\ DOMAIN ps = 1 .. 1 /\ ps[1] = d
  BY <1>1
<1>5. Startable(cs, ps)
  BY <1>3, <1>4 DEF Startable
<1>6. \A s : FromSubject(cs, ps, s) <=> s = l
  BY <1>3, <1>4 DEF FromSubject
<1>7. \A W, s : Meeting(W, s, cs) <=> Meets(W, s, c)
  BY <1>1, <1>3, MeetingOne, Zenon
<1>8. \A W, s : Meets(W, s, c) <=> In(W, s, KM(e), n)
  BY <1>1, <1>3, MeetsSays
<1>9. \A W, s, y : Finds(W, s, d, y) <=> In(W, s, KM(v), y)
  BY <1>1, FindsSays DEF Wanted
<1>10. \A W, s, t : Answered(W, cs, ps, s, t)
                      <=> /\ s \in KEY_ID /\ FromSubject(cs, ps, s) /\ Meeting(W, s, cs)
                          /\ Finds(W, s, d, t[1])
  BY <1>1, AnsweredOne, Zenon
<1>11. \A W, s, t : Answered(W, cs, ps, s, t)
                      <=> s \in KEY_ID /\ s = l /\ In(W, s, KM(e), n) /\ In(W, s, KM(v), t[1])
  BY <1>6, <1>7, <1>8, <1>9, <1>10, Zenon
<1>12. ASSUME NEW N, NEW t, ContextsOf(rows) \subseteq N, t \in ShownRows(rows)
       PROVE  /\ IsRow(t, 1)
              /\ In(Within(Visible, N), l, KM(e), n) /\ In(Within(Visible, N), l, KM(v), t[1])
  <2>1. PICK W : W = Within(Visible, N)
    OBVIOUS
  <2>2. IsRow(t, Len(ps)) /\ \E s : Answered(W, cs, ps, s, t)
    BY <1>2, <1>5, <1>12, <2>1, RowsShow, Zenon
  <2>3. PICK s : Answered(W, cs, ps, s, t)
    BY <2>2
  <2>4. In(W, l, KM(e), n) /\ In(W, l, KM(v), t[1])
    BY <1>11, <2>3, Zenon
  <2>5. IsRow(t, 1)
    BY <1>4, <2>2, Zenon
  <2>6. QED
    BY <2>1, <2>4, <2>5, Zenon
<1>13. ASSUME NEW t, IsRow(t, 1), In(Visible, l, KM(e), n), In(Visible, l, KM(v), t[1])
       PROVE  t \in ShownRows(rows)
  <2>1. Answered(Visible, cs, ps, l, t)
    BY <1>11, <1>13, Zenon
  <2>2. IsRow(t, Len(ps))
    BY <1>4, <1>13, Zenon
  <2>3. QED
    BY <1>2, <1>5, <2>1, <2>2, RowsShow, Zenon
<1>14. ProvTrigerON => ContextsOf(rows) \subseteq ProvUris
  BY <1>2, <1>5, RowsShow, Zenon
<1>15. QED
  BY <1>12, <1>13, <1>14, Zenon DEF Valued
------------------------------------------------------------------------------
(***************************************************************************)
(* More quads make no solution of a text go away.                          *)
(***************************************************************************)

Sized(T) == \E n \in Nat : DOMAIN T = 1 .. n

LEMMA TuplesAreSized ==
  /\ \A a : Sized(<<a>>)
  /\ \A a, b, c, d : Sized(<<a, b, c, d>>)
  /\ \A a, b, c, d, e : Sized(<<a, b, c, d, e>>)
  /\ \A a, b, c, d, e, f : Sized(<<a, b, c, d, e, f>>)
  /\ \A a, b, c, d, e, f, g : Sized(<<a, b, c, d, e, f, g>>)
  /\ \A a, b, c, d, e, f, g, h : Sized(<<a, b, c, d, e, f, g, h>>)
<1>1. \A T, n : n \in Nat /\ DOMAIN T = 1 .. n => Sized(T)
  BY DEF Sized
<1>2. ASSUME NEW a PROVE Sized(<<a>>)
  <2>1. DOMAIN <<a>> = 1 .. 1 /\ 1 \in Nat
    OBVIOUS
  <2>2. QED
    BY <1>1, <2>1
<1>3. ASSUME NEW a, NEW b, NEW c, NEW d PROVE Sized(<<a, b, c, d>>)
  <2>1. DOMAIN <<a, b, c, d>> = 1 .. 4 /\ 4 \in Nat
    OBVIOUS
  <2>2. QED
    BY <1>1, <2>1
<1>4. ASSUME NEW a, NEW b, NEW c, NEW d, NEW e PROVE Sized(<<a, b, c, d, e>>)
  <2>1. DOMAIN <<a, b, c, d, e>> = 1 .. 5 /\ 5 \in Nat
    OBVIOUS
  <2>2. QED
    BY <1>1, <2>1
<1>5. ASSUME NEW a, NEW b, NEW c, NEW d, NEW e, NEW f PROVE Sized(<<a, b, c, d, e, f>>)
  <2>1. DOMAIN <<a, b, c, d, e, f>> = 1 .. 6 /\ 6 \in Nat
    OBVIOUS
  <2>2. QED
    BY <1>1, <2>1
<1>6. ASSUME NEW a, NEW b, NEW c, NEW d, NEW e, NEW f, NEW g PROVE Sized(<<a, b, c, d, e, f, g>>)
  <2>1. DOMAIN <<a, b, c, d, e, f, g>> = 1 .. 7 /\ 7 \in Nat
    OBVIOUS
  <2>2. QED
    BY <1>1, <2>1
<1>7. ASSUME NEW a, NEW b, NEW c, NEW d, NEW e, NEW f, NEW g, NEW h PROVE Sized(<<a, b, c, d, e, f, g, h>>)
  <2>1. DOMAIN <<a, b, c, d, e, f, g, h>> = 1 .. 8 /\ 8 \in Nat
    OBVIOUS
  <2>2. QED
    BY <1>1, <2>1
<1>8. QED
  BY <1>2, <1>3, <1>4, <1>5, <1>6, <1>7

LEMMA TextsAreSized ==
  ASSUME NEW q \in DOMAIN SPARQL, NEW sel \in SPARQL[q]
  PROVE  Sized(sel.patterns)
<1>1. \A columns, T : Sized(T) => Sized(Select(columns, T).patterns)
  <2>1. \A columns, T : Select(columns, T).patterns = T
    BY DEF Select
  <2>2. QED
    BY <2>1, Zenon
<1>2. CASE q = "q01"
  <2>1. SPARQL["q01"] = {Select(<<"?lat", "?long">>,
              <<About("?j", "Eiffel Tower"), About("inCountry", "FR"),
                About("lat", "?lat"), About("long", "?long")>>)}
    BY Zenon DEF SPARQL
  <2>2. sel = Select(<<"?lat", "?long">>,
              <<About("?j", "Eiffel Tower"), About("inCountry", "FR"),
                About("lat", "?lat"), About("long", "?long")>>)
    BY <1>2, <2>1, Zenon
  <2>3. Sized(<<About("?j", "Eiffel Tower"), About("inCountry", "FR"),
                About("lat", "?lat"), About("long", "?long")>>)
    BY TuplesAreSized, Zenon
  <2>4. QED
    BY <1>1, <2>2, <2>3, Zenon
<1>3. CASE q = "q02"
  <2>1. SPARQL["q02"] = {Select(<<"?b", "?p", "?n">>,
              <<About("?j", "Tim Berners-Lee"), About("dateOfBirth", "?b"),
                About("placeOfBirth", "?p"), About("name", "?n")>>)}
    BY Zenon DEF SPARQL
  <2>2. sel = Select(<<"?b", "?p", "?n">>,
              <<About("?j", "Tim Berners-Lee"), About("dateOfBirth", "?b"),
                About("placeOfBirth", "?p"), About("name", "?n")>>)
    BY <1>3, <2>1, Zenon
  <2>3. Sized(<<About("?j", "Tim Berners-Lee"), About("dateOfBirth", "?b"),
                About("placeOfBirth", "?p"), About("name", "?n")>>)
    BY TuplesAreSized, Zenon
  <2>4. QED
    BY <1>1, <2>2, <2>3, Zenon
<1>4. CASE q = "q03"
  <2>1. SPARQL["q03"] = {Select(<<"?t", "?lat", "?long">>,
              <<About("wikilink", "List"), About("wikilink", "Middle_Ages"),
                About("title", "?t"), About("lat", "?lat"), About("long", "?long")>>)}
    BY Zenon DEF SPARQL
  <2>2. sel = Select(<<"?t", "?lat", "?long">>,
              <<About("wikilink", "List"), About("wikilink", "Middle_Ages"),
                About("title", "?t"), About("lat", "?lat"), About("long", "?long")>>)
    BY <1>4, <2>1, Zenon
  <2>3. Sized(<<About("wikilink", "List"), About("wikilink", "Middle_Ages"),
                About("title", "?t"), About("lat", "?lat"), About("long", "?long")>>)
    BY TuplesAreSized, Zenon
  <2>4. QED
    BY <1>1, <2>2, <2>3, Zenon
<1>5. CASE q = "q04"
  <2>1. SPARQL["q04"] = {Select(<<"?l", "?lat", "?long">>,
              <<<<"?p", "name", "Krebs, Emil">>, <<"?p", "deathPlace", "?l">>,
                <<"?c", "?j", "?l">>, <<"?c", "featureClass", "P">>,
                <<"?c", "inCountry", "DE">>, <<"?c", "lat", "?lat">>, <<"?c", "long", "?long">>>>)}
    BY Zenon DEF SPARQL
  <2>2. sel = Select(<<"?l", "?lat", "?long">>,
              <<<<"?p", "name", "Krebs, Emil">>, <<"?p", "deathPlace", "?l">>,
                <<"?c", "?j", "?l">>, <<"?c", "featureClass", "P">>,
                <<"?c", "inCountry", "DE">>, <<"?c", "lat", "?lat">>, <<"?c", "long", "?long">>>>)
    BY <1>5, <2>1, Zenon
  <2>3. Sized(<<<<"?p", "name", "Krebs, Emil">>, <<"?p", "deathPlace", "?l">>,
                <<"?c", "?j", "?l">>, <<"?c", "featureClass", "P">>,
                <<"?c", "inCountry", "DE">>, <<"?c", "lat", "?lat">>, <<"?c", "long", "?long">>>>)
    BY TuplesAreSized, Zenon
  <2>4. QED
    BY <1>1, <2>2, <2>3, Zenon
<1>6. CASE q = "q05"
  <2>1. SPARQL["q05"] = {Select(<<"?l", "?lat", "?long">>,
              <<About("?j", "Barack Obama"), About("placeOfBirth", "?l"),
                <<"?l", "lat", "?lat">>, <<"?l", "long", "?long">>>>)}
    BY Zenon DEF SPARQL
  <2>2. sel = Select(<<"?l", "?lat", "?long">>,
              <<About("?j", "Barack Obama"), About("placeOfBirth", "?l"),
                <<"?l", "lat", "?lat">>, <<"?l", "long", "?long">>>>)
    BY <1>6, <2>1, Zenon
  <2>3. Sized(<<About("?j", "Barack Obama"), About("placeOfBirth", "?l"),
                <<"?l", "lat", "?lat">>, <<"?l", "long", "?long">>>>)
    BY TuplesAreSized, Zenon
  <2>4. QED
    BY <1>1, <2>2, <2>3, Zenon
<1>7. CASE q = "q06"
  <2>1. SPARQL["q06"] = {Select(<<"?d">>,
              <<<<"?c", "profession", "Veterinarian">>, <<"?b", "inCountry", "US">>,
                About("senators", "?c"), About("sameAs", "?b"), About("name", "?d")>>)}
    BY Zenon DEF SPARQL
  <2>2. sel = Select(<<"?d">>,
              <<<<"?c", "profession", "Veterinarian">>, <<"?b", "inCountry", "US">>,
                About("senators", "?c"), About("sameAs", "?b"), About("name", "?d")>>)
    BY <1>7, <2>1, Zenon
  <2>3. Sized(<<<<"?c", "profession", "Veterinarian">>, <<"?b", "inCountry", "US">>,
                About("senators", "?c"), About("sameAs", "?b"), About("name", "?d")>>)
    BY TuplesAreSized, Zenon
  <2>4. QED
    BY <1>1, <2>2, <2>3, Zenon
<1>8. CASE q = "q07"
  <2>1. SPARQL["q07"] = {Select(<<"?a", "?b", "?lat", "?long">>,
              <<About("wikilink", "actor"), About("spouse", "?b"), About("placeOfBirth", "?c"),
                <<"?b", "placeOfBirth", "?c">>, <<"?b", "wikilink", "actor">>,
                <<"?c", "sameAs", "?c2">>, <<"?c2", "lat", "?lat">>, <<"?c2", "long", "?long">>>>)}
    BY Zenon DEF SPARQL
  <2>2. sel = Select(<<"?a", "?b", "?lat", "?long">>,
              <<About("wikilink", "actor"), About("spouse", "?b"), About("placeOfBirth", "?c"),
                <<"?b", "placeOfBirth", "?c">>, <<"?b", "wikilink", "actor">>,
                <<"?c", "sameAs", "?c2">>, <<"?c2", "lat", "?lat">>, <<"?c2", "long", "?long">>>>)
    BY <1>8, <2>1, Zenon
  <2>3. Sized(<<About("wikilink", "actor"), About("spouse", "?b"), About("placeOfBirth", "?c"),
                <<"?b", "placeOfBirth", "?c">>, <<"?b", "wikilink", "actor">>,
                <<"?c", "sameAs", "?c2">>, <<"?c2", "lat", "?lat">>, <<"?c2", "long", "?long">>>>)
    BY TuplesAreSized, Zenon
  <2>4. QED
    BY <1>1, <2>2, <2>3, Zenon
<1>9. CASE q = "q08"
  <2>1. SPARQL["q08"] = {Select(<<"?y">>,
              <<<<"?b", "subject", "Blackwater">>, <<"?b", "?j", "?n">>,
                About("foaf:name", "?n"), About("years", "?y")>>)}
    BY Zenon DEF SPARQL
  <2>2. sel = Select(<<"?y">>,
              <<<<"?b", "subject", "Blackwater">>, <<"?b", "?j", "?n">>,
                About("foaf:name", "?n"), About("years", "?y")>>)
    BY <1>9, <2>1, Zenon
  <2>3. Sized(<<<<"?b", "subject", "Blackwater">>, <<"?b", "?j", "?n">>,
                About("foaf:name", "?n"), About("years", "?y")>>)
    BY TuplesAreSized, Zenon
  <2>4. QED
    BY <1>1, <2>2, <2>3, Zenon
<1>10. CASE q = "q09"
  <2>1. SPARQL["q09"] = {Select(<<"?s">>, <<<<"?s", "foaf:name", "Samuel">>>>),
            Select(<<"?s">>, <<<<"?s", "foaf:name", "Elisabeth">>>>)}
    BY Zenon DEF SPARQL
  <2>2. \/ sel = Select(<<"?s">>, <<<<"?s", "foaf:name", "Samuel">>>>)
        \/ sel = Select(<<"?s">>, <<<<"?s", "foaf:name", "Elisabeth">>>>)
    BY <1>10, <2>1, Zenon
  <2>3. /\ Sized(<<<<"?s", "foaf:name", "Samuel">>>>)
        /\ Sized(<<<<"?s", "foaf:name", "Elisabeth">>>>)
    BY TuplesAreSized, Zenon
  <2>4. QED
    BY <1>1, <2>2, <2>3, Zenon
<1>11. CASE q = "q10"
  <2>1. SPARQL["q10"] = {Select(<<"?t", "?lat", "?long">>,
              <<About("wikilink", "List"),
                About("title", "?t"), About("lat", "?lat"), About("long", "?long")>>)}
    BY Zenon DEF SPARQL
  <2>2. sel = Select(<<"?t", "?lat", "?long">>,
              <<About("wikilink", "List"),
                About("title", "?t"), About("lat", "?lat"), About("long", "?long")>>)
    BY <1>11, <2>1, Zenon
  <2>3. Sized(<<About("wikilink", "List"),
                About("title", "?t"), About("lat", "?lat"), About("long", "?long")>>)
    BY TuplesAreSized, Zenon
  <2>4. QED
    BY <1>1, <2>2, <2>3, Zenon
<1>12. CASE q = "w01"
  <2>1. SPARQL["w01"] = {Select(<<"?t", "?desc">>,
              <<About("?j", "fortis-angelo"), About("site_name", "PagineBianche"),
                About("title", "?t"), About("description", "?desc")>>)}
    BY Zenon DEF SPARQL
  <2>2. sel = Select(<<"?t", "?desc">>,
              <<About("?j", "fortis-angelo"), About("site_name", "PagineBianche"),
                About("title", "?t"), About("description", "?desc")>>)
    BY <1>12, <2>1, Zenon
  <2>3. Sized(<<About("?j", "fortis-angelo"), About("site_name", "PagineBianche"),
                About("title", "?t"), About("description", "?desc")>>)
    BY TuplesAreSized, Zenon
  <2>4. QED
    BY <1>1, <2>2, <2>3, Zenon
<1>13. CASE q = "w02"
  <2>1. SPARQL["w02"] = {Select(<<"?b", "?p", "?n">>,
              <<About("?j", "fortyagency"), About("og:image", "?b"),
                About("og:description", "?p"), About("og:title", "?n")>>)}
    BY Zenon DEF SPARQL
  <2>2. sel = Select(<<"?b", "?p", "?n">>,
              <<About("?j", "fortyagency"), About("og:image", "?b"),
                About("og:description", "?p"), About("og:title", "?n")>>)
    BY <1>13, <2>1, Zenon
  <2>3. Sized(<<About("?j", "fortyagency"), About("og:image", "?b"),
                About("og:description", "?p"), About("og:title", "?n")>>)
    BY TuplesAreSized, Zenon
  <2>4. QED
    BY <1>1, <2>2, <2>3, Zenon
<1>14. CASE q = "w03"
  <2>1. SPARQL["w03"] = {Select(<<"?t", "?lat", "?long">>,
              <<About("country-name", "United States"), About("region", "Maine"),
                About("title", "?t"), About("latitude", "?lat"), About("longitude", "?long")>>)}
    BY Zenon DEF SPARQL
  <2>2. sel = Select(<<"?t", "?lat", "?long">>,
              <<About("country-name", "United States"), About("region", "Maine"),
                About("title", "?t"), About("latitude", "?lat"), About("longitude", "?long")>>)
    BY <1>14, <2>1, Zenon
  <2>3. Sized(<<About("country-name", "United States"), About("region", "Maine"),
                About("title", "?t"), About("latitude", "?lat"), About("longitude", "?long")>>)
    BY TuplesAreSized, Zenon
  <2>4. QED
    BY <1>1, <2>2, <2>3, Zenon
<1>15. CASE q = "w04"
  <2>1. SPARQL["w04"] = {Select(<<"?desc", "?page">>,
              <<<<"?p", "foaf:page", "lampions">>, <<"?p", "hasBusinessFunction", "?l">>,
                <<"?c", "?j", "?l">>, <<"?c", "hasStockKeepingUnit", "DUB073">>,
                <<"?c", "gr:description", "?desc">>, <<"?c", "foaf:page", "?page">>>>)}
    BY Zenon DEF SPARQL
  <2>2. sel = Select(<<"?desc", "?page">>,
              <<<<"?p", "foaf:page", "lampions">>, <<"?p", "hasBusinessFunction", "?l">>,
                <<"?c", "?j", "?l">>, <<"?c", "hasStockKeepingUnit", "DUB073">>,
                <<"?c", "gr:description", "?desc">>, <<"?c", "foaf:page", "?page">>>>)
    BY <1>15, <2>1, Zenon
  <2>3. Sized(<<<<"?p", "foaf:page", "lampions">>, <<"?p", "hasBusinessFunction", "?l">>,
                <<"?c", "?j", "?l">>, <<"?c", "hasStockKeepingUnit", "DUB073">>,
                <<"?c", "gr:description", "?desc">>, <<"?c", "foaf:page", "?page">>>>)
    BY TuplesAreSized, Zenon
  <2>4. QED
    BY <1>1, <2>2, <2>3, Zenon
<1>16. CASE q = "w05"
  <2>1. SPARQL["w05"] = {Select(<<"?d">>,
              <<<<"?c", "has_container", "announcements">>, <<"?b", "foaf:name", "Anonymous">>,
                About("reply_of", "?c"), About("has_creator", "?b"), About("date", "?d")>>)}
    BY Zenon DEF SPARQL
  <2>2. sel = Select(<<"?d">>,
              <<<<"?c", "has_container", "announcements">>, <<"?b", "foaf:name", "Anonymous">>,
                About("reply_of", "?c"), About("has_creator", "?b"), About("date", "?d")>>)
    BY <1>16, <2>1, Zenon
  <2>3. Sized(<<<<"?c", "has_container", "announcements">>, <<"?b", "foaf:name", "Anonymous">>,
                About("reply_of", "?c"), About("has_creator", "?b"), About("date", "?d")>>)
    BY TuplesAreSized, Zenon
  <2>4. QED
    BY <1>1, <2>2, <2>3, Zenon
<1>17. CASE q = "w06"
  <2>1. SPARQL["w06"] = {Select(<<"?s">>, <<<<"?s", "og:site_name", "fosiki">>>>),
            Select(<<"?s">>, <<<<"?s", "og:site_name", "Fotogard">>>>)}
    BY Zenon DEF SPARQL
  <2>2. \/ sel = Select(<<"?s">>, <<<<"?s", "og:site_name", "fosiki">>>>)
        \/ sel = Select(<<"?s">>, <<<<"?s", "og:site_name", "Fotogard">>>>)
    BY <1>17, <2>1, Zenon
  <2>3. /\ Sized(<<<<"?s", "og:site_name", "fosiki">>>>)
        /\ Sized(<<<<"?s", "og:site_name", "Fotogard">>>>)
    BY TuplesAreSized, Zenon
  <2>4. QED
    BY <1>1, <2>2, <2>3, Zenon
<1>18. CASE q = "w07"
  <2>1. SPARQL["w07"] = {Select(<<"?t", "?lat", "?long">>,
              <<About("region", "Maine"),
                About("title", "?t"), About("latitude", "?lat"), About("longitude", "?long")>>)}
    BY Zenon DEF SPARQL
  <2>2. sel = Select(<<"?t", "?lat", "?long">>,
              <<About("region", "Maine"),
                About("title", "?t"), About("latitude", "?lat"), About("longitude", "?long")>>)
    BY <1>18, <2>1, Zenon
  <2>3. Sized(<<About("region", "Maine"),
                About("title", "?t"), About("latitude", "?lat"), About("longitude", "?long")>>)
    BY TuplesAreSized, Zenon
  <2>4. QED
    BY <1>1, <2>2, <2>3, Zenon
<1>19. q \in {"q01", "q02", "q03", "q04", "q05", "q06", "q07", "q08", "q09", "q10", "w01", "w02", "w03", "w04", "w05", "w06", "w07"}
  BY Zenon DEF SPARQL
<1>20. QED
  BY <1>2, <1>3, <1>4, <1>5, <1>6, <1>7, <1>8, <1>9, <1>10, <1>11, <1>12, <1>13, <1>14, <1>15, <1>16, <1>17, <1>18, <1>19, Zenon

LEMMA SolutionsGrow ==
  ASSUME NEW quads, NEW more, quads \subseteq more, NEW T, Sized(T)
  PROVE  Solutions(quads, T) \subseteq Solutions(more, T)
<1>1. PICK n \in Nat : DOMAIN T = 1 .. n
  BY DEF Sized
<1>2. PICK h : Solves(h, quads, T, n) /\ Solutions(quads, T) = h[n]
  BY <1>1, SolutionsByPattern
<1>3. PICK g : Solves(g, more, T, n) /\ Solutions(more, T) = g[n]
  BY <1>1, SolutionsByPattern
<1>4. \A b, pattern : Match(quads, b, pattern) \subseteq Match(more, b, pattern)
  BY DEF Match
<1>5. \A bs, cs, pattern : bs \subseteq cs => Joined(quads, bs, pattern) \subseteq Joined(more, cs, pattern)
  BY <1>4 DEF Joined
<1> DEFINE Bad == {k \in Nat : k <= n /\ ~ (h[k] \subseteq g[k])}
<1>6. SUFFICES Bad = {}
  BY <1>2, <1>3
<1>7. SUFFICES ASSUME Bad # {} PROVE FALSE
  OBVIOUS
<1>8. PICK k \in Bad : \A j \in Bad : k <= j
  BY <1>7, LeastIndex
<1>9. CASE k = 0
  BY <1>2, <1>3, <1>9 DEF Solves
<1>10. CASE k # 0
  <2>1. k - 1 \in Nat /\ k - 1 <= n /\ k - 1 \notin Bad /\ k \in 1 .. n
    BY <1>8, <1>10
  <2>2. h[k - 1] \subseteq g[k - 1]
    BY <2>1
  <2>3. h[k] = Joined(quads, h[k - 1], T[k]) /\ g[k] = Joined(more, g[k - 1], T[k])
    BY <1>2, <1>3, <2>1 DEF Solves
  <2>4. h[k] \subseteq g[k]
    <3>1. Joined(quads, h[k - 1], T[k]) \subseteq Joined(more, g[k - 1], T[k])
      BY <1>5, <2>2, Zenon
    <3>2. QED
      BY <3>1, <2>3, Zenon
  <2>5. QED
    BY <1>8, <2>4
<1>11. QED
  BY <1>9, <1>10

LEMMA AskedGrows ==
  ASSUME NEW q \in DOMAIN SPARQL, NEW quads, NEW more, quads \subseteq more
  PROVE  Asked(q, quads) \subseteq Asked(q, more)
<1>1. \A sel \in SPARQL[q] : Solutions(quads, sel.patterns) \subseteq Solutions(more, sel.patterns)
  BY TextsAreSized, SolutionsGrow
<1>2. QED
  BY <1>1 DEF Asked
------------------------------------------------------------------------------
(***************************************************************************)
(* The queries with a loop.  V are the visible quads, on and uris the      *)
(* trigger and its filter, N the contexts named so far.                    *)
(***************************************************************************)

\* What the items of the loops are: of q05, w05 and q06, q08, and the second loop
\* of q07, whose places are of a pair of actors.
LinkedTo(W, w, p, l) == \E a, j : In(W, a, j, KM(w)) /\ In(W, a, KM(p), l)
Pair(V, on, uris, p, o, e, d, i) ==
  /\ i.b \in KEY_ID /\ i.c \in KEY_ID
  /\ on => i.prov \subseteq uris
  /\ In(Within(V, i.prov), i.c, KM(p), KM(o)) /\ In(Within(V, i.prov), i.b, KM(e), KM(d))
NameHeld(V, p, o, i) ==
  /\ i[1] \in KEY_ID /\ i[2] \in KEY_ID
  /\ \E b, j : In(V, b, KM(p), KM(o)) /\ In(V, b, j, i[1])
Wed(W, r, o, e, p, c, a, b) ==
  /\ In(W, a, KM(r), KM(o)) /\ In(W, a, KM(e), b) /\ In(W, a, KM(p), c)
  /\ In(W, b, KM(p), c) /\ In(W, b, KM(r), KM(o))
Couple(W, r, o, e, p, i) == \E c, a, b : i = <<c, a, b>> /\ Wed(W, r, o, e, p, c, a, b)

Item(q, V, on, uris, N, i) ==
  /\ q = "q05" => LinkedTo(V, "Barack Obama", "placeOfBirth", i)
  /\ q = "q06" => i.a \in KEY_ID /\ Pair(V, on, uris, "profession", "Veterinarian", "inCountry", "US", i)
  /\ q = "w05" => Pair(V, on, uris, "has_container", "announcements", "foaf:name", "Anonymous", i)
  /\ q = "q08" => NameHeld(V, "subject", "Blackwater", i)
  /\ q = "q07" => Couple(Within(V, N), "wikilink", "actor", "spouse", "placeOfBirth", i)

\* What a turn of the loop on an item shows.
Sited(V, l, v, u, t) == \E x, y : In(V, l, KM(v), x) /\ In(V, l, KM(u), y) /\ t = <<l, x, y>>
Relates(V, x, v, c, u, b, r, t) ==
  \E s, k : /\ x # 0 => s = x
            /\ In(V, s, KM(v), c) /\ In(V, s, KM(u), b) /\ In(V, s, KM(r), k) /\ t = <<k>>
Dated(V, i, e, v, t) ==
  /\ i[2] \in Politicians
  /\ \E y : In(V, i[2], KM(e), i[1]) /\ In(V, i[2], KM(v), y) /\ t = <<y>>
Placed(V, i, h, v, u, t) ==
  \E c, a, b, c2, x, y :
    /\ i = <<c, a, b>> /\ In(V, c, KM(h), c2) /\ In(V, c2, KM(v), x) /\ In(V, c2, KM(u), y)
    /\ t = <<a, b, x, y>>

Gives(q, V, i, t) ==
  \/ q = "q05" /\ Sited(V, i, "lat", "long", t)
  \/ q = "q06" /\ Relates(V, i.a, "senators", i.c, "sameAs", i.b, "name", t)
  \/ q = "w05" /\ Relates(V, 0, "reply_of", i.c, "has_creator", i.b, "date", t)
  \/ q = "q08" /\ Dated(V, i, "foaf:name", "years", t)
  \/ q = "q07" /\ Placed(V, i, "sameAs", "lat", "long", t)

\* What is shown so far is explained by what is named so far.
Sound(q, V, on, uris, A, N) ==
  /\ on => N \subseteq uris
  /\ A \subseteq Asked(q, Within(V, N))

\* And what is not shown yet comes with an item that is still to do.
Open(q, V, on, uris, T, A, N) ==
  /\ Sound(q, V, on, uris, A, N)
  /\ \A i \in T : Item(q, V, on, uris, N, i)
  /\ \A t \in Asked(q, V) : t \in A \/ \E i \in T : Gives(q, V, i, t)

\* What a turn on i adds: S to what is shown and C to what is named.
Adds(q, V, on, uris, N, i, S, C) ==
  /\ on => C \subseteq uris
  /\ S \subseteq Asked(q, Within(V, N \union C))
  /\ \A t : Gives(q, V, i, t) => t \in S

LEMMA InGrows ==
  ASSUME NEW V, NEW W, V \subseteq W, NEW s, NEW p, NEW o, In(V, s, p, o)
  PROVE  In(W, s, p, o)
BY DEF In

LEMMA ItemGrows ==
  ASSUME NEW q, NEW V, NEW on, NEW uris, NEW N, NEW M, N \subseteq M, NEW i,
         Item(q, V, on, uris, N, i)
  PROVE  Item(q, V, on, uris, M, i)
<1>1. Within(V, N) \subseteq Within(V, M)
  BY DEF Within
<1>2. ASSUME NEW W, NEW X, W \subseteq X, NEW r, NEW o, NEW e, NEW p, Couple(W, r, o, e, p, i)
      PROVE  Couple(X, r, o, e, p, i)
  <2>1. \A s, y, z : In(W, s, y, z) => In(X, s, y, z)
    BY <1>2, InGrows
  <2>2. \A c, a, b : Wed(W, r, o, e, p, c, a, b) => Wed(X, r, o, e, p, c, a, b)
    BY <2>1, Zenon DEF Wed
  <2>3. QED
    BY <1>2, <2>2, Zenon DEF Couple
<1>3. QED
  BY <1>1, <1>2, Zenon DEF Item

\* A turn keeps the loop open.
LEMMA TurnKeepsOpen ==
  ASSUME NEW q \in DOMAIN SPARQL, NEW V, NEW on, NEW uris, NEW T, NEW A, NEW N,
         Open(q, V, on, uris, T, A, N), NEW i \in T, NEW S, NEW C,
         Adds(q, V, on, uris, N, i, S, C), NEW B, NEW M,
         (B = A \union S /\ M = N \union C) \/ (S = {} /\ B = A /\ M = N)
  PROVE  Open(q, V, on, uris, T \ {i}, B, M)
<1>1. N \subseteq M /\ A \subseteq B /\ S \subseteq B
  OBVIOUS
<1>2. \A j \in T \ {i} : Item(q, V, on, uris, M, j)
  BY <1>1, ItemGrows DEF Open
<1>3. on => M \subseteq uris
  BY DEF Open, Sound, Adds
<1>4. B \subseteq Asked(q, Within(V, M))
  <2>1. Within(V, N) \subseteq Within(V, M)
    BY <1>1 DEF Within
  <2>2. Asked(q, Within(V, N)) \subseteq Asked(q, Within(V, M))
    BY <2>1, AskedGrows
  <2>3. A \subseteq Asked(q, Within(V, M))
    BY <2>2 DEF Open, Sound
  <2>4. S \subseteq Asked(q, Within(V, M))
    BY DEF Adds
  <2>5. QED
    BY <2>3, <2>4
<1>5. \A t \in Asked(q, V) : t \in B \/ \E j \in T \ {i} : Gives(q, V, j, t)
  BY <1>1 DEF Open, Adds
<1>6. QED
  BY <1>2, <1>3, <1>4, <1>5 DEF Open, Sound

\* With nothing to do all is shown.
LEMMA OpenCloses ==
  ASSUME NEW q, NEW V, NEW on, NEW uris, NEW A, NEW N, Open(q, V, on, uris, {}, A, N)
  PROVE  Sound(q, V, on, uris, A, N) /\ Asked(q, V) \subseteq A
BY DEF Open
------------------------------------------------------------------------------
(***************************************************************************)
(* q05.                                                                    *)
(***************************************************************************)

\* Its items are the values of the first rows.
LEMMA LocatingItems ==
  ASSUME Ready, NEW w, NEW p, NEW rows, rows = Triples(<<Mentions(KM(w))>>, <<Wanted(p)>>)
  PROVE  /\ \A l : l \in ValuesOf(rows) <=> LinkedTo(Visible, w, p, l)
         /\ \A N, l : ContextsOf(rows) \subseteq N /\ l \in ValuesOf(rows)
                        => LinkedTo(Within(Visible, N), w, p, l)
         /\ ProvTrigerON => ContextsOf(rows) \subseteq ProvUris
<1>1. PICK c, d : c = Mentions(KM(w)) /\ d = Wanted(p)
  OBVIOUS
<1>2. KM(w) # Wild
  BY WordType
<1>3. Looks(c, d)
  BY <1>1, <1>2 DEF Looks, Mentions, Wanted, Says
<1>4. /\ \A W, s : Meets(W, s, c) <=> \E j : In(W, s, j, KM(w))
      /\ \A W, s, k : Finds(W, s, d, k) <=> In(W, s, KM(p), k)
  BY <1>1, <1>2, MeetsMentions, FindsSays DEF Wanted
<1>5. /\ \A k : k \in ValuesOf(rows)
                  <=> \E s : s \in KEY_ID /\ Meets(Visible, s, c) /\ Finds(Visible, s, d, k)
      /\ \A N, k : ContextsOf(rows) \subseteq N /\ k \in ValuesOf(rows) =>
           \E s : /\ s \in KEY_ID
                  /\ Meets(Within(Visible, N), s, c) /\ Finds(Within(Visible, N), s, d, k)
      /\ ProvTrigerON => ContextsOf(rows) \subseteq ProvUris
  BY <1>1, <1>3, ValuesFound
<1>6. \A s, y, k : In(Visible, s, y, k) => s \in KEY_ID
  BY VisibleIsSeen, InTyped DEF Ready
<1>7. QED
  BY <1>4, <1>5, <1>6 DEF LinkedTo

\* A row shown after a value.
LEMMA FollowingOne ==
  ASSUME NEW l, NEW rows, NEW t
  PROVE  t \in Following(<<l>>, rows) <=> \E z \in ShownRows(rows) : t = Ahead(l, z)
BY Zenon DEF Following, Ahead

\* What a turn adds, for some query.
Brings(q, N, C, S) ==
  /\ ProvTrigerON => C \subseteq ProvUris
  /\ S \subseteq Asked(q, Within(Visible, N \union C))

LEMMA LocatingAsks ==
  ASSUME NEW q, NEW w, NEW p, NEW v, NEW u, IsLocating(q, w, p, v, u), NEW W, NEW l, NEW z,
         LinkedTo(W, w, p, l), IsRow(z, 2), In(W, l, KM(v), z[1]), In(W, l, KM(u), z[2])
  PROVE  Ahead(l, z) \in Asked(q, W)
<1>1. PICK t, x, y : t = Ahead(l, z) /\ x = z[1] /\ y = z[2]
  OBVIOUS
<1>2. t = <<l, x, y>>
  BY <1>1, LeadingValue
<1>3. PICK a, j : In(W, a, j, KM(w)) /\ In(W, a, KM(p), l)
  BY DEF LinkedTo
<1>4. In(W, l, KM(v), x) /\ In(W, l, KM(u), y)
  BY <1>1
<1>5. t \in Asked(q, W)
  BY <1>2, <1>3, <1>4, TextLocating
<1>6. QED
  BY <1>1, <1>5

LEMMA LocatingTurn ==
  ASSUME Ready, NEW q, NEW w, NEW p, NEW v, NEW u, IsLocating(q, w, p, v, u),
         NEW first, first = Triples(<<Mentions(KM(w))>>, <<Wanted(p)>>),
         NEW l, LinkedTo(Visible, w, p, l),
         NEW rows, rows = Triples(<<Says(l, v, Wild), Says(l, u, Wild)>>, <<Says(l, v, 0), Says(l, u, 0)>>),
         NEW S, S = Following(<<l>>, rows), NEW N
  PROVE  /\ Brings(q, N, ContextsOf(first) \union ContextsOf(rows), S)
         /\ \A t : Sited(Visible, l, v, u, t) => t \in S
<1>1. l \in KEY_ID
  BY VisibleIsSeen, InTyped DEF Ready, LinkedTo
<1>2. Locates(rows, l, v, u)
  BY <1>1, LocatedTwice
<1>3. PICK C, M : C = ContextsOf(first) \union ContextsOf(rows) /\ M = N \union C
  OBVIOUS
<1>4. /\ LinkedTo(Within(Visible, M), w, p, l)
      /\ ProvTrigerON => ContextsOf(first) \subseteq ProvUris
  <2>1. ContextsOf(first) \subseteq M
    BY <1>3
  <2>2. QED
    BY <2>1, LocatingItems
<1>5. ProvTrigerON => C \subseteq ProvUris
  BY <1>2, <1>3, <1>4 DEF Locates
<1>6. \A t : t \in S <=> \E z \in ShownRows(rows) : t = Ahead(l, z)
  BY FollowingOne
<1>7. ASSUME NEW z \in ShownRows(rows)
      PROVE  Ahead(l, z) \in Asked(q, Within(Visible, M))
  <2>1. ContextsOf(rows) \subseteq M
    BY <1>3
  <2>2. /\ IsRow(z, 2)
        /\ In(Within(Visible, M), l, KM(v), z[1]) /\ In(Within(Visible, M), l, KM(u), z[2])
    BY <1>2, <2>1, Zenon DEF Locates
  <2>3. QED
    <3>1. PICK W : W = Within(Visible, M)
      OBVIOUS
    <3>2. LinkedTo(W, w, p, l) /\ IsRow(z, 2) /\ In(W, l, KM(v), z[1]) /\ In(W, l, KM(u), z[2])
      BY <1>4, <2>2, <3>1, Zenon
    <3>3. Ahead(l, z) \in Asked(q, W)
      BY <3>2, LocatingAsks
    <3>4. QED
      BY <3>1, <3>3
<1>8. Brings(q, N, C, S)
  <2>1. S \subseteq Asked(q, Within(Visible, M))
    BY <1>6, <1>7, Zenon
  <2>2. M = N \union C
    BY <1>3
  <2>3. QED
    BY <1>5, <2>1, <2>2, Zenon DEF Brings
<1>9. ASSUME NEW t, Sited(Visible, l, v, u, t) PROVE t \in S
  <2>1. PICK x, y : In(Visible, l, KM(v), x) /\ In(Visible, l, KM(u), y) /\ t = <<l, x, y>>
    BY <1>9 DEF Sited
  <2>2. PICK z : z = <<x, y>>
    OBVIOUS
  <2>3. z[1] = x /\ z[2] = y
    BY <2>2
  <2>4. IsRow(z, 2)
    BY <2>2, <2>3, RowOfTwo, Zenon
  <2>5. z \in ShownRows(rows)
    BY <1>2, <2>1, <2>3, <2>4, Zenon DEF Locates
  <2>6. t = Ahead(l, z)
    BY <2>1, <2>3, <2>4, LeadingValue, Zenon
  <2>7. QED
    BY <1>6, <2>5, <2>6, Zenon
<1>10. QED
  BY <1>3, <1>8, <1>9, Zenon

LEMMA LocatingCovers ==
  ASSUME NEW q, NEW w, NEW p, NEW v, NEW u, IsLocating(q, w, p, v, u), NEW V, NEW t \in Asked(q, V)
  PROVE  \E l : LinkedTo(V, w, p, l) /\ Sited(V, l, v, u, t)
<1>1. PICK a, j, l, x, y :
        /\ In(V, a, j, KM(w)) /\ In(V, a, KM(p), l) /\ In(V, l, KM(v), x)
        /\ In(V, l, KM(u), y)
        /\ t = <<l, x, y>>
  BY TextLocating
<1>2. QED
  BY <1>1 DEF LinkedTo, Sited
------------------------------------------------------------------------------
(***************************************************************************)
(* q06 and w05.                                                            *)
(***************************************************************************)

\* A multimap has the subjects, each with one of its contexts.
LEMMA MultimapOf ==
  ASSUME Ready, NEW o, NEW p, NEW f \in Multimaps(o, p)
  PROVE  /\ \A s : s \in DOMAIN f <=> In(Visible, s, KM(p), KM(o))
         /\ \A s \in DOMAIN f : f[s] \in Contexts(Visible, s, KM(p), KM(o))
<1>1. PICK provs : provs = [s \in Subjects(o, p) |-> SubjectProv(s, KM(o), KM(p), ProvTrigerON, ProvUris)]
  OBVIOUS
<1>2. f \in [DOMAIN provs -> UNION Range(provs)] /\ \A s \in DOMAIN provs : f[s] \in provs[s]
  BY <1>1, Zenon DEF Multimaps, GetSubjectsMultimaps, Subjects
<1>3. DOMAIN f = Subjects(o, p)
  BY <1>1, <1>2
<1>4. \A s : s \in DOMAIN f <=> In(Visible, s, KM(p), KM(o))
  BY <1>3, SubjectsIn
<1>5. ASSUME NEW s \in DOMAIN f PROVE f[s] \in Contexts(Visible, s, KM(p), KM(o))
  <2>1. s \in KEY_ID
    BY <1>4, VisibleIsSeen, InTyped DEF Ready
  <2>2. SubjectProv(s, KM(o), KM(p), ProvTrigerON, ProvUris) = Contexts(Visible, s, KM(p), KM(o))
    BY <2>1, SaysSoQuads, WordType
  <2>3. QED
    BY <1>1, <1>2, <1>3, <2>2
<1>6. QED
  BY <1>4, <1>5

\* The two contexts are enough to find the two subjects again.
LEMMA PairOf ==
  ASSUME Ready, NEW p, NEW o, NEW e, NEW d,
         NEW f \in Multimaps(o, p), NEW g \in Multimaps(d, e),
         NEW c \in DOMAIN f, NEW b \in DOMAIN g, NEW i,
         i.b = b, i.c = c, i.prov = {g[b], f[c]}
  PROVE  Pair(Visible, ProvTrigerON, ProvUris, p, o, e, d, i)
<1>1. f[c] \in Contexts(Visible, c, KM(p), KM(o)) /\ g[b] \in Contexts(Visible, b, KM(e), KM(d))
  BY MultimapOf
<1>2. In(Visible, c, KM(p), KM(o)) /\ In(Visible, b, KM(e), KM(d))
  BY MultimapOf
<1>3. c \in KEY_ID /\ b \in KEY_ID
  BY <1>2, VisibleIsSeen, InTyped DEF Ready
<1>4. ProvTrigerON => f[c] \in ProvUris /\ g[b] \in ProvUris
  BY <1>1, <1>3, WordType, SaysSoQuads
<1>5. /\ In(Within(Visible, i.prov), c, KM(p), KM(o))
      /\ In(Within(Visible, i.prov), b, KM(e), KM(d))
  <2>1. f[c] \in i.prov /\ g[b] \in i.prov
    OBVIOUS
  <2>2. QED
    BY <1>1, <2>1, InContexts
<1>6. ProvTrigerON => i.prov \subseteq ProvUris
  BY <1>4
<1>7. QED
  BY <1>3, <1>5, <1>6, Zenon DEF Pair

LEMMA JoiningAsks ==
  ASSUME NEW q, NEW p, NEW o, NEW e, NEW d, NEW v, NEW u, NEW r,
         IsJoining(q, p, o, e, d, v, u, r), NEW W, NEW c, NEW b, NEW a, NEW z,
         In(W, c, KM(p), KM(o)), In(W, b, KM(e), KM(d)),
         In(W, a, KM(v), c), In(W, a, KM(u), b), IsRow(z, 1), In(W, a, KM(r), z[1])
  PROVE  z \in Asked(q, W)
<1>1. PICK k : k = z[1]
  OBVIOUS
<1>2. z = <<k>>
  BY <1>1, RowOfOne
<1>3. In(W, a, KM(r), k)
  BY <1>1
<1>4. QED
  BY <1>2, <1>3, TextJoining

LEMMA JoiningTurn ==
  ASSUME Ready, NEW q, NEW p, NEW o, NEW e, NEW d, NEW v, NEW u, NEW r,
         IsJoining(q, p, o, e, d, v, u, r),
         NEW i, Pair(Visible, ProvTrigerON, ProvUris, p, o, e, d, i), NEW x \in KEY_ID \union {0},
         NEW rows, rows = Triples(<<Says(x, v, i.c), Says(x, u, i.b)>>, <<Wanted(r)>>), NEW N
  PROVE  /\ Brings(q, N, i.prov \union ContextsOf(rows), ShownRows(rows))
         /\ \A t : Relates(Visible, x, v, i.c, u, i.b, r, t) => t \in ShownRows(rows)
<1>1. PICK b, c, P : b = i.b /\ c = i.c /\ P = i.prov
  OBVIOUS
<1>2. /\ b \in KEY_ID /\ c \in KEY_ID
      /\ ProvTrigerON => P \subseteq ProvUris
      /\ In(Within(Visible, P), c, KM(p), KM(o)) /\ In(Within(Visible, P), b, KM(e), KM(d))
  BY <1>1, Zenon DEF Pair
<1>3. rows = Triples(<<Says(x, v, c), Says(x, u, b)>>, <<Wanted(r)>>)
  BY <1>1, Zenon
<1>4. Related(rows, x, v, c, u, b, r)
  BY <1>2, <1>3, RelatedRows
<1>5. PICK C, M, W : C = P \union ContextsOf(rows) /\ M = N \union C /\ W = Within(Visible, M)
  OBVIOUS
<1>6. ProvTrigerON => C \subseteq ProvUris
  BY <1>2, <1>4, <1>5 DEF Related
<1>7. In(W, c, KM(p), KM(o)) /\ In(W, b, KM(e), KM(d))
  <2>1. Within(Visible, P) \subseteq W
    BY <1>5 DEF Within
  <2>2. QED
    BY <1>2, <2>1, InGrows
<1>8. ASSUME NEW z \in ShownRows(rows) PROVE z \in Asked(q, W)
  <2>1. ContextsOf(rows) \subseteq M
    BY <1>5
  <2>2. PICK s : /\ IsRow(z, 1)
                 /\ In(W, s, KM(v), c) /\ In(W, s, KM(u), b) /\ In(W, s, KM(r), z[1])
    BY <1>4, <1>5, <2>1, Zenon DEF Related
  <2>3. QED
    BY <1>7, <2>2, JoiningAsks
<1>9. Brings(q, N, C, ShownRows(rows))
  <2>1. ShownRows(rows) \subseteq Asked(q, W)
    BY <1>8, Zenon
  <2>2. W = Within(Visible, N \union C)
    BY <1>5
  <2>3. QED
    BY <1>6, <2>1, <2>2, Zenon DEF Brings
<1>10. ASSUME NEW t, Relates(Visible, x, v, c, u, b, r, t) PROVE t \in ShownRows(rows)
  <2>1. PICK s, k : /\ x # 0 => s = x
                    /\ In(Visible, s, KM(v), c) /\ In(Visible, s, KM(u), b)
                    /\ In(Visible, s, KM(r), k) /\ t = <<k>>
    BY <1>10 DEF Relates
  <2>2. t[1] = k
    BY <2>1
  <2>3. IsRow(t, 1)
    BY <2>1, <2>2, RowOfOne
  <2>4. QED
    BY <1>4, <2>1, <2>2, <2>3, Zenon DEF Related
<1>11. QED
  BY <1>1, <1>5, <1>9, <1>10, Zenon

\* A solution of the text names the two subjects of a pair, and what relates them.
LEMMA JoiningCovers ==
  ASSUME NEW q, NEW p, NEW o, NEW e, NEW d, NEW v, NEW u, NEW r,
         IsJoining(q, p, o, e, d, v, u, r), NEW V, NEW t \in Asked(q, V)
  PROVE  \E a, b, c : /\ In(V, c, KM(p), KM(o)) /\ In(V, b, KM(e), KM(d))
                      /\ In(V, a, KM(v), c) /\ In(V, a, KM(u), b)
                      /\ Relates(V, a, v, c, u, b, r, t) /\ Relates(V, 0, v, c, u, b, r, t)
<1>1. PICK a, b, c, k :
        /\ In(V, c, KM(p), KM(o)) /\ In(V, b, KM(e), KM(d))
        /\ In(V, a, KM(v), c) /\ In(V, a, KM(u), b)
        /\ In(V, a, KM(r), k)
        /\ t = <<k>>
  BY TextJoining
<1>2. QED
  BY <1>1 DEF Relates
------------------------------------------------------------------------------


\* The items of q06.
LEMMA Joined3Is ==
  ASSUME NEW f, NEW g, NEW i
  PROVE  i \in Joined3(f, g) <=>
           \E b \in DOMAIN f, c \in DOMAIN g : \E a \in inv_molecules[b] \intersect inv_molecules[c] :
             i = Triple(f, g, a, b, c)
<1>1. \A b, c : i \in TriplesOf(f, g, b, c)
                 <=> \E a \in inv_molecules[b] \intersect inv_molecules[c] : i = Triple(f, g, a, b, c)
  BY DEF TriplesOf
<1>2. i \in Joined3(f, g) <=> \E b \in DOMAIN f, c \in DOMAIN g : i \in TriplesOf(f, g, b, c)
  BY DEF Joined3
<1>3. QED
  BY <1>1, <1>2


\* All of them are pairs, and every solution of the text has its item.
LEMMA Joining3Items ==
  ASSUME Ready, NEW q, NEW p, NEW o, NEW e, NEW d, NEW v, NEW u, NEW r,
         IsJoining(q, p, o, e, d, v, u, r),
         NEW f \in Multimaps(d, e), NEW g \in Multimaps(o, p)
  PROVE  /\ \A i \in Joined3(f, g) :
              i.a \in KEY_ID /\ Pair(Visible, ProvTrigerON, ProvUris, p, o, e, d, i)
         /\ \A t \in Asked(q, Visible) : \E i \in Joined3(f, g) :
              Relates(Visible, i.a, v, i.c, u, i.b, r, t)
<1>1. /\ \A s : s \in DOMAIN f <=> In(Visible, s, KM(e), KM(d))
      /\ \A s : s \in DOMAIN g <=> In(Visible, s, KM(p), KM(o))
  BY MultimapOf
<1>2. \A s, y, k : In(Visible, s, y, k) =>
        s \in KEY_ID /\ k \in KEY_ID /\ s \in inv_molecules[k]
  BY VisibleIsSeen, InTyped, SubjectsAreFound DEF Ready, In, GetMoleculesFromInvertedIdx
<1>3. ASSUME NEW i \in Joined3(f, g)
      PROVE  i.a \in KEY_ID /\ Pair(Visible, ProvTrigerON, ProvUris, p, o, e, d, i)
  <2>1. PICK b \in DOMAIN f, c \in DOMAIN g : \E a \in inv_molecules[b] \intersect inv_molecules[c] :
             i = Triple(f, g, a, b, c)
    BY Joined3Is
  <2>2. PICK a \in inv_molecules[b] : i = Triple(f, g, a, b, c)
    BY <2>1
  <2>3. i.a = a /\ i.b = b /\ i.c = c /\ i.prov = {f[b], g[c]}
    BY <2>2 DEF Triple
  <2>4. b \in KEY_ID
    BY <1>1, <1>2
  <2>5. a \in KEY_ID
    BY <2>2, <2>4 DEF Ready, StoreInv, LoadInv, TypeOK
  <2>6. QED
    BY <2>3, <2>5, PairOf
<1>4. ASSUME NEW t \in Asked(q, Visible)
      PROVE  \E i \in Joined3(f, g) : Relates(Visible, i.a, v, i.c, u, i.b, r, t)
  <2>1. PICK a, b, c : /\ In(Visible, c, KM(p), KM(o)) /\ In(Visible, b, KM(e), KM(d))
                       /\ In(Visible, a, KM(v), c) /\ In(Visible, a, KM(u), b)
                       /\ Relates(Visible, a, v, c, u, b, r, t)
    BY JoiningCovers
  <2>2. b \in DOMAIN f /\ c \in DOMAIN g /\ a \in inv_molecules[b] \intersect inv_molecules[c]
    BY <1>1, <1>2, <2>1
  <2>3. PICK i : i = Triple(f, g, a, b, c)
    OBVIOUS
  <2>4. i \in Joined3(f, g)
    BY <2>2, <2>3, Joined3Is
  <2>5. i.a = a /\ i.b = b /\ i.c = c
    BY <2>3 DEF Triple
  <2>6. QED
    BY <2>1, <2>4, <2>5, Zenon
<1>5. QED
  BY <1>3, <1>4

LEMMA Joining2Items ==
  ASSUME Ready, NEW q, NEW p, NEW o, NEW e, NEW d, NEW v, NEW u, NEW r,
         IsJoining(q, p, o, e, d, v, u, r),
         NEW f \in Multimaps(d, e), NEW g \in Multimaps(o, p)
  PROVE  /\ \A i \in Joined2(f, g) : Pair(Visible, ProvTrigerON, ProvUris, p, o, e, d, i)
         /\ \A t \in Asked(q, Visible) : \E i \in Joined2(f, g) :
              Relates(Visible, 0, v, i.c, u, i.b, r, t)
<1>1. /\ \A s : s \in DOMAIN f <=> In(Visible, s, KM(e), KM(d))
      /\ \A s : s \in DOMAIN g <=> In(Visible, s, KM(p), KM(o))
  BY MultimapOf
<1>2. ASSUME NEW i \in Joined2(f, g)
      PROVE  Pair(Visible, ProvTrigerON, ProvUris, p, o, e, d, i)
  <2>1. PICK b \in DOMAIN f, c \in DOMAIN g : i = Double(f, g, b, c)
    BY DEF Joined2
  <2>2. i.b = b /\ i.c = c /\ i.prov = {f[b], g[c]}
    BY <2>1 DEF Double
  <2>3. QED
    BY <2>2, PairOf
<1>3. ASSUME NEW t \in Asked(q, Visible)
      PROVE  \E i \in Joined2(f, g) : Relates(Visible, 0, v, i.c, u, i.b, r, t)
  <2>1. PICK a, b, c : /\ In(Visible, c, KM(p), KM(o)) /\ In(Visible, b, KM(e), KM(d))
                       /\ Relates(Visible, 0, v, c, u, b, r, t)
    BY JoiningCovers
  <2>2. PICK i : i = Double(f, g, b, c)
    OBVIOUS
  <2>3. i \in Joined2(f, g)
    BY <1>1, <2>1, <2>2 DEF Joined2
  <2>4. i.b = b /\ i.c = c
    BY <2>2 DEF Double
  <2>5. QED
    BY <2>1, <2>3, <2>4, Zenon
<1>4. QED
  BY <1>2, <1>3
------------------------------------------------------------------------------
(***************************************************************************)
(* q08.                                                                    *)
(***************************************************************************)

\* Everything said of what is about the word.
LEMMA MentionedValues ==
  ASSUME Ready, NEW p, NEW o, NEW rows, rows = Triples(<<Has(p, o)>>, <<Mentions(0)>>)
  PROVE  /\ \A k : k \in ValuesOf(rows)
                     <=> \E b, j : In(Visible, b, KM(p), KM(o)) /\ In(Visible, b, j, k)
         /\ \A N, k : ContextsOf(rows) \subseteq N /\ k \in ValuesOf(rows) =>
              \E b, j : In(Within(Visible, N), b, KM(p), KM(o)) /\ In(Within(Visible, N), b, j, k)
         /\ ProvTrigerON => ContextsOf(rows) \subseteq ProvUris
<1>1. PICK c, d : c = Has(p, o) /\ d = Mentions(0)
  OBVIOUS
<1>2. KM(o) # Wild
  BY WordType
<1>3. Looks(c, d)
  BY <1>1, <1>2 DEF Looks, Has, Mentions
<1>4. /\ \A W, s : Meets(W, s, c) <=> In(W, s, KM(p), KM(o))
      /\ \A W, s, k : Finds(W, s, d, k) <=> \E j : In(W, s, j, k)
  <2>1. d.predicate = Wild
    BY <1>1 DEF Mentions
  <2>2. \A W, s : Meets(W, s, c) <=> In(W, s, KM(p), KM(o))
    BY <1>1, MeetsHas
  <2>3. \A W, s, k : Finds(W, s, d, k) <=> \E j : In(W, s, j, k)
    BY <2>1 DEF Finds, In
  <2>4. QED
    BY <2>2, <2>3
<1>5. /\ \A k : k \in ValuesOf(rows)
                  <=> \E s : s \in KEY_ID /\ Meets(Visible, s, c) /\ Finds(Visible, s, d, k)
      /\ \A N, k : ContextsOf(rows) \subseteq N /\ k \in ValuesOf(rows) =>
           \E s : /\ s \in KEY_ID
                  /\ Meets(Within(Visible, N), s, c) /\ Finds(Within(Visible, N), s, d, k)
      /\ ProvTrigerON => ContextsOf(rows) \subseteq ProvUris
  BY <1>1, <1>3, ValuesFound
<1>6. \A s, y, k : In(Visible, s, y, k) => s \in KEY_ID
  BY VisibleIsSeen, InTyped DEF Ready
<1>7. QED
  BY <1>4, <1>5, <1>6

\* Its items: a value, and a subject of it.
NamesIn(values) == {i \in values \X KEY_ID : i[2] \in inv_molecules[i[1]]}

LEMMA NamingItems ==
  ASSUME Ready, NEW q, NEW p, NEW o, NEW e, NEW v, IsNaming(q, p, o, e, v),
         NEW rows, rows = Triples(<<Has(p, o)>>, <<Mentions(0)>>)
  PROVE  /\ \A i \in NamesIn(ValuesOf(rows)) : NameHeld(Visible, p, o, i)
         /\ \A t \in Asked(q, Visible) :
              \E i \in NamesIn(ValuesOf(rows)) : Dated(Visible, i, e, v, t)
<1>1. \A k : k \in ValuesOf(rows)
               <=> \E b, j : In(Visible, b, KM(p), KM(o)) /\ In(Visible, b, j, k)
  BY MentionedValues
<1>2. \A s, y, k : In(Visible, s, y, k) =>
        s \in KEY_ID /\ k \in KEY_ID /\ s \in inv_molecules[k]
  BY VisibleIsSeen, InTyped, SubjectsAreFound DEF Ready, In, GetMoleculesFromInvertedIdx
<1>3. ASSUME NEW i \in NamesIn(ValuesOf(rows)) PROVE NameHeld(Visible, p, o, i)
  <2>1. i[1] \in ValuesOf(rows) /\ i[2] \in KEY_ID
    BY DEF NamesIn
  <2>2. QED
    BY <1>1, <1>2, <2>1 DEF NameHeld
<1>4. ASSUME NEW t \in Asked(q, Visible)
      PROVE  \E i \in NamesIn(ValuesOf(rows)) : Dated(Visible, i, e, v, t)
  <2>1. PICK b, j, n, a, y :
          /\ In(Visible, b, KM(p), KM(o)) /\ In(Visible, b, j, n) /\ In(Visible, a, KM(e), n)
          /\ In(Visible, a, KM(v), y) /\ a \in Politicians
          /\ t = <<y>>
    BY TextNaming
  <2>2. n \in ValuesOf(rows) /\ a \in KEY_ID /\ a \in inv_molecules[n]
    BY <1>1, <1>2, <2>1
  <2>3. PICK i : i = <<n, a>>
    OBVIOUS
  <2>4. i[1] = n /\ i[2] = a /\ i \in ValuesOf(rows) \X KEY_ID
    BY <2>2, <2>3
  <2>5. i \in NamesIn(ValuesOf(rows))
    BY <2>2, <2>4 DEF NamesIn
  <2>6. Dated(Visible, i, e, v, t)
    BY <2>1, <2>4 DEF Dated
  <2>7. QED
    BY <2>5, <2>6
<1>5. QED
  BY <1>3, <1>4

LEMMA NamingAsks ==
  ASSUME NEW q, NEW p, NEW o, NEW e, NEW v, IsNaming(q, p, o, e, v), NEW W,
         NEW b, NEW j, NEW n, NEW a \in Politicians, NEW z,
         In(W, b, KM(p), KM(o)), In(W, b, j, n), In(W, a, KM(e), n),
         IsRow(z, 1), In(W, a, KM(v), z[1])
  PROVE  z \in Asked(q, W)
<1>1. PICK y : y = z[1]
  OBVIOUS
<1>2. z = <<y>>
  BY <1>1, RowOfOne
<1>3. In(W, a, KM(v), y)
  BY <1>1
<1>4. QED
  BY <1>2, <1>3, TextNaming

LEMMA NamingTurn ==
  ASSUME Ready, NEW q, NEW p, NEW o, NEW e, NEW v, IsNaming(q, p, o, e, v),
         NEW first, first = Triples(<<Has(p, o)>>, <<Mentions(0)>>),
         NEW i, NameHeld(Visible, p, o, i), i[2] \in Politicians,
         NEW rows, rows = Triples(<<Says(i[2], e, i[1])>>, <<Wanted(v)>>), NEW N
  PROVE  /\ Brings(q, N, ContextsOf(first) \union ContextsOf(rows), ShownRows(rows))
         /\ \A t : Dated(Visible, i, e, v, t) => t \in ShownRows(rows)
<1>1. PICK n, a : n = i[1] /\ a = i[2]
  OBVIOUS
<1>2. /\ n \in KEY_ID /\ a \in KEY_ID /\ a \in Politicians
      /\ \E b, j : In(Visible, b, KM(p), KM(o)) /\ In(Visible, b, j, n)
  BY <1>1, Zenon DEF NameHeld
<1>3. rows = Triples(<<Says(a, e, n)>>, <<Wanted(v)>>)
  BY <1>1, Zenon
<1>4. Valued(rows, a, e, n, v)
  BY <1>2, <1>3, ValuedRows
<1>5. PICK C, M, W : /\ C = ContextsOf(first) \union ContextsOf(rows)
                     /\ M = N \union C /\ W = Within(Visible, M)
  OBVIOUS
<1>6. /\ n \in ValuesOf(first)
      /\ ProvTrigerON => ContextsOf(first) \subseteq ProvUris
  BY <1>2, MentionedValues
<1>7. PICK b, j : In(W, b, KM(p), KM(o)) /\ In(W, b, j, n)
  <2>1. ContextsOf(first) \subseteq M
    BY <1>5
  <2>2. QED
    BY <1>5, <1>6, <2>1, MentionedValues
<1>8. ProvTrigerON => C \subseteq ProvUris
  BY <1>4, <1>5, <1>6 DEF Valued
<1>9. ASSUME NEW z \in ShownRows(rows) PROVE z \in Asked(q, W)
  <2>1. ContextsOf(rows) \subseteq M
    BY <1>5
  <2>2. IsRow(z, 1) /\ In(W, a, KM(e), n) /\ In(W, a, KM(v), z[1])
    BY <1>4, <1>5, <2>1, Zenon DEF Valued
  <2>3. QED
    BY <1>2, <1>7, <2>2, NamingAsks
<1>10. Brings(q, N, C, ShownRows(rows))
  <2>1. ShownRows(rows) \subseteq Asked(q, W)
    BY <1>9, Zenon
  <2>2. W = Within(Visible, N \union C)
    BY <1>5
  <2>3. QED
    BY <1>8, <2>1, <2>2, Zenon DEF Brings
<1>11. ASSUME NEW t, Dated(Visible, i, e, v, t) PROVE t \in ShownRows(rows)
  <2>1. PICK y : In(Visible, a, KM(e), n) /\ In(Visible, a, KM(v), y) /\ t = <<y>>
    BY <1>1, <1>11 DEF Dated
  <2>2. t[1] = y
    BY <2>1
  <2>3. IsRow(t, 1)
    BY <2>1, <2>2, RowOfOne
  <2>4. QED
    BY <1>4, <2>1, <2>2, <2>3, Zenon DEF Valued
<1>12. QED
  BY <1>5, <1>10, <1>11, Zenon
------------------------------------------------------------------------------
(***************************************************************************)
(* q07: its first loop finds the places, of pairs of actors.               *)
(***************************************************************************)

\* An item of the first loop: an actor and a spouse.
Spouses(V, r, o, e, i) ==
  \E a, b : /\ i = <<a, b>> /\ a \in KEY_ID /\ b \in KEY_ID
            /\ In(V, a, KM(r), KM(o)) /\ In(V, a, KM(e), b)

\* Every couple is found or its item still to do.
Coupling(V, on, uris, r, o, e, p, T, F, N) ==
  /\ on => N \subseteq uris
  /\ \A j \in F : Couple(Within(V, N), r, o, e, p, j)
  /\ \A i \in T : Spouses(V, r, o, e, i)
  /\ \A c, a, b : Wed(V, r, o, e, p, c, a, b) => <<c, a, b>> \in F \/ <<a, b>> \in T

SpousesIn(r, o, e) ==
  {i \in Subjects(o, r) \X KEY_ID : i[2] \in {x.obj : x \in Objects(i[1], e)}}

LEMMA PairingItems ==
  ASSUME Ready, NEW r, NEW o, NEW e, NEW p
  PROVE  Coupling(Visible, ProvTrigerON, ProvUris, r, o, e, p, SpousesIn(r, o, e), {}, {})
<1>1. \A s : s \in Subjects(o, r) <=> In(Visible, s, KM(r), KM(o))
  BY SubjectsIn
<1>2. \A s, y, k : In(Visible, s, y, k) => s \in KEY_ID /\ k \in KEY_ID
  BY VisibleIsSeen, InTyped DEF Ready
<1>3. \A s \in KEY_ID : \A k : k \in {x.obj : x \in Objects(s, e)} <=> In(Visible, s, KM(e), k)
  BY ObjectsIn
<1>4. ASSUME NEW i \in SpousesIn(r, o, e) PROVE Spouses(Visible, r, o, e, i)
  <2>1. PICK a, b : /\ i = <<a, b>> /\ a \in Subjects(o, r) /\ b \in KEY_ID
                    /\ b \in {x.obj : x \in Objects(a, e)}
    BY DEF SpousesIn
  <2>2. a \in KEY_ID /\ In(Visible, a, KM(r), KM(o)) /\ In(Visible, a, KM(e), b)
    BY <1>1, <1>2, <1>3, <2>1
  <2>3. QED
    BY <2>1, <2>2 DEF Spouses
<1>5. ASSUME NEW c, NEW a, NEW b, Wed(Visible, r, o, e, p, c, a, b)
      PROVE  <<a, b>> \in SpousesIn(r, o, e)
  <2>1. In(Visible, a, KM(r), KM(o)) /\ In(Visible, a, KM(e), b)
    BY <1>5 DEF Wed
  <2>2. a \in Subjects(o, r) /\ b \in KEY_ID /\ b \in {x.obj : x \in Objects(a, e)}
    BY <1>1, <1>2, <1>3, <2>1
  <2>3. PICK i : i = <<a, b>>
    OBVIOUS
  <2>4. i \in Subjects(o, r) \X KEY_ID /\ i[1] = a /\ i[2] = b
    BY <2>2, <2>3
  <2>5. i \in SpousesIn(r, o, e)
    BY <2>2, <2>4 DEF SpousesIn
  <2>6. QED
    BY <2>3, <2>5
<1>6. QED
  BY <1>4, <1>5 DEF Coupling

\* The places both of a pair are from, and the contexts that say so.
Born(b, p, c) == SubjectProv(b, c, KM(p), ProvTrigerON, ProvUris)
Acts(s, r, o) == SubjectProv(s, KM(o), KM(r), ProvTrigerON, ProvUris)
PlacesOf(a, b, r, o, p) ==
  IF GetPair(b) = {} \/ Acts(b, r, o) = {}
    THEN {}
    ELSE {c \in {x.obj : x \in Objects(a, p)} : Born(b, p, c) # {}}
BornThere(b, p, both) == UNION {Born(b, p, c) : c \in both}
SaidBy(a, e, p) == {x.prov : x \in Objects(a, e) \union Objects(a, p)}
PairContexts(a, b, r, o, e, p, both) ==
  Acts(a, r, o) \union Acts(b, r, o) \union BornThere(b, p, both) \union SaidBy(a, e, p)

LEMMA PlacesFound ==
  ASSUME Ready, NEW a \in KEY_ID, NEW b \in KEY_ID, NEW r, NEW o, NEW e, NEW p,
         In(Visible, a, KM(r), KM(o)), In(Visible, a, KM(e), b),
         NEW both, both = PlacesOf(a, b, r, o, p),
         NEW C, C = PairContexts(a, b, r, o, e, p, both)
  PROVE  /\ \A c : Wed(Visible, r, o, e, p, c, a, b) => c \in both
         /\ \A N : C \subseteq N => \A c \in both : Wed(Within(Visible, N), r, o, e, p, c, a, b)
         /\ ProvTrigerON => C \subseteq ProvUris
<1>1. \A s, y, k : In(Visible, s, y, k) => s \in KEY_ID /\ k \in KEY_ID
  BY VisibleIsSeen, InTyped DEF Ready
<1>2. /\ Acts(a, r, o) = Contexts(Visible, a, KM(r), KM(o))
      /\ Acts(b, r, o) = Contexts(Visible, b, KM(r), KM(o))
      /\ ProvTrigerON => Acts(a, r, o) \subseteq ProvUris /\ Acts(b, r, o) \subseteq ProvUris
  <2>1. KM(r) # Wild /\ KM(o) # Wild
    BY WordType
  <2>2. \A s \in KEY_ID : /\ Acts(s, r, o) = Contexts(Visible, s, KM(r), KM(o))
                          /\ ProvTrigerON => Acts(s, r, o) \subseteq ProvUris
    BY <2>1, SaysSoQuads DEF Acts
  <2>3. QED
    BY <2>2
<1>3. \A c \in KEY_ID : /\ Born(b, p, c) = Contexts(Visible, b, KM(p), c)
                        /\ ProvTrigerON => Born(b, p, c) \subseteq ProvUris
  <2>1. \A c \in KEY_ID : c # Wild
    BY KeyAssumption DEF Wild
  <2>2. QED
    BY <2>1, SaysSoQuads, WordType DEF Born
<1>4. \A c : c \in {x.obj : x \in Objects(a, p)} <=> In(Visible, a, KM(p), c)
  BY ObjectsIn
<1>5. \A c : c \in both <=> /\ GetPair(b) # {} /\ Acts(b, r, o) # {}
                            /\ In(Visible, a, KM(p), c) /\ Born(b, p, c) # {}
  BY <1>4 DEF PlacesOf
<1>a. PICK NE, NP, NB : /\ NE = {x.prov : x \in Objects(a, e)} /\ NP = {x.prov : x \in Objects(a, p)}
                        /\ NB = BornThere(b, p, both)
  OBVIOUS
<1>b. C = Acts(a, r, o) \union Acts(b, r, o) \union NB \union (NE \union NP)
  <2>1. SaidBy(a, e, p) = NE \union NP
    BY <1>a DEF SaidBy
  <2>2. QED
    BY <1>a, <2>1 DEF PairContexts
<1>c. \A c \in both : Born(b, p, c) \subseteq NB
  BY <1>a DEF BornThere
<1>6. ASSUME NEW c, Wed(Visible, r, o, e, p, c, a, b) PROVE c \in both
  <2>1. /\ In(Visible, a, KM(p), c) /\ In(Visible, b, KM(p), c) /\ In(Visible, b, KM(r), KM(o))
    BY <1>6 DEF Wed
  <2>2. GetPair(b) # {}
    BY <2>1, VisibleIsSeen, SubjectsAreFound DEF Ready, In
  <2>3. Acts(b, r, o) # {}
    BY <1>2, <2>1, InContexts
  <2>4. Born(b, p, c) # {}
    BY <1>1, <1>3, <2>1, InContexts
  <2>5. QED
    BY <1>5, <2>1, <2>2, <2>3, <2>4
<1>7. ASSUME NEW N, C \subseteq N, NEW c \in both
      PROVE  Wed(Within(Visible, N), r, o, e, p, c, a, b)
  <2>1. /\ Acts(a, r, o) \subseteq N /\ Acts(b, r, o) \subseteq N /\ Born(b, p, c) \subseteq N
        /\ {x.prov : x \in Objects(a, e)} \subseteq N /\ {x.prov : x \in Objects(a, p)} \subseteq N
    <3>1. /\ Acts(a, r, o) \subseteq N /\ Acts(b, r, o) \subseteq N /\ NB \subseteq N
          /\ NE \subseteq N /\ NP \subseteq N
      BY <1>7, <1>b
    <3>2. QED
      BY <1>a, <1>c, <3>1
  <2>2. In(Visible, a, KM(p), c) /\ c \in KEY_ID
    BY <1>1, <1>5
  <2>3. Acts(a, r, o) # {} /\ Acts(b, r, o) # {} /\ Born(b, p, c) # {}
    BY <1>2, <1>5, InContexts
  <2>4. In(Within(Visible, N), a, KM(r), KM(o)) /\ In(Within(Visible, N), b, KM(r), KM(o))
    BY <1>2, <2>1, <2>3, InContexts
  <2>5. In(Within(Visible, N), b, KM(p), c)
    BY <1>3, <2>1, <2>2, <2>3, InContexts
  <2>6. In(Within(Visible, N), a, KM(e), b) /\ In(Within(Visible, N), a, KM(p), c)
    BY <2>1, <2>2, ObjectsIn
  <2>7. QED
    BY <2>4, <2>5, <2>6 DEF Wed
<1>8. ASSUME ProvTrigerON PROVE C \subseteq ProvUris
  <2>1. \A c \in both : Born(b, p, c) \subseteq ProvUris
    BY <1>1, <1>3, <1>5, <1>8
  <2>2. {x.prov : x \in Objects(a, e)} \subseteq ProvUris /\ {x.prov : x \in Objects(a, p)} \subseteq ProvUris
    BY <1>8, ObjectsIn
  <2>3. NB \subseteq ProvUris
    BY <1>a, <2>1 DEF BornThere
  <2>4. NE \subseteq ProvUris /\ NP \subseteq ProvUris
    BY <1>a, <2>2
  <2>5. QED
    BY <1>2, <1>8, <1>b, <2>3, <2>4
<1>9. QED
  BY <1>6, <1>7, <1>8

LEMMA CoupleGrows ==
  ASSUME NEW W, NEW X, W \subseteq X, NEW r, NEW o, NEW e, NEW p, NEW j, Couple(W, r, o, e, p, j)
  PROVE  Couple(X, r, o, e, p, j)
<1>1. \A s, y, z : In(W, s, y, z) => In(X, s, y, z)
  BY InGrows
<1>2. \A c, a, b : Wed(W, r, o, e, p, c, a, b) => Wed(X, r, o, e, p, c, a, b)
  BY <1>1, Zenon DEF Wed
<1>3. QED
  BY <1>2, Zenon DEF Couple

LEMMA PairingTurn ==
  ASSUME Ready, NEW r, NEW o, NEW e, NEW p, NEW T, NEW F, NEW N,
         Coupling(Visible, ProvTrigerON, ProvUris, r, o, e, p, T, F, N), NEW i \in T,
         NEW both, both = PlacesOf(i[1], i[2], r, o, p),
         NEW C, C = PairContexts(i[1], i[2], r, o, e, p, both),
         NEW F2, F2 = F \union {<<c, i[1], i[2]>> : c \in both},
         NEW M, M = IF both = {} THEN N ELSE N \union C
  PROVE  Coupling(Visible, ProvTrigerON, ProvUris, r, o, e, p, T \ {i}, F2, M)
<1>1. PICK a, b : /\ i = <<a, b>> /\ a \in KEY_ID /\ b \in KEY_ID
                  /\ In(Visible, a, KM(r), KM(o)) /\ In(Visible, a, KM(e), b)
  BY DEF Coupling, Spouses
<1>2. i[1] = a /\ i[2] = b
  BY <1>1
<1>3. /\ both = PlacesOf(a, b, r, o, p) /\ C = PairContexts(a, b, r, o, e, p, both)
      /\ F2 = F \union {<<c, a, b>> : c \in both}
  BY <1>2
<1>4. /\ \A c : Wed(Visible, r, o, e, p, c, a, b) => c \in both
      /\ \A K : C \subseteq K => \A c \in both : Wed(Within(Visible, K), r, o, e, p, c, a, b)
      /\ ProvTrigerON => C \subseteq ProvUris
  BY <1>1, <1>3, PlacesFound
<1>5. N \subseteq M /\ (both # {} => C \subseteq M)
  OBVIOUS
<1>6. Within(Visible, N) \subseteq Within(Visible, M)
  BY <1>5 DEF Within
<1>7. ASSUME NEW j \in F2 PROVE Couple(Within(Visible, M), r, o, e, p, j)
  <2>1. CASE j \in F
    <3>1. Couple(Within(Visible, N), r, o, e, p, j)
      BY <2>1 DEF Coupling
    <3>2. QED
      BY <1>6, <3>1, CoupleGrows
  <2>2. CASE j \notin F
    <3>1. PICK c \in both : j = <<c, a, b>>
      BY <1>3, <2>2
    <3>2. Wed(Within(Visible, M), r, o, e, p, c, a, b)
      BY <1>4, <1>5
    <3>3. QED
      BY <3>1, <3>2 DEF Couple
  <2>3. QED
    BY <2>1, <2>2
<1>8. ASSUME NEW c, NEW x, NEW y, Wed(Visible, r, o, e, p, c, x, y)
      PROVE  <<c, x, y>> \in F2 \/ <<x, y>> \in T \ {i}
  <2>1. <<c, x, y>> \in F \/ <<x, y>> \in T
    BY <1>8 DEF Coupling
  <2>2. CASE <<x, y>> = i
    <3>1. x = a /\ y = b
      BY <1>1, <2>2
    <3>2. c \in both
      BY <1>4, <1>8, <3>1
    <3>3. <<c, a, b>> \in F2
      BY <1>3, <3>2
    <3>4. QED
      BY <3>1, <3>3
  <2>3. QED
    BY <1>3, <2>1, <2>2
<1>9. ProvTrigerON => M \subseteq ProvUris
  BY <1>4 DEF Coupling
<1>10. \A j \in T \ {i} : Spouses(Visible, r, o, e, j)
  BY DEF Coupling
<1>11. QED
  BY <1>7, <1>8, <1>9, <1>10 DEF Coupling
------------------------------------------------------------------------------
(***************************************************************************)
(* q07: its second loop locates the places.                                *)
(***************************************************************************)

\* A row shown after the two of a couple.
After(a, b, z) == <<a, b>> \o z

LEMMA LeadingPair ==
  ASSUME NEW a, NEW b, NEW t, IsRow(t, 2)
  PROVE  After(a, b, t) = <<a, b, t[1], t[2]>>
<1>1. t = <<t[1], t[2]>>
  BY RowOfTwo
<1>2. PICK x, y : t = <<x, y>>
  BY <1>1
<1>3. t[1] = x /\ t[2] = y
  BY <1>2
<1>4. <<a, b>> \o <<x, y>> = <<a, b, x, y>>
  <2>1. PICK S, f, g, c : S = {a, b, x, y} /\ f = <<a, b>> /\ g = <<x, y>> /\ c = f \o g
    OBVIOUS
  <2>2. f \in Seq(S) /\ g \in Seq(S) /\ Len(f) = 2 /\ Len(g) = 2
        /\ f[1] = a /\ f[2] = b /\ g[1] = x /\ g[2] = y
    BY <2>1
  <2>3. /\ c \in Seq(S) /\ DOMAIN c = 1 .. 4
        /\ c[1] = f[1] /\ c[2] = f[2] /\ c[2 + 1] = g[1] /\ c[2 + 2] = g[2]
    BY <2>1, <2>2
  <2>4. c[1] = a /\ c[2] = b /\ c[3] = x /\ c[4] = y /\ c = [i \in 1 .. 4 |-> c[i]]
    BY <2>2, <2>3
  <2>5. c = <<a, b, x, y>>
    BY <2>4
  <2>6. QED
    BY <2>1, <2>5, Zenon
<1>5. <<a, b>> \o t = <<a, b>> \o <<x, y>>
  BY <1>2
<1>6. QED
  BY <1>3, <1>4, <1>5, Zenon DEF After

\* The rows of a place.
GeoOf(c, v, u) == Triples(<<>>, <<Says(c, v, 0), Says(c, u, 0)>>)
LocatedOf(c, h, v, u) == {x.obj : x \in {d \in Objects(c, h) : GeoOf(d.obj, v, u) # <<>>}}
RowsAfter(a, b, v, u, located) == UNION {Following(<<a, b>>, GeoOf(c2, v, u)) : c2 \in located}
GeoContexts(v, u, located) == UNION {ContextsOf(GeoOf(c2, v, u)) : c2 \in located}
SameContexts(c, h, located) == IF located = {} THEN {} ELSE {x.prov : x \in Objects(c, h)}

LEMMA RowsAfterIs ==
  ASSUME NEW a, NEW b, NEW v, NEW u, NEW located, NEW t
  PROVE  t \in RowsAfter(a, b, v, u, located)
           <=> \E c2 \in located : \E z \in ShownRows(GeoOf(c2, v, u)) : t = After(a, b, z)
<1>1. \A c2 : t \in Following(<<a, b>>, GeoOf(c2, v, u))
                <=> \E z \in ShownRows(GeoOf(c2, v, u)) : t = After(a, b, z)
  BY Zenon DEF Following, After
<1>2. QED
  BY <1>1, Zenon DEF RowsAfter

LEMMA PairingAsks ==
  ASSUME NEW q, NEW r, NEW o, NEW e, NEW p, NEW h, NEW v, NEW u,
         IsPairing(q, r, o, e, p, h, v, u), NEW W, NEW c, NEW a, NEW b, NEW c2, NEW z,
         Wed(W, r, o, e, p, c, a, b), In(W, c, KM(h), c2),
         IsRow(z, 2), In(W, c2, KM(v), z[1]), In(W, c2, KM(u), z[2])
  PROVE  After(a, b, z) \in Asked(q, W)
<1>1. PICK t, x, y : t = After(a, b, z) /\ x = z[1] /\ y = z[2]
  OBVIOUS
<1>2. t = <<a, b, x, y>>
  BY <1>1, LeadingPair
<1>3. /\ In(W, a, KM(r), KM(o)) /\ In(W, a, KM(e), b) /\ In(W, a, KM(p), c)
      /\ In(W, b, KM(p), c) /\ In(W, b, KM(r), KM(o))
  BY DEF Wed
<1>4. In(W, c2, KM(v), x) /\ In(W, c2, KM(u), y)
  BY <1>1
<1>5. t \in Asked(q, W)
  BY <1>2, <1>3, <1>4, TextPairing
<1>6. QED
  BY <1>1, <1>5

LEMMA PlacingTurn ==
  ASSUME Ready, NEW q, NEW r, NEW o, NEW e, NEW p, NEW h, NEW v, NEW u,
         IsPairing(q, r, o, e, p, h, v, u), NEW N,
         NEW i, Couple(Within(Visible, N), r, o, e, p, i),
         NEW located, located = LocatedOf(i[1], h, v, u),
         NEW C, C = GeoContexts(v, u, located) \union SameContexts(i[1], h, located),
         NEW S, S = RowsAfter(i[2], i[3], v, u, located)
  PROVE  /\ Brings(q, N, C, S)
         /\ \A t : Placed(Visible, i, h, v, u, t) => t \in S
<1>1. PICK c, a, b : i = <<c, a, b>> /\ Wed(Within(Visible, N), r, o, e, p, c, a, b)
  BY DEF Couple
<1>2. i[1] = c /\ i[2] = a /\ i[3] = b
  BY <1>1
<1>3. \A s, y, k : In(Visible, s, y, k) => s \in KEY_ID /\ k \in KEY_ID
  BY VisibleIsSeen, InTyped DEF Ready
<1>4. c \in KEY_ID
  <2>1. In(Within(Visible, N), b, KM(p), c) /\ Within(Visible, N) \subseteq Visible
    BY <1>1 DEF Wed, Within
  <2>2. QED
    BY <1>3, <2>1, InGrows
<1>5. /\ \A k : k \in {x.obj : x \in Objects(c, h)} <=> In(Visible, c, KM(h), k)
      /\ \A M, k : {x.prov : x \in Objects(c, h)} \subseteq M /\ In(Visible, c, KM(h), k)
                     => In(Within(Visible, M), c, KM(h), k)
      /\ ProvTrigerON => {x.prov : x \in Objects(c, h)} \subseteq ProvUris
  BY <1>4, ObjectsIn
<1>6. \A c2 : c2 \in located <=> c2 \in {x.obj : x \in Objects(c, h)} /\ GeoOf(c2, v, u) # <<>>
  BY <1>2 DEF LocatedOf
<1>7. \A c2 \in KEY_ID : Locates(GeoOf(c2, v, u), c2, v, u)
  BY LocatedAlone DEF GeoOf
<1>8. \A c2 \in located : c2 \in KEY_ID /\ In(Visible, c, KM(h), c2)
  BY <1>3, <1>5, <1>6
<1>9. PICK M, W : M = N \union C /\ W = Within(Visible, M)
  OBVIOUS
<1>10. /\ \A c2 \in located : ContextsOf(GeoOf(c2, v, u)) \subseteq C
       /\ located # {} => {x.prov : x \in Objects(c, h)} \subseteq C
  BY <1>2 DEF GeoContexts, SameContexts
<1>11. Wed(W, r, o, e, p, c, a, b)
  <2>1. Within(Visible, N) \subseteq W
    BY <1>9 DEF Within
  <2>2. \A s, y, k : In(Within(Visible, N), s, y, k) => In(W, s, y, k)
    BY <2>1, InGrows
  <2>3. QED
    BY <1>1, <2>2, Zenon DEF Wed
<1>12. ASSUME NEW c2 \in located, NEW z \in ShownRows(GeoOf(c2, v, u))
       PROVE  After(a, b, z) \in Asked(q, W)
  <2>1. /\ ContextsOf(GeoOf(c2, v, u)) \subseteq M
        /\ {x.prov : x \in Objects(c, h)} \subseteq M
    BY <1>9, <1>10
  <2>2. Locates(GeoOf(c2, v, u), c2, v, u)
    BY <1>7, <1>8
  <2>3. IsRow(z, 2) /\ In(W, c2, KM(v), z[1]) /\ In(W, c2, KM(u), z[2])
    BY <1>9, <2>1, <2>2, Zenon DEF Locates
  <2>4. In(W, c, KM(h), c2)
    BY <1>5, <1>8, <1>9, <2>1
  <2>5. QED
    BY <1>11, <2>3, <2>4, PairingAsks
<1>13. \A t : t \in S <=> \E c2 \in located : \E z \in ShownRows(GeoOf(c2, v, u)) : t = After(a, b, z)
  BY <1>2, RowsAfterIs
<1>14. ProvTrigerON => C \subseteq ProvUris
  <2>1. ASSUME ProvTrigerON PROVE \A c2 \in located : ContextsOf(GeoOf(c2, v, u)) \subseteq ProvUris
    BY <1>7, <1>8, <2>1 DEF Locates
  <2>2. ASSUME ProvTrigerON PROVE GeoContexts(v, u, located) \subseteq ProvUris
    BY <2>1, <2>2 DEF GeoContexts
  <2>3. ASSUME ProvTrigerON PROVE SameContexts(i[1], h, located) \subseteq ProvUris
    BY <1>2, <1>5, <2>3 DEF SameContexts
  <2>4. QED
    BY <2>2, <2>3
<1>15. Brings(q, N, C, S)
  <2>1. S \subseteq Asked(q, W)
    BY <1>12, <1>13, Zenon
  <2>2. W = Within(Visible, N \union C)
    BY <1>9
  <2>3. QED
    BY <1>14, <2>1, <2>2, Zenon DEF Brings
<1>16. ASSUME NEW t, Placed(Visible, i, h, v, u, t) PROVE t \in S
  <2>1. PICK d, f, g, c2, x, y :
          /\ i = <<d, f, g>> /\ In(Visible, d, KM(h), c2)
          /\ In(Visible, c2, KM(v), x) /\ In(Visible, c2, KM(u), y)
          /\ t = <<f, g, x, y>>
    BY <1>16 DEF Placed
  <2>2. d = c /\ f = a /\ g = b
    BY <1>1, <2>1
  <2>3. PICK z : z = <<x, y>>
    OBVIOUS
  <2>4. z[1] = x /\ z[2] = y
    BY <2>3
  <2>5. IsRow(z, 2)
    BY <2>3, <2>4, RowOfTwo, Zenon
  <2>6. c2 \in KEY_ID /\ c2 \in {k.obj : k \in Objects(c, h)}
    BY <1>3, <1>5, <2>1, <2>2
  <2>7. Locates(GeoOf(c2, v, u), c2, v, u)
    BY <1>7, <2>6
  <2>8. z \in ShownRows(GeoOf(c2, v, u))
    BY <2>1, <2>4, <2>5, <2>7, Zenon DEF Locates
  <2>9. c2 \in located
    BY <1>6, <2>6, <2>8, NoRowsShowNothing
  <2>10. t = After(a, b, z)
    BY <2>1, <2>2, <2>4, <2>5, LeadingPair, Zenon
  <2>11. QED
    BY <1>13, <2>8, <2>9, <2>10, Zenon
<1>17. QED
  BY <1>15, <1>16

\* When the first loop is over, the second has all that is to be shown to do.
LEMMA PairingOpens ==
  ASSUME NEW q, NEW r, NEW o, NEW e, NEW p, NEW h, NEW v, NEW u,
         IsPairing(q, r, o, e, p, h, v, u), NEW V, NEW on, NEW uris, NEW F, NEW N,
         Coupling(V, on, uris, r, o, e, p, {}, F, N)
  PROVE  /\ on => N \subseteq uris
         /\ \A i \in F : Couple(Within(V, N), r, o, e, p, i)
         /\ \A t \in Asked(q, V) : \E i \in F : Placed(V, i, h, v, u, t)
<1>1. ASSUME NEW t \in Asked(q, V) PROVE \E i \in F : Placed(V, i, h, v, u, t)
  <2>1. PICK a, b, c, c2, x, y :
          /\ In(V, a, KM(r), KM(o)) /\ In(V, a, KM(e), b)
          /\ In(V, a, KM(p), c) /\ In(V, b, KM(p), c)
          /\ In(V, b, KM(r), KM(o)) /\ In(V, c, KM(h), c2)
          /\ In(V, c2, KM(v), x) /\ In(V, c2, KM(u), y)
          /\ t = <<a, b, x, y>>
    BY TextPairing
  <2>2. Wed(V, r, o, e, p, c, a, b)
    BY <2>1 DEF Wed
  <2>3. PICK i : i = <<c, a, b>>
    OBVIOUS
  <2>4. i \in F
    BY <2>2, <2>3 DEF Coupling
  <2>5. Placed(V, i, h, v, u, t)
    BY <2>1, <2>3 DEF Placed
  <2>6. QED
    BY <2>4, <2>5
<1>2. QED
  BY <1>1 DEF Coupling
------------------------------------------------------------------------------
(***************************************************************************)
(* The five queries begin open, and every turn adds what it should.        *)
(***************************************************************************)

LEMMA Text_q05 == IsLocating("q05", "Barack Obama", "placeOfBirth", "lat", "long")
<1>1. PICK w, p, v, u :
        /\ w = "Barack Obama"
        /\ p = "placeOfBirth"
        /\ v = "lat"
        /\ u = "long"
  OBVIOUS
<1>2. SPARQL["q05"] = {Select(<<"?l", "?lat", "?long">>,
              <<About("?j", w), About(p, "?l"), <<"?l", v, "?lat">>, <<"?l", u, "?long">>>>)}
  BY <1>1, Zenon DEF SPARQL
<1>3. {w, p, v, u} \intersect Vars = {}
  BY <1>1 DEF Vars
<1>a. "q05" # "q08"
  OBVIOUS
<1>4. IsLocating("q05", w, p, v, u)
  BY <1>2, <1>3, <1>a, Zenon DEF IsLocating
<1>5. QED
  BY <1>1, <1>4, Zenon

LEMMA Text_q06 == IsJoining("q06", "profession", "Veterinarian", "inCountry", "US", "senators", "sameAs", "name")
<1>1. PICK p, o, e, d, v, u, r :
        /\ p = "profession"
        /\ o = "Veterinarian"
        /\ e = "inCountry"
        /\ d = "US"
        /\ v = "senators"
        /\ u = "sameAs"
        /\ r = "name"
  OBVIOUS
<1>2. SPARQL["q06"] = {Select(<<"?d">>,
              <<<<"?c", p, o>>, <<"?b", e, d>>, About(v, "?c"), About(u, "?b"), About(r, "?d")>>)}
  BY <1>1, Zenon DEF SPARQL
<1>3. {p, o, e, d, v, u, r} \intersect Vars = {}
  BY <1>1 DEF Vars
<1>a. "q06" # "q08"
  OBVIOUS
<1>4. IsJoining("q06", p, o, e, d, v, u, r)
  BY <1>2, <1>3, <1>a, Zenon DEF IsJoining
<1>5. QED
  BY <1>1, <1>4, Zenon

LEMMA Text_w05 == IsJoining("w05", "has_container", "announcements", "foaf:name", "Anonymous", "reply_of", "has_creator", "date")
<1>1. PICK p, o, e, d, v, u, r :
        /\ p = "has_container"
        /\ o = "announcements"
        /\ e = "foaf:name"
        /\ d = "Anonymous"
        /\ v = "reply_of"
        /\ u = "has_creator"
        /\ r = "date"
  OBVIOUS
<1>2. SPARQL["w05"] = {Select(<<"?d">>,
              <<<<"?c", p, o>>, <<"?b", e, d>>, About(v, "?c"), About(u, "?b"), About(r, "?d")>>)}
  BY <1>1, Zenon DEF SPARQL
<1>3. {p, o, e, d, v, u, r} \intersect Vars = {}
  BY <1>1 DEF Vars
<1>a. "w05" # "q08"
  OBVIOUS
<1>4. IsJoining("w05", p, o, e, d, v, u, r)
  BY <1>2, <1>3, <1>a, Zenon DEF IsJoining
<1>5. QED
  BY <1>1, <1>4, Zenon

LEMMA Text_q08 == IsNaming("q08", "subject", "Blackwater", "foaf:name", "years")
<1>1. PICK p, o, e, v :
        /\ p = "subject"
        /\ o = "Blackwater"
        /\ e = "foaf:name"
        /\ v = "years"
  OBVIOUS
<1>2. SPARQL["q08"] = {Select(<<"?y">>,
              <<<<"?b", p, o>>, <<"?b", "?j", "?n">>, About(e, "?n"), About(v, "?y")>>)}
  BY <1>1, Zenon DEF SPARQL
<1>3. {p, o, e, v} \intersect Vars = {}
  BY <1>1 DEF Vars
<1>4. IsNaming("q08", p, o, e, v)
  BY <1>2, <1>3, Zenon DEF IsNaming
<1>5. QED
  BY <1>1, <1>4, Zenon

LEMMA Text_q07 == IsPairing("q07", "wikilink", "actor", "spouse", "placeOfBirth", "sameAs", "lat", "long")
<1>1. PICK r, o, e, p, h, v, u :
        /\ r = "wikilink"
        /\ o = "actor"
        /\ e = "spouse"
        /\ p = "placeOfBirth"
        /\ h = "sameAs"
        /\ v = "lat"
        /\ u = "long"
  OBVIOUS
<1>2. SPARQL["q07"] = {Select(<<"?a", "?b", "?lat", "?long">>,
              <<About(r, o), About(e, "?b"), About(p, "?c"), <<"?b", p, "?c">>, <<"?b", r, o>>,
                <<"?c", h, "?c2">>, <<"?c2", v, "?lat">>, <<"?c2", u, "?long">>>>)}
  BY <1>1, Zenon DEF SPARQL
<1>3. {r, o, e, p, h, v, u} \intersect Vars = {}
  BY <1>1 DEF Vars
<1>a. "q07" # "q08"
  OBVIOUS
<1>4. IsPairing("q07", r, o, e, p, h, v, u)
  BY <1>2, <1>3, <1>a, Zenon DEF IsPairing
<1>5. QED
  BY <1>1, <1>4, Zenon

\* A loop with all its items and nothing shown.
Opens(q, T) == Open(q, Visible, ProvTrigerON, ProvUris, T, {}, {})
\* What a turn adds to what is shown and named.
Grants(q, N, i, S, C) == Adds(q, Visible, ProvTrigerON, ProvUris, N, i, S, C)

\* Which items and tuples they are, query by query.
LEMMA ItemOf ==
  ASSUME NEW V, NEW on, NEW uris, NEW N, NEW i
  PROVE  /\ Item("q05", V, on, uris, N, i) <=> LinkedTo(V, "Barack Obama", "placeOfBirth", i)
         /\ Item("q06", V, on, uris, N, i) <=>
              i.a \in KEY_ID /\ Pair(V, on, uris, "profession", "Veterinarian", "inCountry", "US", i)
         /\ Item("w05", V, on, uris, N, i) <=>
              Pair(V, on, uris, "has_container", "announcements", "foaf:name", "Anonymous", i)
         /\ Item("q08", V, on, uris, N, i) <=> NameHeld(V, "subject", "Blackwater", i)
         /\ Item("q07", V, on, uris, N, i) <=>
              Couple(Within(V, N), "wikilink", "actor", "spouse", "placeOfBirth", i)
<1>1. PICK A, B, C, D, E :
        /\ A <=> LinkedTo(V, "Barack Obama", "placeOfBirth", i)
        /\ B <=> i.a \in KEY_ID /\ Pair(V, on, uris, "profession", "Veterinarian", "inCountry", "US", i)
        /\ C <=> Pair(V, on, uris, "has_container", "announcements", "foaf:name", "Anonymous", i)
        /\ D <=> NameHeld(V, "subject", "Blackwater", i)
        /\ E <=> Couple(Within(V, N), "wikilink", "actor", "spouse", "placeOfBirth", i)
  OBVIOUS
<1>2. \A q : Item(q, V, on, uris, N, i) <=>
        /\ q = "q05" => A
        /\ q = "q06" => B
        /\ q = "w05" => C
        /\ q = "q08" => D
        /\ q = "q07" => E
  BY <1>1, Zenon DEF Item
<1>3. /\ Item("q05", V, on, uris, N, i) <=> A
      /\ Item("q06", V, on, uris, N, i) <=> B
      /\ Item("w05", V, on, uris, N, i) <=> C
      /\ Item("q08", V, on, uris, N, i) <=> D
      /\ Item("q07", V, on, uris, N, i) <=> E
  BY <1>2
<1>4. QED
  BY <1>1, <1>3, Zenon

LEMMA GivesOf ==
  ASSUME NEW V, NEW i, NEW t
  PROVE  /\ Gives("q05", V, i, t) <=> Sited(V, i, "lat", "long", t)
         /\ Gives("q06", V, i, t) <=> Relates(V, i.a, "senators", i.c, "sameAs", i.b, "name", t)
         /\ Gives("w05", V, i, t) <=> Relates(V, 0, "reply_of", i.c, "has_creator", i.b, "date", t)
         /\ Gives("q08", V, i, t) <=> Dated(V, i, "foaf:name", "years", t)
         /\ Gives("q07", V, i, t) <=> Placed(V, i, "sameAs", "lat", "long", t)
BY DEF Gives
------------------------------------------------------------------------------

LEMMA OpensWith ==
  ASSUME NEW q, NEW T,
         \A i \in T : Item(q, Visible, ProvTrigerON, ProvUris, {}, i),
         \A t \in Asked(q, Visible) : \E i \in T : Gives(q, Visible, i, t)
  PROVE  Opens(q, T)
BY DEF Opens, Open, Sound

LEMMA GrantsWith ==
  ASSUME NEW q, NEW N, NEW i, NEW S, NEW C, Brings(q, N, C, S),
         \A t : Gives(q, Visible, i, t) => t \in S
  PROVE  Grants(q, N, i, S, C)
BY DEF Grants, Adds, Brings

LEMMA Opens_q05 == Ready => Opens("q05", ValuesOf(Obama))
<1> SUFFICES ASSUME Ready PROVE Opens("q05", ValuesOf(Obama))
  OBVIOUS
<1>1. Obama = Triples(<<Mentions(KM("Barack Obama"))>>, <<Wanted("placeOfBirth")>>)
  BY Zenon DEF Obama
<1>2. \A l : l \in ValuesOf(Obama) <=> LinkedTo(Visible, "Barack Obama", "placeOfBirth", l)
  BY <1>1, LocatingItems, Zenon
<1>3. \A i \in ValuesOf(Obama) : Item("q05", Visible, ProvTrigerON, ProvUris, {}, i)
  BY <1>2, ItemOf, Zenon
<1>4. \A t \in Asked("q05", Visible) : \E l : LinkedTo(Visible, "Barack Obama", "placeOfBirth", l)
                                              /\ Sited(Visible, l, "lat", "long", t)
  BY Text_q05, LocatingCovers, Zenon
<1>5. \A t \in Asked("q05", Visible) : \E i \in ValuesOf(Obama) : Gives("q05", Visible, i, t)
  BY <1>2, <1>4, GivesOf, Zenon
<1>6. QED
  BY <1>3, <1>5, OpensWith, Zenon

LEMMA Grants_q05 ==
  ASSUME Ready, NEW l, LinkedTo(Visible, "Barack Obama", "placeOfBirth", l), NEW N,
         NEW rows, rows = Triples(<<Says(l, "lat", Wild), Says(l, "long", Wild)>>,
                                  <<Says(l, "lat", 0), Says(l, "long", 0)>>)
  PROVE  Grants("q05", N, l, Following(<<l>>, rows), ContextsOf(Obama) \union ContextsOf(rows))
<1>1. Obama = Triples(<<Mentions(KM("Barack Obama"))>>, <<Wanted("placeOfBirth")>>)
  BY Zenon DEF Obama
<1>2. /\ Brings("q05", N, ContextsOf(Obama) \union ContextsOf(rows), Following(<<l>>, rows))
      /\ \A t : Sited(Visible, l, "lat", "long", t) => t \in Following(<<l>>, rows)
  BY <1>1, Text_q05, LocatingTurn, Zenon
<1>3. \A t : Gives("q05", Visible, l, t) => t \in Following(<<l>>, rows)
  BY <1>2, GivesOf, Zenon
<1>4. QED
  BY <1>2, <1>3, GrantsWith, Zenon

LEMMA Opens_q06 ==
  ASSUME Ready, NEW f \in Multimaps("US", "inCountry"), NEW g \in Multimaps("Veterinarian", "profession")
  PROVE  Opens("q06", Joined3(f, g))
<1>1. /\ \A i \in Joined3(f, g) :
           /\ i.a \in KEY_ID
           /\ Pair(Visible, ProvTrigerON, ProvUris, "profession", "Veterinarian", "inCountry", "US", i)
      /\ \A t \in Asked("q06", Visible) : \E i \in Joined3(f, g) :
           Relates(Visible, i.a, "senators", i.c, "sameAs", i.b, "name", t)
  BY Text_q06, Joining3Items, Zenon
<1>2. \A i \in Joined3(f, g) : Item("q06", Visible, ProvTrigerON, ProvUris, {}, i)
  BY <1>1, ItemOf, Zenon
<1>3. \A t \in Asked("q06", Visible) : \E i \in Joined3(f, g) : Gives("q06", Visible, i, t)
  BY <1>1, GivesOf, Zenon
<1>4. QED
  BY <1>2, <1>3, OpensWith, Zenon

LEMMA Grants_q06 ==
  ASSUME Ready, NEW i, i.a \in KEY_ID,
         Pair(Visible, ProvTrigerON, ProvUris, "profession", "Veterinarian", "inCountry", "US", i),
         NEW N, NEW rows,
         rows = Triples(<<Says(i.a, "senators", i.c), Says(i.a, "sameAs", i.b)>>, <<Wanted("name")>>)
  PROVE  Grants("q06", N, i, ShownRows(rows), i.prov \union ContextsOf(rows))
<1>1. PICK x \in KEY_ID \union {0} : x = i.a
  OBVIOUS
<1>2. rows = Triples(<<Says(x, "senators", i.c), Says(x, "sameAs", i.b)>>, <<Wanted("name")>>)
  BY <1>1, Zenon
<1>3. /\ Brings("q06", N, i.prov \union ContextsOf(rows), ShownRows(rows))
      /\ \A t : Relates(Visible, x, "senators", i.c, "sameAs", i.b, "name", t) => t \in ShownRows(rows)
  BY <1>2, Text_q06, JoiningTurn, Zenon
<1>4. \A t : Gives("q06", Visible, i, t) => t \in ShownRows(rows)
  BY <1>1, <1>3, GivesOf, Zenon
<1>5. QED
  BY <1>3, <1>4, GrantsWith, Zenon

LEMMA Opens_w05 ==
  ASSUME Ready, NEW f \in Multimaps("Anonymous", "foaf:name"),
         NEW g \in Multimaps("announcements", "has_container")
  PROVE  Opens("w05", Joined2(f, g))
<1>1. /\ \A i \in Joined2(f, g) :
           Pair(Visible, ProvTrigerON, ProvUris, "has_container", "announcements", "foaf:name", "Anonymous", i)
      /\ \A t \in Asked("w05", Visible) : \E i \in Joined2(f, g) :
           Relates(Visible, 0, "reply_of", i.c, "has_creator", i.b, "date", t)
  BY Text_w05, Joining2Items, Zenon
<1>2. \A i \in Joined2(f, g) : Item("w05", Visible, ProvTrigerON, ProvUris, {}, i)
  BY <1>1, ItemOf, Zenon
<1>3. \A t \in Asked("w05", Visible) : \E i \in Joined2(f, g) : Gives("w05", Visible, i, t)
  BY <1>1, GivesOf, Zenon
<1>4. QED
  BY <1>2, <1>3, OpensWith, Zenon

LEMMA Grants_w05 ==
  ASSUME Ready, NEW i,
         Pair(Visible, ProvTrigerON, ProvUris, "has_container", "announcements", "foaf:name", "Anonymous", i),
         NEW N, NEW rows,
         rows = Triples(<<Says(0, "reply_of", i.c), Says(0, "has_creator", i.b)>>, <<Wanted("date")>>)
  PROVE  Grants("w05", N, i, ShownRows(rows), i.prov \union ContextsOf(rows))
<1>1. PICK x \in KEY_ID \union {0} : x = 0
  OBVIOUS
<1>2. rows = Triples(<<Says(x, "reply_of", i.c), Says(x, "has_creator", i.b)>>, <<Wanted("date")>>)
  BY <1>1, Zenon
<1>3. /\ Brings("w05", N, i.prov \union ContextsOf(rows), ShownRows(rows))
      /\ \A t : Relates(Visible, x, "reply_of", i.c, "has_creator", i.b, "date", t) => t \in ShownRows(rows)
  BY <1>2, Text_w05, JoiningTurn, Zenon
<1>4. \A t : Gives("w05", Visible, i, t) => t \in ShownRows(rows)
  BY <1>1, <1>3, GivesOf, Zenon
<1>5. QED
  BY <1>3, <1>4, GrantsWith, Zenon

LEMMA Opens_q08 == Ready => Opens("q08", NamesIn(ValuesOf(Blackwater)))
<1> SUFFICES ASSUME Ready PROVE Opens("q08", NamesIn(ValuesOf(Blackwater)))
  OBVIOUS
<1>1. Blackwater = Triples(<<Has("subject", "Blackwater")>>, <<Mentions(0)>>)
  BY Zenon DEF Blackwater
<1>2. /\ \A i \in NamesIn(ValuesOf(Blackwater)) : NameHeld(Visible, "subject", "Blackwater", i)
      /\ \A t \in Asked("q08", Visible) :
           \E i \in NamesIn(ValuesOf(Blackwater)) : Dated(Visible, i, "foaf:name", "years", t)
  BY <1>1, Text_q08, NamingItems, Zenon
<1>3. \A i \in NamesIn(ValuesOf(Blackwater)) : Item("q08", Visible, ProvTrigerON, ProvUris, {}, i)
  BY <1>2, ItemOf, Zenon
<1>4. \A t \in Asked("q08", Visible) :
        \E i \in NamesIn(ValuesOf(Blackwater)) : Gives("q08", Visible, i, t)
  BY <1>2, GivesOf, Zenon
<1>5. QED
  BY <1>3, <1>4, OpensWith, Zenon

LEMMA Grants_q08 ==
  ASSUME Ready, NEW i, NameHeld(Visible, "subject", "Blackwater", i), i[2] \in Politicians, NEW N,
         NEW rows, rows = Triples(<<Says(i[2], "foaf:name", i[1])>>, <<Wanted("years")>>)
  PROVE  Grants("q08", N, i, ShownRows(rows), ContextsOf(Blackwater) \union ContextsOf(rows))
<1>1. Blackwater = Triples(<<Has("subject", "Blackwater")>>, <<Mentions(0)>>)
  BY Zenon DEF Blackwater
<1>2. /\ Brings("q08", N, ContextsOf(Blackwater) \union ContextsOf(rows), ShownRows(rows))
      /\ \A t : Dated(Visible, i, "foaf:name", "years", t) => t \in ShownRows(rows)
  BY <1>1, Text_q08, NamingTurn, Zenon
<1>3. \A t : Gives("q08", Visible, i, t) => t \in ShownRows(rows)
  BY <1>2, GivesOf, Zenon
<1>4. QED
  BY <1>2, <1>3, GrantsWith, Zenon

\* What is no politician gives nothing.
LEMMA GrantsNothing_q08 ==
  ASSUME NEW i, i[2] \notin Politicians, NEW N
  PROVE  Grants("q08", N, i, {}, {})
<1>1. \A t : ~ Dated(Visible, i, "foaf:name", "years", t)
  BY DEF Dated
<1>2. \A t : Gives("q08", Visible, i, t) => t \in {}
  BY <1>1, GivesOf, Zenon
<1>3. Brings("q08", N, {}, {})
  BY DEF Brings
<1>4. QED
  BY <1>2, <1>3, GrantsWith, Zenon

\* The two loops of q07.
Couples(T, F, N) ==
  Coupling(Visible, ProvTrigerON, ProvUris, "wikilink", "actor", "spouse", "placeOfBirth", T, F, N)

LEMMA Opens_q07 ==
  ASSUME NEW F, NEW N, Couples({}, F, N)
  PROVE  Open("q07", Visible, ProvTrigerON, ProvUris, F, {}, N)
<1>1. /\ ProvTrigerON => N \subseteq ProvUris
      /\ \A i \in F : Couple(Within(Visible, N), "wikilink", "actor", "spouse", "placeOfBirth", i)
      /\ \A t \in Asked("q07", Visible) : \E i \in F : Placed(Visible, i, "sameAs", "lat", "long", t)
  <2>1. PICK r, o, e, p, h, v, u :
          /\ r = "wikilink" /\ o = "actor" /\ e = "spouse" /\ p = "placeOfBirth"
          /\ h = "sameAs" /\ v = "lat" /\ u = "long"
    OBVIOUS
  <2>2. IsPairing("q07", r, o, e, p, h, v, u)
    BY <2>1, Text_q07, Zenon
  <2>3. Coupling(Visible, ProvTrigerON, ProvUris, r, o, e, p, {}, F, N)
    BY <2>1, Zenon DEF Couples
  <2>4. /\ ProvTrigerON => N \subseteq ProvUris
        /\ \A i \in F : Couple(Within(Visible, N), r, o, e, p, i)
        /\ \A t \in Asked("q07", Visible) : \E i \in F : Placed(Visible, i, h, v, u, t)
    BY <2>2, <2>3, PairingOpens
  <2>5. QED
    BY <2>1, <2>4, Zenon
<1>2. \A i \in F : Item("q07", Visible, ProvTrigerON, ProvUris, N, i)
  BY <1>1, ItemOf, Zenon
<1>3. \A t \in Asked("q07", Visible) : \E i \in F : Gives("q07", Visible, i, t)
  BY <1>1, GivesOf, Zenon
<1>4. QED
  BY <1>1, <1>2, <1>3 DEF Open, Sound

LEMMA Grants_q07 ==
  ASSUME Ready, NEW N, NEW i,
         Couple(Within(Visible, N), "wikilink", "actor", "spouse", "placeOfBirth", i),
         NEW located, located = LocatedOf(i[1], "sameAs", "lat", "long")
  PROVE  Grants("q07", N, i, RowsAfter(i[2], i[3], "lat", "long", located),
                GeoContexts("lat", "long", located) \union SameContexts(i[1], "sameAs", located))
<1>1. PICK S, C : /\ S = RowsAfter(i[2], i[3], "lat", "long", located)
                  /\ C = GeoContexts("lat", "long", located) \union SameContexts(i[1], "sameAs", located)
  OBVIOUS
<1>2. Brings("q07", N, C, S) /\ \A t : Placed(Visible, i, "sameAs", "lat", "long", t) => t \in S
  <2>1. PICK r, o, e, p, h, v, u :
          /\ r = "wikilink" /\ o = "actor" /\ e = "spouse" /\ p = "placeOfBirth"
          /\ h = "sameAs" /\ v = "lat" /\ u = "long"
    OBVIOUS
  <2>2. IsPairing("q07", r, o, e, p, h, v, u)
    BY <2>1, Text_q07, Zenon
  <2>3. /\ Couple(Within(Visible, N), r, o, e, p, i)
        /\ located = LocatedOf(i[1], h, v, u)
        /\ S = RowsAfter(i[2], i[3], v, u, located)
        /\ C = GeoContexts(v, u, located) \union SameContexts(i[1], h, located)
    BY <1>1, <2>1, Zenon
  <2>4. Brings("q07", N, C, S) /\ \A t : Placed(Visible, i, h, v, u, t) => t \in S
    <3> HIDE <1>1, <2>1
    <3>1. QED
      BY <2>2, <2>3, PlacingTurn
  <2>5. QED
    BY <2>1, <2>4, Zenon
<1>3. \A t : Gives("q07", Visible, i, t) => t \in S
  BY <1>2, GivesOf, Zenon
<1>4. QED
  BY <1>1, <1>2, <1>3, GrantsWith, Zenon
------------------------------------------------------------------------------
(***************************************************************************)
(* The invariant.                                                          *)
(***************************************************************************)

LinksAt(q, V) ==
  LET sel == CHOOSE x \in SPARQL[q] : TRUE
  IN  {b["?l"] : b \in Solutions(V, SubSeq(sel.patterns, 1, 2))}

\* What a query owes when it is over.
Over(q, V, on, uris, A, N) ==
  /\ (q = "w04" => LinksAt("w04", V) # {}) => Sound(q, V, on, uris, A, N)
  /\ (q \in {"q04", "w04"} => Cardinality(LinksAt(q, V)) = 1) => Asked(q, V) \subseteq A

\* What it owes at every stage: T, F, A, N are what is to do, found, shown, named.
Progress(V, on, uris, st, q, T, F, A, N) ==
  /\ st = "idle" => F = {} /\ A = {} /\ N = {}
  /\ st = "loop" /\ q # "q07" => q \in Loops /\ Open(q, V, on, uris, T, A, N)
  /\ st = "loop" /\ q = "q07" =>
       A = {} /\ Coupling(V, on, uris, "wikilink", "actor", "spouse", "placeOfBirth", T, F, N)
  /\ st = "places" => q = "q07" /\ Open(q, V, on, uris, T, A, N)
  /\ st = "done" => Over(q, V, on, uris, A, N)

BInv ==
  /\ StoreInv
  /\ ProvTrigerON \in BOOLEAN
  /\ stage \in {"idle", "loop", "places", "done"}
  /\ stage # "idle" => phase = "loaded" /\ query \in DOMAIN SPARQL
  /\ Progress(Visible, ProvTrigerON, ProvUris, stage, query, todo, found, answers, named)

\* The stages one by one.
LEMMA AtLoop ==
  ASSUME NEW V, NEW on, NEW uris, NEW q \in Loops, q # "q07", NEW T, NEW F, NEW A, NEW N
  PROVE  Progress(V, on, uris, "loop", q, T, F, A, N) <=> Open(q, V, on, uris, T, A, N)
BY DEF Progress

LEMMA AtCouples ==
  ASSUME NEW V, NEW on, NEW uris, NEW T, NEW F, NEW A, NEW N
  PROVE  Progress(V, on, uris, "loop", "q07", T, F, A, N) <=>
           A = {} /\ Coupling(V, on, uris, "wikilink", "actor", "spouse", "placeOfBirth", T, F, N)
<1>1. PICK B : B <=> A = {} /\ Coupling(V, on, uris, "wikilink", "actor", "spouse", "placeOfBirth", T, F, N)
  OBVIOUS
<1>2. \A st, q : Progress(V, on, uris, st, q, T, F, A, N) <=>
        /\ st = "idle" => F = {} /\ A = {} /\ N = {}
        /\ st = "loop" /\ q # "q07" => q \in Loops /\ Open(q, V, on, uris, T, A, N)
        /\ st = "loop" /\ q = "q07" => B
        /\ st = "places" => q = "q07" /\ Open(q, V, on, uris, T, A, N)
        /\ st = "done" => Over(q, V, on, uris, A, N)
  BY <1>1, Zenon DEF Progress
<1>3. Progress(V, on, uris, "loop", "q07", T, F, A, N) <=> B
  BY <1>2
<1>4. QED
  BY <1>1, <1>3, Zenon

LEMMA AtPlaces ==
  ASSUME NEW V, NEW on, NEW uris, NEW q, NEW T, NEW F, NEW A, NEW N
  PROVE  Progress(V, on, uris, "places", q, T, F, A, N) <=>
           q = "q07" /\ Open("q07", V, on, uris, T, A, N)
BY DEF Progress

LEMMA AtEnd ==
  ASSUME NEW V, NEW on, NEW uris, NEW q, NEW T, NEW F, NEW A, NEW N
  PROVE  Progress(V, on, uris, "done", q, T, F, A, N) <=> Over(q, V, on, uris, A, N)
BY DEF Progress

LEMMA AtStart ==
  ASSUME NEW V, NEW on, NEW uris, NEW q, NEW T, NEW F, NEW A, NEW N
  PROVE  Progress(V, on, uris, "idle", q, T, F, A, N) <=> F = {} /\ A = {} /\ N = {}
BY DEF Progress

\* A query that answers at once.
LEMMA LinksAreVisible ==
  ASSUME NEW q
  PROVE  LinksOf(q) = LinksAt(q, Visible)
BY Zenon DEF LinksOf, LinksAt

LEMMA RightIsOver ==
  ASSUME NEW q, NEW a,
         (q = "w04" => LinksOf("w04") # {}) => Explains(q, a),
         (q \in {"q04", "w04"} => Cardinality(LinksOf(q)) = 1) => Exhausts(q, a)
  PROVE  Over(q, Visible, ProvTrigerON, ProvUris, a.answers, a.named)
<1>1. LinksOf("w04") = LinksAt("w04", Visible) /\ LinksOf(q) = LinksAt(q, Visible)
  BY LinksAreVisible
<1>2. Explains(q, a) => Sound(q, Visible, ProvTrigerON, ProvUris, a.answers, a.named)
  BY DEF Explains, Sound
<1>3. Exhausts(q, a) => Asked(q, Visible) \subseteq a.answers
  BY DEF Exhausts
<1>4. QED
  BY <1>1, <1>2, <1>3 DEF Over

LEMMA OneLinkIsSome ==
  Cardinality(LinksOf("w04")) = 1 => LinksOf("w04") # {}
BY FS_EmptySet

LEMMA AtOnce ==
  ASSUME Ready, NEW q \in DOMAIN SPARQL, q \notin Loops
  PROVE  Over(q, Visible, ProvTrigerON, ProvUris, AnswerOf(q).answers, AnswerOf(q).named)
<1>1. DOMAIN SPARQL = Loops \union
        {"q01", "q02", "q03", "q04", "q09", "q10", "w01", "w02", "w03", "w04", "w06", "w07"}
  BY DEF SPARQL, Loops
<1>2. ASSUME NEW a, Right(q, a), q \notin {"q04", "w04"}
      PROVE  Over(q, Visible, ProvTrigerON, ProvUris, a.answers, a.named)
  BY <1>2, RightIsOver DEF Right
<1>3. CASE q = "q01"
  <2>1. AnswerOf("q01") = q01
    BY Zenon DEF AnswerOf
  <2>2. Right("q01", q01)
    BY Right_q01
  <2>3. QED
    BY <1>2, <1>3, <2>1, <2>2, Zenon
<1>4. CASE q = "q02"
  <2>1. AnswerOf("q02") = q02
    BY Zenon DEF AnswerOf
  <2>2. Right("q02", q02)
    BY Right_q02
  <2>3. QED
    BY <1>2, <1>4, <2>1, <2>2, Zenon
<1>5. CASE q = "q03"
  <2>1. AnswerOf("q03") = q03
    BY Zenon DEF AnswerOf
  <2>2. Right("q03", q03)
    BY Right_q03
  <2>3. QED
    BY <1>2, <1>5, <2>1, <2>2, Zenon
<1>6. CASE q = "q09"
  <2>1. AnswerOf("q09") = q09
    BY Zenon DEF AnswerOf
  <2>2. Right("q09", q09)
    BY Right_q09
  <2>3. QED
    BY <1>2, <1>6, <2>1, <2>2, Zenon
<1>7. CASE q = "q10"
  <2>1. AnswerOf("q10") = q10
    BY Zenon DEF AnswerOf
  <2>2. Right("q10", q10)
    BY Right_q10
  <2>3. QED
    BY <1>2, <1>7, <2>1, <2>2, Zenon
<1>8. CASE q = "w01"
  <2>1. AnswerOf("w01") = w01
    BY Zenon DEF AnswerOf
  <2>2. Right("w01", w01)
    BY Right_w01
  <2>3. QED
    BY <1>2, <1>8, <2>1, <2>2, Zenon
<1>9. CASE q = "w02"
  <2>1. AnswerOf("w02") = w02
    BY Zenon DEF AnswerOf
  <2>2. Right("w02", w02)
    BY Right_w02
  <2>3. QED
    BY <1>2, <1>9, <2>1, <2>2, Zenon
<1>10. CASE q = "w03"
  <2>1. AnswerOf("w03") = w03
    BY Zenon DEF AnswerOf
  <2>2. Right("w03", w03)
    BY Right_w03
  <2>3. QED
    BY <1>2, <1>10, <2>1, <2>2, Zenon
<1>11. CASE q = "w06"
  <2>1. AnswerOf("w06") = w06
    BY Zenon DEF AnswerOf
  <2>2. Right("w06", w06)
    BY Right_w06
  <2>3. QED
    BY <1>2, <1>11, <2>1, <2>2, Zenon
<1>12. CASE q = "w07"
  <2>1. AnswerOf("w07") = w07
    BY Zenon DEF AnswerOf
  <2>2. Right("w07", w07)
    BY Right_w07
  <2>3. QED
    BY <1>2, <1>12, <2>1, <2>2, Zenon
<1>13. CASE q = "q04"
  <2>1. AnswerOf("q04") = q04
    BY Zenon DEF AnswerOf
  <2>2. Explains("q04", q04) /\ (Cardinality(LinksOf("q04")) = 1 => Exhausts("q04", q04))
    BY Right_q04
  <2>3. /\ ("q04" = "w04" => LinksOf("w04") # {}) => Explains("q04", q04)
        /\ ("q04" \in {"q04", "w04"} => Cardinality(LinksOf("q04")) = 1) => Exhausts("q04", q04)
    BY <2>2, Zenon
  <2>4. Over("q04", Visible, ProvTrigerON, ProvUris, q04.answers, q04.named)
    BY <2>3, RightIsOver
  <2>5. QED
    BY <1>13, <2>1, <2>4, Zenon
<1>14. CASE q = "w04"
  <2>1. AnswerOf("w04") = w04
    BY Zenon DEF AnswerOf
  <2>2. LinksOf("w04") # {} =>
          Explains("w04", w04) /\ (Cardinality(LinksOf("w04")) = 1 => Exhausts("w04", w04))
    BY Right_w04
  <2>3. /\ ("w04" = "w04" => LinksOf("w04") # {}) => Explains("w04", w04)
        /\ ("w04" \in {"q04", "w04"} => Cardinality(LinksOf("w04")) = 1) => Exhausts("w04", w04)
    BY <2>2, OneLinkIsSome, Zenon
  <2>4. Over("w04", Visible, ProvTrigerON, ProvUris, w04.answers, w04.named)
    BY <2>3, RightIsOver
  <2>5. QED
    BY <1>14, <2>1, <2>4, Zenon
<1>15. QED
  BY <1>1, <1>3, <1>4, <1>5, <1>6, <1>7, <1>8, <1>9, <1>10, <1>11, <1>12, <1>13, <1>14, Zenon
------------------------------------------------------------------------------
(***************************************************************************)
(* The steps.                                                              *)
(***************************************************************************)

\* What a step of a query owes: the store and the trigger stay, and the query
\* makes progress over them.
Advances ==
  /\ phase = "loaded"
  /\ UNCHANGED <<loadVars, ProvTrigerON, ProvUris>>
  /\ stage' \in {"loop", "places", "done"}
  /\ query' \in DOMAIN SPARQL
  /\ Progress(Visible, ProvTrigerON, ProvUris, stage', query', todo', found', answers', named')

LEMMA AdvancesKeeps ==
  ASSUME BInv, Advances
  PROVE  BInv'
<1>1. UNCHANGED loadVars /\ ProvTrigerON' = ProvTrigerON /\ ProvUris' = ProvUris /\ phase' = "loaded"
  BY DEF Advances, loadVars
<1>2. StoreInv'
  BY <1>1, StoreInvNext DEF BInv
<1>3. Visible' = Visible
  <2>1. tripleIDs' = tripleIDs
    BY <1>1 DEF loadVars
  <2>2. QED
    BY <1>1, <2>1, Zenon DEF Visible, Stored
<1>4. Progress(Visible', ProvTrigerON', ProvUris', stage', query', todo', found', answers', named')
  BY <1>1, <1>3, Zenon DEF Advances
<1>5. /\ ProvTrigerON' \in BOOLEAN
      /\ stage' \in {"idle", "loop", "places", "done"}
      /\ stage' # "idle" => phase' = "loaded" /\ query' \in DOMAIN SPARQL
  BY <1>1 DEF Advances, BInv
<1>6. QED
  BY <1>2, <1>4, <1>5, Zenon DEF BInv

LEMMA LoopsAreTexts == Loops \subseteq DOMAIN SPARQL
BY DEF Loops, SPARQL

LEMMA RunAtOnceAdvances ==
  ASSUME BInv, NEW q \in DOMAIN SPARQL, q \notin Loops, RunAtOnce(q)
  PROVE  Advances
<1>1. Ready
  BY DEF BInv, Ready, RunAtOnce
<1>2. Over(q, Visible, ProvTrigerON, ProvUris, AnswerOf(q).answers, AnswerOf(q).named)
  BY <1>1, AtOnce
<1>3. /\ phase = "loaded" /\ UNCHANGED <<loadVars, ProvTrigerON, ProvUris>>
      /\ stage' = "done" /\ query' = q
      /\ answers' = AnswerOf(q).answers /\ named' = AnswerOf(q).named
  BY DEF RunAtOnce
<1>4. Over(q, Visible, ProvTrigerON, ProvUris, answers', named')
  BY <1>2, <1>3, Zenon
<1>5. Progress(Visible, ProvTrigerON, ProvUris, "done", q, todo', found', answers', named')
  BY <1>4, AtEnd
<1>6. Progress(Visible, ProvTrigerON, ProvUris, stage', query', todo', found', answers', named')
  BY <1>3, <1>5, Zenon
<1>7. QED
  BY <1>3, <1>6 DEF Advances

LEMMA BeginAdvances ==
  ASSUME BInv, NEW q \in Loops, NEW T, Begin(q, T),
         Ready => (q # "q07" => Opens(q, T)) /\ (q = "q07" => Couples(T, {}, {}))
  PROVE  Advances
<1>1. Ready
  BY DEF BInv, Ready, Begin
<1>2. /\ phase = "loaded" /\ UNCHANGED <<loadVars, ProvTrigerON, ProvUris>>
      /\ stage = "idle" /\ stage' = "loop" /\ query' = q /\ todo' = T
      /\ found' = found /\ answers' = answers /\ named' = named
  BY DEF Begin
<1>3. found = {} /\ answers = {} /\ named = {}
  <2>1. Progress(Visible, ProvTrigerON, ProvUris, "idle", query, todo, found, answers, named)
    BY <1>2, Zenon DEF BInv
  <2>2. QED
    BY <2>1, AtStart
<1>4. Progress(Visible, ProvTrigerON, ProvUris, "loop", q, T, {}, {}, {})
  <2>1. CASE q # "q07"
    <3>1. Open(q, Visible, ProvTrigerON, ProvUris, T, {}, {})
      BY <1>1, <2>1, Zenon DEF Opens
    <3>2. QED
      BY <2>1, <3>1, AtLoop
  <2>2. CASE q = "q07"
    <3>1. Coupling(Visible, ProvTrigerON, ProvUris, "wikilink", "actor", "spouse", "placeOfBirth", T, {}, {})
      BY <1>1, <2>2, Zenon DEF Couples
    <3>2. Progress(Visible, ProvTrigerON, ProvUris, "loop", "q07", T, {}, {}, {})
      BY <3>1, AtCouples, Zenon
    <3>3. QED
      BY <2>2, <3>2, Zenon
  <2>3. QED
    BY <2>1, <2>2, Zenon
<1>5. Progress(Visible, ProvTrigerON, ProvUris, stage', query', todo', found', answers', named')
  <2>1. found' = {} /\ answers' = {} /\ named' = {}
    BY <1>2, <1>3, Zenon
  <2>2. QED
    BY <1>2, <1>4, <2>1, Zenon
<1>6. q \in DOMAIN SPARQL
  BY LoopsAreTexts
<1>7. QED
  BY <1>2, <1>5, <1>6 DEF Advances

LEMMA q05BeginAdvances == BInv /\ q05Begin => Advances
<1> SUFFICES ASSUME BInv, q05Begin PROVE Advances
  OBVIOUS
<1>1. PICK q : q = "q05"
  OBVIOUS
<1>2. q \in Loops /\ q # "q07"
  BY <1>1 DEF Loops
<1>3. Begin(q, ValuesOf(Obama)) /\ (Ready => Opens(q, ValuesOf(Obama)))
  BY <1>1, Opens_q05, Zenon DEF q05Begin
<1>4. QED
  BY <1>2, <1>3, BeginAdvances, Zenon

LEMMA q06BeginAdvances == BInv /\ q06Begin => Advances
<1> SUFFICES ASSUME BInv, q06Begin PROVE Advances
  OBVIOUS
<1>1. PICK q : q = "q06"
  OBVIOUS
<1>2. q \in Loops /\ q # "q07"
  BY <1>1 DEF Loops
<1>3. PICK f \in Multimaps("US", "inCountry"), g \in Multimaps("Veterinarian", "profession") :
        Begin("q06", Joined3(f, g))
  BY Zenon DEF q06Begin
<1>4. Begin(q, Joined3(f, g))
  BY <1>1, <1>3, Zenon
<1>5. Ready => Opens(q, Joined3(f, g))
  BY <1>1, Opens_q06, Zenon
<1>6. QED
  BY <1>2, <1>4, <1>5, BeginAdvances, Zenon

LEMMA w05BeginAdvances == BInv /\ w05Begin => Advances
<1> SUFFICES ASSUME BInv, w05Begin PROVE Advances
  OBVIOUS
<1>1. PICK q : q = "w05"
  OBVIOUS
<1>2. q \in Loops /\ q # "q07"
  BY <1>1 DEF Loops
<1>3. PICK f \in Multimaps("Anonymous", "foaf:name"), g \in Multimaps("announcements", "has_container") :
        Begin("w05", Joined2(f, g))
  BY Zenon DEF w05Begin
<1>4. Begin(q, Joined2(f, g))
  BY <1>1, <1>3, Zenon
<1>5. Ready => Opens(q, Joined2(f, g))
  BY <1>1, Opens_w05, Zenon
<1>6. QED
  BY <1>2, <1>4, <1>5, BeginAdvances, Zenon

LEMMA q08BeginAdvances == BInv /\ q08Begin => Advances
<1> SUFFICES ASSUME BInv, q08Begin PROVE Advances
  OBVIOUS
<1>1. PICK q : q = "q08"
  OBVIOUS
<1>2. q \in Loops /\ q # "q07"
  BY <1>1 DEF Loops
<1>3. Begin("q08", NamesIn(ValuesOf(Blackwater)))
  BY Zenon DEF q08Begin, NamesIn
<1>4. Begin(q, NamesIn(ValuesOf(Blackwater))) /\ (Ready => Opens(q, NamesIn(ValuesOf(Blackwater))))
  BY <1>1, <1>3, Opens_q08, Zenon
<1>5. QED
  BY <1>2, <1>4, BeginAdvances, Zenon

LEMMA q07BeginAdvances == BInv /\ q07Begin => Advances
<1> SUFFICES ASSUME BInv, q07Begin PROVE Advances
  OBVIOUS
<1>1. PICK q, T : q = "q07" /\ T = SpousesIn("wikilink", "actor", "spouse")
  OBVIOUS
<1>2. q \in Loops
  BY <1>1 DEF Loops
<1>3. Begin("q07", SpousesIn("wikilink", "actor", "spouse"))
  BY Zenon DEF q07Begin, SpousesIn
<1>4. Begin(q, T)
  BY <1>1, <1>3, Zenon
<1>5. Ready => Couples(T, {}, {})
  <2>1. PICK r, o, e, p : r = "wikilink" /\ o = "actor" /\ e = "spouse" /\ p = "placeOfBirth"
    OBVIOUS
  <2>2. T = SpousesIn(r, o, e)
    BY <1>1, <2>1, Zenon
  <2>3. Ready => Coupling(Visible, ProvTrigerON, ProvUris, r, o, e, p, SpousesIn(r, o, e), {}, {})
    BY PairingItems
  <2>4. Ready => Coupling(Visible, ProvTrigerON, ProvUris, r, o, e, p, T, {}, {})
    BY <2>2, <2>3, Zenon
  <2>5. QED
    BY <2>1, <2>4, Zenon DEF Couples
<1>6. QED
  BY <1>1, <1>2, <1>4, <1>5, BeginAdvances, Zenon

\* A turn of the first loop, not of q07, that grants what it adds.
LEMMA TurnAdvances ==
  ASSUME BInv, NEW q \in Loops, q # "q07", NEW i, NEW rows, NEW S, NEW C, Turn(q, i, rows, S, C),
         Ready /\ Item(q, Visible, ProvTrigerON, ProvUris, named, i) =>
           \E X, Y : /\ Grants(q, named, i, X, Y)
                     /\ rows # <<>> => X = S /\ Y = C
                     /\ rows = <<>> => X = {}
  PROVE  Advances
<1>1. /\ stage = "loop" /\ query = q /\ i \in todo /\ todo' = todo \ {i}
      /\ rows # <<>> => answers' = answers \union S /\ named' = named \union C
      /\ rows = <<>> => answers' = answers /\ named' = named
      /\ UNCHANGED <<loadVars, ProvTrigerON, ProvUris>> /\ stage' = stage /\ query' = query
  BY DEF Turn
<1>2. Ready /\ phase = "loaded" /\ q \in DOMAIN SPARQL
  BY <1>1, LoopsAreTexts DEF BInv, Ready
<1>3. Open(q, Visible, ProvTrigerON, ProvUris, todo, answers, named)
  <2>1. Progress(Visible, ProvTrigerON, ProvUris, "loop", q, todo, found, answers, named)
    BY <1>1, Zenon DEF BInv
  <2>2. QED
    BY <2>1, AtLoop
<1>4. PICK X, Y : /\ Grants(q, named, i, X, Y)
                  /\ rows # <<>> => X = S /\ Y = C
                  /\ rows = <<>> => X = {}
  <2>1. Item(q, Visible, ProvTrigerON, ProvUris, named, i)
    BY <1>1, <1>3, Zenon DEF Open
  <2>2. QED
    BY <1>2, <2>1
<1>5. Adds(q, Visible, ProvTrigerON, ProvUris, named, i, X, Y)
  BY <1>4, Zenon DEF Grants
<1>6. (answers' = answers \union X /\ named' = named \union Y) \/ (X = {} /\ answers' = answers /\ named' = named)
  BY <1>1, <1>4
<1>7. Open(q, Visible, ProvTrigerON, ProvUris, todo \ {i}, answers', named')
  BY <1>1, <1>2, <1>3, <1>5, <1>6, TurnKeepsOpen
<1>8. Progress(Visible, ProvTrigerON, ProvUris, "loop", q, todo', found', answers', named')
  <2>1. Open(q, Visible, ProvTrigerON, ProvUris, todo', answers', named')
    BY <1>1, <1>7, Zenon
  <2>2. QED
    BY <2>1, AtLoop
<1>9. Progress(Visible, ProvTrigerON, ProvUris, stage', query', todo', found', answers', named')
  BY <1>1, <1>8, Zenon
<1>10. QED
  BY <1>1, <1>2, <1>9 DEF Advances

\* What a turn without rows shows.
LEMMA NoneFollow ==
  ASSUME NEW rows, rows = <<>>, NEW values
  PROVE  ShownRows(rows) = {} /\ Following(values, rows) = {}
BY NoRowsShowNothing DEF Following

LEMMA q05TurnAdvances == BInv /\ (\E l : q05Turn(l)) => Advances
<1> SUFFICES ASSUME BInv, NEW l, q05Turn(l) PROVE Advances
  OBVIOUS
<1>1. PICK q, rows, S, C :
        /\ q = "q05"
        /\ rows = Triples(<<Says(l, "lat", Wild), Says(l, "long", Wild)>>,
                          <<Says(l, "lat", 0), Says(l, "long", 0)>>)
        /\ S = Following(<<l>>, rows) /\ C = ContextsOf(Obama) \union ContextsOf(rows)
  OBVIOUS
<1>2. q \in Loops /\ q # "q07"
  BY <1>1 DEF Loops
<1>3. Turn(q, l, rows, S, C)
  BY <1>1, Zenon DEF q05Turn
<1>4. rows = <<>> => S = {}
  BY <1>1, NoneFollow, Zenon
<1>5. Ready /\ Item(q, Visible, ProvTrigerON, ProvUris, named, l) => Grants(q, named, l, S, C)
  BY <1>1, ItemOf, Grants_q05, Zenon
<1>6. QED
  <2> HIDE <1>1
  <2>1. QED
    BY <1>2, <1>3, <1>4, <1>5, TurnAdvances

LEMMA q06TurnAdvances == BInv /\ (\E i : q06Turn(i)) => Advances
<1> SUFFICES ASSUME BInv, NEW i, q06Turn(i) PROVE Advances
  OBVIOUS
<1>1. PICK q, rows, S, C :
        /\ q = "q06"
        /\ rows = Triples(<<Says(i.a, "senators", i.c), Says(i.a, "sameAs", i.b)>>, <<Wanted("name")>>)
        /\ S = ShownRows(rows) /\ C = i.prov \union ContextsOf(rows)
  OBVIOUS
<1>2. q \in Loops /\ q # "q07"
  BY <1>1 DEF Loops
<1>3. Turn(q, i, rows, S, C)
  BY <1>1, Zenon DEF q06Turn
<1>4. rows = <<>> => S = {}
  BY <1>1, NoneFollow, Zenon
<1>5. Ready /\ Item(q, Visible, ProvTrigerON, ProvUris, named, i) => Grants(q, named, i, S, C)
  BY <1>1, ItemOf, Grants_q06, Zenon
<1>6. QED
  <2> HIDE <1>1
  <2>1. QED
    BY <1>2, <1>3, <1>4, <1>5, TurnAdvances

LEMMA w05TurnAdvances == BInv /\ (\E i : w05Turn(i)) => Advances
<1> SUFFICES ASSUME BInv, NEW i, w05Turn(i) PROVE Advances
  OBVIOUS
<1>1. PICK q, rows, S, C :
        /\ q = "w05"
        /\ rows = Triples(<<Says(0, "reply_of", i.c), Says(0, "has_creator", i.b)>>, <<Wanted("date")>>)
        /\ S = ShownRows(rows) /\ C = i.prov \union ContextsOf(rows)
  OBVIOUS
<1>2. q \in Loops /\ q # "q07"
  BY <1>1 DEF Loops
<1>3. Turn(q, i, rows, S, C)
  BY <1>1, Zenon DEF w05Turn
<1>4. rows = <<>> => S = {}
  BY <1>1, NoneFollow, Zenon
<1>5. Ready /\ Item(q, Visible, ProvTrigerON, ProvUris, named, i) => Grants(q, named, i, S, C)
  BY <1>1, ItemOf, Grants_w05, Zenon
<1>6. QED
  <2> HIDE <1>1
  <2>1. QED
    BY <1>2, <1>3, <1>4, <1>5, TurnAdvances

LEMMA q08TurnAdvances == BInv /\ (\E i : q08Turn(i)) => Advances
<1> SUFFICES ASSUME BInv, NEW i, q08Turn(i) PROVE Advances
  OBVIOUS
<1>1. PICK q, rows, some, S, C :
        /\ q = "q08"
        /\ rows = Triples(<<Says(i[2], "foaf:name", i[1])>>, <<Wanted("years")>>)
        /\ some = IF i[2] \in Politicians THEN rows ELSE <<>>
        /\ S = ShownRows(rows) /\ C = ContextsOf(Blackwater) \union ContextsOf(rows)
  OBVIOUS
<1>2. q \in Loops /\ q # "q07"
  BY <1>1 DEF Loops
<1>3. Turn(q, i, some, S, C)
  BY <1>1, Zenon DEF q08Turn
<1>4. rows = <<>> => S = {}
  BY <1>1, NoneFollow, Zenon
<1>5. Ready /\ Item(q, Visible, ProvTrigerON, ProvUris, named, i) /\ i[2] \in Politicians =>
        Grants(q, named, i, S, C)
  BY <1>1, ItemOf, Grants_q08, Zenon
<1>6. i[2] \notin Politicians => Grants(q, named, i, {}, {})
  BY <1>1, GrantsNothing_q08, Zenon
<1>7. /\ i[2] \in Politicians => some = rows
      /\ i[2] \notin Politicians => some = <<>>
  BY <1>1, Zenon
<1>8. QED
  <2> HIDE <1>1
  <2>1. Ready /\ Item(q, Visible, ProvTrigerON, ProvUris, named, i) =>
           \E X, Y : /\ Grants(q, named, i, X, Y)
                     /\ some # <<>> => X = S /\ Y = C
                     /\ some = <<>> => X = {}
    BY <1>4, <1>5, <1>6, <1>7
  <2>2. QED
    BY <1>2, <1>3, <2>1, TurnAdvances

\* The first loop of q07.
Placing(i, both) == {<<c, i[1], i[2]>> : c \in both}

LEMMA q07TurnAdvances == BInv /\ (\E i : q07Turn(i)) => Advances
<1> SUFFICES ASSUME BInv, NEW i, q07Turn(i) PROVE Advances
  OBVIOUS
<1>1. PICK both, C :
        /\ both = PlacesOf(i[1], i[2], "wikilink", "actor", "placeOfBirth")
        /\ C = PairContexts(i[1], i[2], "wikilink", "actor", "spouse", "placeOfBirth", both)
  OBVIOUS
<1>2. /\ stage = "loop" /\ query = "q07" /\ i \in todo /\ todo' = todo \ {i}
      /\ found' = found \union {<<c, i[1], i[2]>> : c \in both}
      /\ named' = IF both = {} THEN named ELSE named \union C
      /\ UNCHANGED <<loadVars, stage, query, ProvTrigerON, ProvUris, answers>>
  <2>1. stage = "loop" /\ query = "q07" /\ i \in todo /\ todo' = todo \ {i}
    BY Zenon DEF q07Turn
  <2>2. UNCHANGED <<loadVars, stage, query, ProvTrigerON, ProvUris, answers>>
    BY Zenon DEF q07Turn
  <2>3. found' = found \union Placing(i, PlacesOf(i[1], i[2], "wikilink", "actor", "placeOfBirth"))
    BY Zenon DEF q07Turn, Placing, PlacesOf, Born, Acts, Actor
  <2>4. named' = IF PlacesOf(i[1], i[2], "wikilink", "actor", "placeOfBirth") = {}
                   THEN named
                   ELSE named \union PairContexts(i[1], i[2], "wikilink", "actor", "spouse", "placeOfBirth",
                                PlacesOf(i[1], i[2], "wikilink", "actor", "placeOfBirth"))
    BY Zenon DEF q07Turn, PlacesOf, PairContexts, BornThere, SaidBy, Born, Acts, Actor
  <2>5. found' = found \union Placing(i, both)
    BY <1>1, <2>3, Zenon
  <2>6. found' = found \union {<<c, i[1], i[2]>> : c \in both}
    BY <2>5, Zenon DEF Placing
  <2>7. named' = IF both = {} THEN named ELSE named \union C
    BY <1>1, <2>4, Zenon
  <2>8. QED
    BY <2>1, <2>2, <2>6, <2>7, Zenon
<1>3. UNCHANGED <<loadVars, ProvTrigerON, ProvUris>> /\ stage' = stage /\ query' = query /\ answers' = answers
  BY <1>2
<1>4. Ready /\ phase = "loaded" /\ query \in DOMAIN SPARQL
  BY <1>2 DEF BInv, Ready
<1>5. answers = {} /\ Couples(todo, found, named)
  <2>1. Progress(Visible, ProvTrigerON, ProvUris, "loop", "q07", todo, found, answers, named)
    BY <1>2, Zenon DEF BInv
  <2>2. QED
    BY <2>1, AtCouples, Zenon DEF Couples
<1>6. Couples(todo', found', named')
  <2>1. PICK r, o, e, p : r = "wikilink" /\ o = "actor" /\ e = "spouse" /\ p = "placeOfBirth"
    OBVIOUS
  <2>2. /\ Coupling(Visible, ProvTrigerON, ProvUris, r, o, e, p, todo, found, named)
        /\ both = PlacesOf(i[1], i[2], r, o, p)
        /\ C = PairContexts(i[1], i[2], r, o, e, p, both)
    BY <1>1, <1>5, <2>1, Zenon DEF Couples
  <2>3. Coupling(Visible, ProvTrigerON, ProvUris, r, o, e, p, todo \ {i}, found', named')
    <3> HIDE <1>1, <2>1
    <3>1. QED
      BY <1>2, <1>4, <2>2, PairingTurn
  <2>4. QED
    BY <1>2, <2>1, <2>3, Zenon DEF Couples
<1>7. Progress(Visible, ProvTrigerON, ProvUris, "loop", "q07", todo', found', answers', named')
  <2>1. answers' = {}
    BY <1>3, <1>5
  <2>2. Coupling(Visible, ProvTrigerON, ProvUris, "wikilink", "actor", "spouse", "placeOfBirth",
                 todo', found', named')
    BY <1>6, Zenon DEF Couples
  <2>3. QED
    BY <2>1, <2>2, AtCouples, Zenon
<1>8. Progress(Visible, ProvTrigerON, ProvUris, stage', query', todo', found', answers', named')
  BY <1>2, <1>3, <1>7, Zenon
<1>9. stage' = "loop"
  BY <1>2, <1>3
<1>10. QED
  BY <1>3, <1>4, <1>8, <1>9 DEF Advances

LEMMA q07PlacesAdvances == BInv /\ q07Places => Advances
<1> SUFFICES ASSUME BInv, q07Places PROVE Advances
  OBVIOUS
<1>1. /\ stage = "loop" /\ query = "q07" /\ todo = {}
      /\ stage' = "places" /\ todo' = found
      /\ UNCHANGED <<loadVars, ProvTrigerON, ProvUris>>
      /\ query' = query /\ found' = found /\ answers' = answers /\ named' = named
  BY DEF q07Places
<1>2. phase = "loaded" /\ query \in DOMAIN SPARQL
  BY <1>1 DEF BInv
<1>3. answers = {} /\ Couples({}, found, named)
  <2>1. Progress(Visible, ProvTrigerON, ProvUris, "loop", "q07", {}, found, answers, named)
    BY <1>1, Zenon DEF BInv
  <2>2. QED
    BY <2>1, AtCouples, Zenon DEF Couples
<1>4. Open("q07", Visible, ProvTrigerON, ProvUris, found, {}, named)
  BY <1>3, Opens_q07, Zenon
<1>5. Progress(Visible, ProvTrigerON, ProvUris, "places", "q07", found, found, {}, named)
  BY <1>4, AtPlaces, Zenon
<1>6. Progress(Visible, ProvTrigerON, ProvUris, stage', query', todo', found', answers', named')
  <2>1. query' = "q07" /\ answers' = {}
    BY <1>1, <1>3
  <2>2. QED
    BY <1>1, <1>5, <2>1, Zenon
<1>7. QED
  BY <1>1, <1>2, <1>6 DEF Advances

\* Its second loop.
LEMMA q07PlaceAdvances == BInv /\ (\E i : q07Place(i)) => Advances
<1> SUFFICES ASSUME BInv, NEW i, q07Place(i) PROVE Advances
  OBVIOUS
<1>1. PICK located, S, C :
        /\ located = LocatedOf(i[1], "sameAs", "lat", "long")
        /\ S = RowsAfter(i[2], i[3], "lat", "long", located)
        /\ C = GeoContexts("lat", "long", located) \union SameContexts(i[1], "sameAs", located)
  OBVIOUS
<1>2. /\ stage = "places" /\ i \in todo /\ todo' = todo \ {i}
      /\ answers' = answers \union RowsAfter(i[2], i[3], "lat", "long", located)
      /\ named' = named \union GeoContexts("lat", "long", located)
                    \union SameContexts(i[1], "sameAs", located)
      /\ UNCHANGED <<loadVars, stage, query, ProvTrigerON, ProvUris, found>>
  <2>1. stage = "places" /\ i \in todo /\ todo' = todo \ {i}
    BY Zenon DEF q07Place
  <2>2. UNCHANGED <<loadVars, stage, query, ProvTrigerON, ProvUris, found>>
    BY Zenon DEF q07Place
  <2>3. answers' = answers \union
          RowsAfter(i[2], i[3], "lat", "long", LocatedOf(i[1], "sameAs", "lat", "long"))
    BY Zenon DEF q07Place, LocatedOf, RowsAfter, GeoOf
  <2>4. named' = named \union GeoContexts("lat", "long", LocatedOf(i[1], "sameAs", "lat", "long"))
                   \union SameContexts(i[1], "sameAs", LocatedOf(i[1], "sameAs", "lat", "long"))
    BY Zenon DEF q07Place, LocatedOf, GeoContexts, SameContexts, GeoOf
  <2>5. QED
    BY <1>1, <2>1, <2>2, <2>3, <2>4, Zenon
<1>3. /\ UNCHANGED <<loadVars, ProvTrigerON, ProvUris>> /\ stage' = stage /\ query' = query
      /\ answers' = answers \union S
  BY <1>1, <1>2, Zenon
<1>4. named' = named \union C
  <2>1. PICK X, Y : X = GeoContexts("lat", "long", located) /\ Y = SameContexts(i[1], "sameAs", located)
    OBVIOUS
  <2>2. C = X \union Y /\ named' = (named \union X) \union Y
    BY <1>1, <1>2, <2>1, Zenon
  <2> HIDE <1>1, <1>2, <2>1
  <2>3. QED
    BY <2>2
<1>5. Ready /\ phase = "loaded" /\ query \in DOMAIN SPARQL
  BY <1>2 DEF BInv, Ready
<1>6. query = "q07" /\ Open("q07", Visible, ProvTrigerON, ProvUris, todo, answers, named)
  <2>1. Progress(Visible, ProvTrigerON, ProvUris, "places", query, todo, found, answers, named)
    BY <1>2, Zenon DEF BInv
  <2>2. QED
    BY <2>1, AtPlaces, Zenon
<1>7. Adds("q07", Visible, ProvTrigerON, ProvUris, named, i, S, C)
  <2>1. Item("q07", Visible, ProvTrigerON, ProvUris, named, i)
    BY <1>2, <1>6, Zenon DEF Open
  <2>2. Couple(Within(Visible, named), "wikilink", "actor", "spouse", "placeOfBirth", i)
    BY <2>1, ItemOf, Zenon
  <2>3. Grants("q07", named, i, S, C)
    BY <1>1, <1>5, <2>2, Grants_q07, Zenon
  <2>4. QED
    BY <2>3, Zenon DEF Grants
<1>8. Open(query, Visible, ProvTrigerON, ProvUris, todo \ {i}, answers', named')
  <2>1. /\ Open(query, Visible, ProvTrigerON, ProvUris, todo, answers, named)
        /\ Adds(query, Visible, ProvTrigerON, ProvUris, named, i, S, C)
    BY <1>6, <1>7, Zenon
  <2>2. i \in todo
    BY <1>2
  <2> HIDE <1>1, <1>2
  <2>3. QED
    BY <1>3, <1>4, <1>5, <2>1, <2>2, TurnKeepsOpen
<1>9. Progress(Visible, ProvTrigerON, ProvUris, stage', query', todo', found', answers', named')
  <2>1. Open("q07", Visible, ProvTrigerON, ProvUris, todo', answers', named')
    BY <1>2, <1>6, <1>8, Zenon
  <2>2. Progress(Visible, ProvTrigerON, ProvUris, "places", "q07", todo', found', answers', named')
    BY <2>1, AtPlaces, Zenon
  <2>3. stage' = "places" /\ query' = "q07"
    BY <1>2, <1>3, <1>6, Zenon
  <2>4. QED
    BY <2>2, <2>3, Zenon
<1>10. stage' = "places"
  BY <1>2, <1>3, Zenon
<1>11. QED
  BY <1>3, <1>5, <1>9, <1>10 DEF Advances

LEMMA LoopDoneAdvances == BInv /\ LoopDone => Advances
<1> SUFFICES ASSUME BInv, LoopDone PROVE Advances
  OBVIOUS
<1>1. /\ (stage = "loop" /\ query # "q07") \/ stage = "places"
      /\ todo = {} /\ stage' = "done" /\ UNCHANGED <<loadVars, ProvTrigerON, ProvUris>>
      /\ query' = query /\ todo' = todo /\ found' = found /\ answers' = answers /\ named' = named
  BY DEF LoopDone
<1>2. phase = "loaded" /\ query \in DOMAIN SPARQL
  BY <1>1 DEF BInv
<1>3. Open(query, Visible, ProvTrigerON, ProvUris, {}, answers, named)
  <2>1. CASE stage = "loop" /\ query # "q07"
    <3>1. Progress(Visible, ProvTrigerON, ProvUris, "loop", query, {}, found, answers, named)
      BY <1>1, <2>1, Zenon DEF BInv
    <3>2. QED
      BY <2>1, <3>1 DEF Progress
  <2>2. CASE stage = "places"
    <3>1. Progress(Visible, ProvTrigerON, ProvUris, "places", query, {}, found, answers, named)
      BY <1>1, <2>2, Zenon DEF BInv
    <3>2. query = "q07" /\ Open("q07", Visible, ProvTrigerON, ProvUris, {}, answers, named)
      BY <3>1, AtPlaces
    <3>3. QED
      BY <3>2, Zenon
  <2>3. QED
    BY <1>1, <2>1, <2>2
<1>4. /\ Sound(query, Visible, ProvTrigerON, ProvUris, answers, named)
      /\ Asked(query, Visible) \subseteq answers
  BY <1>3, OpenCloses
<1>5. Over(query, Visible, ProvTrigerON, ProvUris, answers, named)
  BY <1>4 DEF Over
<1>6. Progress(Visible, ProvTrigerON, ProvUris, "done", query, todo', found', answers', named')
  <2>1. Over(query, Visible, ProvTrigerON, ProvUris, answers', named')
    BY <1>1, <1>5, Zenon
  <2>2. QED
    BY <2>1, AtEnd
<1>7. Progress(Visible, ProvTrigerON, ProvUris, stage', query', todo', found', answers', named')
  BY <1>1, <1>6, Zenon
<1>8. QED
  BY <1>1, <1>2, <1>7 DEF Advances
------------------------------------------------------------------------------

LEMMA BeginLoopAdvances ==
  ASSUME BInv, NEW q \in Loops, BeginLoop(q)
  PROVE  Advances
<1>1. q \in {"q05", "q06", "q07", "q08", "w05"}
  BY DEF Loops
<1>2. CASE q = "q05"
  <2>1. q05Begin
    BY <1>2, Zenon DEF BeginLoop
  <2>2. QED
    BY <2>1, q05BeginAdvances
<1>3. CASE q = "q06"
  <2>1. q06Begin
    BY <1>3, Zenon DEF BeginLoop
  <2>2. QED
    BY <2>1, q06BeginAdvances
<1>4. CASE q = "q07"
  <2>1. q07Begin
    BY <1>4, Zenon DEF BeginLoop
  <2>2. QED
    BY <2>1, q07BeginAdvances
<1>5. CASE q = "q08"
  <2>1. q08Begin
    BY <1>5, Zenon DEF BeginLoop
  <2>2. QED
    BY <2>1, q08BeginAdvances
<1>6. CASE q = "w05"
  <2>1. w05Begin
    BY <1>6, Zenon DEF BeginLoop
  <2>2. QED
    BY <2>1, w05BeginAdvances
<1>7. QED
  BY <1>1, <1>2, <1>3, <1>4, <1>5, <1>6

LEMMA QueryNextAdvances == BInv /\ QueryNext => Advances
<1> SUFFICES ASSUME BInv, QueryNext PROVE Advances
  OBVIOUS
<1>1. Queries \subseteq DOMAIN SPARQL
  BY QueriesAssumption
<1>2. ASSUME NEW q \in Queries \ Loops, RunAtOnce(q) PROVE Advances
  BY <1>1, <1>2, RunAtOnceAdvances
<1>3. ASSUME NEW q \in Queries \intersect Loops, BeginLoop(q) PROVE Advances
  BY <1>3, BeginLoopAdvances
<1>4. ASSUME NEW i, q05Turn(i) \/ q06Turn(i) \/ w05Turn(i) \/ q08Turn(i) \/ q07Turn(i)
      PROVE  Advances
  BY <1>4, q05TurnAdvances, q06TurnAdvances, w05TurnAdvances, q08TurnAdvances, q07TurnAdvances, Zenon
<1>5. ASSUME NEW i, q07Place(i) PROVE Advances
  BY <1>5, q07PlaceAdvances, Zenon
<1>6. QED
  BY <1>2, <1>3, <1>4, <1>5, q07PlacesAdvances, LoopDoneAdvances, Zenon DEF QueryNext

\* The load runs before any query, and nothing is shown then.
LEMMA LoadKeeps ==
  ASSUME BInv, LoadNext, UNCHANGED queryVars
  PROVE  BInv'
<1>1. /\ stage' = stage /\ query' = query /\ ProvTrigerON' = ProvTrigerON /\ ProvUris' = ProvUris
      /\ todo' = todo /\ found' = found /\ answers' = answers /\ named' = named
  BY DEF queryVars
<1>2. StoreInv'
  BY StoreInvNext DEF BInv
<1>3. phase # "loaded"
  BY DEF LoadNext, ReadLine, EndOfFiles, AddNextTemplate, TemplatesDone, StoreLine, LoadDone
<1>4. stage = "idle"
  BY <1>3 DEF BInv
<1>5. found = {} /\ answers = {} /\ named = {}
  <2>1. Progress(Visible, ProvTrigerON, ProvUris, "idle", query, todo, found, answers, named)
    BY <1>4, Zenon DEF BInv
  <2>2. QED
    BY <2>1, AtStart
<1>6. Progress(Visible', ProvTrigerON', ProvUris', "idle", query', todo', found', answers', named')
  BY <1>1, <1>5, AtStart
<1>7. Progress(Visible', ProvTrigerON', ProvUris', stage', query', todo', found', answers', named')
  BY <1>1, <1>4, <1>6, Zenon
<1>8. ProvTrigerON' \in BOOLEAN /\ stage' = "idle"
  BY <1>1, <1>4 DEF BInv
<1>9. QED
  <2>1. stage' \in {"idle", "loop", "places", "done"} /\ (stage' # "idle" => phase' = "loaded" /\ query' \in DOMAIN SPARQL)
    BY <1>8
  <2>2. QED
    BY <1>2, <1>7, <1>8, <2>1, Zenon DEF BInv

LEMMA BInvInit == Init => BInv
<1> SUFFICES ASSUME Init PROVE BInv
  OBVIOUS
<1>1. StoreInv
  BY StoreInvInit DEF Init
<1>2. stage = "idle" /\ ProvTrigerON \in BOOLEAN /\ found = {} /\ answers = {} /\ named = {}
  BY DEF Init
<1>3. Progress(Visible, ProvTrigerON, ProvUris, "idle", query, todo, found, answers, named)
  BY <1>2, AtStart
<1>4. Progress(Visible, ProvTrigerON, ProvUris, stage, query, todo, found, answers, named)
  BY <1>2, <1>3, Zenon
<1>5. QED
  BY <1>1, <1>2, <1>4 DEF BInv

LEMMA BInvNext == BInv /\ [Next]_vars => BInv'
<1>1. ASSUME BInv, LoadNext, UNCHANGED queryVars PROVE BInv'
  BY <1>1, LoadKeeps
<1>2. ASSUME BInv, QueryNext PROVE BInv'
  BY <1>2, QueryNextAdvances, AdvancesKeeps
<1>3. ASSUME BInv, UNCHANGED vars PROVE BInv'
  <2>1. /\ UNCHANGED loadVars /\ phase' = phase /\ tripleIDs' = tripleIDs
        /\ stage' = stage /\ query' = query /\ ProvTrigerON' = ProvTrigerON /\ ProvUris' = ProvUris
        /\ todo' = todo /\ found' = found /\ answers' = answers /\ named' = named
    BY <1>3 DEF vars, queryVars, loadVars
  <2>2. StoreInv'
    BY <1>3, <2>1, StoreInvNext DEF BInv
  <2>3. Visible' = Visible
    BY <2>1, Zenon DEF Visible, Stored
  <2>4. Progress(Visible', ProvTrigerON', ProvUris', stage', query', todo', found', answers', named')
    <3>1. Progress(Visible, ProvTrigerON, ProvUris, stage, query, todo, found, answers, named)
      BY <1>3, Zenon DEF BInv
    <3>2. QED
      BY <2>1, <2>3, <3>1, Zenon
  <2>5. /\ ProvTrigerON' \in BOOLEAN
        /\ stage' \in {"idle", "loop", "places", "done"}
        /\ stage' # "idle" => phase' = "loaded" /\ query' \in DOMAIN SPARQL
    BY <1>3, <2>1 DEF BInv
  <2>6. QED
    BY <2>2, <2>4, <2>5, Zenon DEF BInv
<1>4. QED
  BY <1>1, <1>2, <1>3 DEF Next

\* The invariant of the queries.
THEOREM QueriesInvariant == Spec => []BInv
<1>1. QED
  BY BInvInit, BInvNext, PTL DEF Spec

\* Where a query is over.
LEMMA WhenDone ==
  ASSUME BInv, stage = "done"
  PROVE  Over(query, Visible, ProvTrigerON, ProvUris, answers, named) /\ query \in DOMAIN SPARQL
<1>1. Progress(Visible, ProvTrigerON, ProvUris, "done", query, todo, found, answers, named)
  BY Zenon DEF BInv
<1>2. QED
  BY <1>1, AtEnd DEF BInv

\* Whatever the dataset and the filter, the contexts a query names when it is
\* over are among those it was given and contain the lines that make what it
\* shows its solutions (w04: if something links its two halves).
THEOREM AnswersAreExplained == Spec => []NamedContextsSuffice
<1>1. BInv => NamedContextsSuffice
  <2> SUFFICES ASSUME BInv, stage = "done", query = "w04" => LinksOf("w04") # {}
               PROVE  /\ ProvTrigerON => named \subseteq ProvUris
                      /\ answers \subseteq Asked(query, {x \in Visible : x.prov \in named})
    BY Zenon DEF NamedContextsSuffice
  <2>1. LinksOf("w04") = LinksAt("w04", Visible)
    BY LinksAreVisible
  <2>2. Sound(query, Visible, ProvTrigerON, ProvUris, answers, named)
    BY <2>1, WhenDone DEF Over
  <2>3. (ProvTrigerON => named \subseteq ProvUris) /\ answers \subseteq Asked(query, Within(Visible, named))
    BY <2>2 DEF Sound
  <2>4. Within(Visible, named) = {x \in Visible : x.prov \in named}
    BY DEF Within
  <2>5. QED
    BY <2>3, <2>4, Zenon
<1>2. QED
  BY <1>1, QueriesInvariant, PTL

\* A query shows only solutions of its text over the lines it may see.
THEOREM AnswersStaySolutions == Spec => []AnswersAreSolutions
<1>1. BInv => AnswersAreSolutions
  <2> SUFFICES ASSUME BInv, stage = "done", query = "w04" => LinksOf("w04") # {}
               PROVE  answers \subseteq Asked(query, Visible)
    BY Zenon DEF AnswersAreSolutions
  <2>1. LinksOf("w04") = LinksAt("w04", Visible)
    BY LinksAreVisible
  <2>2. answers \subseteq Asked(query, Within(Visible, named))
    BY <2>1, WhenDone DEF Over, Sound
  <2>3. Within(Visible, named) \subseteq Visible
    BY DEF Within
  <2>4. Asked(query, Within(Visible, named)) \subseteq Asked(query, Visible)
    BY <2>3, WhenDone, AskedGrows
  <2>5. QED
    BY <2>2, <2>4
<1>2. QED
  BY <1>1, QueriesInvariant, PTL

\* It shows all of them (q04 and w04: if a single value links their halves).
THEOREM AllSolutionsAreShown == Spec => []SolutionsAreAnswered
<1>1. BInv => SolutionsAreAnswered
  <2> SUFFICES ASSUME BInv, stage = "done",
                      query \in {"q04", "w04"} => Cardinality(LinksOf(query)) = 1
               PROVE  Asked(query, Visible) \subseteq answers
    BY Zenon DEF SolutionsAreAnswered
  <2>1. LinksOf(query) = LinksAt(query, Visible)
    BY LinksAreVisible
  <2>2. QED
    BY <2>1, WhenDone DEF Over
<1>2. QED
  BY <1>1, QueriesInvariant, PTL
==============================================================================
