-------------------------------- MODULE Sparql --------------------------------
(***************************************************************************)
(* The words of queries, and the meaning of the SPARQL text above each     *)
(* query function, over a set of quads.                                    *)
(***************************************************************************)
EXTENDS Integers, Sequences, SequencesExt

CONSTANT Words   \* what KeyManager knows of the words of queries: word -> KEY_ID

\* diplo::KM.Get: 0 for a word the dataset does not have.
KM(word) == IF word \in DOMAIN Words THEN Words[word] ELSE 0

\* The variables of the texts.
Vars == {"?a", "?b", "?c", "?c2", "?d", "?desc", "?e", "?j", "?l", "?lat", "?long",
         "?m", "?n", "?p", "?page", "?s", "?t", "?x", "?y", "?y1", "?y2", "?y3", "?z"}

\* SELECT columns WHERE patterns; a union is a set of these.
Select(columns, patterns) == [columns |-> columns, patterns |-> patterns]

\* A binding b of some variables goes with term standing for identifier k, and
\* is extended by it.
Fits(b, term, k) ==
  IF term \in Vars THEN term \in DOMAIN b => b[term] = k ELSE KM(term) = k
Bind(b, term, k) ==
  IF term \in Vars
    THEN [x \in DOMAIN b \union {term} |-> IF x = term THEN k ELSE b[x]]
    ELSE b

Match(quads, b, pattern) ==
  LET hits == {q \in quads : /\ Fits(b, pattern[1], q.subject)
                             /\ Fits(b, pattern[2], q.predicate)
                             /\ Fits(b, pattern[3], q.object)}
  IN  {Bind(Bind(Bind(b, pattern[1], q.subject), pattern[2], q.predicate),
            pattern[3], q.object) : q \in hits}

Solutions(quads, patterns) ==
  FoldLeft(LAMBDA bs, pattern : UNION {Match(quads, b, pattern) : b \in bs},
           {<<>>}, patterns)
==============================================================================
