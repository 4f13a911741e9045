----------------------------- MODULE DatasetFiles -----------------------------
(***************************************************************************)
(* For instances: a dataset that is a file of lines some of which may be   *)
(* left out.                                                               *)
(***************************************************************************)
EXTENDS Sequences, SequencesExt

Q(s, p, o, g) == [subject |-> s, predicate |-> p, object |-> o, prov |-> g]
\* Lines that are there, and lines that may be left out.
L(s, p, o, g) == [line |-> Q(s, p, o, g), optional |-> FALSE]
M(s, p, o, g) == [line |-> Q(s, p, o, g), optional |-> TRUE]

\* lines is the beginning of file f, some optional lines left out.
Begins(lines, f) ==
  LET place == [i \in DOMAIN lines |-> CHOOSE j \in DOMAIN f : f[j].line = lines[i]]
  IN  /\ \A i \in DOMAIN lines : \E j \in DOMAIN f : f[j].line = lines[i]
      /\ \A i \in DOMAIN lines :
           LET last == IF i = 1 THEN 0 ELSE place[i - 1]
           IN  last < place[i] /\ \A j \in (last + 1) .. (place[i] - 1) : f[j].optional

\* lines is the whole of file f.
Ends(lines, f) ==
  /\ Begins(lines, f)
  /\ \A j \in DOMAIN f : f[j].optional \/ f[j].line \in Range(lines)
==============================================================================
