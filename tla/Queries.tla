------------------------------- MODULE Queries -------------------------------
(***************************************************************************)
(* What the query functions of BTCprov and WDCqueries have in common: the  *)
(* words they look up, the patterns they build, what is shown of rows; and *)
(* the meaning of the SPARQL text above each of them, over a set of quads. *)
(***************************************************************************)
EXTENDS API, Sparql

\* A word KeyManager knows has an identifier in the range of the store.
ASSUME WordsAssumption == \A w \in DOMAIN Words : Words[w] \in KEY_ID

\* TripleIDs(0, p, o, 0), TripleIDs(0, p, o, 1), TripleIDs(0, -1, o, 0).
Has(p, o) == [subject |-> 0, predicate |-> KM(p), object |-> KM(o), prov |-> 0]
Maybe(p, o) == [Has(p, o) EXCEPT !.prov = 1]
Mentions(k) == [subject |-> 0, predicate |-> Wild, object |-> k, prov |-> 0]
\* TripleIDs(s, p, o, 0) where s and o are identifiers, 0 or -1.
Says(s, p, o) == [subject |-> s, predicate |-> KM(p), object |-> o, prov |-> 0]
Wanted(p) == Says(0, p, 0)

\* The values of the rows and the contexts they name.
ValuesOf(rows) == UNION {UNION Range(rows[s].results) : s \in DOMAIN rows}
ContextsOf(rows) == UNION {UNION Range(rows[s].prov) : s \in DOMAIN rows}

\* What DrisplayResults shows of a row: its sets are alternatives for a column
\* each; the set behind the last column is empty.
Shown(row) ==
  LET columns == SubSeq(row.results, 1, Len(row.results) - 1)
  IN  {t \in [DOMAIN columns -> UNION Range(columns)] :
         \A i \in DOMAIN columns : t[i] \in columns[i]}
ShownRows(rows) == UNION {Shown(rows[s]) : s \in DOMAIN rows}
------------------------------------------------------------------------------
(***************************************************************************)
(* The queries as the comments in the functions state them.                *)
(***************************************************************************)

About(p, v) == <<"?a", p, v>>

\* The lines of the dataset the store is to answer about.
Stored == {q \in Range(tripleIDs) : Storable(q)}
==============================================================================
