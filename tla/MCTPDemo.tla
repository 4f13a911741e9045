------------------------------ MODULE MCTPDemo ------------------------------
(***************************************************************************)
(* Places of type 3, the activities that produced the contexts, which are  *)
(* unclassified subjects (type 2) of the same dataset, and a class (type   *)
(* 1), whose lines are not stored.  France and Paris are objects of more   *)
(* than one molecule, and Paris is a subject too.  The queries are the     *)
(* shapes of the files query01 .. query05, ProvQuery and ProvQuery2, which *)
(* name ?s twice, the same with a name for each projection, and the corner *)
(* cases of TriplePatern: a known subject, an object the dataset does not  *)
(* mention, no projection, a variable as first object.                     *)
(***************************************************************************)
EXTENDS TPDemo

CONSTANTS a, s, v, w, nowhere

Place == 103
Paris == 301
Fribourg == 302
Activity == 201
Country == 211
Name == 212
Generated == 213
AssociatedWith == 214
France == 221
G1 == 231
G2 == 232

MCKeys == {Place, Paris, Fribourg, Activity, Country, Name, Generated, AssociatedWith,
           France, G1, G2}

Q(su, p, o, g) == [subject |-> su, predicate |-> p, object |-> o, prov |-> g]

MCLines ==
  {Q(Paris, Country, France, G1), Q(Paris, Country, France, G2),
   Q(Fribourg, Country, France, G2), Q(Paris, Name, Paris, G2),
   Q(Paris, Name, France, G1),
   Q(Activity, Country, France, G2), Q(Activity, Generated, G1, G2),
   Q(Activity, AssociatedWith, G2, G1),
   Q(Place, Name, Paris, G1)}

L(su, p, o) == [subject |-> su, predicate |-> p, object |-> o]

MCProvQueries ==
  {[constrains |-> <<L(a, Country, France)>>,
    projections |-> <<L(a, Generated, s), L(a, AssociatedWith, s)>>],
   [constrains |-> <<L(a, Country, France)>>,
    projections |-> <<L(a, Generated, s), L(a, AssociatedWith, w)>>],
   [constrains |-> <<L(a, Country, France)>>, projections |-> <<L(a, Generated, s)>>]}

MCMainQueries ==
  {[constrains |-> <<L(a, Country, France)>>,
    projections |-> <<L(a, Country, v), L(a, Name, w)>>],
   [constrains |-> <<L(a, Country, France), L(a, Name, Paris)>>, projections |-> <<>>],
   [constrains |-> <<>>, projections |-> <<L(Paris, Country, v)>>],
   [constrains |-> <<>>, projections |-> <<L(a, Country, v)>>],
   [constrains |-> <<L(a, Country, nowhere)>>, projections |-> <<L(a, Country, v)>>],
   [constrains |-> <<L(a, Name, v)>>, projections |-> <<L(a, Country, w)>>]}
==============================================================================
