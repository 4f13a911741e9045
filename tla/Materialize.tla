------------------------------ MODULE Materialize ------------------------------
(***************************************************************************)
(* Molecules::MaterializeMoleculesForProvenance: what the trigger lets     *)
(* through is copied into a second store M2, to be asked without it.       *)
(* Nothing calls the function; here it runs where it can be of use, with   *)
(* the trigger on and ProvUris as some block of a provenance query has     *)
(* left it.                                                                *)
(***************************************************************************)
EXTENDS ProvQuery

VARIABLES
  copied,          \* FALSE until the call
  toCopy,          \* the molecules its loop has still to come to
  molecules2,      \* M2.molecules
  inv_molecules2   \* M2.inv_molecules

copyVars == <<copied, toCopy, molecules2, inv_molecules2>>

MaterializeInit ==
  /\ Init
  /\ copied = FALSE
  /\ toCopy = {}
  /\ molecules2 = [k \in KEY_ID |-> NoMolecule]
  /\ inv_molecules2 = Empty

\* The call: the provenance index, of which there is one, is cleared.
Materialize ==
  /\ phase = "loaded" /\ ~ copied
  /\ copied' = TRUE
  /\ toCopy' = {s \in KEY_ID : molecules[s] # NoMolecule}
  /\ ProvIdx' = Empty
  /\ UNCHANGED <<phase, tripleIDs, toAdd, templates, pos, molecules, inv_molecules,
                 contextTriples, provVars, molecules2, inv_molecules2>>

\* The elements the trigger lets through, group by group.
Visible(m) ==
  FlattenSeq([i \in DOMAIN m |->
    IF provenanceTriger(TRUE, ProvUris, m[i].prov)
      THEN [j \in DOMAIN m[i].next |->
              [prov |-> m[i].prov, tmpl |-> m[i].next[j].tmpl, obj |-> m[i].next[j].obj]]
      ELSE <<>>])

\* A molecule with some elements added, one after the other.
Reconstructed(m, elems) ==
  FoldLeft(LAMBDA r, e : AddToMolecule(r, e.tmpl, e.obj, e.prov), m, elems)

\* Mutant of ReconstructMolecule: the inverted index has the first object only.
ReconstructMoleculeFirst(s, elems) ==
  /\ molecules2' = [molecules2 EXCEPT ![s] = Reconstructed(@, elems)]
  /\ inv_molecules2' = [o \in KEY_ID |->
       inv_molecules2[o] \union {t \in {s} : elems # <<>> /\ elems[1].obj = o}]
  /\ ProvIdx' = [p \in KEY_ID |-> ProvIdx[p] \union {t \in {s} : \E e \in Range(elems) : e.prov = p}]

\* ReconstructMolecule for each of some elements.
ReconstructMolecule(s, elems) ==
  /\ molecules2' = [molecules2 EXCEPT ![s] = Reconstructed(@, elems)]
  /\ inv_molecules2' = [o \in KEY_ID |->
       inv_molecules2[o] \union {t \in {s} : \E e \in Range(elems) : e.obj = o}]
  /\ ProvIdx' = [p \in KEY_ID |-> ProvIdx[p] \union {t \in {s} : \E e \in Range(elems) : e.prov = p}]

\* One turn of the loop over the unordered map.
CopyMolecule(s) ==
  /\ s \in toCopy
  /\ toCopy' = toCopy \ {s}
  /\ ReconstructMolecule(s, Visible(molecules[s]))
  /\ UNCHANGED <<phase, tripleIDs, toAdd, templates, pos, molecules, inv_molecules,
                 contextTriples, provVars, copied>>

MaterializeNext ==
  \/ ~ copied /\ Next /\ UNCHANGED copyVars
  \/ Materialize
  \/ \E s \in toCopy : CopyMolecule(s)

MaterializeSpec == MaterializeInit /\ [][MaterializeNext]_<<vars, copyVars>>
------------------------------------------------------------------------------
Copy == INSTANCE API WITH molecules <- molecules2, inv_molecules <- inv_molecules2

\* The copy, asked without the trigger, answers every look-up as the original
\* does with it, provenance included: subjects, objects and patterns start from
\* indexes, and those of the copy know what is visible and no more.
CopyAnswersAlike ==
  copied /\ toCopy = {} =>
    LET predicates == {q.predicate : q \in Stored}
        Asks(p, o) == [subject |-> 0, predicate |-> p, object |-> o, prov |-> 0]
    IN  /\ \A q \in Stored :
             /\ Copy!GetSubjectsProv(q.object, q.predicate, FALSE, {}) =
                  GetSubjectsProv(q.object, q.predicate, TRUE, ProvUris)
             /\ Copy!GetObjects(q.subject, q.predicate, FALSE, {}) =
                  GetObjects(q.subject, q.predicate, TRUE, ProvUris)
             /\ \A p \in predicates :
                  Copy!TriplePatern(<<Asks(q.predicate, q.object)>>, <<Asks(p, 0)>>, FALSE, {}) =
                    TriplePatern(<<Asks(q.predicate, q.object)>>, <<Asks(p, 0)>>, TRUE, ProvUris)
        /\ Copy!InvertedIndexExact
        /\ Copy!ProvIdxExact
==============================================================================
