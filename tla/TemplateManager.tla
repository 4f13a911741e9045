--------------------------- MODULE TemplateManager ---------------------------
(***************************************************************************)
(* TemplateManager.cpp: the molecule templates.  For every root type the   *)
(* manager keeps a set of triple templates (subject type, predicate,       *)
(* object type, scope), ordered without regard to their ID; molecules hold *)
(* template IDs instead of predicates, so a query finds a predicate in a   *)
(* molecule only through this table.                                       *)
(*                                                                         *)
(* The module has no state of its own: every operator takes the table tm,  *)
(* a function from root types to sets of templates ({} where the map of    *)
(* the code has no entry).                                                 *)
(***************************************************************************)
EXTENDS Integers, FiniteSets

CONSTANTS
  KEY_ID,    \* the identifiers KeyManager handed out (type and sequence number)
  SeqSpan    \* 2^32 in the code: a KEY_ID is type * SeqSpan + sequence number

ASSUME KeyAssumption ==
  /\ KEY_ID \subseteq Nat \ {0}
  /\ SeqSpan \in Nat \ {0}

\* (KEY_ID) -1 and (TYPE_ID) -1, the wildcard of the lookups, and the
\* "not found" that GetTemplate returns.
Wild == -1
NoTemplate == -1

\* KeyManager::GetType: the upper half of an identifier.
GetType(id) == id \div SeqSpan

TYPE_ID == {GetType(k) : k \in KEY_ID}

TripleTemplate ==
  [subjectType : TYPE_ID, predicateID : KEY_ID, objectType : TYPE_ID,
   scope : Nat, ID : Nat]

Templates == [TYPE_ID -> SUBSET TripleTemplate]

NoTemplates == [t \in TYPE_ID |-> {}]

\* Two templates the set of the code cannot hold together: operator< compares
\* every field but the ID.
SameTemplate(t, u) ==
  /\ t.subjectType = u.subjectType
  /\ t.predicateID = u.predicateID
  /\ t.objectType = u.objectType
  /\ t.scope = u.scope

\* operator<, lexicographic on (subjectType, predicateID, objectType, scope).
Before(t, u) ==
  \/ t.subjectType < u.subjectType
  \/ /\ t.subjectType = u.subjectType
     /\ \/ t.predicateID < u.predicateID
        \/ /\ t.predicateID = u.predicateID
           /\ \/ t.objectType < u.objectType
              \/ t.objectType = u.objectType /\ t.scope < u.scope

\* The template of a line, tripleTemplatesTypesTmp of LoadData; the constructor leaves ID and scope at 0.
TemplateOf(q) ==
  [subjectType |-> GetType(q.subject), predicateID |-> q.predicate,
   objectType |-> GetType(q.object), scope |-> 0, ID |-> 0]

\* Mutants of InsertTemplate: numbers from 0; the same number for all.
InsertTemplateFromZero(S, t) ==
  IF \E u \in S : SameTemplate(u, t) THEN S ELSE S \union {[t EXCEPT !.ID = Cardinality(S)]}
InsertTemplateUnnumbered(S, t) ==
  IF \E u \in S : SameTemplate(u, t) THEN S ELSE S \union {[t EXCEPT !.ID = 1]}

\* set::insert after ID = size() + 1: a template already there keeps its ID.
InsertTemplate(S, t) ==
  IF \E u \in S : SameTemplate(u, t)
    THEN S
    ELSE S \union {[t EXCEPT !.ID = Cardinality(S) + 1]}

\* Mutant of AddTemplate: unclassified subjects are refused too.
AddTemplateTypedOnly(tm, t) ==
  IF t.subjectType < 3
    THEN tm
    ELSE [tm EXCEPT ![t.subjectType] = InsertTemplate(@, t)]

\* AddTemplate: the subject type is the root; types 0 and 1 have no templates.
AddTemplate(tm, t) ==
  IF t.subjectType < 2
    THEN tm
    ELSE [tm EXCEPT ![t.subjectType] = InsertTemplate(@, t)]

\* The loop body of AddTriple and AddTripleInScope: a root whose paths reach the
\* subject type one scope above takes the template.
Extended(S, t, scope) ==
  IF \E u \in S : u.scope = scope - 1 /\ u.objectType = t.subjectType
    THEN InsertTemplate(S, [t EXCEPT !.scope = scope])
    ELSE S

AddTriple(tm, t, scope) == [root \in DOMAIN tm |-> Extended(tm[root], t, scope)]

AddTripleInScope(tm, t, root, scope) ==
  IF root \in DOMAIN tm THEN [tm EXCEPT ![root] = Extended(@, t, scope)] ELSE tm

\* GetTemplate: the ID of the scope 0 template of root, or -1.
GetTemplate(tm, root, s, p, o) ==
  LET hit == {u \in tm[root] : /\ u.subjectType = s /\ u.predicateID = p
                               /\ u.objectType = o /\ u.scope = 0}
  IN  IF root \in DOMAIN tm /\ hit # {}
        THEN (CHOOSE u \in hit : TRUE).ID
        ELSE NoTemplate

\* GetTripleTemplate: the first template, in the order of the set, that fits;
\* here 0 is the wildcard for the two types.
GetTripleTemplate(tm, root, s, p, o, scope) ==
  LET hit == {u \in tm[root] : /\ s \in {0, u.subjectType} /\ u.predicateID = p
                               /\ o \in {0, u.objectType} /\ u.scope = scope}
  IN  IF root \in DOMAIN tm /\ hit # {}
        THEN (CHOOSE u \in hit : \A v \in hit \ {u} : Before(u, v)).ID
        ELSE NoTemplate

\* The (root, ID) pairs both GetTemplates look up.  Without a wildcard and at
\* scope 0 only the table of root s is searched; otherwise every root is.
GetTemplatesByRoot(tm, s, p, o, scope) ==
  LET roots == IF scope = 0 /\ Wild \notin {s, p, o}
                 THEN DOMAIN tm \intersect {s}
                 ELSE DOMAIN tm
      Matches(u) == /\ s \in {Wild, u.subjectType}
                    /\ p \in {Wild, u.predicateID}
                    /\ o \in {Wild, u.objectType}
                    /\ u.scope = scope
  IN  UNION {{<<root, u.ID>> : u \in {v \in tm[root] : Matches(v)}} : root \in roots}

\* GetTemplates filling an unordered_set: the roots are forgotten.
GetTemplates(tm, s, p, o, scope) ==
  {ri[2] : ri \in GetTemplatesByRoot(tm, s, p, o, scope)}

\* GetPredicate: the predicate a template ID of root stands for, 0 if none.
GetPredicate(tm, root, tmpl) ==
  LET hit == {u \in tm[root] : u.ID = tmpl}
  IN  IF hit = {} THEN 0 ELSE (CHOOSE u \in hit : TRUE).predicateID

\* The table of a root as a load without scopes leaves it: IDs from 1 to its
\* size, one per template, and no template twice.
WellFormed(root, S) ==
  /\ S \subseteq TripleTemplate
  /\ IsFiniteSet(S)
  /\ \A t \in S : /\ t.subjectType = root
                  /\ t.scope = 0
                  /\ t.ID \in 1 .. Cardinality(S)
  /\ \A t, u \in S : t.ID = u.ID => t = u
  /\ \A t, u \in S : SameTemplate(t, u) => t = u
==============================================================================
