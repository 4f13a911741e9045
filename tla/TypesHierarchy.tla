---------------------------- MODULE TypesHierarchy ----------------------------
(***************************************************************************)
(* TypesHierarchy.cpp as queries and molecule templates ask it: the        *)
(* subclass relation the first pass of LoadData has left.                  *)
(***************************************************************************)
EXTENDS Integers

CONSTANT SubTypes   \* TypesHierarchy::types: the direct subclasses of a type

\* No type is below itself, so GetHierarchyForType returns: of any types that
\* have subclasses, one has none of the others as a direct subclass.  Classes are
\* numbered in the order of the trie, so a subclass may have the larger number.
ASSUME SubTypesAssumption ==
  \A S \in SUBSET {t \in DOMAIN SubTypes : SubTypes[t] # {}} :
    S # {} => \E t \in S : SubTypes[t] \intersect S = {}

\* LoadData leaves CompositeStartFrom at types.size(), and KeyManager adds no
\* composite type: there is none to find.
GetCompositesForTypes(t) == {t}

hierarchy[t \in DOMAIN SubTypes] ==
  GetCompositesForTypes(t) \union UNION {{u} \union hierarchy[u] : u \in SubTypes[t]}

GetHierarchyForType(t) == hierarchy[t]
==============================================================================
