-------------------------------- MODULE Scopes --------------------------------
(***************************************************************************)
(* How LoadData extends the molecule templates above scope 0, before it    *)
(* stores them: up to minScope for every root, and along the paths of      *)
(* classes that moleculeconffile lists.                                    *)
(***************************************************************************)
EXTENDS TypesHierarchy, TemplateManager, SequencesExt

\* What the loops over scopes go through.
ScopesTo(n) == [i \in 1 .. n |-> i]

\* A scope of the loop up to minScope, and the loop; triples is
\* tripleTemplatesTypes, in its order.
AddTriplesAt(tm, triples, scope) ==
  FoldLeft(LAMBDA t, triple : AddTriple(t, triple, scope), tm, triples)
AddTriples(tm, triples, minScope) ==
  FoldLeft(LAMBDA t, scope : AddTriplesAt(t, triples, scope), tm, ScopesTo(minScope))

\* One type of the root of a path: its second class is looked for at scope 1,
\* the third at scope 2, ...
AddClassAt(tm, triples, root, path, scope) ==
  FoldLeft(LAMBDA t, triple : IF triple.subjectType \in GetHierarchyForType(path[scope + 1])
                                THEN AddTripleInScope(t, triple, root, scope) ELSE t,
           tm, triples)
AddPathFor(tm, triples, root, path) ==
  FoldLeft(LAMBDA t, scope : AddClassAt(t, triples, root, path, scope),
           tm, ScopesTo(Len(path) - 1))

\* A line of the file.  The turns of the loop over the types of the root change
\* the templates of one type each.
AddPath(tm, triples, path) ==
  [root \in DOMAIN tm |->
     IF root \in GetHierarchyForType(path[1]) THEN AddPathFor(tm, triples, root, path)[root]
                                              ELSE tm[root]]

AddPaths(tm, triples, paths) ==
  FoldLeft(LAMBDA table, path : AddPath(table, triples, path), tm, paths)

\* Both loops.
AddScopes(tm, triples, minScope, paths) ==
  AddPaths(AddTriples(tm, triples, minScope), triples, paths)
==============================================================================
