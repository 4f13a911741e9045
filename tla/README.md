# TripleProv in TLA+

TripleProv (`src/`) is an in-memory store of RDF quads: a *line* of a dataset is
a subject, a predicate, an object and a provenance (its context).  The store
groups what it knows of one subject in a *molecule*, replaces predicates by
*triple templates*, and answers queries together with the provenance of every
answer.  A *provenance query* can restrict which contexts a workload query may
use.

This directory models the program with TLA+.  TLC checks small instances and
TLAPS checks proofs that hold for all of them.  Line numbers below are those of
`src/src/`.

## The system

`main` (`diplodocus.cpp:61-105`) is one thread: it sets the options, calls
`Conductor::LoadData`, then `BTCprov::TPDemo`, and returns.  No data is shared
between threads, and nothing is read back from disk by this program.  The benchmark
and provenance queries are compiled in and called by nothing.  A master/node
mode (nodes load what the master wrote to files and answer queries over sockets)
is in the sources too: the master's half of the files is written on every run,
the rest is started only by code that is commented out.  Its query files
(`LUBMnetwork`, `DBPnetwork`, and the one-process `LUBM`) are not in
`CMakeLists.txt` and call an earlier interface of `Molecule`: one template
instead of a set, a `bool` instead of provenances.  They are modelled with the
present operations, provenance left out.

| Component | State | Operations | Calls |
|---|---|---|---|
| `KeyManager` | trie of URI fragments, identifier in each leaf, per type a map from identifier to node | `Add`, `Get`, `GetUri`, `AddType`, `MakeInverseIndexTypes`, `MakeInverseIndex` | `TypesHierarchy::GiveSubClass` |
| `TypesHierarchy` | children of each type | `Add`, `AddRelation`, `GiveSubClass`, `GetHierarchyForType`, composites | |
| `TypesManager` | elements of each type | `AddElement`, `GetElementsOfType` | |
| `TemplateManager` | per root type a set of triple templates with IDs | `AddTemplate`, `AddTriple`, `GetTemplate`, `GetTemplates`, `GetPredicate` | |
| `Molecules` | molecules by subject, inverted index by object | `CreateMolecule`, `AddTriple`, `ReconstructMolecule`, `CheckIfEntityExists`, `GetEntity`, `MaterializeMoleculesForProvenance` | `TemplateManager`, `TypesManager`, the trigger |
| `Conductor` | the lines of the dataset, templates to make | `LoadData` (two passes) | all of the above, `Partitioner` |
| `API` | none; writes to the vectors of its caller | `TriplePatern`, `GetSubjects`, `GetObjects` | `Molecules`, `TemplateManager` |
| `BTCprov`, `WDCqueries` | `ProvTrigerON`, `ProvUris` | `TPDemo`, benchmark queries, `ProvQuery` | `API` |
| `Partitioner`, `Store`/`Restore` | files in the database directory | `PartitionMolecules`, `SendMolecules` | `Conductor`, `ConductorNode` |
| `ConductorNode` | the molecules of one node | `LoadData`, `readMyMolecules` | `Molecules` |
| `Server`, `Client` | sockets, buffers | `Start`, `Send`, `Receive`, `ReceiveFromAllSelect` | |
| `LUBMnetwork`, `DBPnetwork`, `LUBM` | none; each half keeps vectors between the rounds | pairs of master and node halves of queries (`qNN_m`, `qNN_n`) | `Server`, `Client`, `Molecules`, `TypesManager`, `TypesHierarchy`, `TemplateManager` |
| `PageManager`, `Functions` | a page file nothing opens; none | | |

What is hard about it:

* **Order of the dataset.**  Template IDs, molecule groups, classes and trie
  nodes depend on the order of lines and words; everything a query returns has
  to be independent of it.
* **Derived indexes.**  Inverted index, provenance index, context counters and
  template table are kept beside the molecules by separate code; a query that
  starts in one of them and ends in another sees any disagreement.
* **Numbers instead of names.**  Predicates are stored as 16-bit template IDs,
  URIs as identifiers whose upper half is a type; both are decoded much later,
  by other components.
* **Node pointers that outlive a split.**  The trie moves leaves between nodes
  while other tables hold pointers to the nodes.
* **Provenance.**  An answer must name every context it took something from,
  and with the trigger on must take nothing from any other.
* **Iteration order.**  `TriplePatern` walks a set of pointers; the rows may
  come in any order.
* **Joins over parts.**  A node sees its own molecules only.  What it can join
  it calls ready; the rest it has to leave to the master or to a further round,
  and must not mistake "not here" for "nowhere".
* **Files and sockets** of the master/node mode: partial writes, stale files,
  framing, nodes that answer in any order.

What makes each component correct:

* `KeyManager`: every word added is found, each has one identifier, an
  identifier decodes to its word; classes keep identifiers of type 1.
* `TemplateManager`: within a root an ID stands for one template; every line
  has its template when a molecule asks.
* `Molecules` and `Conductor`: the molecules, decoded through the templates,
  are the dataset; the indexes are exact.
* `API` and `TPDemo`: answers and their provenance are those of the dataset
  restricted to the selected contexts.
* `Partitioner`, `ConductorNode`: the union of the nodes is the master's store.
* `Server`, `Client`: a message arrives whole, once, from the node it is
  attributed to.
* Network queries: wherever the subjects lie, the master answers what the SPARQL
  text above the query asks of all the data.

## Modules

| Module | Models | Builds on |
|---|---|---|
| `TemplateManager` | operators over the template table (`TemplateManager.cpp`) | |
| `TypesHierarchy` | the classes below a class | |
| `Scopes` | the loops of `LoadData` that extend the templates above scope 0 | `TypesHierarchy`, `TemplateManager` |
| `Molecules` | operators over one molecule and the trees below its objects, the provenance trigger (`Molecules.cpp`) | `TemplateManager` |
| `Conductor` | the second pass of `LoadData` as a state machine, with the properties of the load and `LoadInv` | `Molecules` |
| `QuadStore` | the abstract store: a set of quads that grows line by line | |
| `ConductorProofs` | theorems of `LoadSpec`, lemmas on the look-ups and `TriplePatern` over a loaded store, on `Solutions` of pattern lists and on what `TriplePatern` finds and shows over the visible quads | `Queries`, `SequenceLemmas` |
| `API` | `TriplePatern`, both `GetSubjects`, `GetObjects` as operators over the loaded store | `Conductor` |
| `TPDemo` | `main` whole: the load, then the provenance query, then the workload query | `API` |
| `KeyManager` | the trie, the classes and both numberings, driven by both passes | |
| `Sparql` | the words of queries and a small evaluator of SPARQL patterns to compare with | |
| `Queries` | what the fixed queries share: the contexts printed, the visible lines | `API`, `Sparql` |
| `Benchmark` | `q01`-`q10` of `BTCprov`, `q01`-`q07` of `WDCqueries` (here `w01`-`w07`) | `Queries` |
| `ProvQuery` | both `ProvQuery` functions, block by block | `Queries` |
| `Materialize` | `MaterializeMoleculesForProvenance` after a provenance query | `ProvQuery` |
| `Partitioner` | `PartitionMolecules` as a state machine | |
| `SequenceLemmas` | lemmas on sequences and sums, and on functions defined by recursion | |
| `TPDemoProofs` | theorems of `Spec` of `TPDemo` | `TPDemo`, `ConductorProofs` |
| `BenchmarkProofs` | theorems of `Spec` of `Benchmark` | `Benchmark`, `ConductorProofs` |
| `KeyManagerProofs` | theorems of `Spec` of `KeyManager` | `KeyManager`, `SequenceLemmas` |
| `DeploymentProofs` | theorems of `PartitionSpec`; lemmas on `LoadLines`: what a node holds after its loop; theorems of `DeploymentSpec`; theorems of `Spec` of `ProvQuery` and of `MaterializeSpec` | `Deployment`, `Materialize`, `ConductorProofs` |
| `HandleQueriesProofs` | lemmas on `Scopes` and on the loops of a node above scope 0; theorem of `Spec` of `HandleQueries` | `HandleQueries`, `SequenceLemmas` |
| `NetworkProofs` | theorems of `NetworkSpec` | `Network` |
| `ConductorNode` | the memory of a node as a record, and the loop of its `LoadData` as operators | `Molecules` |
| `Deployment` | the files: `LoadData` of the master with everything it stores, stopped and rerun, beside `ConductorNode::LoadData` of the nodes | `Conductor`, `ConductorNode`, `Partitioner` |
| `NodeQueries` | the look-ups of the network queries at one node: element lists, inverted index, templates, entities at scopes 0 and 1 | `ConductorNode`, `Scopes`, `Sparql` |
| `LUBMnetwork`, `DBPnetwork`, `LUBM` | the queries of these files as operators: what a node can send, what the master can join | `NodeQueries` |
| `HandleQueries` | master and nodes answering these queries, round by round | the three above |
| `Network` | `Server`, `Client` and the message round of a distributed query | |
| `DatasetFiles` | the optional lines of the files of an instance | |
| `MCTPDemo`, `MCKeyManager`, `MCBenchmark`, `MCHandleQueries`, `MCDeployment`, `MCNetwork` | instances for TLC; `MCBenchmark` runs a query of `Benchmark` or a behaviour of `Materialize` | |
| `MCQueryTexts` | one dataset about which eight queries of `HandleQueries` differ from their texts | `MCHandleQueries` |

Every definition that models code is listed in `PROJECT.json` under `map` with
its lines.  Definitions whose comment begins with "Mutant" are plausible bugs:
put in place of the definition they vary, they violate the property named with
them in `PROJECT.json`; no specification uses them otherwise.

### From code to state

* `Conductor`: `phase` is the loop `LoadData` is in; `tripleIDs` the dataset
  (the vector of the second pass); `toAdd` is `tripleTemplatesTypes` and
  shrinks as `AddTemplate` sees its elements in the order of `operator<`;
  `templates` is `diplo::TM`; `pos` the iterator of the last loop; `molecules`,
  `inv_molecules`, `ProvIdx` and `contextTriples` are the maps of that name.  A
  pointer to a molecule is its subject; an absent key is the empty value.
  `ReadLine`, `EndOfFiles`, `AddNextTemplate`, `TemplatesDone`, `StoreLine` and
  `LoadDone` are the turns and ends of the loops.  Identifiers are numbers with
  the type in the upper part, as in the code; `SeqSpan` is that boundary
  (2^32), `TmplSpan` the 16 bits `CreateMolecule` keeps of a template ID.
  The constructor of the dataset (parsing of lines and words) is the subject of
  `KeyManager`; `rdf:type` and subclass lines are not stored and do not occur
  in `Lines`.
* `TPDemo`: `stage` is the point of `TPDemo`, `file` the query file read last,
  `todo` the part of `Molecules_with_O` the loop has not visited, `results` and
  `prov` the vectors handed to `TriplePatern`.  The visit of a molecule is one
  action and chooses any molecule of `todo`.
* `KeyManager`: `nodes` and `leafId` are the heap in allocation order, `uri_id`
  the roots, `types` the map back from identifiers, with the node the pointer
  refers to.  Words are sequences of `Letters`, because what the trie does is
  split them.  `handed` is a history variable: the leaves `Add` returned.  The
  methods of `Node` that call themselves are recursive functions on the nodes
  (`FindAdd`, `NodeGet`, `Spelling`, `LeavesFrom`), so that they can be reasoned about.

* `Benchmark`: a behaviour loads a dataset, picks one query and a filter (none,
  or a set of contexts in `ProvUris`) and runs it.  `query` is the query, `todo`
  what the loop it is in still has to visit, `found` what it has collected,
  `answers` the rows shown and `named` the contexts printed.  Queries that ask
  the store once are one action; those with a loop over what they found have an
  action that begins and one per turn, and a turn takes any element, as the
  containers are hashed.  `runthemall` and `benchmark` call the queries one after
  the other and measure time; the queries share no variable, so each is
  modelled as the first one run.  A query's constants (the words it looks up)
  are distinct identifiers.  `q07` is begun only if the dataset mentions
  `actor`: otherwise the code follows a null pointer.  What is compared with the
  SPARQL text is what the code shows: of `q08` only `?y`, of `w04` description
  and page.
* `ProvQuery`: `block` is the next of the blocks `p01`-`p07` (BTC) or `v01`-`v06`
  (WDC); a block adds to `ProvUris` through `unordered_set_intersection`, which
  does not clear its output.
* `Materialize`: from any block on, `copied` tells that the copy has been asked
  for, `toCopy` what the loop over the unordered map has not reached;
  `molecules2` and `inv_molecules2` are `M2`, which begins empty.  The copy shares
  templates and `ProvIdx` with the original, as in the code.  `Copy` is `API` over
  `M2`, so both are asked by the same look-ups.
* `Partitioner`: `toPlace` is what the iterator over the `unordered_set` has not
  reached, in any order; a turn moves a chunk of `PartitionerRange` molecules, or
  the rest.
* `Deployment`: the variables of `Conductor` are the master's; `saving` is the
  file it stores next, between the templates and the molecules.  `disk` holds
  the files with the run that wrote them, `node` the memory of each node.
  `Rerun` stops the master anywhere and starts it over other data; a store step
  may leave the file as it was, as an open that fails goes unnoticed; a node
  starts once every file has been written once, and reads them in the order of
  its `LoadData` while the master goes on.  `StoreTypes` writes the number of types of
  its run, `GetNbOfTypes`: any of `NbsOfTypes` above the types of the run's identifiers, so
  two runs may differ.  The node sizes its type lists by it, and `AddElement` does not
  check its index: a node whose lines have a type past the end is `"undefined"`
  from then on, until it is restarted.  `NodeQuads` reads a node's molecules back as
  `StoredQuads` does the master's.
* `HandleQueries`: `node` is the memory of the nodes, filled by the operators of
  `ConductorNode` from `lines` after the subjects were dealt out in any way (how
  the files get there is `Deployment`).  `config` is `minScope`, `maxScope` and the
  paths of `moleculeconffile` with which the master made the templates.  `query` and `round` are where the query
  is; `sent` what nodes have sent and the master has not received, `received` what
  it has, in node order, `broadcast` what it sent back to all nodes before this
  round, `answers` its results.  A message has three parts, which the queries send
  as one to four vectors: rows that are `ready`, what others need to know (`known`), rows left to the
  master's join (`pending`).  A node's vectors that live from one round to the next
  are functions of its memory, so `qNN_n2` computes them again.  A `begin()` of a
  hashed set is any of its elements, and the map that keeps the first pair of each
  key is any of `Maps`; the begin of an empty set and a `find()` that is not
  compared with `end()` give the row `Undefined`.  `Degrees` stands for `getDuble` of
  the words that are numbers.  How a round travels over the connections is
  `Network`; there it is the round of `q01`.
* `Network`: a connection is a sequence of units; a read or write moves any
  number of them.  `at`, `peer`, `len`, `buf` are where the master is, and in
  which `Send` or `Receive`; `ready` are the nodes the loop is over (all of them
  in the queries, those `select` returned in `ReceiveFromAllSelect`).

## Runs

| Run | Question | Bounds | Result |
|---|---|---|---|
| `demo` | Do molecules, indexes, counters and templates agree with the dataset at every step of the load, and does it implement `QuadStore`? Are answers, their provenance and the selected contexts those of the dataset, for every visit order? Does `main` come to its end? | up to four lines, in every order, out of nine with a class, a typed and unclassified subjects, shared objects, two contexts, and repeated lines; three provenance and six workload queries | all hold |
| `demo_join` | Does a provenance query that uses a name twice, as `ProvQuery` does, select what it asks for? | as `demo` | violated |
| `dictionary` | Does the trie find and decode what was added, in every order of additions, splits and numberings? | three words and two classes that share prefixes; two `rdf:type` lines, one subclass line | all hold |
| `dictionary_literals` | Is a word that is in the trie found again, if one word is a prefix of another? | three literals | violated |
| `dictionary_classes` | Do classes keep identifiers that decode to them? | as `dictionary` | violated |
| `benchmark` | Does each benchmark query show the solutions of its SPARQL text and only those, and do the contexts it names explain them?  Do the provenance queries add up, block after block?  Does a copy of what the trigger lets through answer like the store under the trigger? | four files of ten to sixteen lines for the queries, two of eleven for the provenance queries, many lines optional; no filter, one context, both; the copy made after any block, molecules in any order | all hold |
| `benchmark_w04` | Does `w04` show only what its SPARQL text asks for? | as `benchmark` | violated |
| `deployment` | Is every molecule dealt to one node, evenly?  Do the nodes together hold what the master holds, and what do they hold when the master stops and is rerun over other data with other classes, a write fails, and nodes read meanwhile?  Do they stay within their type lists? | two runs, each over one of two files of up to six lines in two contexts (up to three and five subjects), three or four types, one failing write, two nodes, two molecules at a turn, molecules in both directions | all hold |
| `queries` | Does the master answer `q01`-`q17` and `Dq01`-`Dq05` from what the nodes send, and a single process `q01` and `q02`, as their SPARQL texts ask of all the data?  Is what a molecule holds above scope 0 what the dataset says? | twelve datasets of four to eleven lines, half of them optional, dealt out to two nodes in every way; nodes at any pace; one query after another; four of the datasets with scopes: two for every root, one for every root, one or two along paths, lines in two orders | all hold |
| `query_texts` | Does the master answer what the texts of `q15`, `q17`, `q09s2`, `q02s1`, `q08s1`, `q08s2`, `q12`, `Dq05` ask, of *any* data? | one dataset of 24 lines, its subjects dealt out to two nodes in every way; the eight queries one after the other | violated by every one of them |
| `network` | Does every round end, with exactly the nodes' answers and nothing left over? | two rounds, two nodes, messages of two units, connections that hold two, answers of up to two identifiers, one crash | all hold |
| `network_failing` | Does a `Receive` that returns have what it was to receive, when a read fails? | as `network` | violated |

Why the bounds are enough.  *demo*: a property of the load relates at most two lines of one
subject (same or different context, predicate, object) and one of another; three
lines make all of those meet, and the theorems below take over for longer
datasets.  A join of two patterns under two contexts takes a line per
pattern and a second line that must not match; with four lines the answer may
also have two rows.  *dictionary*: a split has one node above and two below; with
three words one split happens below another and with five a leaf has moved
twice before it is numbered.  *benchmark*: a query touches at most two
contexts and two values of one variable at a time; lines of most patterns are
optional or there in either context, so that joins fail, succeed in one context
and need both.  The order of the lines is the subject of `demo`.  *queries*: a join is between two
lines, so that two nodes give every way its sides can lie: together, apart, or
one of them alone with the key; the optional lines make joins fail, meet at a
node, meet at the master, and meet in a later round, and give predicates a
second root or object type.  With two scopes a child has a child, a subject is an
object at two scopes of one molecule, and paths of two and three classes end at
different scopes.  *deployment*: one subject needs two templates, so
that a wrong number decodes wrongly, and has two contexts, so that its groups have
an order; two runs give every mixture of old and new files, and as one line has a type more than
the others, the types file of a mixture may be too small for its lines.  A round of two nodes is
four molecules, so with five the turn wraps and the fifth begins a second round, alone in its
range, where the early return ends the loop; with three it does so inside the range of the second
node, and with two molecules the range is full when the iterator is at its end.  *network*: with two units a read can
split a number, and with connections of two units a write of three blocks; the
second round meets whatever the first one left.

The properties, in the order of the code:

* `LinesCovered`, `TemplatesWellFormed`: the `-1` of `GetTemplate`, which 16 bits
  turn into 65535 so that the test on it never fires, is not returned; an ID
  reads back as one predicate.
* `StoreIsDataset`: the molecules, decoded, are exactly the storable lines so
  far.  `RepetitionsKept`: repeated lines stay repeated, in file order.
* `InvertedIndexExact`, `ProvIdxExact`, `OneGroupPerProvenance`: the indexes are
  exact, not merely complete.
* `RefinesQuadStore`: every step is a step of `QuadStore` or leaves it alone.
* `AnswerIsReference`: one row per subject that all lines of a star query
  match, with the values and, per line, the provenances of the matching quads.
* `ProvUrisAreReference`: the workload query runs under the contexts that the
  solutions of the provenance query have in the whole dataset, a name being one value
  in all of the query, if each projection has a name of its own.  Of a
  query that uses a name twice no value of a solution is missed, and the others are
  values of one of its lines, for a subject all of them match.  `OnlyWhatIsAsked`, that there are no
  others, is violated (`demo_join`).
* `ProvenanceSuffices`: over the contexts a row names alone, the same row is
  found, so provenance is an explanation of the answer.
* `NothingFromOutside`: with the trigger on nothing is shown that only excluded
  contexts have, whatever the query.
* `EveryRunAnswers` (liveness): `main` returns, so the load before it ends.
* `LeavesSpellWords`, `GetFindsWords`, `IdsAreUnique`, `DecodesBack`: the trie
  spells and finds exactly the words
  added and identifiers decode back.
* `AnswersAreSolutions`, `SolutionsAreAnswered`: a benchmark query shows exactly
  the solutions of the text in its comment over the visible lines (with the
  exceptions under Divergences).  `NamedContextsSuffice`: the contexts it prints are
  within the filter and give the same answers alone.
* `SelectedSoFar`: after each block `ProvUris` has all that the branches run so far
  select: no block loses what an earlier one had.  What it has besides is what an activity
  that matches the other lines of its branch has generated *or* is associated with
  (`EitherRole`); every other block adds nothing that does not match the whole of its branch.
  That is less than the text asks for, see Divergences.
* `CopyAnswersAlike`: subjects, objects and patterns asked of the copy without the
  trigger give what the original gives under it, with the same provenance, and
  the indexes of the copy are exact.
* `Balanced`: sizes are at most a range apart.  That no molecule is on two nodes or passed over
  shows in `ClusterIsDataset` below; `OnOneNode` and `NothingLost` say so and are proved.
* `ClusterIsMaster`: each molecule of the master is on one node, the same to the
  order of its groups and its template numbers; every node has the whole
  provenance index.
* `NodeIsItsShare`, `ClusterIsDataset`: a node whose files are all of one run has
  the lines of its molecules, and such nodes together the dataset, whatever the
  master has done since.
* `OneRunIsInBounds`: such a node never indexes past its type lists, whatever numbers of classes
  other runs had and whichever writes failed.  Nothing marks the files of a run, so a node *can* read
  a mixture, and then may: a types file of fewer classes beside newer lines
  leaves it `"undefined"`.  The run reaches such states.
* `NodeIndexesAgree`: the indexes of a node that has loaded agree with its molecules, also
  of a mixture whose lines stay within the type lists they came with.  Of the other
  mixtures nothing is claimed.
* `AnswersAreSolutions`, `SolutionsAreAnswered` of `HandleQueries`: what the master
  shows is what the text above the query asks of all the lines, whichever node has
  which subject, in whatever order nodes answer and whatever element a `begin()`
  takes.  Both are under `Granted`, what a query takes for granted of its data (see
  Divergences), and about full rows.  `q15`, `q17` and `q09s2` never answer with them:
  `AgreedColumns` says that the columns in which they do agree have what the text
  asks for, no more and no less.  `LocalJoinsAreSound`: what a node calls ready is a solution already.
* `SomeTextHolds`: of eight queries one at least answers what the comment in it asks, of any
  data.  Violated (`query_texts`): in one behaviour each of them answers something else.
* `MoleculesNest`: with scopes, a molecule has below its objects, scope by scope, the
  lines of which such an object is the subject: all up to `minScope` and along each
  path of the configuration, and nothing to which no path leads; and the inverted
  index leads from the object of each of them to the molecule.  What lies where one
  path goes on from what another has reached may be there or not (see Divergences).
  It does not say that the index has nothing else: `AddTriple` also enters the object of
  a line in the index of molecules where its subject is an object at another scope only.
* `ResultsAreAnswers`, `QueriesArriveWhole`, `ConnectionsAreClean`: framing.
* `StartReturns`, `EveryRoundEnds`, `NodesEndWithMaster` (liveness): nobody waits
  for ever on a node or master that has crashed, or on a full connection.

### Fairness

`main` is one thread that runs to completion, so weak fairness is on the whole
next-state relation.  While lines are read both another line and the end of the
files are possible; weak fairness on `EndOfFiles` says that the files are
finite.  In `Network` the master and every node are processes of their own, each weakly
fair; that a process crashes or is ended is not promised, and a node may give up
connecting before the master listens (`StartReturns` says so).  No fairness is
assumed of anything else; `Partitioner`, `Deployment` and `HandleQueries` claim safety only.

Deadlock is checked in `queries`: no state of a query is one where master and
nodes wait for each other, and as a query has a bounded number of messages, each
ends.  Elsewhere it is not: those specifications stop where the program has come to its
end (or a bound is reached).  That nothing stops before is what the liveness
properties of `demo` and `network` say.

### Divergences

Six runs find the code in disagreement with its comments or its own query
texts; lines and quotations are in `PROJECT.json` under `findings`.

* `dictionary_literals`: a literal that is a prefix of another (`"X"` and
  `"X"@en`) hides both; adding one again makes a second leaf and identifier.
  `dictionary` is therefore about words none of which is a prefix of another:
  URIs end with `>`, plain literals with `"`.
* `dictionary_classes`: the identifier of a class decodes to a prefix after the
  second pass has split the class's node.
* `demo_join`: two projections of a provenance query that name one variable (the file
  `ProvQuery`) select the union of their values (`BTCprov.cpp:55-58`), not the
  common ones.  The block of the activity of both provenance queries does the same: the texts
  name one `?s` (`BTCprov.cpp:1368-1369`, `WDCqueries.cpp:702-703`), and the values of both patterns are
  selected (`BTCprov.cpp:1429-1432`, `WDCqueries.cpp:787-790`).  It has no run of its own;
  `SelectedSoFar` allows it for this block only, by name (`EitherRole`).
* `benchmark_w04`: `w04` shows offers when nothing links its two halves.
* `query_texts`, by queries that are wrong of benchmark data too:
  `q15` adds the first count a faculty member comes with twice
  (`LUBMnetwork.cpp:2964-2965`; the text asks for `count(?X)`);
  `q17` shows a student without a name with the name of another, or with
  the begin of an empty set (`property_v`, line 3231);
  `q09s2` sends the course in place of the faculty member (line 1974).
  And by `q02s1`, `q08s1`, `q08s2`, `q12` and `Dq05`, of data without what they take for
  granted, see below.
* `network_failing`: a `read` that fails passes for a completed `Receive`.  The
  specification of `network` has no failing read.

The model agrees with the code, and not with what the text beside the code says,
in three more places, which have no run of their own:

* `q04` (and `w04`) require a molecule to have *all* the linking values at
  once (`BTCprov.cpp:380`), so `SolutionsAreAnswered` is stated for one link.
* The last `rdf:type` line decides the type of a URI (`GiveSubClass` returns the
  new type always, `TypesHierarchy.cpp:46`); `KeyManager.cpp:283` speaks of the
  more specific one.
* `q07` writes the first spouse twice (`BTCprov.cpp:908`); the model keeps the
  row it has found.

Where several paths of `moleculeconffile` begin with classes of one root, what a
molecule has depends on their order: each path is gone through once
(`Conductor.cpp:326-349`), so templates that a later path adds at one scope do not
come below those an earlier one adds at the next.  An object that the paths reach
only together is then found or not, as the file has it, and no text says which;
`MoleculesNest` is therefore an inclusion on either side, with equality where one path
suffices.

A copy made by `MaterializeMoleculesForProvenance` keeps scope 0 only (the
function of `Entity` is declared and never defined), and the row of a pattern all
of whose parts are optional and hidden is lost with the index entry;
`CopyAnswersAlike` is about required patterns.

The network queries are right about benchmark data, where a student has one
advisor, a department one university, and so on.  `Granted` names, query by
query, what they need; take a condition away, and TLC finds data about which the
master answers wrongly.  `query_texts` shows it for five of them; the list below has the reasons:

* `q02s1` and `q09s1` send the `begin()` of a set for every element they could not
  join, and the master's map keeps one university of a department, one teacher of
  a course; a department nobody knows is looked up without comparing with `end()`
  (`LUBMnetwork.cpp:189`).
* `q04`, `q08s1`, `q11s1` and `q17` look a predicate up with type 0, for any type,
  and get the template of the first (`TemplateManager.cpp:193`); `q07` does the
  same by `find()` in a multimap.
* `q12` keeps one head of a department in the master's join, though all of those
  a node has found itself.
  It also takes a department for one of the university if its molecule mentions the
  university, by whatever predicate and, above scope 0, at whatever scope; the lines of
  the runs have departments and universities related by `subOrganizationOf` only, so the runs
  do not show it and `Granted` does not name it.
* `q01`, `q03`, `q14` and others look a class up with `GetCompositesForTypes`, which gives the
  class alone: who is of a subclass only is not found.  The `Plain` classes of
  `Granted` have no such members.
* `q06` and `q14` go through the molecules of a class: a member that is only mentioned
  as an object has none (`Described`).  `q17` looks for names, which its text has no need of
  where a student has none.
* `q16s1` does not look at the predicate by which the address is mentioned; `q16s2`
  takes, besides, any molecule in which the address is mentioned at any scope.
* `q02s2` compares the `begin()` of three sets without asking whether they are
  empty.
* `q08s2` asks the first object of a student's molecule only
  (`Molecules.cpp:384-385`), whichever line it is from, and tries the template IDs
  of all student types on it.
* `q09s2` asks one advisor.
* `q11s2` wants a group's organization to be part of nothing else.
* `Dq04` and `Dq05` try the template IDs of every root on one molecule
  (`DBPnetwork.cpp:500`, `:804`), and read `yy[0]` when no node knows the city.
* `LUBM` walks an inverted list that is NULL when a word is not mentioned
  (`LUBM.cpp:44`).

`Dq01` allocates as many
bytes as the identifier of its subject (`DBPnetwork.cpp:58`), which the model does
not see.

## Theorems

Everything below is proved for every value of the constants, under the named
assumptions on them, which TLC evaluates on the instances.  `Inv` stands for
`Spec => []Inv` where a property of a run is named.

### The load (`ConductorProofs`)

For every set of identifiers, every dataset and every `MaxLines` and `TmplSpan`,
under

* `KeyAssumption`: identifiers are positive, `SeqSpan` is positive;
* `LoadAssumption`: lines are quads of identifiers, and a dataset has fewer
  lines than `TmplSpan`, so that template IDs fit in the 16 bits kept of them.
  (The code does not check this.  It is enough, and more than is needed: the code is
  right as long as no root has that many templates, however many lines there are.)

| Theorem | Says |
|---|---|
| `LoadTypeOK` | `LoadSpec => []TypeOK` |
| `TemplatesStayWellFormed` | IDs and templates of a root correspond one to one |
| `LinesStayCovered` | no line is without its template |
| `LoadIsFaithful` | the decoded store is the loaded dataset |
| `InvertedIndexStaysExact`, `ProvIdxStaysExact` | the indexes are exact |
| `OneGroupStays` | one group per context in a molecule |
| `RepetitionsStay` | what a molecule has under a context is what the lines have, repeated and in file order |
| `LoadRefinesQuadStore` | `LoadData` implements `QuadStore` |

`StoreIsDataset` is not inductive.  That a stored ID decodes to the predicate of
its line needs the template to be there (`LinesCovered`), the IDs to be one to
one (`TemplatesWellFormed`), the ID to fit (`TemplatesFromLines`: a root has no
more templates than the dataset has lines), the table to be complete before the
first molecule (`PhaseOrder`), and the types.  The conjunction of these is
`LoadInv`, the inductive invariant; the lemma `StoreLineQuads` shows from it that
one `StoreLine` adds exactly its line to the decoded store, and both
`LoadIsFaithful` and the refinement follow.  `IndexesExact` (both indexes) is
inductive on top of `LoadInv`, `OneGroupPerProvenance` likewise.
`RepetitionsKept` needs `OneGroupPerProvenance`: with two groups of one context
the order of their objects would be that of the groups.  `AddToMoleculeObjects`
says what one line adds to the flattened groups of a molecule,
`ObjectsInLinesNext` what it adds to those of the dataset.

### The demo (`TPDemoProofs`, with lemmas in `ConductorProofs`)

For every load, every pair of query files and every order of visits, under the
two assumptions above and those of `TPDemo` on queries, `TermAssumption` and
`FilesAssumption`.

| Theorem | Says |
|---|---|
| `ProvUrisComeFromDataset` | `ProvUrisAreReference` |
| `AnswerComesFromDataset` | `AnswerIsReference` |
| `NothingComesFromOutside` | `NothingFromOutside` |
| `ProvenanceIsEnough` | `ProvenanceSuffices` |

The lemmas on `API` reduce the look-ups to the dataset: in a loaded store what a
projection finds, and what a constraint reports, are the matching quads, that it
asks for templates of one object type loses none, and the inverted index misses
no candidate.  The invariant of the demo, `QueryInv`, adds to that of the load
what the vectors hold in the middle of the loop: the rows so far are those of
different molecules that have been visited and answer, in *some* order (`Rowed`
has the order under an existential quantifier), and at the end of a stage no molecule is
left.  The reference is then met whatever the order was.

### The provenance queries and the copy (`DeploymentProofs`)

For every dataset and every identifiers of the words of the queries: a word
`KeyManager` knows has an identifier (`WordsAssumption`), one it does not know
is 0.

| Theorem | Says |
|---|---|
| `SelectionsAddUp` | `SelectedSoFar` |
| `CopyStandsIn` | `MaterializeSpec => []CopyAnswersAlike` |

Code and text are computed differently: the blocks ask the store,
look-up by look-up, and join what they get as sets; the branches are folds of pattern
lists over the lines, with bindings.  Both are brought down to
the same two operators on a set of quads, `Saying` (the subjects with a predicate
and an object) and `Said` (the objects of a subject under a predicate).  On the side of the text
`SolutionsByPattern` unfolds the fold one pattern at a time, `StarNext` and
`ObjectsNext` say what a pattern with one variable and with two does to the bindings so far, and the
`ColumnOf` lemmas follow for the shapes of branches that occur.  On the side of the
code, `SubjectsOfQuads` and `ValuesOfPattern` follow from the lemmas on the look-ups.
`BlocksOfBTC` and `BlocksOfWDC` then compare the twelve blocks one by one.  The
inductive invariant `BlocksInv` adds to that of the load (`StoreInv`: the
store has the dataset and exact indexes) that no block has run before the load is over.
The lemmas hold for any `ProvUris` a block is given, which is why a block
that cleared it would not pass.

For the copy, `Copying` says that a molecule that has left the loop has, in the copy, exactly
the visible elements of the original, that the others have not been begun,
and that both indexes are those of the molecules copied so far; the load's part of the
invariant ends with the call, which clears the provenance index the original and the
copy share.  One turn keeps it because
`Visible` has the visible elements (`VisibleElements`, by position through
`FlattenSeq`) and the fold of `ReconstructMolecule` adds what it is given
(`ReconstructedElements`).  That the two stores then answer alike does not follow
from their elements alone: a look-up starts from an inverted index, the original's names
more molecules than the copy's, and the molecules the copy does not name have to be
those the trigger leaves without an answer (`IndexesAlike`).  The rows, with their
provenance vectors, are compared for any number of projections; a pattern starts
from one constraint on an object, as in the property.

### The benchmark queries (`BenchmarkProofs`, with lemmas in `ConductorProofs`)

For every dataset, every identifiers of the words (`WordsAssumption`), every filter and
every set of queries there are (`QueriesAssumption`).

| Theorem | Says |
|---|---|
| `QueriesInvariant` | `BInv`, below |
| `AnswersAreExplained` | `NamedContextsSuffice` |
| `AnswersStaySolutions` | `AnswersAreSolutions` |
| `AllSolutionsAreShown` | `SolutionsAreAnswered` |

Code and text are again brought to a common form, single quads: `In(V, s, p, o)` says
that `V` has a quad of that subject, predicate and object.  On the side of the text,
`Asks` lemmas unfold the fold of `Solutions` for each of the shapes the seventeen texts
have (`IsMentioning`, `IsHavingTwo`, `IsJoining`, ...), with the words as parameters, so that a
shape that occurs twice is unfolded once.  On the side of the code, `Answered` says
when `TriplePatern` has a row to show for a subject; it is about the visible lines
*and*, with the contexts of the row, about the lines of those contexts alone, which is what
`NamedContextsSuffice` needs.  A query that answers at once is then one
lemma (`Right_q01` and so on; `Right_q04` and `Right_w04` under the condition on their
links).

The three properties speak of the end of a query; the invariant of the loops is
`Open`: what is shown so far is explained by what is named so far, every item still to
do is one the loop should have (`Item`), and every solution of the text is shown or comes with an
item still to do (`Gives`).  `TurnKeepsOpen` says what a turn has to add, and `OpenCloses`
that with nothing to do all is shown.  `q07` has two loops; in the first `Coupling` says the
same of the places it has found.  There the contexts are named as soon as a place is
found, before anything is shown of it, so that an item of the second loop is explained by
`named` alone: `Item` of `q07` speaks of `Within(V, N)`, of the others of all visible lines.

### The dictionary (`KeyManagerProofs`)

For every finite set of words over any letters, every order in which lines add them,
any number of classes, subclass lines and `rdf:type` lines, under

* `WordsAssumption`: words are not empty, and the class the first pass skips
  (`Scotland`) comes with the words of the second;
* `SpanAssumption`: a type has fewer words than `SeqSpan`, so that a number stays in
  its half of the identifier (the code does not check it; it is 2^32);
* `PrefixFree`: no word is a proper beginning of another.  For URIs the closing `>`
  sees to it; the literals for which it fails are the finding of `dictionary_literals`,
  where the first of the theorems is false.

| Theorem | Says |
|---|---|
| `LeavesStayWords` | `LeavesSpellWords` |
| `GetAlwaysFinds` | `GetFindsWords` |
| `IdsStayUnique` | `IdsAreUnique` |
| `IdsStayDecodable` | `DecodesBack` |

What a node spells is not in its state: it is the recursion of `GetUri` along
`prev`.  The invariant `KInv` therefore says that there *is* a labelling `path` of the nodes
by texts for which they are a trie (`IsTrie`): each node has the path of its parent followed by
its own fragment (`Spelled`), parents and lists of children agree (`Linked`), siblings differ in
their first character (`Apart`), and the nodes with a leaf are, one to one, the words that have been
added, while every node is on the way to one of them (`Handed`).  A split keeps all paths and adds two;
that is the lemma behind `Split`, for which the moved part is first broken off
(`Broken`: one node in two, the words unchanged except that one node ends nowhere) and the new word is
then grown below it (`Grown`), like the child of `AddChild` and the root of `AddRoot`.

The recursive functions are brought down to `path`.  `SolutionBelow` and what
follows it show that a function defined by recursion exists if each value depends on those at
arguments of lesser measure; here the measure is the length of the paths, which no word exceeds.
Then `FindAdd` stops on the way to the word and leaves of it what the path there lacks (`Found`), `Get`
comes to the leaf of the word and, where several children answer, no other
answers (`Answers`), `GetUri` is `path` (`SpellingIsPath`), and the walk of both
`MakeInverseIndex` has every leaf exactly once (`LeafList`).

`KInv` says further that nothing is numbered during the first pass (`FirstPass`), that
after it the classes have the numbers of type 1 and no other leaf has one (`Filled`
with 0), and that at the end all are numbered (`Given`).  For the second walk, `Filled` with `m`
says after `m` leaves that identifiers and the map per type agree and that the numbers of a type run
up to at most `m`; the number the next leaf gets is therefore new and below `SeqSpan`, so that
its identifier differs from those of all types.  `DecodesBack` speaks of the second pass only, and
`Filled` shows why: it says of the types of that pass, and not of type 1, that the node of an entry still has the leaf
of its identifier.  A split in the second pass may move the leaf of a class away
from the node the entry refers to, which is the finding of `dictionary_classes`.

### The nodes' files (`DeploymentProofs`)

The partition is proved right for every finite set of molecules and every positive
`nbOfClients` and `PartitionerRange` (`PartitionAssumption`); the files for every
number of runs over any data, with any numbers of types, and any number of failing
writes besides.  `DeploymentAssumption` says of `NbsOfTypes` only that some number in it is
above all types, so that every run has one to store.

| Theorem | Says |
|---|---|
| `PartitionKeepsTypes` | the turn is always a node's |
| `MoleculesStayOnOneNode` | no molecule is on two nodes |
| `NoMoleculeIsLost` | `PartitionSpec => NothingLost`: a turn passes no molecule over |
| `NodesStayBalanced` | node sizes differ by at most a range |
| `DealtInRounds` | both of `DeploymentSpec`, where the partitioner is one step of a run that may be stopped |
| `SharesAreKept` | `NodeIsItsShare` |
| `ClusterHoldsDataset` | `ClusterIsDataset` |
| `ClusterHoldsMaster` | `ClusterIsMaster` |
| `IndexesAgree` | `NodeIndexesAgree` |
| `OneRunStaysInBounds` | `OneRunIsInBounds` |

`Balanced` is not inductive: it does not say whose turn it is.  `InRounds`
does: there is a number `b` such that, while molecules are left, the nodes before
the turn have a range more than `b` and the others `b`; the last, short chunk only
leaves the bounds.  The lemma `TurnKeepsRounds` shows that a turn keeps the round or
starts the next.  `NothingLost` is an action property and follows from the types.

What a node holds is right with respect to data the master may have forgotten:
after a rerun nothing in the state says over which lines the files of an earlier run
were written.  `DeploymentInv` therefore has an existential quantifier over a
*history*, for each run the lines, the templates and the parts it stored, fixed when the master
stores its lines and sends its molecules; `DiskHas` and `NodeHas` say that what is
stored, or read, under the number of a run is what the history has for it, and
`MasterHas` that the master's own state is that of its run.  A run's parts are final
once the first node file is written or its writing has failed (`Dealt`).
The lemmas on `LoadLines` unfold the `FoldLeft` of the node's loop line by line and
show that it keeps what one line keeps.  With the history, each property is about one
run, and reduces to the load of a node and that of the master adding the same elements
line by line.
For the type lists `DiskHas` and `NodeHas` say that the number stored, or restored, for a
run is above the types of that run's lines (`TypesBelow`); `OneRunStaysInBounds` follows.  With files of
two runs neither says anything of the number, and `IndexesAgree` is about the nodes for which the
guard of `LoadMolecules` (`TypesFit`) has been true.

### The nodes' molecules and answers (`HandleQueriesProofs`)

For every number of nodes and every way to deal subjects to them, every dataset,
`minScope`, `maxScope` and list of paths, under

* `DatasetsAssumption`: a dataset is a finite set of quads of identifiers, none about a
  class, whose lines are not stored; the paths are not empty;
* `OrdersAssumption`: the lines come in any orders that have each of them, as often as
  one likes; `LineOrders`, which names them, is a parameter of `HandleQueries` because TLC
  cannot go through all orders;
* `KeyAssumption`, `SpanAssumption`: identifiers and the two spans are positive;
* `SubTypesAssumption`, `TypesAssumption`: the hierarchy has no cycles (a class may have a
  larger or a smaller number than its superclass), and has all types, numbered
  from 0; the reserved types 0 to 2 are neither above nor below any;

and, for the answers only,

* `WordsAssumption`: the classes of the queries that the dataset has are words of type 1, with
  numbers above those of the types nothing is a class of; `rdf:type` is a word of
  its own, and no line has it as its predicate (`LoadData` keeps none);
* `NumbersAssumption`: a root has fewer templates than `TmplSpan`.

| Theorem | Says |
|---|---|
| `LoadedMoleculesNest` | `MoleculesNest` |
| `DirectAnswersAreSolutions` | `AnswersAreSolutions`, of the queries in `Direct` |
| `DirectSolutionsAreAnswered` | `SolutionsAreAnswered`, of these |
| `DirectPartsAreSound` | `LocalJoinsAreSound`, of these |

`MoleculesNest` needs no bound on template IDs: only `CreateMolecule` cuts
them to 16 bits, at scope 0, and above it `AddTriple` finds its templates whole.

Nothing changes a node after `Init`, so the whole proof is about the seven nested loops that
fill it.  Each is a `FoldLeft`; `Turn` lists their bodies, and the first lemmas show once for
all that a loop has states between its turns (`Runs`), so that each invariant can be
stated by the number of turns made.

*The templates of a root.*  `Numbered` says that their IDs run from 1 without
gaps, and that IDs and triple templates correspond.  For a root, its
templates at scope `k` are to be those of the lines whose subject may stand there.  The
upper side, `Allowed`, is an invariant of all loops: a template above `minScope` has a path that leads to it.
The lower side has two halves: `FilledTo` (after `m` turns of the loop up to
`minScope`, what fits below a template at a scope up to `m` is there) and `FilledAlong` (the same
along a path).  `AddTriple` extends every root that has a template whose object type is the subject type of
the triple at the scope above, while the set it goes through grows; what makes it right is
that it only grows at the scope above that (`Below` is fixed during a scope).  A template a
path has added stays when the next paths come, so that in the end `Suffices` has
the scopes up to `minScope` (`{}`) and each path on its own (`{path}`); this is where the
lower side cannot be said of all paths together.

*The molecules.*  At scope 0 `Placed` says that after `k` lines the molecules, their
entries in the index and the element lists are those of these lines.  Above it the
loops are by scope and then by line, and `Nests` says after `k - 1` scopes and `j` lines of
the next: `Listed`, that the index has the molecule under every object at any scope;
`Sound`, that what is at a scope has been reached from the one below; and `Complete`,
that all of the scopes done and, of scope `k`, what the first `j` lines say has been
added.  `Listed` is what the loop itself rests on: a line finds the
molecules its subject occurs in through the index, which earlier turns of the
same loop have extended, and a molecule that the index missed would miss the line.
`EdgeSays` and `MemoryNested` read the result back through the templates, as `Says` does: the ID
of a child decodes to the predicate of its line because IDs are one to one
within the root, whatever the scope.

*The answers.*  `Direct` are the queries for which a node needs nothing of another:
`q01`, `q03`, `q05`, `q06`, `q10`, `q13`, `q14` of `LUBMnetwork`, `q01` of `DBPnetwork` and the
one of `LUBM` that is like it.  `Knows` says what a loaded node has at scope 0, exactly:
of each of its subjects the lines, by template ID, and of every object the
molecules it is in.  From it follows what each look-up finds (`SubjectsExactly`,
`LocalExactly`, `EverythingExactly`, `RootTemplatesFind`): subjects are found if a line says so and not,
for instance, if another predicate has the ID, for IDs that fit in 16 bits are those
of one template of the root (`NumberTellsPredicate`).  A node's message is then
`Rows`, of its own subjects (`RepliesAreRows`).  On the side of the text the fold of `Solutions` is
unfolded for one pattern and for two, and `FactsTell` says what the classes of a
word are, with the recursion of `GetHierarchyForType` defined on larger and larger sets of
types that are closed under `SubTypes`, by induction on their size (`HierarchyUnfolds`): as there is no
cycle, of the types missing from such a set one has all of its subclasses in it.
`Wanted` is what the text asks of one subject, `Found` what a node looks for,
and `FoundIsWanted` is where `Granted` is used: without `Plain` and `Described` they differ.
The invariant `QInv` says that what has been sent and received are the `Rows` of the nodes,
each once and in their places; with a molecule whole on one node and every subject on some node,
the rows of the nodes are those of the dataset (`RowsOfAll`).

### The connections (`NetworkProofs`)

For every number of nodes, every capacity of a connection, every answer and
every number of rounds and crashes (`NetworkAssumption`); the theorems are about
`NetworkSpec` without fairness, and so about the run's specification too.

| Theorem | Says |
|---|---|
| `QueriesArrive` | `QueriesArriveWhole` |
| `NothingIsLeftBehind` | `ConnectionsAreClean` |
| `ResultsComeFromNodes` | `ResultsAreAnswers` |

`NetworkInv` says, for each node, where it is in the round, and in each of the
cases what is in both directions of its connection and in the buffers: nothing of the
query has been read and it all is to come (`Waiting`), it answers (`Answering`),
its answer is on the way (`Answered`), or it is `Gone`.  The case that is easily
forgotten is `Late`: a node that has written the last unit of an answer but has not
returned from `Send`, when the master, which has read that unit, already sends the
next query to it.

### Only model-checked

* Liveness (`EveryRunAnswers`, `StartReturns`,
  `EveryRoundEnds`, `NodesEndWithMaster`), which is out of the proof system's reach.
* `AnswersAreSolutions`, `SolutionsAreAnswered` and `LocalJoinsAreSound` for the twenty
  queries of `HandleQueries` that are not in `Direct`: those with a second round, a join of the
  master, a `begin()`, a box, or molecules above scope 0.
  For these `Granted` is what the datasets of the runs turned out to need, and may lack a
  condition that another dataset would show.

## Not modelled

Parsing of lines beyond what it decides, printing (`Display`, `DrisplayResults`,
statistics), timing, `PostFiltering` (returns at once), destructors,
`PageManager` (not used), `Functions`.  A file of `Deployment` is written and read
in one step: a node that opens a file while it is being written, and a master
that stops in the middle of one, are left out; so is a node started before every
file exists, which reads a count that was never set.  In `Network`, socket options,
errors of `select` and a `write` that fails without ending the process are left
out.  Scopes above 0 (`main` sets `maxScope` to 0) are modelled where something
uses them, in the nodes of `HandleQueries`; `Conductor`, `Deployment` and what
builds on them are about scope 0, and the loop of the master's own `LoadData` at
`Conductor.cpp:430`, which reads type lists the master never sizes, is left out.
Scopes of queries above 1, which no query uses, are left out, and so is the part of
`LUBM.cpp` that is inside a comment.  In `HandleQueries` the nodes have loaded, no
node fails (that is `Network`), and a query starts when the one before has been
answered, as the master is one thread.

## Plan

The core came first: the load and its theorems, the demo, the dictionary, then
the benchmark queries, the partition with its files, the network, and the
distributed queries, molecules above scope 0 and the materialised copy, each with
its theorems.  Left, in this order:

1. *Proofs* about the other queries of `HandleQueries`: those with a second round (`q07`,
   `q08s1`) and a join (`q11s1`, `q12`, `q02s1`, `q09s1`), for which `QInv` has to say what the master's
   rows are between rounds, then, with `LoadedMoleculesNest`, those that look above scope 0.
2. The master's own loop above scope 0 (`Conductor.cpp:430`), should the program come to
   size the type lists it reads.
