----------------------------- MODULE KeyManager -----------------------------
(***************************************************************************)
(* KeyManager.cpp as the two passes of Conductor::LoadData use it.  URIs   *)
(* are kept in a trie whose nodes hold fragments; a leaf carries the       *)
(* identifier, 0 until the end of the pass.  The first pass adds the       *)
(* classes and numbers them, the second adds every other word of the       *)
(* dataset and gives each an identifier of the type its rdf:type lines     *)
(* name.  The map from identifiers back to URIs holds node pointers.       *)
(*                                                                         *)
(* Nodes and leaves are numbered in the order they are allocated.          *)
(***************************************************************************)
EXTENDS Integers, FiniteSets, SequencesExt

CONSTANTS
  Letters,      \* the characters of words
  Classes,      \* URIs of rdf:type objects and of subClassOf lines
  Words,        \* the other words of the dataset
  Scotland,     \* the class LoadData skips in its first pass
  SeqSpan,      \* 2^32 in the code: an identifier is type * SeqSpan + number
  MaxTypings,   \* bound: rdf:type lines of the second pass
  MaxSubClass   \* bound: subClassOf lines

AllWords == Classes \union Words

Text == Seq(Letters)

ASSUME WordsAssumption ==
  /\ AllWords \subseteq Text \ {<<>>}
  /\ IsFiniteSet(AllWords)
  /\ Scotland \in Words

\* A number of a type fits into its part of an identifier.
ASSUME SpanAssumption == SeqSpan \in Nat /\ SeqSpan > Cardinality(AllWords) + 2

VARIABLES
  stage,        \* "classes", "words", "numbered": where LoadData is
  uri_id,       \* the roots of the trie
  nodes,        \* fragment, children, parent (0 for a root), leaf (0 if none)
  leafId,       \* the identifier of each leaf
  types,        \* KeyManager::types: per type, identifiers with their node
  subclasses,   \* TH: pairs of class and parent
  tt,           \* rdf:type lines of the second pass: leaf and type
  handed        \* history: the leaves Add returned for a word

trie == <<uri_id, nodes, leafId>>
vars == <<stage, trie, types, subclasses, tt, handed>>

TYPE_ID == 0 .. (Cardinality(Classes) + 2)

GetId(seq, type) == type * SeqSpan + seq
GetSeq(id) == id % SeqSpan
GetType(id) == id \div SeqSpan

Init ==
  /\ stage = "classes"
  /\ uri_id = <<>> /\ nodes = <<>> /\ leafId = <<>>
  /\ types = [t \in TYPE_ID |-> {}]
  /\ subclasses = {}
  /\ tt = <<>>
  /\ handed = [w \in AllWords |-> {}]
------------------------------------------------------------------------------
(* Look-ups.                                                               *)

From(s, i) == SubSeq(s, i, Len(s))

\* The first of the nodes ns whose fragment starts as part does, 0 if none.
Taker(ns, part) ==
  LET hits == {i \in DOMAIN ns : nodes[ns[i]].uri # <<>> /\ nodes[ns[i]].uri[1] = part[1]}
  IN  IF hits = {} THEN 0 ELSE ns[Min(hits)]

\* Node::FindAdd: the node on which Add is called, how much of its fragment
\* part1 leaves out, and part2.  When the word ends inside the fragment, or
\* with it, Add is given both from their first character on.
FindAdd[n \in DOMAIN nodes] ==
  [part \in Text |->
    LET uri == nodes[n].uri
        k == Len(LongestCommonPrefix({uri, part}))
        child == Taker(nodes[n].next, From(part, k + 1))
    IN  IF k = Len(part)
          THEN [node |-> n, keep |-> 0, rest |-> part]
          ELSE IF k = Len(uri) /\ child # 0
                 THEN FindAdd[child][From(part, k + 1)]
                 ELSE [node |-> n, keep |-> k, rest |-> From(part, k + 1)]]

\* Node::Get and KeyManager::Get: the first identifier other than 0.
FirstId(ids) ==
  LET hits == {i \in DOMAIN ids : ids[i] # 0} IN IF hits = {} THEN 0 ELSE ids[Min(hits)]

NodeGet[n \in DOMAIN nodes] ==
  [word \in Text |->
    LET uri == nodes[n].uri
        next == nodes[n].next
    IN  IF uri = <<>> \/ ~IsPrefix(uri, word)
          THEN 0
          ELSE IF uri = word
                 THEN IF nodes[n].leaf = 0 THEN 0 ELSE leafId[nodes[n].leaf]
                 ELSE FirstId([i \in DOMAIN next |-> NodeGet[next[i]][From(word, Len(uri) + 1)]])]

\* Mutant of Get: only the first root is asked.
GetFirstRoot(word) == IF uri_id = <<>> THEN 0 ELSE NodeGet[uri_id[1]][word]

Get(word) == FirstId([i \in DOMAIN uri_id |-> NodeGet[uri_id[i]][word]])

\* Node::GetUri: the fragments from the root down to each node.
Spelling[n \in DOMAIN nodes] ==
  IF nodes[n].prev = 0 THEN nodes[n].uri ELSE Spelling[nodes[n].prev] \o nodes[n].uri

\* Mutant of GetUri: the fragment of the parent only.
GetUriShort(n) ==
  IF nodes[n].prev = 0 THEN nodes[n].uri ELSE nodes[nodes[n].prev].uri \o nodes[n].uri

GetUri(n) == Spelling[n]

\* The order in which both MakeInverseIndex walk the trie: the nodes with a
\* leaf from each node on.
LeavesFrom[n \in DOMAIN nodes] ==
  (IF nodes[n].leaf = 0 THEN <<>> ELSE <<n>>)
    \o FlattenSeq([i \in DOMAIN nodes[n].next |-> LeavesFrom[nodes[n].next[i]]])

LeafNodes == FlattenSeq([i \in DOMAIN uri_id |-> LeavesFrom[uri_id[i]]])
------------------------------------------------------------------------------
(* KeyManager::Add.                                                        *)

Node(uri, next, prev, leaf) == [uri |-> uri, next |-> next, prev |-> prev, leaf |-> leaf]

NewLeaf == Len(leafId) + 1
NewNode == Len(nodes) + 1

\* Node::Add on a node that has all of part1 in common: a further child.
AddChild(n, rest) ==
  /\ nodes' = Append([nodes EXCEPT ![n].next = Append(@, NewNode)],
                     Node(rest, <<>>, n, NewLeaf))
  /\ leafId' = Append(leafId, 0)
  /\ UNCHANGED uri_id

\* Mutant of Split: the leaf stays where it was.
SplitKeepingLeaf(n, keep, rest) ==
  LET old == nodes[n]
      lower == NewNode
  IN  /\ nodes' = [i \in DOMAIN nodes |->
                     IF i = n
                       THEN Node(SubSeq(old.uri, 1, keep), <<lower, lower + 1>>, old.prev, old.leaf)
                       ELSE IF i \in Range(old.next)
                              THEN [nodes[i] EXCEPT !.prev = lower]
                              ELSE nodes[i]]
                  \o <<Node(From(old.uri, keep + 1), old.next, n, 0),
                       Node(rest, <<>>, n, NewLeaf)>>
      /\ leafId' = Append(leafId, 0)
      /\ UNCHANGED uri_id

\* Node::Add when part1 is not common: it moves, with leaf and children, into
\* a node of its own, and the word gets another.
Split(n, keep, rest) ==
  LET old == nodes[n]
      lower == NewNode
  IN  /\ nodes' = [i \in DOMAIN nodes |->
                     IF i = n
                       THEN Node(SubSeq(old.uri, 1, keep), <<lower, lower + 1>>, old.prev, 0)
                       ELSE IF i \in Range(old.next)
                              THEN [nodes[i] EXCEPT !.prev = lower]
                              ELSE nodes[i]]
                  \o <<Node(From(old.uri, keep + 1), old.next, n, old.leaf),
                       Node(rest, <<>>, n, NewLeaf)>>
      /\ leafId' = Append(leafId, 0)
      /\ UNCHANGED uri_id

\* Node::Add for a fragment that equals the word: a leaf if it had none.
AddHere(n) ==
  IF nodes[n].leaf = 0
    THEN /\ nodes' = [nodes EXCEPT ![n].leaf = NewLeaf]
         /\ leafId' = Append(leafId, 0)
         /\ UNCHANGED uri_id
    ELSE UNCHANGED trie

\* No root starts as the word does: a new root.
AddRoot(word) ==
  /\ uri_id' = Append(uri_id, NewNode)
  /\ nodes' = Append(nodes, Node(word, <<>>, 0, NewLeaf))
  /\ leafId' = Append(leafId, 0)

\* KeyManager::Add and the leaf it returns.
At(word) == FindAdd[Taker(uri_id, word)][word]

Add(word) ==
  IF Taker(uri_id, word) = 0
    THEN AddRoot(word)
    ELSE LET at == At(word)
             part1 == From(nodes[at.node].uri, at.keep + 1)
         IN  IF part1 = at.rest
               THEN AddHere(at.node)
               ELSE IF part1 = <<>> THEN AddChild(at.node, at.rest)
                                    ELSE Split(at.node, at.keep, at.rest)

Added(word) ==
  IF Taker(uri_id, word) = 0
    THEN NewLeaf
    ELSE LET at == At(word)
             n == nodes[at.node]
         IN  IF From(n.uri, at.keep + 1) = at.rest /\ n.leaf # 0 THEN n.leaf ELSE NewLeaf

AddWord(word) ==
  /\ Add(word)
  /\ handed' = [handed EXCEPT ![word] = @ \union {Added(word)}]
------------------------------------------------------------------------------
(* The two passes.                                                         *)

\* First pass, a line with rdf:type: its object is a class.
AddClass(c) ==
  /\ stage = "classes"
  /\ AddWord(c)
  /\ UNCHANGED <<stage, types, subclasses, tt>>

\* First pass, a subClassOf line between classes the trie already holds; the
\* hierarchy gets it at the end of the pass.
AddSubClass(c, parent) ==
  /\ stage = "classes"
  /\ handed[c] # {} /\ handed[parent] # {}
  /\ Cardinality(subclasses) < MaxSubClass
  /\ subclasses' = subclasses \union {<<c, parent>>}
  /\ UNCHANGED <<stage, trie, types, tt, handed>>

\* Classes are numbered from 3, because 0, 1 and 2 are types of their own.
ClassId(i) == GetId(i + 2, 1)

\* KeyManager::MakeInverseIndexTypes.
MakeInverseIndexTypes ==
  LET order == LeafNodes
  IN  /\ stage = "classes"
      /\ stage' = "words"
      /\ leafId' = [l \in DOMAIN leafId |->
                      ClassId(CHOOSE i \in DOMAIN order : nodes[order[i]].leaf = l)]
      /\ types' = [types EXCEPT ![1] =
                     {[id |-> ClassId(i), node |-> order[i]] : i \in DOMAIN order}]
      /\ UNCHANGED <<uri_id, nodes, subclasses, tt, handed>>

\* Second pass, one of the words of an ordinary line.
AddOrdinary(w) ==
  /\ stage = "words"
  /\ AddWord(w)
  /\ UNCHANGED <<stage, types, subclasses, tt>>

\* Second pass, a line "w rdf:type c".  Every class was numbered in the first
\* pass, but for Scotland; its number is looked up when w is in the trie.
AddTyping(w, c) ==
  /\ stage = "words"
  /\ c = Scotland \/ \E l \in handed[c] : leafId[l] # 0
  /\ Len(tt) < MaxTypings
  /\ AddWord(w)
  /\ tt' = Append(tt, [leaf |-> Added(w), type |-> GetSeq(Get(c)')])
  /\ UNCHANGED <<stage, types, subclasses>>

\* TypesHierarchy::GiveSubClass: its first line returns the new type for every
\* type the hierarchy knows.
GiveSubClass(oldone, newone) == newone

\* An old type gives way to a new one that GiveSubClass prefers.
Chosen(old, t) ==
  LET older == {u \in old : GiveSubClass(u, t) = t}
  IN  IF older = {} THEN old \union {t} ELSE (old \ {Min(older)}) \union {t}

\* The types of a leaf, in the order of its lines, boiled down to one.
ChosenTypes(leaf) ==
  LET chosen[i \in 0 .. Len(tt)] ==
        IF i = 0 THEN {}
        ELSE IF tt[i].leaf = leaf THEN Chosen(chosen[i - 1], tt[i].type) ELSE chosen[i - 1]
  IN  chosen[Len(tt)]

\* 2 is "unclassified".  More than one type would be a composite, which
\* GiveSubClass leaves no room for.
TypeOf(leaf) ==
  IF ChosenTypes(leaf) = {} THEN 2 ELSE CHOOSE t \in ChosenTypes(leaf) : TRUE

\* Mutant of NextId: the size of the type as the number.
NextIdFromZero(elements, t) == GetId(Cardinality(elements), t)

\* The next identifier of a type.
NextId(elements, t) == GetId(Cardinality(elements) + 1, t)

\* Node::MakeInverseIndex on a node: a number of its type for the leaf, if it
\* has none yet.
Number(acc, n) ==
  LET t == TypeOf(nodes[n].leaf)
      id == NextId(acc.types[t], t)
  IN  IF acc.leafId[nodes[n].leaf] # 0 THEN acc
      ELSE [leafId |-> [acc.leafId EXCEPT ![nodes[n].leaf] = id],
            types |-> [acc.types EXCEPT ![t] = @ \union {[id |-> id, node |-> n]}]]

\* The identifiers and types after each leaf of the walk.
Numbered[i \in 0 .. Len(LeafNodes)] ==
  IF i = 0 THEN [leafId |-> leafId, types |-> types] ELSE Number(Numbered[i - 1], LeafNodes[i])

\* KeyManager::MakeInverseIndex.
MakeInverseIndex ==
  LET done == Numbered[Len(LeafNodes)]
  IN  /\ stage = "words"
      /\ stage' = "numbered"
      /\ leafId' = done.leafId
      /\ types' = done.types
      /\ UNCHANGED <<uri_id, nodes, subclasses, tt, handed>>

Next ==
  \/ \E c \in Classes : AddClass(c)
  \/ \E c, parent \in Classes : AddSubClass(c, parent)
  \/ MakeInverseIndexTypes
  \/ \E w \in AllWords : AddOrdinary(w)
  \/ \E w \in Words, c \in Classes \union {Scotland} : AddTyping(w, c)
  \/ MakeInverseIndex

Spec == Init /\ [][Next]_vars
------------------------------------------------------------------------------
(***************************************************************************)
(* What the dictionary promises.                                           *)
(***************************************************************************)

\* The leaves spell exactly the words that were added, and the leaf of a word
\* is the one every Add of it returned, whatever was added in between.
LeavesSpellWords ==
  /\ \A w \in AllWords : Cardinality(handed[w]) <= 1
  /\ {<<GetUri(n), nodes[n].leaf>> : n \in Range(LeafNodes)} =
       UNION {{<<w, l>> : l \in handed[w]} : w \in AllWords}

\* Sooner or later every word is found from the top of the trie under the
\* identifier its leaf carries: queries and lines agree on identifiers.
GetFindsWords ==
  \A w \in AllWords : \A l \in handed[w] : Get(w) = leafId[l]

\* When LoadData turns leaves into identifiers each word has one of its own.
IdsAreUnique ==
  stage = "numbered" =>
    /\ \A l \in DOMAIN leafId : leafId[l] # 0
    /\ IsInjective(leafId)
    /\ {e.id : e \in UNION Range(types)} = Range(leafId)

\* Identifiers of the second pass decode to the word they were given for.
DecodesBack ==
  stage = "numbered" =>
    \A w \in AllWords : \A l \in handed[w] :
      GetType(leafId[l]) # 1 =>
        \A e \in types[GetType(leafId[l])] : e.id = leafId[l] => GetUri(e.node) = w

\* KeyManager.cpp: "alreadu exists in the index": a word added again gets the
\* leaf it has.
AlreadyExists == \A w \in AllWords : Cardinality(handed[w]) <= 1

\* KeyManager.cpp: type 1 is "reserved for types": what its identifiers decode
\* to are classes.
ReservedForTypes == \A e \in types[1] : GetUri(e.node) \in Classes
==============================================================================
