------------------------------ MODULE QuadStore ------------------------------
(***************************************************************************)
(* What the in-memory store promises, whatever its data structures: a set  *)
(* of quads that grows by the quads it is given.  Quads it does not keep   *)
(* (those whose subject has no molecule) leave it unchanged.               *)
(***************************************************************************)
CONSTANTS
  Quads,   \* what the store may be given
  Keeps    \* the quads it keeps

VARIABLE stored

Init == stored = {}

Load(q) == q \in Keeps /\ stored' = stored \union {q}

Next == \E q \in Quads : Load(q)

Spec == Init /\ [][Next]_stored

\* A quad once stored stays.
NothingForgotten == [][stored \subseteq stored']_stored
==============================================================================
