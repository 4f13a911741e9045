---------------------------- MODULE MCDeployment ----------------------------
(***************************************************************************)
(* SeqSpan = 10: 31 is a subject of type 3, the others are unclassified.   *)
(* A run of the master is over one of two files, some lines of the first   *)
(* left out.  In both the lines of 31 differ in their predicate, so they   *)
(* need two templates, and in their context, so that their groups have an  *)
(* order, and objects are subjects of other lines; a dataset without 31    *)
(* has no identifier of type 3, and a run over it may have one class       *)
(* fewer.                                                                  *)
(*                                                                         *)
(* All has five subjects: dealt two at a turn to two nodes, the turn wraps *)
(* after the fourth molecule and the fifth, alone in its range, goes to    *)
(* the first node again.  Three subjects of Some end inside the range of   *)
(* the second node.  The iterator over the molecules goes up or down.      *)
(***************************************************************************)
EXTENDS Deployment, DatasetFiles

MCKeys == {21, 24, 25, 26, 31}

Some ==
  <<M(31, 24, 21, 26), M(31, 25, 21, 24), L(21, 24, 25, 26), L(24, 24, 25, 26)>>
All ==
  <<L(31, 24, 21, 26), L(31, 25, 21, 24), L(21, 24, 25, 26), L(24, 24, 31, 26),
    L(25, 25, 21, 26), L(26, 24, 25, 24)>>
Files == {Some, All}

MCLines == UNION {{f[i].line : i \in DOMAIN f} : f \in Files}

\* Bounds: the datasets of a run, and the orders of molecules_tmp.
InOrder(c) ==
  \/ \A s \in c, t \in toPlace \ c : s < t
  \/ \A s \in c, t \in toPlace \ c : s > t

MCNext ==
  /\ DeploymentNext
  /\ phase = "read" /\ run' = run =>
       \E f \in Files : IF phase' = "read" THEN Begins(tripleIDs', f) ELSE Ends(tripleIDs, f)
  /\ toPlace' # toPlace /\ toPlace' \subseteq toPlace /\ run' = run =>
       InOrder(toPlace \ toPlace')

MCSpec == DeploymentInit /\ [][MCNext]_deploymentVars

\* One class, or none, beside the three reserved types.
MCNbsOfTypes == {3, 4}
==============================================================================
