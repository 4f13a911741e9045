------------------------------ MODULE MCNetwork ------------------------------
(***************************************************************************)
(* Two nodes, messages of two units, answers of up to two identifiers.     *)
(***************************************************************************)
EXTENDS Network

MCResults == {"a"}
==============================================================================
