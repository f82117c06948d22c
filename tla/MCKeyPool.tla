------------------------------ MODULE MCKeyPool ------------------------------
(***************************************************************************)
(* An instance of KeyPool.                                                 *)
(***************************************************************************)
EXTENDS KeyPool
==============================================================================
