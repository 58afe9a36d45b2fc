------------------------------ MODULE MCDList ------------------------------
(***************************************************************************)
(* An instance of DList for TLC.                                           *)
(***************************************************************************)
EXTENDS DList
=============================================================================
