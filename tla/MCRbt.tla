------------------------------- MODULE MCRbt -------------------------------
(***************************************************************************)
(* An instance of Rbt for TLC.                                             *)
(***************************************************************************)
EXTENDS Rbt

CONSTANT KeyCount

KeyRange == 1..KeyCount
=============================================================================
