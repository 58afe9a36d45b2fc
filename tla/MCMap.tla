------------------------------- MODULE MCMap -------------------------------
(***************************************************************************)
(* Map for TLC: four keys, from 0, which a count modulo 4 does not tell    *)
(* from none, and two data pointers besides NULL.                          *)
(***************************************************************************)
EXTENDS Map

SomeKeys == 0..3
=============================================================================
