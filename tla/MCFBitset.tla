----------------------------- MODULE MCFBitset -----------------------------
(***************************************************************************)
(* FBitset for TLC.  The largest count makes position + count wrap around. *)
(***************************************************************************)
EXTENDS FBitset

SomeWidths == {1, 2, 7}
SomeCounts == {1, 2, 3, 4, 7, 8, UINT - 1}
=============================================================================
