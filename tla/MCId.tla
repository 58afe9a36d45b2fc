-------------------------------- MODULE MCId --------------------------------
(***************************************************************************)
(* Instances of IdAllocator for TLC.                                       *)
(***************************************************************************)
EXTENDS IdAllocator

SomeSizes == {0, 1, 5, 8}
UpToFour  == 1..4
=============================================================================
