------------------------------ MODULE MCPower2 ------------------------------
(***************************************************************************)
(* Instances of Power2Allocator for TLC.                                   *)
(***************************************************************************)
EXTENDS Power2Allocator

\* Three geometries with eight indexes, one with a single list, one with a
\* number of blocks that is no power of two, and a size create rejects.
Geometries == {<<8, 1>>, <<4, 2>>, <<2, 4>>, <<1, 3>>, <<2, 3>>, <<3, 2>>}
AllSizes   == 1..9
AllIndexes == 0..8
AllCounts  == 0..4
=============================================================================
