---------------------------- MODULE MCHashTable ----------------------------
(***************************************************************************)
(* HashTable for TLC: two objects with one key, one whose key has the same *)
(* hash with one seed but not with the other, and one apart.               *)
(***************************************************************************)
EXTENDS HashTable

FourObjects == {"a", "b", "c", "d"}
ThreeKeys   == {"k", "l", "m"}
SomeKeyOf   == [o \in FourObjects |-> CASE o \in {"a", "b"} -> "k"
                                        [] o = "c" -> "l"
                                        [] o = "d" -> "m"]
TwoSeeds    == {0, 1}
SomeXXH32   == [s \in TwoSeeds |-> [key \in ThreeKeys |->
                    CASE key = "k" -> 1
                      [] key = "l" -> 1 + s
                      [] key = "m" -> 3]]
SomeNodes   == 1..5
=============================================================================
