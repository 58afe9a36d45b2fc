------------------------------ MODULE MCBitset ------------------------------
(***************************************************************************)
(* Bitset for TLC: two bitsets of one to three words.  The widths are less *)
(* than a word, a whole number of words, and a number of words and a part  *)
(* of one, when a word has two bits.                                       *)
(***************************************************************************)
EXTENDS Bitset, TLC

SomeWidths == {1, 4, 5}
SomeValues == {{}, {1}, {0, 1}}
Symmetry   == Permutations(Names)

\* In a full bitset of this width, less than a word of three bits, both
\* searches depart from the header.
LessThanAWord == {2}
=============================================================================
