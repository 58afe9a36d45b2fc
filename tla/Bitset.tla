------------------------------- MODULE Bitset -------------------------------
(***************************************************************************)
(* The bitset of src/bitset/bitset.c: an array of words of W bits (64 in   *)
(* the code).  A word is the set of the positions of its 1 bits.           *)
(*                                                                         *)
(* There are a few bitsets, each in memory of its own that goes on after   *)
(* its last word, so that a write past the end shows.  A bitset may be     *)
(* initialized again, over the same memory and with another width: what    *)
(* the memory holds stays, also where it is no longer part of the bitset.  *)
(*                                                                         *)
(* The variable bits records, as a plain set of positions, what the calls  *)
(* have made of each bitset: those that write bits, as their arguments     *)
(* say, and bf_bs_copy_range, as the reads and writes it consists of say.  *)
(***************************************************************************)
EXTENDS Integers, FiniteSetsExt, Functions

CONSTANTS W,            \* the number of bits of a word
          Names,        \* the bitsets
          Widths,       \* the widths bf_bs_init is called with
          Values        \* the values bf_bs_set_word is called with

ASSUME WidthAssumption ==
    /\ W \in Nat \ {0}
    /\ Widths \subseteq Nat \ {0} /\ Widths # {} /\ IsFiniteSet(Widths)
    /\ Values \subseteq SUBSET (0..(W - 1))

VARIABLES width,        \* field width of each bitset
          bs,           \* the words its field bs points to
          bits,         \* history: the positions that ought to be set
          aborted       \* a bf_sys_assert has failed

vars == <<width, bs, bits, aborted>>

-----------------------------------------------------------------------------
(***************************************************************************)
(* Words                                                                   *)
(***************************************************************************)

Ones == 0..(W - 1)
LowBits(k) == 0..(k - 1)                                \* (1 << k) - 1
ShiftLeft(word, k) == {i + k : i \in {j \in word : j + k < W}}
ShiftRight(word, k) == {i - k : i \in {j \in word : j >= k}}
builtin_ffs(word) == IF word = {} THEN 0 ELSE Min(word) + 1

BF_BITSET_ARRAY_SIZE(w) == (w + W - 1) \div W

\* The words of memory: those of the widest bitset, and one more.
WordIndexes == 0..BF_BITSET_ARRAY_SIZE(Max(Widths))

length(b) == BF_BITSET_ARRAY_SIZE(width[b])

\* Mutant of top_word_mask: no special case for a width of whole words.
top_word_mask_NoCase(b) == LowBits(width[b] % W)

top_word_mask(b) == IF width[b] % W # 0 THEN LowBits(width[b] % W) ELSE Ones

\* bs->bs[len - 1] &= top_word_mask(bs)
Masked(b) == [bs[b] EXCEPT ![length(b) - 1] = @ \cap top_word_mask(b)]

\* What the words say, as a set of positions.
Bits(words, w) == {i \in 0..(w - 1) : i % W \in words[i \div W]}

\* What reading and writing up to a word of bits mean for a set of positions.
ReadBits(S, w, offset, n) == {k \in LowBits(n) : offset + k < w /\ offset + k \in S}
WriteBits(S, w, position, size, val) ==
    LET window == {i \in 0..(w - 1) : i - position \in LowBits(size)}
    IN  (S \ window) \cup {i \in window : i - position \in val}

-----------------------------------------------------------------------------
(***************************************************************************)
(* Access to up to W bits at any position                                  *)
(***************************************************************************)

LesserOf(i, j) == IF i < j THEN i ELSE j

\* bf_bs_get_word
GetWord(words, w, bit_offset, n_bits) ==
    LET len   == LesserOf(w - bit_offset, n_bits)
        mod   == bit_offset % W
        spill == mod + len - W
        first == ShiftRight(words[bit_offset \div W], mod)
        word  == IF mod # 0 /\ spill > 0
                 THEN first \cup ShiftLeft(words[bit_offset \div W + 1], len - spill)
                 ELSE first
    IN  word \cap LowBits(len)

\* Mutant of SetWord: the bits that spill over do not replace the old ones.
SetWord_Keeps(words, w, position, size, val) ==
    LET len   == LesserOf(w - position, size)
        mod   == position % W
        at    == position \div W
        new   == val \cap LowBits(len)
        spill == mod + len - W
        first == [words EXCEPT ![at] = (@ \ ShiftLeft(LowBits(len), mod))
                                       \cup ShiftLeft(new, mod)]
    IN  IF spill > 0
        THEN [first EXCEPT ![at + 1] = @ \cup ShiftRight(new, len - spill)]
        ELSE first

\* The words after bf_bs_set_word.
SetWord(words, w, position, size, val) ==
    LET len   == LesserOf(w - position, size)
        mod   == position % W
        at    == position \div W
        new   == val \cap LowBits(len)
        spill == mod + len - W
        first == [words EXCEPT ![at] = (@ \ ShiftLeft(LowBits(len), mod))
                                       \cup ShiftLeft(new, mod)]
    IN  IF spill > 0
        THEN [first EXCEPT ![at + 1] = (@ \ LowBits(spill))
                                       \cup ShiftRight(new, len - spill)]
        ELSE first

-----------------------------------------------------------------------------
(***************************************************************************)
(* Operations                                                              *)
(***************************************************************************)

Init ==
    /\ width \in [Names -> Widths]
    /\ bs = [b \in Names |-> [i \in WordIndexes |-> {}]]
    /\ bits = [b \in Names |-> {}]
    /\ aborted = FALSE

\* bf_bs_init over the memory of the bitset.
InitAgain(b, w) ==
    /\ ~aborted
    /\ width' = [width EXCEPT ![b] = w]
    /\ bits' = [bits EXCEPT ![b] = Bits(bs[b], w)]
    /\ UNCHANGED <<bs, aborted>>

\* The assertions on positions and sizes in the next three are the caller's
\* part.
Set(b, position, val) ==
    /\ ~aborted /\ position < width[b]
    /\ LET tmp == {position % W} IN
       bs' = [bs EXCEPT ![b][position \div W] =
                  IF val THEN @ \cup tmp ELSE @ \ tmp]
    /\ bits' = [bits EXCEPT ![b] = IF val THEN @ \cup {position}
                                          ELSE @ \ {position}]
    /\ UNCHANGED <<width, aborted>>

SetAll(b, val) ==
    /\ ~aborted
    /\ bs' = [bs EXCEPT ![b] = [i \in WordIndexes |->
                  IF i >= length(b) THEN @[i]
                  ELSE IF ~val THEN {}
                  ELSE IF i = length(b) - 1 THEN top_word_mask(b) ELSE Ones]]
    /\ bits' = [bits EXCEPT ![b] = IF val THEN 0..(width[b] - 1) ELSE {}]
    /\ UNCHANGED <<width, aborted>>

\* bf_bs_set_word
SetWordAt(b, position, size, val) ==
    /\ ~aborted /\ position < width[b]
    /\ bs' = [bs EXCEPT ![b] = SetWord(@, width[b], position, size, val)]
    /\ bits' = [bits EXCEPT ![b] = WriteBits(@, width[b], position, size, val)]
    /\ UNCHANGED <<width, aborted>>

\* bf_bs_first_set, bf_bs_first_clr, bf_bs_all_0s and bf_bs_pop_count clear
\* the unused bits of the last word before they look at the words.
Query(b) ==
    /\ ~aborted
    /\ bs' = [bs EXCEPT ![b] = Masked(b)]
    /\ UNCHANGED <<width, bits, aborted>>

\* bf_bs_equal does so in both, unless the widths differ.
Equal(x, y) ==
    /\ ~aborted /\ width[x] = width[y]
    /\ bs' = [bs EXCEPT ![x] = Masked(x), ![y] = Masked(y)]
    /\ UNCHANGED <<width, bits, aborted>>

\* Mutant of Copy: the last word of the source is copied as it is.
Copy_NoMask(dst, src) ==
    /\ ~aborted /\ width[src] = width[dst]
    /\ bs' = [bs EXCEPT ![dst] = [i \in WordIndexes |->
                  IF i <= width[src] \div W THEN bs[src][i] ELSE @[i]]]
    /\ bits' = [bits EXCEPT ![dst] = bits[src]]
    /\ UNCHANGED <<width, aborted>>

\* bf_bs_copy.  The word at index width / 64 is past the end of the array
\* when the width is a multiple of 64.
Copy(dst, src) ==
    /\ ~aborted /\ width[src] = width[dst]
    /\ LET whole == width[src] \div W IN
       bs' = [bs EXCEPT ![dst] = [i \in WordIndexes |->
                  IF i < whole THEN bs[src][i]
                  ELSE IF i = whole THEN bs[src][i] \cap LowBits(width[src] % W)
                  ELSE @[i]]]
    /\ bits' = [bits EXCEPT ![dst] = bits[src]]
    /\ UNCHANGED <<width, aborted>>

-----------------------------------------------------------------------------
(***************************************************************************)
(* bf_bs_copy_range                                                        *)
(***************************************************************************)

\* The i-th piece and its size: as many whole words as the source has, then
\* what n_bits leaves of a word.
Pieces(src) == 0..(width[src] \div W)
PieceSize(src, i, n_bits) == IF i < width[src] \div W THEN W ELSE n_bits % W

\* The assertions of bf_bs_get_word and bf_bs_set_word for one piece.  When
\* they fail for one, they would for the pieces after it.
PieceOk(dst, dst_offset, src, src_offset, n_bits, i) ==
    /\ src_offset + i * W < width[src]
    /\ dst_offset + i * W < width[dst]
    /\ PieceSize(src, i, n_bits) > 0

\* The words of dst after the i-th piece, if the program gets that far.  What
\* is copied within one bitset is read as the pieces before have left it.
CopyPieces(dst, dst_offset, src, src_offset, n_bits) ==
    LET words[i \in Pieces(src)] ==
            LET size == PieceSize(src, i, n_bits)
                now  == IF i = 0 THEN bs[dst] ELSE words[i - 1]
                x    == GetWord(IF src = dst THEN now ELSE bs[src], width[src],
                                src_offset + i * W, size)
            IN  IF PieceOk(dst, dst_offset, src, src_offset, n_bits, i)
                THEN SetWord(now, width[dst], dst_offset + i * W, size, x)
                ELSE now
    IN  words

\* The same reads and writes, of sets of positions.
CopiedBits(dst, dst_offset, src, src_offset, n_bits) ==
    LET set[i \in Pieces(src)] ==
            LET size == PieceSize(src, i, n_bits)
                now  == IF i = 0 THEN bits[dst] ELSE set[i - 1]
                x    == ReadBits(IF src = dst THEN now ELSE bits[src], width[src],
                                 src_offset + i * W, size)
            IN  IF PieceOk(dst, dst_offset, src, src_offset, n_bits, i)
                THEN WriteBits(now, width[dst], dst_offset + i * W, size, x)
                ELSE now
    IN  set

\* The assertions of bf_bs_copy_range itself are the caller's part; those of
\* the functions it calls are not, and may stop the program halfway.
CopyRange(dst, dst_offset, src, src_offset, n_bits) ==
    /\ ~aborted
    /\ src_offset + n_bits - 1 \in 0..(width[src] - 1)
    /\ dst_offset + n_bits - 1 \in 0..(width[dst] - 1)
    /\ LET last == width[src] \div W
       IN  /\ bs' = [bs EXCEPT ![dst] =
                        CopyPieces(dst, dst_offset, src, src_offset, n_bits)[last]]
           /\ bits' = [bits EXCEPT ![dst] =
                          CopiedBits(dst, dst_offset, src, src_offset, n_bits)[last]]
    /\ aborted' = ~ \A i \in Pieces(src) :
                       PieceOk(dst, dst_offset, src, src_offset, n_bits, i)
    /\ UNCHANGED width

Positions == 0..(Max(Widths) - 1)

Next ==
    \/ \E b \in Names :
          \/ \E w \in Widths : InitAgain(b, w)
          \/ \E position \in Positions, val \in BOOLEAN : Set(b, position, val)
          \/ \E val \in BOOLEAN : SetAll(b, val)
          \/ \E position \in Positions, size \in 1..W :
                \E val \in Values : SetWordAt(b, position, size, val)
          \/ Query(b)
    \/ \E x, y \in Names :
          \/ Equal(x, y)
          \/ Copy(x, y)
          \/ \E dst_offset, src_offset \in Positions, n_bits \in 0..Max(Widths) :
                CopyRange(x, dst_offset, y, src_offset, n_bits)

Spec == Init /\ [][Next]_vars

-----------------------------------------------------------------------------
(***************************************************************************)
(* Queries                                                                 *)
(***************************************************************************)

\* The search of bf_bs_first_set and bf_bs_first_clr, from position on, in
\* words that hold the bits that are looked for: the rest of one word, the
\* words that follow, and the last one, where the width is tested.
Find(b, words, position) ==
    LET i     == position \div W
        shift == position % W
        last  == length(b) - 1
        x     == builtin_ffs(ShiftRight(words[i], shift))
        later == {j \in (i + 1)..last : words[j] # {}}
        found == W * Min(later) + builtin_ffs(words[Min(later)]) - 1
    IN  IF position >= width[b] THEN -1
        ELSE IF x # 0 THEN W * i + x - 1 + shift
        ELSE IF later = {} THEN -1
        ELSE IF Min(later) = last /\ found >= width[b] THEN -1
        ELSE found

\* Mutant of bf_bs_first_set: unused bits are not cleared first.
bf_bs_first_set_NoMask(b, position) == Find(b, bs[b], position + 1)

\* position is exclusive.
bf_bs_first_set(b, position) == Find(b, Masked(b), position + 1)
bf_bs_first_clr(b, position) ==
    Find(b, [i \in WordIndexes |-> Ones \ Masked(b)[i]], position + 1)

bf_bs_get(b, position) == position % W \in bs[b][position \div W]

bf_bs_all_1s(b) ==
    /\ \A i \in 0..(length(b) - 2) : bs[b][i] = Ones
    /\ bs[b][length(b) - 1] = top_word_mask(b)

bf_bs_all_0s(b) == \A i \in 0..(length(b) - 1) : Masked(b)[i] = {}

bf_bs_equal(x, y) ==
    /\ width[x] = width[y]
    /\ \A i \in 0..(length(x) - 1) :
          GetWord(Masked(x), width[x], i * W, W) = GetWord(Masked(y), width[y], i * W, W)

bf_bs_pop_count(b) ==
    SumFunctionOnSet([i \in WordIndexes |-> Cardinality(Masked(b)[i])],
                     0..(length(b) - 1))

-----------------------------------------------------------------------------
(***************************************************************************)
(* Properties                                                              *)
(***************************************************************************)

(***************************************************************************)
(* After any sequence of calls the words hold just the bits that the calls *)
(* wrote, at every width and every offset: up to a word of bits written    *)
(* across a word boundary, a copy, and each piece of a bf_bs_copy_range,   *)
(* between two bitsets or within one, change the bits they are given and   *)
(* no others, and the functions that mask the last word lose nothing.      *)
(* Whether the pieces are the range that was asked for is another          *)
(* question: CopyRangeCopies.                                              *)
(***************************************************************************)
HoldsBits ==
    \A b \in Names : /\ Bits(bs[b], width[b]) = bits[b]
                     /\ \A i \in 0..(width[b] - 1) : bf_bs_get(b, i) <=> i \in bits[b]

(***************************************************************************)
(* bf_bs_copy_range copies a portion of one bitset to another (bitset.h,   *)
(* line 72): the n_bits at dst_offset become those at src_offset, the      *)
(* other bits stay, and no assertion fails for a portion that lies within  *)
(* both, be it a whole number of words or a part of a longer source.       *)
(***************************************************************************)
CopyRangeCopies ==
    [][\A dst, src \in Names :
       \A dst_offset, src_offset \in Positions, n_bits \in 1..Max(Widths) :
          CopyRange(dst, dst_offset, src, src_offset, n_bits) =>
              LET portion == dst_offset..(dst_offset + n_bits - 1)
              IN  /\ ~aborted'
                  /\ Bits(bs'[dst], width[dst]) =
                         (bits[dst] \ portion) \cup
                         {i \in portion : i - dst_offset + src_offset \in bits[src]}]_vars

Least(S) == IF S = {} THEN -1 ELSE Min(S)

(***************************************************************************)
(* The search of bf_bs_first_set and bf_bs_first_clr across words is exact *)
(* from the bit at which it begins, the one after position: the first set  *)
(* bit is found whatever the unused bits hold, and the first clear one if  *)
(* there is one.  bitset.h has the search begin at position itself and     *)
(* return -1 if there is none; that is FullBitsetSearched.                 *)
(***************************************************************************)
SearchesExact ==
    \A b \in Names : \A position \in -1..(width[b] - 1) :
        LET after == (position + 1)..(width[b] - 1)
            set   == after \cap bits[b]
            clear == after \ bits[b]
        IN  /\ bf_bs_first_set(b, position) = Least(set)
            /\ clear # {} => bf_bs_first_clr(b, position) = Least(clear)

(***************************************************************************)
(* What lines 46 to 51 of bitset.h say of a bitset with every bit set: the *)
(* search for a set bit that starts at position finds the bit there, and   *)
(* the search for a clear bit returns -1.                                  *)
(***************************************************************************)
FullBitsetSearched ==
    \A b \in Names : bits[b] = 0..(width[b] - 1) =>
        \A position \in 0..(width[b] - 1) :
            /\ bf_bs_first_set(b, position) = position
            /\ bf_bs_first_clr(b, position) = -1

UnusedClear(b) == bs[b] = Masked(b)

(***************************************************************************)
(* The count of set bits, the test for no set bit and the comparison of    *)
(* two bitsets are not misled by what a wider bitset left in the unused    *)
(* bits of the last word; the test for all bits set needs them clear.      *)
(***************************************************************************)
CountsExact ==
    \A b \in Names :
        /\ bf_bs_pop_count(b) = Cardinality(bits[b])
        /\ bf_bs_all_0s(b) <=> bits[b] = {}
        /\ UnusedClear(b) => (bf_bs_all_1s(b) <=> bits[b] = 0..(width[b] - 1))
        /\ \A c \in Names :
              bf_bs_equal(b, c) <=> width[b] = width[c] /\ bits[b] = bits[c]

(***************************************************************************)
(* No call writes past the last word of the array, save a copy at a width  *)
(* that is a whole number of words, which clears the word after it; and    *)
(* none sets a bit of the last word that is not part of the set.           *)
(***************************************************************************)
PastEndKept ==
    [][\A b \in Names :
          /\ \A i \in WordIndexes : i >= length(b) =>
                \/ bs'[b][i] = bs[b][i]
                \/ i = length(b) /\ width[b] % W = 0 /\ bs'[b][i] = {}
          /\ bs'[b][length(b) - 1] \subseteq
                 bs[b][length(b) - 1] \cup top_word_mask(b)]_vars
=============================================================================
