--------------------------- MODULE FBitsetProofs ---------------------------
(***************************************************************************)
(* Proofs about FBitset, for every width, every set of bits and every      *)
(* length of run: the two searches of fbitset.c for runs of clear bits     *)
(* find the run that is nearest, and none only if there is none.           *)
(***************************************************************************)
EXTENDS FBitset, WellFoundedInduction, TLAPS

-----------------------------------------------------------------------------
(***************************************************************************)
(* Numbers                                                                 *)
(***************************************************************************)

(***************************************************************************)
(* A set of natural numbers that is not empty has a least element.         *)
(***************************************************************************)
LEMMA LeastNat ==
    ASSUME NEW S \in SUBSET Nat, S # {}
    PROVE  \E x \in S : \A y \in S : x <= y
<1> DEFINE R == OpToRel(<, Nat)
<1>1. \A x, y \in Nat : x < y => <<x, y>> \in R
  BY DEF OpToRel
<1>2. IsWellFoundedOn(R, Nat)
  BY NatLessThanWellFounded
<1> HIDE DEF R
<1>3. PICK x \in S : \A y \in S : ~ (<<y, x>> \in R)
  BY <1>2, WFMin
<1>4. ASSUME NEW y \in S PROVE x <= y
  <2>1. x \in Nat /\ y \in Nat
    OBVIOUS
  <2>2. ~ (y < x)
    BY <1>1, <1>3, <2>1
  <2> QED BY <2>1, <2>2
<1> QED BY <1>4

(***************************************************************************)
(* Min finds it.  The searches of the model are written with Min.          *)
(***************************************************************************)
LEMMA MinOfNats ==
    ASSUME NEW S \in SUBSET Nat, S # {}
    PROVE  Min(S) \in S /\ \A y \in S : Min(S) <= y
BY LeastNat DEF Min

(***************************************************************************)
(* Max finds the greatest element of a set of natural numbers that has an  *)
(* upper bound.                                                            *)
(***************************************************************************)
LEMMA MaxOfNats ==
    ASSUME NEW S \in SUBSET Nat, S # {}, NEW b \in Nat, \A y \in S : y <= b
    PROVE  Max(S) \in S /\ \A y \in S : y <= Max(S)
<1> DEFINE D == {b - y : y \in S}
<1>1. D \in SUBSET Nat /\ D # {}
  <2>1. \A y \in S : b - y \in Nat /\ b - y \in D
    OBVIOUS
  <2>2. PICK y \in S : TRUE
    OBVIOUS
  <2> QED BY <2>1, <2>2
<1>2. PICK d \in D : \A x \in D : d <= x
  BY <1>1, LeastNat
<1>3. PICK m \in S : d = b - m
  OBVIOUS
<1>4. ASSUME NEW y \in S PROVE m >= y
  <2>1. d <= b - y
    BY <1>2
  <2> QED BY <1>3, <2>1
<1>5. Max(S) \in S /\ \A y \in S : Max(S) >= y
  BY <1>4 DEF Max
<1> QED BY <1>5

(***************************************************************************)
(* A member of a set that bounds it from below is what Min finds.          *)
(***************************************************************************)
LEMMA MinIs ==
    ASSUME NEW S \in SUBSET Nat, NEW m \in S, \A y \in S : m <= y
    PROVE  Min(S) = m
<1>1. S # {} /\ m \in Nat
  OBVIOUS
<1>2. Min(S) \in S /\ Min(S) \in Nat /\ \A y \in S : Min(S) <= y
  BY <1>1, MinOfNats
<1>3. Min(S) <= m /\ m <= Min(S)
  BY <1>2
<1> QED BY <1>1, <1>2, <1>3

(***************************************************************************)
(* A member of a set that bounds it from above is what Max finds.          *)
(***************************************************************************)
LEMMA MaxIs ==
    ASSUME NEW S \in SUBSET Nat, NEW m \in S, \A y \in S : y <= m
    PROVE  Max(S) = m
<1>1. S # {} /\ m \in Nat
  OBVIOUS
<1>2. Max(S) \in S /\ Max(S) \in Nat /\ \A y \in S : y <= Max(S)
  BY <1>1, MaxOfNats
<1>3. Max(S) <= m /\ m <= Max(S)
  BY <1>2
<1> QED BY <1>1, <1>2, <1>3

-----------------------------------------------------------------------------
CallInv == pc # "idle" => count \in Counts

\* What the loop of bf_fbs_first_clr_contiguous keeps true: a run that is
\* asked for and begins at or after position begins at or after free_index.
UpInv ==
    /\ pc \in {"up", "up_found"} =>
        /\ position <= free_index
        /\ \A i \in Runs : position <= i => free_index <= i
    /\ pc = "up" => free_index \notin fbs /\ last_free = free_index
    /\ pc = "up_found" => free_index \in Runs
    /\ pc = "up_none" => \A i \in Runs : ~(position <= i)

\* What the loop of bf_fbs_prev_clr_contiguous keeps true: a run that is asked
\* for and ends at or before position ends at or before free_index.
DownInv ==
    /\ pc \in {"down", "down_found"} =>
        /\ free_index <= position /\ position < width
        /\ \A i \in Runs : i + count - 1 <= position => i + count - 1 <= free_index
    /\ pc = "down" => free_index \notin fbs /\ last_free = free_index
    /\ pc = "down_found" => free_index + 1 - count \in Runs
    /\ pc = "down_none" => \A i \in Runs : ~(i + count - 1 <= position)

FInv == TypeOK /\ CallInv /\ UpInv /\ DownInv

-----------------------------------------------------------------------------
(***************************************************************************)
(* Numbers                                                                 *)
(***************************************************************************)

(***************************************************************************)
(* A width leaves room above it in unsigned and in Word_t.                 *)
(***************************************************************************)
LEMMA Bounds ==
    /\ UINT \in Nat /\ WORD \in Nat /\ UINT < WORD
    /\ \A w \in Widths : w \in Nat /\ w >= 1 /\ w + 1 < UINT
    /\ \A c \in Counts : c \in Nat /\ c >= 1 /\ c < UINT
<1>1. UINT \in Nat /\ WORD \in Nat /\ UINT < WORD
  BY WidthAssumption
<1>2. UINT \div 2 <= UINT /\ UINT \div 2 \in Int
  BY <1>1
<1>3. \A w \in Widths : w \in 1..(UINT \div 2 - 2)
  BY WidthAssumption
<1>4. \A w \in Widths : w \in Nat /\ w >= 1 /\ w + 1 < UINT
  BY <1>1, <1>2, <1>3
<1>5. \A c \in Counts : c \in Nat /\ c >= 1 /\ c < UINT
  BY <1>1, WidthAssumption
<1> QED BY <1>1, <1>4, <1>5

(***************************************************************************)
(* What the types amount to, as far as the searches go.                    *)
(***************************************************************************)
LEMMA Numbers ==
    ASSUME TypeOK
    PROVE  /\ width \in Nat /\ width >= 1 /\ width + 1 < UINT
           /\ UINT \in Nat /\ WORD \in Nat /\ UINT < WORD
           /\ \A k \in fbs : k \in Nat /\ k < width
           /\ position \in Nat /\ count \in Nat
           /\ free_index \in Nat /\ last_free \in Nat
           /\ free_index < WORD /\ last_free < WORD
<1>1. /\ UINT \in Nat /\ WORD \in Nat /\ UINT < WORD
      /\ width \in Nat /\ width >= 1 /\ width + 1 < UINT
  BY Bounds DEF TypeOK
<1>2. \A k \in fbs : k \in Nat /\ k < width
  BY <1>1 DEF TypeOK
<1>3. count \in Nat
  BY Bounds DEF TypeOK
<1>4. position \in Nat /\ free_index \in Nat /\ last_free \in Nat
  BY <1>1 DEF TypeOK
<1>5. free_index < WORD /\ last_free < WORD
  BY <1>1 DEF TypeOK
<1> QED BY <1>1, <1>2, <1>3, <1>4, <1>5

\* The starts of the runs of c clear bits among w bits.
RunsOf(w, c, bits) == {i \in 0..(w - c) : i..(i + c - 1) \cap bits = {}}

(***************************************************************************)
(* A run of clear bits, spelt out.                                         *)
(***************************************************************************)
LEMMA RunFacts ==
    ASSUME NEW w \in Nat, NEW c \in Nat, NEW bits
    PROVE  /\ \A i \in RunsOf(w, c, bits) :
                /\ i \in Nat /\ i + c <= w
                /\ \A k \in i..(i + c - 1) : k \notin bits
           /\ \A i \in Nat :
                i + c <= w /\ (\A k \in i..(i + c - 1) : k \notin bits)
                => i \in RunsOf(w, c, bits)
<1>1. ASSUME NEW i \in RunsOf(w, c, bits)
      PROVE  /\ i \in Nat /\ i + c <= w
             /\ \A k \in i..(i + c - 1) : k \notin bits
  <2>1. i \in 0..(w - c) /\ i..(i + c - 1) \cap bits = {}
    BY DEF RunsOf
  <2> QED BY <2>1
<1>2. ASSUME NEW i \in Nat, i + c <= w,
             \A k \in i..(i + c - 1) : k \notin bits
      PROVE  i \in RunsOf(w, c, bits)
  <2>1. i \in 0..(w - c)
    BY <1>2
  <2>2. i..(i + c - 1) \cap bits = {}
    BY <1>2
  <2> QED BY <2>1, <2>2 DEF RunsOf
<1> QED BY <1>1, <1>2

-----------------------------------------------------------------------------
(***************************************************************************)
(* Judy1                                                                   *)
(***************************************************************************)

(***************************************************************************)
(* A search for an empty index upwards finds one at or below the first     *)
(* index beyond the width, and passes only indexes that are set.           *)
(***************************************************************************)
LEMMA FirstEmpty ==
    ASSUME TypeOK, NEW i \in Nat, i <= width + 1
    PROVE  LET j == Min(EmptyFrom(fbs, i))
           IN  /\ j \in Nat /\ i <= j /\ j < WORD /\ j \notin fbs
               /\ \A k \in Nat : i <= k /\ k \notin fbs => j <= k \/ k > width + 1
<1> DEFINE S == EmptyFrom(fbs, i)
           j == Min(S)
<1>1. /\ width \in Nat /\ width + 1 < UINT /\ UINT \in Nat /\ WORD \in Nat /\ UINT < WORD
      /\ \A k \in fbs : k \in Nat /\ k < width
  BY Numbers
<1>2. \A k : k \in S <=> k \in i..(WORD - 1) /\ k \notin fbs
  BY DEF EmptyFrom
<1>3. width + 1 \in i..(WORD - 1) /\ width + 1 \notin fbs
  BY <1>1
<1>4. S \in SUBSET Nat /\ S # {}
  BY <1>1, <1>2, <1>3
<1> HIDE DEF S
<1>5. j \in S /\ \A k \in S : j <= k
  BY <1>4, MinOfNats
<1>6. j \in Nat /\ i <= j /\ j < WORD /\ j \notin fbs
  BY <1>1, <1>2, <1>5
<1>7. ASSUME NEW k \in Nat, i <= k, k \notin fbs, k <= width + 1
      PROVE  j <= k
  <2>1. k \in i..(WORD - 1)
    BY <1>1, <1>7
  <2> QED BY <1>2, <1>5, <1>7, <2>1
<1>8. ASSUME NEW k \in Nat, i <= k, k \notin fbs PROVE j <= k \/ k > width + 1
  BY <1>1, <1>7, <1>8
<1> QED BY <1>6, <1>8 DEF S

(***************************************************************************)
(* A search for an empty index downwards from i finds the greatest, if     *)
(* there is one.                                                           *)
(***************************************************************************)
LEMMA LastEmpty ==
    ASSUME TypeOK, NEW i \in Int
    PROVE  /\ EmptyUpTo(fbs, i) = {} =>
                \A k \in Nat : k <= i => k \in fbs
           /\ EmptyUpTo(fbs, i) # {} =>
                /\ Max(EmptyUpTo(fbs, i)) \in Nat
                /\ Max(EmptyUpTo(fbs, i)) <= i
                /\ Max(EmptyUpTo(fbs, i)) \notin fbs
                /\ \A k \in Nat : k <= i /\ k \notin fbs => k <= Max(EmptyUpTo(fbs, i))
<1> DEFINE S == EmptyUpTo(fbs, i)
<1>1. \A k : k \in S <=> k \in 0..i /\ k \notin fbs
  BY DEF EmptyUpTo
<1> HIDE DEF S
<1>2. S = {} => \A k \in Nat : k <= i => k \in fbs
  BY <1>1
<1>3. ASSUME S # {}
      PROVE  Max(S) \in S /\ \A k \in S : k <= Max(S)
  <2>1. i \in Nat
    BY <1>1, <1>3
  <2>2. S \in SUBSET Nat /\ \A k \in S : k <= i
    BY <1>1, <2>1
  <2> QED BY <1>3, <2>1, <2>2, MaxOfNats
<1>4. ASSUME S # {}
      PROVE  /\ Max(S) \in Nat /\ Max(S) <= i /\ Max(S) \notin fbs
             /\ \A k \in Nat : k <= i /\ k \notin fbs => k <= Max(S)
  BY <1>1, <1>3, <1>4
<1> QED BY <1>2, <1>4 DEF S

(***************************************************************************)
(* RunEnd is the last of the clear bits that begin at last_free: the width *)
(* or a bit that is set comes next.                                        *)
(***************************************************************************)
LEMMA RunEndFacts ==
    ASSUME TypeOK, last_free < width, last_free \notin fbs
    PROVE  /\ RunEnd \in Nat /\ last_free <= RunEnd /\ RunEnd < width
           /\ \A k \in last_free..RunEnd : k \notin fbs
           /\ RunEnd + 1 = width \/ RunEnd + 1 \in fbs
<1> DEFINE S == SetAfter(fbs, last_free)
<1>1. /\ width \in Nat /\ last_free \in Nat /\ width >= 1
      /\ \A k \in fbs : k \in Nat /\ k < width
  BY Numbers
<1>2. \A k : k \in S <=> k \in fbs /\ k > last_free
  BY DEF SetAfter
<1>3. RunEnd = IF S = {} THEN width - 1 ELSE Min(S) - 1
  BY DEF RunEnd
<1> HIDE DEF S
<1>4. CASE S = {}
  <2>1. RunEnd = width - 1
    BY <1>3, <1>4
  <2>2. \A k \in last_free..(width - 1) : k \notin fbs
    BY <1>1, <1>2, <1>4
  <2> QED BY <1>1, <2>1, <2>2
<1>5. CASE S # {}
  <2>1. S \in SUBSET Nat
    BY <1>1, <1>2
  <2>2. Min(S) \in S /\ \A k \in S : Min(S) <= k
    BY <1>5, <2>1, MinOfNats
  <2>3. Min(S) \in Nat /\ Min(S) \in fbs /\ Min(S) > last_free /\ Min(S) < width
    BY <1>1, <1>2, <2>2
  <2>4. ASSUME NEW k \in last_free..(Min(S) - 1) PROVE k \notin fbs
    <3>1. k \in Nat /\ (k = last_free \/ k > last_free) /\ ~(Min(S) <= k)
      BY <1>1, <2>3
    <3> QED BY <1>2, <2>2, <3>1
  <2>5. RunEnd = Min(S) - 1
    BY <1>3, <1>5
  <2> QED BY <1>1, <2>3, <2>4, <2>5
<1> QED BY <1>4, <1>5

(***************************************************************************)
(* RunStart is the first of the clear bits that end at last_free: it is 0, *)
(* or a bit that is set comes before it.                                   *)
(***************************************************************************)
LEMMA RunStartFacts ==
    ASSUME TypeOK, last_free \notin fbs
    PROVE  /\ RunStart \in Nat /\ RunStart <= last_free
           /\ \A k \in RunStart..last_free : k \notin fbs
           /\ RunStart = 0 \/ RunStart - 1 \in fbs
<1> DEFINE S == SetBefore(fbs, last_free)
<1>1. /\ last_free \in Nat /\ \A k \in fbs : k \in Nat
  BY Numbers
<1>2. \A k : k \in S <=> k \in fbs /\ k < last_free
  BY DEF SetBefore
<1>3. RunStart = IF S = {} THEN 0 ELSE Max(S) + 1
  BY DEF RunStart
<1> HIDE DEF S
<1>4. CASE S = {}
  <2>1. RunStart = 0
    BY <1>3, <1>4
  <2>2. \A k \in 0..last_free : k \notin fbs
    BY <1>1, <1>2, <1>4
  <2> QED BY <1>1, <2>1, <2>2
<1>5. CASE S # {}
  <2>1. S \in SUBSET Nat /\ \A k \in S : k <= last_free
    BY <1>1, <1>2
  <2>2. Max(S) \in S /\ \A k \in S : k <= Max(S)
    BY <1>1, <1>5, <2>1, MaxOfNats
  <2>3. Max(S) \in Nat /\ Max(S) \in fbs /\ Max(S) < last_free
    BY <1>1, <1>2, <2>2
  <2>4. ASSUME NEW k \in (Max(S) + 1)..last_free PROVE k \notin fbs
    <3>1. k \in Nat /\ (k = last_free \/ k < last_free) /\ ~(k <= Max(S))
      BY <1>1, <2>3
    <3> QED BY <1>2, <2>2, <3>1
  <2>5. RunStart = Max(S) + 1 /\ RunStart - 1 = Max(S)
    BY <1>3, <1>5, <2>3
  <2> QED BY <1>1, <2>3, <2>4, <2>5
<1> QED BY <1>4, <1>5

-----------------------------------------------------------------------------
(***************************************************************************)
(* The steps of the searches                                               *)
(***************************************************************************)

(***************************************************************************)
(* bf_fbs_first_clr_contiguous up to its loop.  When position + count      *)
(* wraps around and passes the first test, the run would not fit either,   *)
(* and the loop finds none.                                                *)
(***************************************************************************)
LEMMA FirstClrKeepsFInv ==
    ASSUME FInv, NEW pos \in -1..width, NEW cnt \in Counts, FirstClr(pos, cnt)
    PROVE  FInv'
<1> DEFINE q == pos + 1
           f == Min(EmptyFrom(fbs, q))
<1>1. TypeOK
  BY DEF FInv
<1>2. /\ width \in Nat /\ width >= 1 /\ width + 1 < UINT
      /\ UINT \in Nat /\ WORD \in Nat /\ UINT < WORD
      /\ cnt \in Nat /\ cnt >= 1 /\ cnt < UINT
      /\ q \in Nat /\ q <= width + 1
  BY <1>1, Numbers, Bounds
<1>3. /\ position' = q /\ count' = cnt /\ free_index' = f /\ last_free' = f
      /\ width' = width /\ fbs' = fbs
      /\ pc' = IF (q + cnt) % UINT > width \/ f >= width THEN "up_none"
               ELSE IF cnt = 1 THEN "up_found" ELSE "up"
  BY DEF FirstClr, bitset
<1>4. /\ f \in Nat /\ q <= f /\ f < WORD /\ f \notin fbs
      /\ \A k \in Nat : q <= k /\ k \notin fbs => f <= k \/ k > width + 1
  BY <1>1, <1>2, FirstEmpty
<1> HIDE DEF f
<1>5. TypeOK'
  <2>1. q \in 0..(UINT - 1) /\ f \in 0..(WORD - 1)
    BY <1>2, <1>4
  <2> QED BY <1>1, <1>3, <2>1 DEF TypeOK
<1>6. CallInv'
  BY <1>3 DEF CallInv
<1>7. Runs' = RunsOf(width, cnt, fbs)
  BY <1>3 DEF Runs, RunsOf
<1>8. \A i \in Runs' : /\ i \in Nat /\ i + cnt <= width
                       /\ \A k \in i..(i + cnt - 1) : k \notin fbs
  BY <1>2, <1>7, RunFacts
<1>9. ASSUME NEW i \in Runs', q <= i PROVE f <= i
  <2>1. i \in Nat /\ i \in i..(i + cnt - 1) /\ ~(i > width + 1)
    BY <1>2, <1>8
  <2> QED BY <1>4, <1>8, <1>9, <2>1
<1>10. UpInv'
  <2>1. CASE pc' = "up_none"
    <3> SUFFICES ASSUME NEW i \in Runs', q <= i PROVE FALSE
      BY <1>3, <2>1 DEF UpInv
    <3>1. i \in Nat /\ i + cnt <= width /\ q + cnt <= width /\ f <= i
      BY <1>2, <1>8, <1>9
    <3>2. (q + cnt) % UINT = q + cnt
      BY <1>2, <3>1
    <3> QED BY <1>2, <1>3, <1>4, <2>1, <3>1, <3>2
  <2>2. CASE pc' = "up_found"
    <3>1. cnt = 1 /\ f < width
      BY <1>2, <1>3, <1>4, <2>2
    <3>2. f + cnt <= width /\ \A k \in f..(f + cnt - 1) : k = f
      BY <1>2, <1>4, <3>1
    <3>3. f \in Runs'
      BY <1>2, <1>4, <1>7, <3>2, RunFacts
    <3> QED BY <1>3, <1>4, <1>9, <2>2, <3>3 DEF UpInv
  <2>3. CASE pc' = "up"
    BY <1>3, <1>4, <1>9, <2>3 DEF UpInv
  <2> QED BY <1>3, <2>1, <2>2, <2>3
<1>11. DownInv'
  BY <1>3 DEF DownInv
<1> QED BY <1>5, <1>6, <1>10, <1>11 DEF FInv

(***************************************************************************)
(* One round of its loop: a run that begins in the clear bits it has found *)
(* to be too few would go on into the bit that is set, or past the width.  *)
(***************************************************************************)
LEMMA FirstClrRoundKeepsFInv ==
    ASSUME FInv, FirstClrRound
    PROVE  FInv'
<1> DEFINE f == free_index
           e == RunEnd
           g == Min(EmptyFrom(fbs, e + 1))
<1>1. /\ TypeOK /\ pc = "up" /\ last_free = f /\ f \notin fbs /\ f < width
      /\ count \in Counts /\ position <= f
      /\ \A i \in Runs : position <= i => f <= i
  BY DEF FInv, CallInv, UpInv, FirstClrRound
<1>2. /\ width \in Nat /\ width >= 1 /\ width + 1 < UINT
      /\ UINT \in Nat /\ WORD \in Nat /\ UINT < WORD
      /\ count \in Nat /\ count >= 1 /\ position \in Nat /\ f \in Nat
  BY <1>1, Numbers, Bounds
<1>3. /\ e \in Nat /\ f <= e /\ e < width
      /\ \A k \in f..e : k \notin fbs
      /\ e + 1 = width \/ e + 1 \in fbs
  BY <1>1, RunEndFacts
<1>4. (e + 1 - f) % WORD = e + 1 - f
  BY <1>2, <1>3
<1>5. /\ e + 1 - f >= count => pc' = "up_found" /\ last_free' = e /\ free_index' = f
      /\ ~(e + 1 - f >= count) => pc' = "up" /\ last_free' = g /\ free_index' = g
      /\ UNCHANGED <<width, fbs, position, count>>
  BY <1>4 DEF FirstClrRound, bitset, args, EmptyAfter
<1>6. /\ g \in Nat /\ e + 1 <= g /\ g < WORD /\ g \notin fbs
      /\ \A k \in Nat : e + 1 <= k /\ k \notin fbs => g <= k \/ k > width + 1
  BY <1>1, <1>2, <1>3, FirstEmpty
<1> HIDE DEF f, e, g
<1>7. TypeOK'
  <2>1. e \in 0..(WORD - 1) /\ f \in 0..(WORD - 1) /\ g \in 0..(WORD - 1)
    BY <1>2, <1>3, <1>6
  <2> QED BY <1>1, <1>5, <2>1 DEF TypeOK
<1>8. CallInv'
  BY <1>1, <1>5 DEF CallInv
<1>9. Runs = RunsOf(width, count, fbs) /\ Runs' = Runs
  BY <1>5 DEF Runs, RunsOf
<1>10. \A i \in Runs : /\ i \in Nat /\ i + count <= width
                       /\ \A k \in i..(i + count - 1) : k \notin fbs
  BY <1>2, <1>9, RunFacts
<1>11. UpInv'
  <2>1. CASE e + 1 - f >= count
    <3>1. f + count <= width /\ \A k \in f..(f + count - 1) : k \in f..e
      BY <1>2, <1>3, <2>1
    <3>2. f \in Runs
      BY <1>2, <1>3, <1>9, <3>1, RunFacts
    <3> QED BY <1>1, <1>5, <1>9, <2>1, <3>2 DEF UpInv
  <2>2. CASE ~(e + 1 - f >= count)
    <3>1. ASSUME NEW i \in Runs, position <= i PROVE g <= i
      <4>1. i \in Nat /\ i + count <= width /\ f <= i
        BY <1>1, <1>10, <3>1
      <4>2. ASSUME i <= e + 1 PROVE FALSE
        <5>1. e + 1 # width
          BY <1>2, <1>3, <2>2, <4>1, <4>2
        <5>2. e + 1 \in i..(i + count - 1)
          BY <1>2, <1>3, <2>2, <4>1, <4>2
        <5> QED BY <1>3, <1>10, <5>1, <5>2
      <4>3. e + 1 <= i /\ ~(i > width + 1) /\ i \in i..(i + count - 1)
        BY <1>2, <1>3, <4>1, <4>2
      <4> QED BY <1>6, <1>10, <4>1, <4>3
    <3>2. position <= g
      BY <1>1, <1>2, <1>3, <1>6
    <3> QED BY <1>5, <1>6, <1>9, <2>2, <3>1, <3>2 DEF UpInv
  <2> QED BY <2>1, <2>2
<1>12. DownInv'
  BY <1>5 DEF DownInv
<1> QED BY <1>7, <1>8, <1>11, <1>12 DEF FInv

(***************************************************************************)
(* The end of its loop: a run that begins past the width is none.          *)
(***************************************************************************)
LEMMA FirstClrEndKeepsFInv ==
    ASSUME FInv, FirstClrEnd
    PROVE  FInv'
<1>1. /\ TypeOK /\ pc = "up" /\ last_free = free_index /\ free_index >= width
      /\ count \in Counts /\ pc' = "up_none"
      /\ \A i \in Runs : position <= i => free_index <= i
      /\ UNCHANGED <<width, fbs, position, count, free_index, last_free>>
  BY DEF FInv, CallInv, UpInv, FirstClrEnd, bitset, args
<1>2. width \in Nat /\ count \in Nat /\ count >= 1 /\ free_index \in Nat
  BY <1>1, Numbers, Bounds
<1>3. TypeOK' /\ CallInv' /\ DownInv'
  BY <1>1 DEF TypeOK, CallInv, DownInv
<1>4. Runs = RunsOf(width, count, fbs) /\ Runs' = Runs
  BY <1>1 DEF Runs, RunsOf
<1>5. ASSUME NEW i \in Runs, position <= i PROVE FALSE
  <2>1. i \in Nat /\ i + count <= width
    BY <1>2, <1>4, RunFacts
  <2> QED BY <1>1, <1>2, <1>5, <2>1
<1>6. UpInv'
  BY <1>1, <1>4, <1>5 DEF UpInv
<1> QED BY <1>3, <1>6 DEF FInv

(***************************************************************************)
(* bf_fbs_prev_clr_contiguous up to its loop.                              *)
(***************************************************************************)
LEMMA PrevClrKeepsFInv ==
    ASSUME FInv, NEW pos \in -1..width, NEW cnt \in Counts, PrevClr(pos, cnt)
    PROVE  FInv'
<1> DEFINE q == pos - 1
           empty == EmptyUpTo(fbs, q)
           f == IF empty = {} THEN 0 ELSE Max(empty)
<1>1. TypeOK /\ pos > 0
  BY DEF FInv, PrevClr
<1>2. /\ width \in Nat /\ width >= 1 /\ width + 1 < UINT
      /\ UINT \in Nat /\ WORD \in Nat /\ UINT < WORD
      /\ cnt \in Nat /\ cnt >= 1 /\ cnt < UINT
      /\ q \in Nat /\ q < width /\ pos = q + 1
  BY <1>1, Numbers, Bounds
<1>3. /\ position' = q /\ count' = cnt /\ free_index' = f /\ last_free' = f
      /\ width' = width /\ fbs' = fbs
      /\ pc' = IF pos < cnt \/ empty = {} THEN "down_none"
               ELSE IF cnt = 1 THEN "down_found" ELSE "down"
  BY DEF PrevClr, bitset
<1>4. /\ empty = {} => f = 0 /\ \A k \in Nat : k <= q => k \in fbs
      /\ empty # {} => /\ f \in Nat /\ f <= q /\ f \notin fbs
                       /\ \A k \in Nat : k <= q /\ k \notin fbs => k <= f
  BY <1>1, <1>2, LastEmpty
<1> HIDE DEF f, empty
<1>5. TypeOK'
  <2>1. q \in 0..(UINT - 1) /\ f \in 0..(WORD - 1)
    BY <1>2, <1>4
  <2> QED BY <1>1, <1>3, <2>1 DEF TypeOK
<1>6. CallInv' /\ UpInv'
  BY <1>3 DEF CallInv, UpInv
<1>7. Runs' = RunsOf(width, cnt, fbs)
  BY <1>3 DEF Runs, RunsOf
<1>8. \A i \in Runs' : /\ i \in Nat /\ i + cnt <= width
                       /\ \A k \in i..(i + cnt - 1) : k \notin fbs
  BY <1>2, <1>7, RunFacts
<1>9. ASSUME NEW i \in Runs'
      PROVE  i \in Nat /\ i + cnt - 1 \in Nat /\ i + cnt - 1 \notin fbs
  <2>1. i \in Nat /\ i + cnt - 1 \in i..(i + cnt - 1)
    BY <1>2, <1>8
  <2> QED BY <1>2, <1>8, <2>1
<1>10. DownInv'
  <2>1. CASE pc' = "down_none"
    <3> SUFFICES ASSUME NEW i \in Runs', i + cnt - 1 <= q PROVE FALSE
      BY <1>3, <2>1 DEF DownInv
    <3>1. ~(pos < cnt)
      BY <1>2, <1>9
    <3>2. empty = {}
      BY <1>3, <2>1, <3>1
    <3> QED BY <1>4, <1>9, <3>2
  <2>2. CASE pc' = "down_found"
    <3>1. cnt = 1 /\ empty # {}
      BY <1>3, <2>2
    <3>2. /\ f \in Nat /\ f + 1 - cnt = f /\ f + cnt <= width
          /\ \A k \in f..(f + cnt - 1) : k = f
      BY <1>2, <1>4, <3>1
    <3>3. f + 1 - cnt \in Runs'
      BY <1>2, <1>4, <1>7, <3>1, <3>2, RunFacts
    <3>4. \A i \in Runs' : i + cnt - 1 <= q => i + cnt - 1 <= f
      BY <1>4, <1>9, <3>1
    <3> QED BY <1>2, <1>3, <1>4, <2>2, <3>1, <3>3, <3>4 DEF DownInv
  <2>3. CASE pc' = "down"
    <3>1. empty # {}
      BY <1>3, <2>3
    <3>2. \A i \in Runs' : i + cnt - 1 <= q => i + cnt - 1 <= f
      BY <1>4, <1>9, <3>1
    <3> QED BY <1>2, <1>3, <1>4, <2>3, <3>1, <3>2 DEF DownInv
  <2> QED BY <1>3, <2>1, <2>2, <2>3
<1> QED BY <1>5, <1>6, <1>10 DEF FInv

(***************************************************************************)
(* One round of its loop: a run that ends in the clear bits it has found   *)
(* to be too few would begin before 0 or hold the bit that is set.         *)
(***************************************************************************)
LEMMA PrevClrRoundKeepsFInv ==
    ASSUME FInv, PrevClrRound
    PROVE  FInv'
<1> DEFINE f == free_index
           s == RunStart
           empty == EmptyUpTo(fbs, s - 1)
           g == Max(empty)
<1>1. /\ TypeOK /\ pc = "down" /\ last_free = f /\ f \notin fbs
      /\ count \in Counts /\ f <= position /\ position < width
      /\ \A i \in Runs : i + count - 1 <= position => i + count - 1 <= f
  BY DEF FInv, CallInv, DownInv, PrevClrRound
<1>2. /\ width \in Nat /\ WORD \in Nat /\ width + 1 < WORD /\ count \in Nat /\ count >= 1
      /\ position \in Nat /\ f \in Nat
  BY <1>1, Numbers, Bounds
<1>3. /\ s \in Nat /\ s <= f
      /\ \A k \in s..f : k \notin fbs
      /\ s = 0 \/ s - 1 \in fbs
  BY <1>1, RunStartFacts
<1>4. (f + 1 - s) % WORD = f + 1 - s
  BY <1>1, <1>2, <1>3
<1>5. /\ f + 1 - s >= count => pc' = "down_found" /\ last_free' = s /\ free_index' = f
      /\ ~(f + 1 - s >= count) =>
            /\ empty = {} => pc' = "down_none" /\ last_free' = s /\ free_index' = f
            /\ empty # {} => pc' = "down" /\ last_free' = g /\ free_index' = g
      /\ UNCHANGED <<width, fbs, position, count>>
  BY <1>4 DEF PrevClrRound, bitset, args, EmptyBefore
<1>6. /\ empty = {} => \A k \in Nat : k <= s - 1 => k \in fbs
      /\ empty # {} => /\ g \in Nat /\ g <= s - 1 /\ g \notin fbs
                       /\ \A k \in Nat : k <= s - 1 /\ k \notin fbs => k <= g
  <2>1. s - 1 \in Int
    BY <1>3
  <2> QED BY <1>1, <2>1, LastEmpty
<1> HIDE DEF f, s, g, empty
<1>7. TypeOK'
  <2>1. /\ f \in 0..(WORD - 1) /\ s \in 0..(WORD - 1)
        /\ empty # {} => g \in 0..(WORD - 1)
    BY <1>1, <1>2, <1>3, <1>6
  <2> QED BY <1>1, <1>5, <2>1 DEF TypeOK
<1>8. CallInv' /\ UpInv'
  BY <1>1, <1>5 DEF CallInv, UpInv
<1>9. Runs = RunsOf(width, count, fbs) /\ Runs' = Runs
  BY <1>5 DEF Runs, RunsOf
<1>10. \A i \in Runs : /\ i \in Nat /\ i + count <= width
                       /\ \A k \in i..(i + count - 1) : k \notin fbs
  BY <1>2, <1>9, RunFacts
<1>11. DownInv'
  <2>1. CASE f + 1 - s >= count
    <3>1. /\ f + 1 - count \in Nat /\ (f + 1 - count) + count <= width
          /\ \A k \in (f + 1 - count)..((f + 1 - count) + count - 1) : k \in s..f
      BY <1>1, <1>2, <1>3, <2>1
    <3>2. f + 1 - count \in Runs
      BY <1>2, <1>3, <1>9, <3>1, RunFacts
    <3> QED BY <1>1, <1>5, <1>9, <2>1, <3>2 DEF DownInv
  <2>2. CASE ~(f + 1 - s >= count)
    <3>1. ASSUME NEW i \in Runs, i + count - 1 <= position
          PROVE  /\ i + count - 1 \in Nat /\ i + count - 1 <= s - 1
                 /\ i + count - 1 \notin fbs
      <4>1. i \in Nat /\ i + count <= width /\ i + count - 1 <= f
        BY <1>1, <1>10, <3>1
      <4>2. i + count - 1 \in Nat /\ i + count - 1 \in i..(i + count - 1)
        BY <1>2, <4>1
      <4>3. ASSUME i + count - 1 >= s PROVE FALSE
        <5>1. s # 0 /\ s - 1 \in i..(i + count - 1)
          BY <1>2, <1>3, <2>2, <4>1, <4>3
        <5> QED BY <1>3, <1>10, <5>1
      <4>4. i + count - 1 <= s - 1
        BY <1>2, <1>3, <4>1, <4>2, <4>3
      <4> QED BY <1>10, <4>2, <4>4
    <3>2. CASE empty = {}
      BY <1>5, <1>6, <1>9, <2>2, <3>1, <3>2 DEF DownInv
    <3>3. CASE empty # {}
      <4>1. g <= position
        BY <1>1, <1>2, <1>3, <1>6, <3>3
      <4>2. \A i \in Runs : i + count - 1 <= position => i + count - 1 <= g
        BY <1>6, <3>1, <3>3
      <4> QED BY <1>1, <1>5, <1>6, <1>9, <2>2, <3>3, <4>1, <4>2 DEF DownInv
    <3> QED BY <3>2, <3>3
  <2> QED BY <2>1, <2>2
<1> QED BY <1>7, <1>8, <1>11 DEF FInv

(***************************************************************************)
(* bf_fbs_set, bf_fbs_destroy and the return of a search.                  *)
(***************************************************************************)
LEMMA OthersKeepFInv ==
    ASSUME FInv,
           \/ \E pos \in 0..width, val \in BOOLEAN : Set(pos, val)
           \/ Destroy
           \/ Return
    PROVE  FInv'
<1>1. TypeOK /\ UINT \in Nat /\ WORD \in Nat /\ UINT < WORD /\ UINT >= 1
  BY Bounds, Numbers DEF FInv
<1>2. ASSUME NEW pos \in 0..width, NEW val \in BOOLEAN, Set(pos, val) PROVE TypeOK' /\ pc' = "idle"
  <2>1. pos < width /\ width \in Nat
    BY <1>1, <1>2, Numbers DEF Set
  <2>2. pos \in 0..(width - 1)
    BY <2>1
  <2>3. fbs' \subseteq 0..(width - 1)
    BY <1>1, <1>2, <2>2 DEF Set, TypeOK
  <2> QED BY <1>1, <1>2, <2>3 DEF Set, TypeOK, args
<1>3. ASSUME Destroy PROVE TypeOK' /\ pc' = "idle"
  BY <1>1, <1>3 DEF Destroy, TypeOK, args
<1>4. ASSUME Return PROVE TypeOK' /\ pc' = "idle"
  <2>1. 0 \in 0..(UINT - 1) /\ 0 \in 0..(WORD - 1)
    BY <1>1
  <2> QED BY <1>1, <1>4, <2>1 DEF Return, TypeOK, bitset
<1>5. TypeOK' /\ pc' = "idle"
  BY <1>2, <1>3, <1>4
<1>6. CallInv' /\ UpInv' /\ DownInv'
  BY <1>5 DEF CallInv, UpInv, DownInv
<1> QED BY <1>5, <1>6 DEF FInv

-----------------------------------------------------------------------------
(***************************************************************************)
(* The invariant, and what follows from it                                 *)
(***************************************************************************)

(***************************************************************************)
(* The invariant holds in every reachable state.                           *)
(***************************************************************************)
THEOREM Invariance == Spec => []FInv
<1>1. Init => FInv
  <2> SUFFICES ASSUME Init PROVE FInv
    OBVIOUS
  <2>1. width \in Widths /\ 0 \in 0..(UINT - 1) /\ 0 \in 0..(WORD - 1)
    BY Bounds DEF Init
  <2>2. TypeOK
    BY <2>1 DEF Init, TypeOK
  <2>3. CallInv /\ UpInv /\ DownInv
    BY DEF Init, CallInv, UpInv, DownInv
  <2> QED BY <2>2, <2>3 DEF FInv
<1>2. FInv /\ [Next]_vars => FInv'
  <2> SUFFICES ASSUME FInv, [Next]_vars PROVE FInv'
    OBVIOUS
  <2>1. ASSUME NEW pos \in -1..width, NEW cnt \in Counts,
               FirstClr(pos, cnt) \/ PrevClr(pos, cnt)
        PROVE  FInv'
    BY <2>1, FirstClrKeepsFInv, PrevClrKeepsFInv
  <2>2. CASE Search
    BY <2>2, FirstClrRoundKeepsFInv, FirstClrEndKeepsFInv, PrevClrRoundKeepsFInv,
       OthersKeepFInv DEF Search
  <2>3. CASE (\E pos \in 0..width, val \in BOOLEAN : Set(pos, val)) \/ Destroy
    BY <2>3, OthersKeepFInv
  <2>4. CASE UNCHANGED vars
    BY <2>4 DEF vars, bitset, args, FInv, TypeOK, CallInv, UpInv, DownInv, Runs
  <2> QED BY <2>1, <2>2, <2>3, <2>4 DEF Next
<1> QED BY <1>1, <1>2, PTL DEF Spec

(***************************************************************************)
(* The fields and locals always have the values their C types allow, and   *)
(* no bit beyond the width is ever set.                                    *)
(***************************************************************************)
THEOREM TypeCorrect == Spec => []TypeOK
<1>1. FInv => TypeOK
  BY DEF FInv
<1> QED BY <1>1, Invariance, PTL

(***************************************************************************)
(* What bf_fbs_first_clr_contiguous returns is always the lowest start of  *)
(* a run of count clear bits at or after position, or -1 if there is none. *)
(***************************************************************************)
THEOREM FirstClrAlwaysExact == Spec => []FirstClrExact
<1>1. FInv => FirstClrExact
  <2> DEFINE found == {i \in Runs : i >= position}
  <2> SUFFICES ASSUME FInv, pc \in {"up_found", "up_none"}
               PROVE  Result = IF found = {} THEN -1 ELSE Min(found)
    BY DEF FirstClrExact
  <2>1. /\ width \in Nat /\ count \in Nat /\ position \in Nat /\ free_index \in Nat
    BY Numbers DEF FInv
  <2>2. Runs \in SUBSET Nat
    <3>1. Runs = RunsOf(width, count, fbs)
      BY DEF Runs, RunsOf
    <3> QED BY <2>1, <3>1, RunFacts
  <2>3. \A i : i \in found <=> i \in Runs /\ position <= i
    BY <2>1, <2>2
  <2> HIDE DEF found
  <2>4. CASE pc = "up_found"
    <3>1. Result = free_index
      BY <2>4 DEF Result
    <3>2. free_index \in found /\ \A i \in found : free_index <= i
      BY <2>3, <2>4 DEF FInv, UpInv
    <3>3. found \in SUBSET Nat /\ found # {}
      BY <2>2, <2>3, <3>2
    <3> QED BY <3>1, <3>2, <3>3, MinIs
  <2>5. CASE pc = "up_none"
    <3>1. Result = -1
      BY <2>5 DEF Result
    <3>2. found = {}
      BY <2>3, <2>5 DEF FInv, UpInv
    <3> QED BY <3>1, <3>2
  <2> QED BY <2>4, <2>5
<1> QED BY <1>1, Invariance, PTL

(***************************************************************************)
(* What bf_fbs_prev_clr_contiguous returns is always the highest start of  *)
(* a run of count clear bits that ends at or before position, or -1 if     *)
(* there is none.                                                          *)
(***************************************************************************)
THEOREM PrevClrAlwaysExact == Spec => []PrevClrExact
<1>1. FInv => PrevClrExact
  <2> DEFINE found == {i \in Runs : i + count - 1 <= position}
  <2> SUFFICES ASSUME FInv, pc \in {"down_found", "down_none"}
               PROVE  Result = IF found = {} THEN -1 ELSE Max(found)
    BY DEF PrevClrExact
  <2>1. /\ width \in Nat /\ count \in Nat /\ position \in Nat /\ free_index \in Nat
    BY Numbers DEF FInv
  <2>2. Runs \in SUBSET Nat
    <3>1. Runs = RunsOf(width, count, fbs)
      BY DEF Runs, RunsOf
    <3> QED BY <2>1, <3>1, RunFacts
  <2>3. \A i : i \in found <=> i \in Runs /\ i + count - 1 <= position
    OBVIOUS
  <2> HIDE DEF found
  <2>4. CASE pc = "down_found"
    <3> DEFINE r == free_index + 1 - count
    <3>1. Result = r
      BY <2>4 DEF Result
    <3>2. r \in Runs /\ r \in Nat /\ r + count - 1 = free_index
      BY <2>1, <2>2, <2>4 DEF FInv, DownInv
    <3>3. r \in found
      BY <2>3, <2>4, <3>2 DEF FInv, DownInv
    <3>4. ASSUME NEW i \in found PROVE i <= r
      <4>1. i \in Nat /\ i + count - 1 <= free_index
        BY <2>2, <2>3, <2>4 DEF FInv, DownInv
      <4> QED BY <2>1, <4>1
    <3>5. found \in SUBSET Nat /\ found # {}
      BY <2>2, <2>3, <3>3
    <3> HIDE DEF r
    <3> QED BY <3>1, <3>3, <3>4, <3>5, MaxIs
  <2>5. CASE pc = "down_none"
    <3>1. Result = -1
      BY <2>5 DEF Result
    <3>2. found = {}
      BY <2>3, <2>5 DEF FInv, DownInv
    <3> QED BY <3>1, <3>2
  <2> QED BY <2>4, <2>5
<1> QED BY <1>1, Invariance, PTL

(***************************************************************************)
(* bf_fbs_first_set, called again with what it returned, always visits     *)
(* just the bits that are set, in ascending order.                         *)
(***************************************************************************)
THEOREM WalkAlwaysVisits == Spec => []WalkVisitsSetBits
<1>1. TypeOK => WalkVisitsSetBits
  <2> DEFINE bits == {i \in 0..(width - 1) : bf_fbs_get(i)}
             later(pos) == {i \in bits : i > pos}
  <2> SUFFICES ASSUME TypeOK, NEW pos \in bits \cup {-1}
               PROVE  bf_fbs_first_set(pos) =
                        IF later(pos) = {} THEN -1 ELSE Min(later(pos))
    BY DEF WalkVisitsSetBits
  <2>1. width \in Nat /\ \A k \in fbs : k \in Nat /\ k < width
    BY Numbers
  <2>2. bits = fbs
    BY <2>1 DEF bf_fbs_get, TypeOK
  <2>3. pos \in Int /\ ~(pos + 1 < 0) /\ ~(pos + 1 > width)
    BY <2>1, <2>2
  <2>4. SetFrom(fbs, pos + 1) = later(pos)
    BY <2>1, <2>2, <2>3 DEF SetFrom
  <2> HIDE DEF later, bits
  <2> QED BY <2>3, <2>4 DEF bf_fbs_first_set
<1> QED BY <1>1, TypeCorrect, PTL
=============================================================================
