------------------------- MODULE IdAllocatorProofs -------------------------
(***************************************************************************)
(* Proofs about IdAllocator, for every word size, every set of allocator   *)
(* sizes and every set of counts.                                          *)
(***************************************************************************)
EXTENDS IdAllocator, WellFoundedInduction, TLAPS

-----------------------------------------------------------------------------
(***************************************************************************)
(* Numbers                                                                 *)
(***************************************************************************)

(***************************************************************************)
(* A set of natural numbers that is not empty has a least element.         *)
(***************************************************************************)
LEMMA LeastNat ==
    ASSUME NEW S \in SUBSET Nat, S # {}
    PROVE  \E x \in S : \A y \in S : x <= y
<1> DEFINE R == OpToRel(<, Nat)
<1>1. \A x, y \in Nat : x < y => <<x, y>> \in R
  BY DEF OpToRel
<1>2. IsWellFoundedOn(R, Nat)
  BY NatLessThanWellFounded
<1> HIDE DEF R
<1>3. PICK x \in S : \A y \in S : ~ (<<y, x>> \in R)
  BY <1>2, WFMin
<1>4. ASSUME NEW y \in S PROVE x <= y
  <2>1. x \in Nat /\ y \in Nat
    OBVIOUS
  <2>2. ~ (y < x)
    BY <1>1, <1>3, <2>1
  <2> QED BY <2>1, <2>2
<1> QED BY <1>4

(***************************************************************************)
(* Min finds it.  The searches of the model are written with Min.          *)
(***************************************************************************)
LEMMA MinOfNats ==
    ASSUME NEW S \in SUBSET Nat, S # {}
    PROVE  Min(S) \in S /\ \A y \in S : Min(S) <= y
BY LeastNat DEF Min

(***************************************************************************)
(* Max finds the greatest element of a set of natural numbers that has an  *)
(* upper bound.                                                            *)
(***************************************************************************)
LEMMA MaxOfNats ==
    ASSUME NEW S \in SUBSET Nat, S # {}, NEW b \in Nat, \A y \in S : y <= b
    PROVE  Max(S) \in S /\ \A y \in S : y <= Max(S)
<1> DEFINE D == {b - y : y \in S}
<1>1. D \in SUBSET Nat /\ D # {}
  <2>1. \A y \in S : b - y \in Nat /\ b - y \in D
    OBVIOUS
  <2>2. PICK y \in S : TRUE
    OBVIOUS
  <2> QED BY <2>1, <2>2
<1>2. PICK d \in D : \A x \in D : d <= x
  BY <1>1, LeastNat
<1>3. PICK m \in S : d = b - m
  OBVIOUS
<1>4. ASSUME NEW y \in S PROVE m >= y
  <2>1. d <= b - y
    BY <1>2
  <2> QED BY <1>3, <2>1
<1>5. Max(S) \in S /\ \A y \in S : Max(S) >= y
  BY <1>4 DEF Max
<1> QED BY <1>5

(***************************************************************************)
(* A member of a set that bounds it from below is what Min finds.          *)
(***************************************************************************)
LEMMA MinIs ==
    ASSUME NEW S \in SUBSET Nat, NEW m \in S, \A y \in S : m <= y
    PROVE  Min(S) = m
<1>1. S # {} /\ m \in Nat
  OBVIOUS
<1>2. Min(S) \in S /\ Min(S) \in Nat /\ \A y \in S : Min(S) <= y
  BY <1>1, MinOfNats
<1>3. Min(S) <= m /\ m <= Min(S)
  BY <1>2
<1> QED BY <1>1, <1>2, <1>3

-----------------------------------------------------------------------------
\* What the loop of bf_id_allocator_allocate_contiguous keeps true of its
\* locals: first_empty is free, and either next_set is ahead of it and nothing
\* is set in between, or nothing at all is set after first_empty.
LoopInv ==
    pc = "loop" =>
        /\ first_empty \notin PJ1Array
        /\ \/ /\ next_set > first_empty
              /\ \A k \in PJ1Array : k > first_empty => k >= next_set
           \/ /\ next_set <= first_empty
              /\ \A k \in PJ1Array : k < first_empty

CallInv ==
    /\ live => size \in InitialSizes
    /\ pc # "idle" => live /\ count \in Counts
    /\ pc = "found" => first_empty <= size

IInv == TypeOK /\ CallInv /\ LoopInv /\ FoundIsFree

(***************************************************************************)
(* J1FE returns an index that is not set, J1N the next one that is.        *)
(***************************************************************************)
LEMMA JudySearches ==
    ASSUME NEW array \in SUBSET (0..(WORD - 1)), NEW i \in 0..(WORD - 1)
    PROVE  /\ Empty(array, i) # {} =>
                /\ J1FE(array, i) \in i..(WORD - 1)
                /\ J1FE(array, i) \notin array
           /\ SetAfter(array, i) # {} =>
                /\ J1N(array, i) \in array
                /\ J1N(array, i) > i
                /\ \A k \in array : k > i => J1N(array, i) <= k
           /\ SetAfter(array, i) = {} => \A k \in array : k <= i
<1>0. WORD \in Nat
  BY WordAssumption
<1>1. Empty(array, i) \in SUBSET Nat /\ SetAfter(array, i) \in SUBSET Nat
  <2>1. 0..(WORD - 1) \subseteq Nat /\ i..(WORD - 1) \subseteq Nat
    BY <1>0
  <2>2. Empty(array, i) \subseteq i..(WORD - 1) /\ SetAfter(array, i) \subseteq array
    BY DEF Empty, SetAfter
  <2> QED BY <2>1, <2>2
<1>2. ASSUME Empty(array, i) # {}
      PROVE  J1FE(array, i) \in i..(WORD - 1) /\ J1FE(array, i) \notin array
  <2>1. J1FE(array, i) \in Empty(array, i)
    BY <1>1, <1>2, MinOfNats DEF J1FE
  <2> QED BY <2>1 DEF Empty
<1>3. ASSUME SetAfter(array, i) # {}
      PROVE  /\ J1N(array, i) \in array
             /\ J1N(array, i) > i
             /\ \A k \in array : k > i => J1N(array, i) <= k
  <2>1. /\ J1N(array, i) \in SetAfter(array, i)
        /\ \A k \in SetAfter(array, i) : J1N(array, i) <= k
    BY <1>1, <1>3, MinOfNats DEF J1N
  <2> QED BY <2>1 DEF SetAfter
<1>4. ASSUME SetAfter(array, i) = {}, NEW k \in array PROVE k <= i
  <2>1. k \in Nat /\ i \in Nat /\ ~(k > i)
    BY <1>0, <1>4 DEF SetAfter
  <2> QED BY <2>1
<1> QED BY <1>2, <1>3, <1>4

(***************************************************************************)
(* Every state of IdAllocator satisfies the inductive invariant.           *)
(***************************************************************************)
LEMMA Initially == Init => IInv
<1> SUFFICES ASSUME Init PROVE IInv
  OBVIOUS
<1>1. 0 \in 0..(WORD - 1)
  BY WordAssumption
<1>2. TypeOK
  BY <1>1 DEF Init, TypeOK
<1>3. CallInv /\ LoopInv /\ FoundIsFree
  BY DEF Init, CallInv, LoopInv, FoundIsFree
<1> QED BY <1>2, <1>3 DEF IInv

\* The calls other than bf_id_allocator_allocate_contiguous.
LEMMA OtherCalls ==
    ASSUME IInv,
           \/ \E s \in InitialSizes, zero \in BOOLEAN : New(s, zero)
           \/ Destroy
           \/ \E id \in {k + Base : k \in PJ1Array} : Release(id)
           \/ \E id \in {k + Base : k \in 0..(size - 1)} : Set(id)
           \/ UNCHANGED vars
    PROVE  IInv'
<1> USE DEF IInv, TypeOK, CallInv, LoopInv, FoundIsFree, alloc, locals
<1>1. WORD \in Nat /\ size \in 0..(WORD - 1)
  BY WordAssumption
<1>2. CASE \E s \in InitialSizes, zero \in BOOLEAN : New(s, zero)
  BY <1>2 DEF New
<1>3. CASE Destroy
  BY <1>3 DEF Destroy
<1>4. CASE \E id \in {k + Base : k \in PJ1Array} : Release(id)
  BY <1>4 DEF Release
<1>5. ASSUME NEW id \in {k + Base : k \in 0..(size - 1)}, Set(id)
      PROVE  IInv'
  <2>1. id - Base \in 0..(WORD - 1)
    BY <1>1 DEF Base
  <2>2. /\ PJ1Array' = PJ1Array \cup {id - Base}
        /\ UNCHANGED <<size, count, first_empty, next_set>>
        /\ pc = "idle" /\ pc' = pc
    BY <1>5 DEF Set
  <2>3. live /\ UNCHANGED <<live, zero_based>>
    BY <1>5 DEF Set
  <2>4. PJ1Array' \subseteq 0..(WORD - 1)
    BY <2>1, <2>2
  <2>5. TypeOK' /\ CallInv'
    BY <2>2, <2>3, <2>4
  <2>6. LoopInv' /\ FoundIsFree'
    BY <2>2
  <2> QED BY <2>5, <2>6
<1>6. CASE UNCHANGED vars
  BY <1>6 DEF vars, Found
<1> QED BY <1>2, <1>3, <1>4, <1>5, <1>6

\* From the call to the loop.
LEMMA AllocateStep ==
    ASSUME IInv, NEW n \in Counts, Allocate(n)
    PROVE  IInv'
<1> DEFINE f == first_empty'
<1>1. /\ WORD \in Nat /\ size \in 0..(WORD - 1) /\ n \in 0..(WORD - 1)
      /\ PJ1Array \in SUBSET (0..(WORD - 1)) /\ 0 \in 0..(WORD - 1)
  BY WordAssumption DEF IInv, TypeOK
<1>9. Empty(PJ1Array, 0) # {} =>
        J1FE(PJ1Array, 0) \in 0..(WORD - 1) /\ J1FE(PJ1Array, 0) \notin PJ1Array
  BY <1>1, JudySearches
<1>2. f \in 0..(WORD - 1)
  BY <1>1, <1>9 DEF Allocate
<1>3. /\ UNCHANGED <<live, size, zero_based, PJ1Array>>
      /\ live /\ count' = n
      /\ next_set' = IF SetAfter(PJ1Array, f) = {} THEN size ELSE J1N(PJ1Array, f)
      /\ pc' \in {"failed", "found", "loop"}
      /\ pc' \in {"found", "loop"} => f < size /\ f \notin PJ1Array
      /\ pc' = "found" => n = 1
  <2>1. pc' # "failed" => f = J1FE(PJ1Array, 0) /\ Empty(PJ1Array, 0) # {}
    BY DEF Allocate
  <2>2. pc' # "failed" => f \notin PJ1Array
    BY <1>9, <2>1
  <2>3. pc' \in {"found", "loop"} => ~(f >= size)
    BY DEF Allocate
  <2> QED BY <1>1, <1>2, <2>2, <2>3 DEF Allocate, alloc
<1> HIDE DEF f
<1>4. /\ next_set' \in 0..(WORD - 1)
      /\ \A k \in PJ1Array : k > f => k >= next_set'
      /\ pc' = "loop" => next_set' > f
  <2>1. CASE SetAfter(PJ1Array, f) = {}
    <3>1. \A k \in PJ1Array : k <= f
      BY <1>1, <1>2, <2>1, JudySearches
    <3>2. \A k \in PJ1Array : ~(k > f)
      BY <1>1, <1>2, <3>1
    <3> QED BY <1>1, <1>2, <1>3, <2>1, <3>2
  <2>2. CASE SetAfter(PJ1Array, f) # {}
    BY <1>1, <1>2, <1>3, <2>2, JudySearches
  <2> QED BY <2>1, <2>2
<1>5. TypeOK'
  BY <1>1, <1>2, <1>3, <1>4 DEF IInv, TypeOK, f
<1>6. CallInv'
  BY <1>1, <1>2, <1>3 DEF IInv, CallInv, f
<1>7. LoopInv'
  BY <1>3, <1>4 DEF LoopInv, f
<1>8. FoundIsFree'
  <2>1. pc' = "found" => f..(f + 1 - 1) = {f}
    BY <1>1, <1>2
  <2> QED BY <1>3, <2>1 DEF FoundIsFree, Found, f
<1> QED BY <1>5, <1>6, <1>7, <1>8 DEF IInv

\* One round of the loop.
LEMMA RoundStep ==
    ASSUME IInv, Round
    PROVE  IInv'
<1> DEFINE f == first_empty'
<1>1. /\ WORD \in Nat /\ next_set \in 0..(WORD - 1)
      /\ PJ1Array \in SUBSET (0..(WORD - 1))
  BY WordAssumption DEF IInv, TypeOK
<1>9. Empty(PJ1Array, next_set) # {} =>
        /\ J1FE(PJ1Array, next_set) \in next_set..(WORD - 1)
        /\ J1FE(PJ1Array, next_set) \notin PJ1Array
  BY <1>1, JudySearches
<1>8. first_empty \in 0..(WORD - 1)
  BY DEF IInv, TypeOK
<1>2. f \in 0..(WORD - 1)
  BY <1>1, <1>8, <1>9 DEF Round
<1>3. /\ UNCHANGED <<live, size, zero_based, PJ1Array, count>>
      /\ pc = "loop"
      /\ next_set' = IF SetAfter(PJ1Array, f) # {} THEN J1N(PJ1Array, f) ELSE next_set
      /\ pc' \in {"failed", "loop"}
      /\ pc' = "loop" => f >= next_set /\ f \notin PJ1Array
  <2>1. pc' = "loop" => f = J1FE(PJ1Array, next_set) /\ Empty(PJ1Array, next_set) # {}
    BY DEF Round
  <2>2. pc' = "loop" => f \in next_set..(WORD - 1) /\ f \notin PJ1Array
    BY <1>9, <2>1
  <2> QED BY <1>1, <2>2 DEF Round, alloc
<1> HIDE DEF f
<1>4. /\ next_set' \in 0..(WORD - 1)
      /\ pc' = "loop" =>
           \/ next_set' > f /\ \A k \in PJ1Array : k > f => k >= next_set'
           \/ next_set' <= f /\ \A k \in PJ1Array : k < f
  <2>1. CASE SetAfter(PJ1Array, f) = {}
    <3>1. \A k \in PJ1Array : k <= f
      BY <1>1, <1>2, <2>1, JudySearches
    <3>2. pc' = "loop" => \A k \in PJ1Array : k < f
      BY <1>1, <1>2, <1>3, <3>1
    <3> QED BY <1>1, <1>2, <1>3, <2>1, <3>2
  <2>2. CASE SetAfter(PJ1Array, f) # {}
    BY <1>1, <1>2, <1>3, <2>2, JudySearches
  <2> QED BY <2>1, <2>2
<1>5. TypeOK'
  BY <1>2, <1>3, <1>4 DEF IInv, TypeOK, f
<1>6. CallInv'
  BY <1>3 DEF IInv, CallInv
<1>7. LoopInv' /\ FoundIsFree'
  BY <1>3, <1>4 DEF LoopInv, FoundIsFree, f
<1> QED BY <1>5, <1>6, <1>7 DEF IInv

\* The end of the loop, whichever way, and the return.
LEMMA EndOfCall ==
    ASSUME IInv, LeaveLoop \/ Succeed \/ Fail
    PROVE  IInv'
<1>1. /\ WORD \in Nat /\ size \in 0..(WORD - 1) /\ count \in 0..(WORD - 1)
      /\ first_empty \in 0..(WORD - 1) /\ next_set \in 0..(WORD - 1)
      /\ PJ1Array \in SUBSET (0..(WORD - 1)) /\ 0 \in 0..(WORD - 1)
  BY WordAssumption DEF IInv, TypeOK
<1>2. CASE LeaveLoop
  <2>1. /\ UNCHANGED <<live, size, zero_based, PJ1Array, count, first_empty, next_set>>
        /\ pc = "loop" /\ pc' \in {"failed", "found"}
        /\ pc' = "found" => first_empty <= size
        /\ (next_set - first_empty) % WORD >= count
    BY <1>1, <1>2 DEF LeaveLoop, TooShort, alloc, locals
  <2>2. ASSUME NEW k \in PJ1Array PROVE k \notin Found
    <3>1. k \in 0..(WORD - 1)
      BY <1>1
    <3>2. CASE /\ next_set > first_empty
               /\ \A j \in PJ1Array : j > first_empty => j >= next_set
      <4>1. (next_set - first_empty) % WORD = next_set - first_empty
        BY <1>1, <3>2
      <4>2. next_set >= first_empty + count
        BY <1>1, <2>1, <4>1
      <4>3. first_empty \notin PJ1Array
        BY <2>1 DEF IInv, LoopInv
      <4>4. k < first_empty \/ k >= next_set
        BY <1>1, <3>1, <3>2, <4>3
      <4> QED BY <1>1, <3>1, <4>2, <4>4 DEF Found
    <3>3. CASE \A j \in PJ1Array : j < first_empty
      BY <1>1, <3>1, <3>3 DEF Found
    <3> QED BY <2>1, <3>2, <3>3 DEF IInv, LoopInv
  <2>3. TypeOK' /\ CallInv'
    BY <2>1 DEF IInv, TypeOK, CallInv
  <2>4. LoopInv' /\ FoundIsFree'
    BY <2>1, <2>2 DEF LoopInv, FoundIsFree, Found
  <2> QED BY <2>3, <2>4 DEF IInv
<1>3. CASE Succeed
  <2>1. /\ UNCHANGED <<live, size, zero_based>>
        /\ pc = "found" /\ pc' = "idle"
        /\ PJ1Array' = PJ1Array \cup Found
        /\ count' = 0 /\ first_empty' = 0 /\ next_set' = 0
    BY <1>3 DEF Succeed, Return
  <2>2. first_empty + count < WORD
    <3>1. first_empty <= size /\ size \in InitialSizes /\ count \in Counts
      BY <2>1 DEF IInv, CallInv
    <3>2. size + count < WORD
      BY <3>1, WordAssumption
    <3> QED BY <1>1, <3>1, <3>2
  <2>3. Found \subseteq 0..(WORD - 1)
    BY <1>1, <2>2 DEF Found
  <2>4. TypeOK'
    BY <1>1, <2>1, <2>3 DEF IInv, TypeOK
  <2>5. CallInv' /\ LoopInv' /\ FoundIsFree'
    BY <2>1 DEF IInv, CallInv, LoopInv, FoundIsFree
  <2> QED BY <2>4, <2>5 DEF IInv
<1>4. CASE Fail
  <2>1. /\ UNCHANGED <<live, size, zero_based, PJ1Array>>
        /\ pc' = "idle" /\ count' = 0 /\ first_empty' = 0 /\ next_set' = 0
    BY <1>4 DEF Fail, Return, alloc
  <2>2. TypeOK'
    BY <1>1, <2>1 DEF IInv, TypeOK
  <2>3. CallInv' /\ LoopInv' /\ FoundIsFree'
    BY <2>1 DEF IInv, CallInv, LoopInv, FoundIsFree
  <2> QED BY <2>2, <2>3 DEF IInv
<1> QED BY <1>2, <1>3, <1>4

(***************************************************************************)
(* Every state of every behaviour satisfies the inductive invariant.       *)
(***************************************************************************)
THEOREM Invariance == Spec => []IInv
<1>1. IInv /\ [Next]_vars => IInv'
  BY OtherCalls, AllocateStep, RoundStep, EndOfCall DEF Next
<1> QED BY Initially, <1>1, PTL DEF Spec

(***************************************************************************)
(* The fields and locals of the id allocator keep their types: no id that  *)
(* is handed out, in or out of the allocator's range, leaves Word_t.       *)
(***************************************************************************)
THEOREM TypeCorrect == Spec => []TypeOK
<1>1. IInv => TypeOK
  BY DEF IInv
<1> QED BY Invariance, <1>1, PTL

(***************************************************************************)
(* bf_id_allocator_allocate_contiguous never hands out an id that somebody *)
(* holds, for every size, every count and every history of calls.          *)
(***************************************************************************)
THEOREM NoIdTwice == Spec => []FoundIsFree
<1>1. IInv => FoundIsFree
  BY DEF IInv
<1> QED BY Invariance, <1>1, PTL

-----------------------------------------------------------------------------
(***************************************************************************)
(* What the search has seen                                                *)
(***************************************************************************)

\* Of the runs of count + 1 ids of the range, each that starts before f has an
\* id in use.
NoRunBefore(f) ==
    \A i \in 0..(size - (count + 1)) :
        i < f => \E k \in PJ1Array : i <= k /\ k <= i + count

\* No run that the search has passed is longer than count; it goes on from an
\* id in use or from the end of the range; and a call for one id never enters
\* the loop.
SearchInv ==
    /\ pc = "idle" => count = 0
    /\ pc = "loop" =>
         /\ NoRunBefore(first_empty)
         /\ next_set > first_empty => next_set \in PJ1Array \/ next_set = size
    /\ count = 1 =>
         /\ pc # "loop"
         /\ pc = "found" => first_empty < size
         /\ pc = "failed" => 0..(size - 1) \subseteq PJ1Array

SInv == SearchInv /\ FailureLeavesNoLongerRun

(***************************************************************************)
(* J1FE passes only indexes that are set.                                  *)
(***************************************************************************)
LEMMA PassedAreSet ==
    ASSUME NEW array \in SUBSET (0..(WORD - 1)), NEW i \in 0..(WORD - 1)
    PROVE  /\ Empty(array, i) = {} => i..(WORD - 1) \subseteq array
           /\ Empty(array, i) # {} => i..(J1FE(array, i) - 1) \subseteq array
<1>0. WORD \in Nat
  BY WordAssumption
<1>1. Empty(array, i) = {} => i..(WORD - 1) \subseteq array
  BY DEF Empty
<1>2. ASSUME Empty(array, i) # {}, NEW k \in i..(J1FE(array, i) - 1)
      PROVE  k \in array
  <2>1. J1FE(array, i) \in i..(WORD - 1)
    BY <1>2, JudySearches
  <2>2. k \in i..(WORD - 1) /\ k < J1FE(array, i)
    BY <1>0, <2>1
  <2>3. Empty(array, i) \in SUBSET Nat
    BY <1>0 DEF Empty
  <2>4. \A y \in Empty(array, i) : J1FE(array, i) <= y
    BY <1>2, <2>3, MinOfNats DEF J1FE
  <2>5. k \notin Empty(array, i)
    BY <1>0, <2>1, <2>2, <2>4
  <2> QED BY <2>2, <2>5 DEF Empty
<1> QED BY <1>1, <1>2

(***************************************************************************)
(* When each run that starts before f has an id in use, and f is the end   *)
(* of the range or count ids at most are left from it on, no longer run of *)
(* free ids than count is left.                                            *)
(***************************************************************************)
LEMMA NoLongerRunLeft ==
    ASSUME size \in Nat, count \in Nat, PJ1Array \in SUBSET Nat,
           NEW f \in Nat, NoRunBefore(f), size <= f + count
    PROVE  ~Room(count + 1)
<1> SUFFICES ASSUME NEW i \in 0..(size - (count + 1)),
                    i..(i + (count + 1) - 1) \cap PJ1Array = {}
             PROVE  FALSE
  BY DEF Room
<1>1. i \in Nat /\ i < f
  OBVIOUS
<1>2. PICK k \in PJ1Array : i <= k /\ k <= i + count
  BY <1>1 DEF NoRunBefore
<1> QED BY <1>1, <1>2

\* The calls other than bf_id_allocator_allocate_contiguous, and the return.
LEMMA OtherCallsSearch ==
    ASSUME SInv,
           \/ \E s \in InitialSizes, zero \in BOOLEAN : New(s, zero)
           \/ Destroy
           \/ \E id \in {k + Base : k \in PJ1Array} : Release(id)
           \/ \E id \in {k + Base : k \in 0..(size - 1)} : Set(id)
           \/ Succeed \/ Fail
           \/ UNCHANGED vars
    PROVE  SInv'
<1> USE DEF SInv, SearchInv, FailureLeavesNoLongerRun, locals
<1>1. CASE \/ \E s \in InitialSizes, zero \in BOOLEAN : New(s, zero)
           \/ Destroy
           \/ \E id \in {k + Base : k \in PJ1Array} : Release(id)
           \/ \E id \in {k + Base : k \in 0..(size - 1)} : Set(id)
  <2>1. pc = "idle" /\ pc' = "idle" /\ count' = count
    BY <1>1 DEF New, Destroy, Release, Set
  <2> QED BY <2>1
<1>2. CASE Succeed \/ Fail
  <2>1. pc' = "idle" /\ count' = 0
    BY <1>2 DEF Succeed, Fail, Return
  <2> QED BY <2>1
<1>3. CASE UNCHANGED vars
  BY <1>3 DEF vars, alloc, NoRunBefore, Room
<1> QED BY <1>1, <1>2, <1>3

\* From the call to the loop: all ids before the first empty one are in use.
LEMMA AllocateSearch ==
    ASSUME IInv, SInv, NEW n \in Counts, Allocate(n)
    PROVE  SInv'
<1> DEFINE f == first_empty'
<1>1. /\ WORD \in Nat \ {0} /\ size \in 0..(WORD - 1) /\ n \in 0..(WORD - 1)
      /\ PJ1Array \in SUBSET (0..(WORD - 1)) /\ 0 \in 0..(WORD - 1)
  BY WordAssumption DEF IInv, TypeOK
<1>2. /\ UNCHANGED <<size, PJ1Array>> /\ count' = n
      /\ next_set' = IF SetAfter(PJ1Array, f) = {} THEN size ELSE J1N(PJ1Array, f)
      /\ pc' \in {"failed", "found", "loop"}
      /\ pc' # "failed" => Empty(PJ1Array, 0) # {} /\ f < size
      /\ pc' = "failed" => Empty(PJ1Array, 0) = {} \/ f >= size
      /\ n = 1 => pc' # "loop"
  <2>1. Empty(PJ1Array, 0) # {} => J1FE(PJ1Array, 0) \in 0..(WORD - 1)
    BY <1>1, JudySearches
  <2>2. f \in Nat
    BY <1>1, <2>1 DEF Allocate
  <2> QED BY <1>1, <2>2 DEF Allocate, alloc
<1>3. f \in 0..(WORD - 1) /\ 0..(f - 1) \subseteq PJ1Array
  <2>1. CASE Empty(PJ1Array, 0) = {}
    BY <1>1, <2>1 DEF Allocate
  <2>2. CASE Empty(PJ1Array, 0) # {}
    <3>1. f = J1FE(PJ1Array, 0)
      BY <2>2 DEF Allocate
    <3> QED BY <1>1, <2>2, <3>1, JudySearches, PassedAreSet
  <2> QED BY <2>1, <2>2
<1> HIDE DEF f
<1>4. pc' = "failed" => 0..(size - 1) \subseteq PJ1Array
  <2>1. CASE Empty(PJ1Array, 0) = {}
    <3>1. 0..(WORD - 1) \subseteq PJ1Array
      BY <1>1, <2>1, PassedAreSet
    <3> QED BY <1>1, <3>1
  <2>2. CASE f >= size
    <3>1. 0..(size - 1) \subseteq 0..(f - 1)
      BY <1>1, <1>3, <2>2
    <3> QED BY <1>3, <3>1
  <2> QED BY <1>2, <2>1, <2>2
<1>5. pc' = "loop" => NoRunBefore(first_empty)'
  <2> SUFFICES ASSUME NEW i \in 0..(size - (n + 1)), i < f
               PROVE  \E k \in PJ1Array : i <= k /\ k <= i + n
    BY <1>2 DEF NoRunBefore, f
  <2>1. i \in PJ1Array /\ i <= i /\ i <= i + n
    BY <1>1, <1>3
  <2> QED BY <2>1
<1>6. next_set' > f => next_set' \in PJ1Array \/ next_set' = size
  BY <1>1, <1>2, <1>3, JudySearches
<1>7. pc' = "failed" => ~Room(count + 1)'
  <2> SUFFICES ASSUME pc' = "failed", NEW i \in 0..(size - (n + 1)),
                      i..(i + (n + 1) - 1) \cap PJ1Array = {}
               PROVE  FALSE
    BY <1>2 DEF Room
  <2>1. i \in 0..(size - 1) /\ i \in i..(i + (n + 1) - 1)
    BY <1>1
  <2> QED BY <1>4, <2>1
<1> QED
  BY <1>2, <1>4, <1>5, <1>6, <1>7
  DEF SInv, SearchInv, FailureLeavesNoLongerRun, f

\* One round of the loop: the run at first_empty is too short, and everything
\* from next_set to the next empty id is in use.
LEMMA RoundSearch ==
    ASSUME IInv, SInv, Round
    PROVE  SInv'
<1> DEFINE f == first_empty'
<1> DEFINE Index == IndexAfterFailure(PJ1Array, f)
<1>1. /\ WORD \in Nat \ {0} /\ size \in 0..(WORD - 1) /\ count \in 0..(WORD - 1)
      /\ PJ1Array \in SUBSET (0..(WORD - 1))
      /\ first_empty \in 0..(WORD - 1) /\ next_set \in 0..(WORD - 1)
  BY WordAssumption DEF IInv, TypeOK
<1>2. /\ UNCHANGED <<size, PJ1Array, count>>
      /\ pc = "loop" /\ TooShort
      /\ next_set' = IF SetAfter(PJ1Array, f) # {} THEN J1N(PJ1Array, f) ELSE next_set
      /\ f = IF Empty(PJ1Array, next_set) = {} THEN first_empty
             ELSE J1FE(PJ1Array, next_set)
      /\ pc' \in {"failed", "loop"}
      /\ pc' = "failed" => \/ Empty(PJ1Array, next_set) = {}
                           \/ SetAfter(PJ1Array, f) = {} /\ (size - Index) % WORD < count
      /\ pc' = "loop" => Empty(PJ1Array, next_set) # {}
  BY DEF Round, alloc
<1>3. Empty(PJ1Array, next_set) # {} =>
        f \in next_set..(WORD - 1) /\ next_set..(f - 1) \subseteq PJ1Array
  BY <1>1, <1>2, JudySearches, PassedAreSet
<1>4. Empty(PJ1Array, next_set) = {} => next_set..(WORD - 1) \subseteq PJ1Array
  BY <1>1, PassedAreSet
<1>5. f \in 0..(WORD - 1)
  BY <1>1, <1>2, <1>3
<1>6. count # 1 /\ NoRunBefore(first_empty)
      /\ (next_set > first_empty => next_set \in PJ1Array \/ next_set = size)
  BY <1>2 DEF SInv, SearchInv
<1> HIDE DEF f, Index
\* No run that starts before next_set is longer than count.
<1>7. ASSUME NEW i \in 0..(size - (count + 1)), i < next_set
      PROVE  \E k \in PJ1Array : i <= k /\ k <= i + count
  <2>0. i \in Nat /\ i + count + 1 <= size
    BY <1>1
  <2>1. CASE i < first_empty
    BY <1>6, <2>1 DEF NoRunBefore
  <2>2. CASE i >= first_empty
    <3>1. next_set > first_empty
      BY <1>1, <1>7, <2>0, <2>2
    <3>2. (next_set - first_empty) % WORD = next_set - first_empty
      BY <1>1, <3>1
    <3>3. next_set < first_empty + count
      BY <1>1, <1>2, <3>2 DEF TooShort
    <3>4. next_set <= i + count /\ i <= next_set /\ next_set # size
      BY <1>1, <1>7, <2>0, <2>2, <3>3
    <3> QED BY <1>6, <3>1, <3>4
  <2> QED BY <1>1, <2>0, <2>1, <2>2
\* Nor one that starts before the next empty id.
<1>8. ASSUME Empty(PJ1Array, next_set) # {}
      PROVE  NoRunBefore(f)
  <2> SUFFICES ASSUME NEW i \in 0..(size - (count + 1)), i < f
               PROVE  \E k \in PJ1Array : i <= k /\ k <= i + count
    BY DEF NoRunBefore
  <2>1. i \in Nat /\ i <= i /\ i <= i + count
    BY <1>1
  <2>2. CASE i < next_set
    BY <1>7, <2>2
  <2>3. CASE i >= next_set
    <3>1. i \in next_set..(f - 1)
      BY <1>1, <1>5, <2>1, <2>3
    <3>2. i \in PJ1Array
      BY <1>3, <1>8, <3>1
    <3> QED BY <2>1, <3>2
  <2> QED BY <1>1, <2>1, <2>2, <2>3
<1>9. pc' = "loop" => NoRunBefore(first_empty)'
  BY <1>2, <1>8 DEF NoRunBefore, f
<1>10. pc' = "loop" /\ next_set' > f => next_set' \in PJ1Array
  <2>1. pc' = "loop" => f >= next_set
    BY <1>1, <1>2, <1>3
  <2>2. SetAfter(PJ1Array, f) = {} /\ pc' = "loop" => ~(next_set' > f)
    BY <1>1, <1>2, <1>5, <2>1
  <2>3. SetAfter(PJ1Array, f) # {} => next_set' \in PJ1Array
    BY <1>1, <1>2, <1>5, JudySearches
  <2> QED BY <2>2, <2>3
<1>11. ASSUME pc' = "failed" PROVE ~Room(count + 1)
  <2>0. PJ1Array \in SUBSET Nat
    BY <1>1
  <2>1. CASE Empty(PJ1Array, next_set) = {}
    <3>1. NoRunBefore(size)
      <4> SUFFICES ASSUME NEW i \in 0..(size - (count + 1)), i < size
                   PROVE  \E k \in PJ1Array : i <= k /\ k <= i + count
        BY DEF NoRunBefore
      <4>1. i \in 0..(WORD - 1) /\ i <= i /\ i <= i + count
        BY <1>1
      <4>2. CASE i < next_set
        BY <1>7, <4>2
      <4>3. CASE i >= next_set
        <5>1. i \in next_set..(WORD - 1)
          BY <1>1, <4>1, <4>3
        <5> QED BY <1>4, <2>1, <4>1, <5>1
      <4> QED BY <1>1, <4>1, <4>2, <4>3
    <3>2. size \in Nat /\ count \in Nat /\ size <= size + count
      BY <1>1
    <3> QED BY <2>0, <3>1, <3>2, NoLongerRunLeft
  <2>2. CASE Empty(PJ1Array, next_set) # {}
    <3>1. (size - Index) % WORD < count
      BY <1>2, <1>11, <2>2
    <3>2. Index = f \/ Index = (f + 1) % WORD
      BY DEF Index, IndexAfterFailure
    <3>3. size <= f + count
      <4>1. CASE f >= size
        BY <1>1, <1>5, <4>1
      <4>2. CASE f < size
        <5>1. f + 1 \in 0..(WORD - 1) /\ (f + 1) % WORD = f + 1
          BY <1>1, <1>5, <4>2
        <5>2. Index \in {f, f + 1}
          BY <3>2, <5>1
        <5>3. Index \in 0..size
          BY <1>1, <1>5, <4>2, <5>2
        <5>4. (size - Index) % WORD = size - Index
          BY <1>1, <5>3
        <5> QED BY <1>1, <1>5, <3>1, <5>2, <5>4
      <4> QED BY <1>1, <1>5, <4>1, <4>2
    <3>4. size \in Nat /\ count \in Nat /\ f \in Nat
      BY <1>1, <1>5
    <3> QED BY <1>8, <2>0, <2>2, <3>3, <3>4, NoLongerRunLeft
  <2> QED BY <2>1, <2>2
<1>12. pc' = "failed" => ~Room(count + 1)'
  BY <1>2, <1>11 DEF Room
<1> QED
  BY <1>2, <1>6, <1>9, <1>10, <1>12
  DEF SInv, SearchInv, FailureLeavesNoLongerRun, f

\* The end of the loop.
LEMMA LeaveLoopSearch ==
    ASSUME IInv, SInv, LeaveLoop
    PROVE  SInv'
<1>1. /\ size \in Nat /\ count \in Nat /\ first_empty \in Nat
      /\ PJ1Array \in SUBSET Nat
  BY WordAssumption DEF IInv, TypeOK
<1>2. /\ UNCHANGED <<size, PJ1Array, count, first_empty>>
      /\ pc = "loop" /\ pc' \in {"failed", "found"}
      /\ pc' = "failed" => first_empty > size
  BY DEF LeaveLoop, alloc, locals
<1>3. count # 1 /\ NoRunBefore(first_empty)
  BY <1>2 DEF SInv, SearchInv
<1>4. pc' = "failed" => ~Room(count + 1)
  <2>1. pc' = "failed" => size <= first_empty + count
    BY <1>1, <1>2
  <2> QED BY <1>1, <1>3, <2>1, NoLongerRunLeft
<1> QED
  BY <1>2, <1>3, <1>4 DEF SInv, SearchInv, FailureLeavesNoLongerRun, Room

(***************************************************************************)
(* Every state of every behaviour satisfies what the search has to keep    *)
(* true to be exact.                                                       *)
(***************************************************************************)
THEOREM SearchInvariance == Spec => []SInv
<1>1. Init => SInv
  BY DEF Init, SInv, SearchInv, FailureLeavesNoLongerRun
<1>2. IInv /\ SInv /\ [Next]_vars => SInv'
  BY OtherCallsSearch, AllocateSearch, RoundSearch, LeaveLoopSearch DEF Next
<1> QED BY Invariance, <1>1, <1>2, PTL DEF Spec

(***************************************************************************)
(* When bf_id_allocator_allocate_contiguous gives up, no run of free ids   *)
(* of the range is longer than the one that was asked for.                 *)
(***************************************************************************)
THEOREM FailureAlwaysJustified == Spec => []FailureLeavesNoLongerRun
<1>1. SInv => FailureLeavesNoLongerRun
  BY DEF SInv
<1> QED BY SearchInvariance, <1>1, PTL

(***************************************************************************)
(* bf_id_allocator_allocate hands out an id of the range, and gives up     *)
(* only when all of them are taken.                                        *)
(***************************************************************************)
THEOREM SingleIdAlwaysExact == Spec => []SingleIdExact
<1>1. ASSUME IInv, SInv PROVE SingleIdExact
  <2>0. size \in Nat /\ first_empty \in Nat
    BY <1>1, WordAssumption DEF IInv, TypeOK
  <2>1. ASSUME count = 1, pc = "found" PROVE \A k \in Found : k < size
    <3>1. first_empty < size
      BY <1>1, <2>1 DEF SInv, SearchInv
    <3> QED BY <2>0, <2>1, <3>1 DEF Found
  <2>2. ASSUME count = 1, pc = "failed", NEW i \in 0..(size - 1),
               i..(i + 1 - 1) \cap PJ1Array = {}
        PROVE  FALSE
    <3>1. i \in PJ1Array
      BY <1>1, <2>2 DEF SInv, SearchInv
    <3>2. i \in i..(i + 1 - 1)
      OBVIOUS
    <3> QED BY <2>2, <3>1, <3>2
  <2> QED BY <2>1, <2>2 DEF SingleIdExact, FoundInRange, FailureLeavesNoRoom, Room
<1> QED BY Invariance, SearchInvariance, <1>1, PTL

-----------------------------------------------------------------------------
(***************************************************************************)
(* The walk                                                                *)
(***************************************************************************)

(***************************************************************************)
(* An index that is set is the first one, or the one J1N finds from the    *)
(* index before it that is set.                                            *)
(***************************************************************************)
LEMMA Predecessor ==
    ASSUME NEW array \in SUBSET Nat, NEW k \in array
    PROVE  \/ Min(array) = k
           \/ \E p \in array : SetAfter(array, p) # {} /\ J1N(array, p) = k
<1> DEFINE before == {j \in array : j < k}
<1>1. CASE before = {}
  <2>1. \A j \in array : k <= j
    BY <1>1
  <2> QED BY <2>1, MinIs
<1>2. CASE before # {}
  <2> DEFINE p == Max(before)
  <2>0. before \in SUBSET Nat /\ k \in Nat /\ \A j \in before : j <= k
    <3>1. ASSUME NEW j \in before PROVE j <= k
      BY DEF before
    <3> QED BY <3>1
  <2>1. p \in before /\ \A j \in before : j <= p
    BY <1>2, <2>0, MaxOfNats
  <2>2. p \in array /\ p \in Nat /\ p < k
    BY <2>1
  <2> HIDE DEF p
  <2>3. k \in SetAfter(array, p) /\ SetAfter(array, p) \in SUBSET Nat
    BY <2>2 DEF SetAfter
  <2>4. ASSUME NEW j \in SetAfter(array, p) PROVE k <= j
    <3>1. j \in array /\ j \in Nat /\ j > p
      BY DEF SetAfter
    <3>2. ~(j < k)
      BY <2>1, <2>2, <3>1
    <3> QED BY <3>1, <3>2
  <2>5. J1N(array, p) = k
    BY <2>3, <2>4, MinIs DEF J1N
  <2> QED BY <2>2, <2>3, <2>5
<1> QED BY <1>1, <1>2

(***************************************************************************)
(* bf_id_allocator_get_next leads from the lowest id in use to every other *)
(* one and to no id that is free; when ids start at 1, the lowest is what  *)
(* bf_id_allocator_get_first returns.                                      *)
(***************************************************************************)
THEOREM WalkAlwaysFindsAllocated == Spec => []WalkFindsAllocated
<1>1. ASSUME TypeOK PROVE WalkFindsAllocated
  <2> DEFINE ids == {id \in 0..WORD : bf_id_allocator_is_set(id)}
             next == {bf_id_allocator_get_next(id) : id \in ids}
             least == Min(PJ1Array)
  <2> SUFFICES ASSUME live, ids # {}
               PROVE  /\ next \ {-1} = ids \ {Min(ids)}
                      /\ ~zero_based => bf_id_allocator_get_first = Min(ids)
    BY DEF WalkFindsAllocated
  <2>1. /\ WORD \in Nat \ {0} /\ Base \in {0, 1} /\ PJ1Array \in SUBSET (0..(WORD - 1))
        /\ PJ1Array \in SUBSET Nat
    BY <1>1, WordAssumption DEF TypeOK, Base
  <2>2. \A id : id \in ids <=> id \in Nat /\ id >= Base /\ id - Base \in PJ1Array
    BY <2>1 DEF bf_id_allocator_is_set
  <2>3. \A k \in PJ1Array : k \in Nat /\ k + Base \in ids
    BY <2>1, <2>2
  <2>4. PJ1Array # {}
    BY <2>2
  <2>5. least \in PJ1Array /\ \A k \in PJ1Array : least <= k
    BY <2>1, <2>4, MinOfNats
  <2> HIDE DEF ids, least
  <2>6. Min(ids) = least + Base
    <3>1. least + Base \in ids /\ ids \in SUBSET Nat
      BY <2>2, <2>3, <2>5
    <3>2. ASSUME NEW id \in ids PROVE least + Base <= id
      <4>1. id \in Nat /\ id - Base \in PJ1Array /\ least <= id - Base
        BY <2>2, <2>5
      <4> QED BY <2>1, <2>3, <2>5, <4>1
    <3> QED BY <3>1, <3>2, MinIs
  <2>7. ~zero_based => bf_id_allocator_get_first = Min(ids)
    BY <2>4, <2>6 DEF bf_id_allocator_get_first, Base, least
  \* No free id is visited, and the lowest is not come back to.
  <2>8. ASSUME NEW id \in ids, bf_id_allocator_get_next(id) # -1
        PROVE  bf_id_allocator_get_next(id) \in ids \ {Min(ids)}
    <3> DEFINE k == J1N(PJ1Array, id - Base)
    <3>1. SetAfter(PJ1Array, id - Base) # {} /\ bf_id_allocator_get_next(id) = k + Base
      BY <2>8 DEF bf_id_allocator_get_next
    <3>2. k \in PJ1Array /\ k > id - Base
      <4>1. SetAfter(PJ1Array, id - Base) \in SUBSET Nat
        BY <2>1 DEF SetAfter
      <4>2. k \in SetAfter(PJ1Array, id - Base)
        BY <3>1, <4>1, MinOfNats DEF J1N
      <4> QED BY <4>2 DEF SetAfter
    <3> HIDE DEF k
    <3>3. id - Base \in PJ1Array /\ id - Base \in Nat /\ least <= id - Base
      BY <2>2, <2>3, <2>5
    <3>4. k \in Nat /\ least \in Nat /\ k # least
      BY <2>3, <2>5, <3>2, <3>3
    <3>5. k + Base \in ids /\ k + Base # least + Base
      BY <2>1, <2>3, <3>2, <3>4
    <3> QED BY <2>6, <3>1, <3>5
  \* Every other id in use is visited.
  <2>9. ASSUME NEW id \in ids, id # Min(ids) PROVE id \in next /\ id # -1
    <3> DEFINE k == id - Base
    <3>1. k \in PJ1Array /\ k \in Nat /\ id = k + Base /\ id # -1
      BY <2>1, <2>2
    <3> HIDE DEF k
    <3>2. Min(PJ1Array) # k
      BY <2>6, <2>9, <3>1 DEF least
    <3>3. PICK p \in PJ1Array : SetAfter(PJ1Array, p) # {} /\ J1N(PJ1Array, p) = k
      BY <2>1, <3>1, <3>2, Predecessor
    <3>4. p + Base \in ids /\ p + Base >= Base /\ p + Base - Base = p
      BY <2>1, <2>3
    <3>5. bf_id_allocator_get_next(p + Base) = k + Base
      BY <2>1, <3>3, <3>4 DEF bf_id_allocator_get_next
    <3> QED BY <3>1, <3>4, <3>5
  <2>10. \A x \in next : x # -1 => x \in ids \ {Min(ids)}
    BY <2>8
  <2> HIDE DEF next
  <2> QED BY <2>7, <2>9, <2>10
<1> QED BY TypeCorrect, <1>1, PTL
=============================================================================
