---------------------------- MODULE IdAllocator ----------------------------
(***************************************************************************)
(* The id allocator of src/id/id.c: a Judy1 array, modelled as the set of  *)
(* its indexes, in which the indexes below size are meant to be handed out *)
(* as ids, starting at 0 or at 1.                                          *)
(*                                                                         *)
(* bf_id_allocator_allocate_contiguous runs step by step, one round of its *)
(* loop at a time, with its locals as variables; every other operation is  *)
(* one step.  Word_t arithmetic is modulo WORD.                            *)
(***************************************************************************)
EXTENDS Integers, FiniteSetsExt

CONSTANTS WORD,             \* Word_t counts modulo this
          InitialSizes,     \* the sizes bf_id_allocator_new is called with
          Counts            \* the numbers of ids that are asked for

ASSUME WordAssumption ==
    /\ WORD \in Nat \ {0}
    /\ InitialSizes \subseteq 0..(WORD - 1)
    /\ Counts \subseteq 0..(WORD - 1)
    /\ \A s \in InitialSizes, n \in Counts : s + n < WORD

VARIABLES live,                         \* the allocator exists
          size, zero_based, PJ1Array,   \* its fields
          pc,                           \* control of allocate_contiguous
          count, first_empty, next_set  \* its argument and locals

alloc == <<live, size, zero_based, PJ1Array>>
locals == <<count, first_empty, next_set>>
vars == <<alloc, pc, locals>>

-----------------------------------------------------------------------------
(***************************************************************************)
(* Judy1, by what the macros id.c uses return                              *)
(***************************************************************************)

\* J1FE finds the first index at or after i that is not set.
Empty(array, i) == {k \in i..(WORD - 1) : k \notin array}
J1FE(array, i) == Min(Empty(array, i))

\* J1N finds the first index after i that is set.
SetAfter(array, i) == {k \in array : k > i}
J1N(array, i) == Min(SetAfter(array, i))

\* Index after a J1N that found nothing: it has been advanced, unless the
\* array has no index at all.
IndexAfterFailure(array, i) == IF array = {} THEN i ELSE (i + 1) % WORD

-----------------------------------------------------------------------------
Init ==
    /\ live = FALSE /\ size = 0 /\ zero_based = FALSE /\ PJ1Array = {}
    /\ pc = "idle" /\ count = 0 /\ first_empty = 0 /\ next_set = 0

\* Mutant of New: one id more than was asked for.
New_OneMore(initial_size, zero) ==
    /\ pc = "idle" /\ ~live
    /\ live' = TRUE /\ size' = initial_size + 1 /\ zero_based' = zero
    /\ PJ1Array' = {}
    /\ UNCHANGED <<pc, locals>>

New(initial_size, zero) ==
    /\ pc = "idle" /\ ~live
    /\ live' = TRUE /\ size' = initial_size /\ zero_based' = zero
    /\ PJ1Array' = {}
    /\ UNCHANGED <<pc, locals>>

Destroy ==
    /\ pc = "idle" /\ live
    /\ live' = FALSE /\ size' = 0 /\ zero_based' = FALSE /\ PJ1Array' = {}
    /\ UNCHANGED <<pc, locals>>

\* An id a client uses stands for the index this far below it.
Base == IF zero_based THEN 0 ELSE 1

\* bf_id_allocator_release and bf_id_allocator_set; the assertion on id is
\* the caller's part.
Release(id) ==
    /\ pc = "idle" /\ live /\ id >= Base
    /\ PJ1Array' = PJ1Array \ {id - Base}
    /\ UNCHANGED <<live, size, zero_based, pc, locals>>

Set(id) ==
    /\ pc = "idle" /\ live /\ id >= Base
    /\ PJ1Array' = PJ1Array \cup {id - Base}
    /\ UNCHANGED <<live, size, zero_based, pc, locals>>

\* Mutant of Allocate: the test against size lets size itself pass.
Allocate_Beyond(n) ==
    /\ pc = "idle" /\ live
    /\ count' = n
    /\ first_empty' = IF Empty(PJ1Array, 0) = {} THEN 0 ELSE J1FE(PJ1Array, 0)
    /\ next_set' = IF SetAfter(PJ1Array, first_empty') = {} THEN size
                   ELSE J1N(PJ1Array, first_empty')
    /\ pc' = IF Empty(PJ1Array, 0) = {} \/ first_empty' > size THEN "failed"
             ELSE IF n = 1 THEN "found" ELSE "loop"
    /\ UNCHANGED alloc

\* bf_id_allocator_allocate_contiguous up to its loop.  The second J1FE, when
\* the first empty index is too high, looks for the same index again.
Allocate(n) ==
    /\ pc = "idle" /\ live
    /\ count' = n
    /\ first_empty' = IF Empty(PJ1Array, 0) = {} THEN 0 ELSE J1FE(PJ1Array, 0)
    /\ next_set' = IF SetAfter(PJ1Array, first_empty') = {} THEN size
                   ELSE J1N(PJ1Array, first_empty')
    /\ pc' = IF Empty(PJ1Array, 0) = {} \/ first_empty' >= size THEN "failed"
             ELSE IF n = 1 THEN "found" ELSE "loop"
    /\ UNCHANGED alloc

\* Mutant of TooShort: a run that is one id short passes.
TooShort_OffByOne == (next_set - first_empty + 1) % WORD < count

\* next_set - first_empty < count, in unsigned arithmetic.
TooShort == (next_set - first_empty) % WORD < count

\* Mutant of Round: the room that is left must exceed count.
Round_Strict ==
    /\ pc = "loop" /\ TooShort
    /\ first_empty' = IF Empty(PJ1Array, next_set) = {} THEN first_empty
                      ELSE J1FE(PJ1Array, next_set)
    /\ LET more  == SetAfter(PJ1Array, first_empty') # {}
           Index == IndexAfterFailure(PJ1Array, first_empty')
       IN  /\ next_set' = IF more THEN J1N(PJ1Array, first_empty') ELSE next_set
           /\ pc' = IF \/ Empty(PJ1Array, next_set) = {}
                       \/ ~more /\ (size - Index) % WORD <= count
                    THEN "failed" ELSE "loop"
    /\ UNCHANGED <<alloc, count>>

\* One round of the loop.
Round ==
    /\ pc = "loop" /\ TooShort
    /\ first_empty' = IF Empty(PJ1Array, next_set) = {} THEN first_empty
                      ELSE J1FE(PJ1Array, next_set)
    /\ LET more  == SetAfter(PJ1Array, first_empty') # {}
           Index == IndexAfterFailure(PJ1Array, first_empty')
       IN  /\ next_set' = IF more THEN J1N(PJ1Array, first_empty') ELSE next_set
           /\ pc' = IF \/ Empty(PJ1Array, next_set) = {}
                       \/ ~more /\ (size - Index) % WORD < count
                    THEN "failed" ELSE "loop"
    /\ UNCHANGED <<alloc, count>>

LeaveLoop ==
    /\ pc = "loop" /\ ~TooShort
    /\ pc' = IF first_empty > size THEN "failed" ELSE "found"
    /\ UNCHANGED <<alloc, locals>>

\* The ids that are being handed out, as indexes.
Found == first_empty .. (first_empty + count - 1)

\* The locals are gone.
Return == pc' = "idle" /\ count' = 0 /\ first_empty' = 0 /\ next_set' = 0

\* J1S for each of them, and the return.
Succeed ==
    /\ pc = "found"
    /\ PJ1Array' = PJ1Array \cup Found
    /\ Return
    /\ UNCHANGED <<live, size, zero_based>>

\* return -1
Fail ==
    /\ pc = "failed"
    /\ Return
    /\ UNCHANGED alloc

\* Clients set ids of the allocator's range and release ids they hold.
Next ==
    \/ \E s \in InitialSizes, zero \in BOOLEAN : New(s, zero)
    \/ Destroy
    \/ \E id \in {k + Base : k \in PJ1Array} : Release(id)
    \/ \E id \in {k + Base : k \in 0..(size - 1)} : Set(id)
    \/ \E n \in Counts : Allocate(n)
    \/ Round \/ LeaveLoop \/ Succeed \/ Fail

Spec == Init /\ [][Next]_vars

\* A call that has been made keeps running.
Fairness == WF_vars(Round \/ LeaveLoop \/ Succeed \/ Fail)

FairSpec == Spec /\ Fairness

-----------------------------------------------------------------------------
(***************************************************************************)
(* Queries                                                                 *)
(***************************************************************************)

\* id is assigned only when the allocator is not zero based.
bf_id_allocator_get_first ==
    IF ~live \/ PJ1Array = {} THEN -1
    ELSE IF zero_based THEN 0 ELSE Min(PJ1Array) + 1

\* Mutant of bf_id_allocator_get_next: the index is returned as the id.
bf_id_allocator_get_next_NoBase(id) ==
    IF ~live \/ id < Base \/ SetAfter(PJ1Array, id - Base) = {} THEN -1
    ELSE J1N(PJ1Array, id - Base)

bf_id_allocator_get_next(id) ==
    IF ~live \/ id < Base \/ SetAfter(PJ1Array, id - Base) = {} THEN -1
    ELSE J1N(PJ1Array, id - Base) + Base

bf_id_allocator_is_set(id) == id >= Base /\ id - Base \in PJ1Array

-----------------------------------------------------------------------------
(***************************************************************************)
(* Properties                                                              *)
(***************************************************************************)

(***************************************************************************)
(* The fields and locals have the values their C types allow.              *)
(***************************************************************************)
TypeOK ==
    /\ live \in BOOLEAN /\ zero_based \in BOOLEAN
    /\ size \in InitialSizes \cup {0}
    /\ PJ1Array \subseteq 0..(WORD - 1)
    /\ pc \in {"idle", "loop", "found", "failed"}
    /\ count \in Counts \cup {0}
    /\ first_empty \in 0..(WORD - 1) /\ next_set \in 0..(WORD - 1)

(***************************************************************************)
(* bf_id_allocator_allocate_contiguous never hands out an id that somebody *)
(* holds, whichever way its loop ends, by the test on next_set or by the   *)
(* wrap-around of next_set - first_empty after the last id in use.         *)
(***************************************************************************)
FoundIsFree == pc = "found" => Found \cap PJ1Array = {}

\* n consecutive ids of the range are free.
Room(n) == \E i \in 0..(size - n) : i..(i + n - 1) \cap PJ1Array = {}

(***************************************************************************)
(* An id that is handed out lies in the range the allocator was made for.  *)
(***************************************************************************)
FoundInRange == pc = "found" => \A k \in Found : k < size

(***************************************************************************)
(* The allocator gives up only when no count consecutive ids are free.     *)
(***************************************************************************)
FailureLeavesNoRoom == pc = "failed" => ~Room(count)

(***************************************************************************)
(* When the allocator gives up there is no longer run of free ids than the *)
(* one that was asked for: what its last test overlooks is a run of just   *)
(* count ids at the end of the range.                                      *)
(***************************************************************************)
FailureLeavesNoLongerRun == pc = "failed" => ~Room(count + 1)

(***************************************************************************)
(* bf_id_allocator_allocate is exact: the id it hands out is in the range, *)
(* and it gives up only when every id of the range is taken.               *)
(***************************************************************************)
SingleIdExact == count = 1 => FoundInRange /\ FailureLeavesNoRoom

(***************************************************************************)
(* A call returns: its search does not go round forever.                   *)
(***************************************************************************)
CallReturns == pc # "idle" ~> pc = "idle"

(***************************************************************************)
(* bf_id_allocator_get_next leads from the lowest id that                  *)
(* bf_id_allocator_is_set reports to every other one, and to no id that is *)
(* free; and a walk begins there, at what bf_id_allocator_get_first        *)
(* returns, when ids start at 1.  Nothing is claimed of the first id of a  *)
(* zero-based allocator: get_first, which "Finds first allocated id"       *)
(* (id.c, line 258), returns 0 for it whichever ids are allocated.         *)
(***************************************************************************)
WalkFindsAllocated ==
    LET ids == {id \in 0..WORD : bf_id_allocator_is_set(id)}
    IN  live /\ ids # {} =>
            /\ {bf_id_allocator_get_next(id) : id \in ids} \ {-1} = ids \ {Min(ids)}
            /\ ~zero_based => bf_id_allocator_get_first = Min(ids)
=============================================================================
