------------------------------ MODULE FBitset ------------------------------
(***************************************************************************)
(* The bitset of src/fbitset/fbitset.c: a Judy1 array, modelled as the set *)
(* of its indexes, that holds positions below width.                       *)
(*                                                                         *)
(* The two searches for runs of clear bits go one round of their loop per  *)
(* step, with their locals as variables; every other operation is one      *)
(* step.  unsigned arithmetic is modulo UINT, Word_t arithmetic modulo     *)
(* WORD.                                                                   *)
(***************************************************************************)
EXTENDS Integers, FiniteSetsExt

CONSTANTS UINT, WORD,       \* unsigned and Word_t count modulo these
          Widths,           \* the widths bf_fbs_init is called with
          Counts            \* the lengths of runs that are asked for

\* position is an int, which holds every width and the number after it.
ASSUME WidthAssumption ==
    /\ UINT \in Nat /\ WORD \in Nat /\ UINT < WORD
    /\ Widths \subseteq 1..(UINT \div 2 - 2)
    /\ Counts \subseteq 1..(UINT - 1)

VARIABLES width, fbs,               \* the fields of bf_fbitset_t
          pc,                       \* control of the searches
          position, count,          \* their arguments, position inclusive
          free_index, last_free     \* their locals

bitset == <<width, fbs>>
args == <<position, count>>
vars == <<bitset, pc, args, free_index, last_free>>

-----------------------------------------------------------------------------
(***************************************************************************)
(* Judy1, by what the macros fbitset.c uses return                         *)
(***************************************************************************)

\* The set and the empty indexes that a search from i looks at: upwards at
\* or after i (J1F, J1FE) or after it (J1N, J1NE), downwards at or before i
\* (J1LE) or before it (J1P, J1PE).  It finds the nearest of them, if any.
SetFrom(array, i)     == {k \in array : k >= i}
SetAfter(array, i)    == {k \in array : k > i}
SetBefore(array, i)   == {k \in array : k < i}
EmptyFrom(array, i)   == {k \in i..(WORD - 1) : k \notin array}
EmptyAfter(array, i)  == EmptyFrom(array, i + 1)
EmptyUpTo(array, i)   == {k \in 0..i : k \notin array}
EmptyBefore(array, i) == EmptyUpTo(array, i - 1)

-----------------------------------------------------------------------------
Init ==
    /\ width \in Widths /\ fbs = {}
    /\ pc = "idle" /\ position = 0 /\ count = 0
    /\ free_index = 0 /\ last_free = 0

\* Mutant of Set: the width itself passes for a position.
Set_AtWidth(pos, val) ==
    /\ pc = "idle" /\ pos <= width
    /\ fbs' = IF val THEN fbs \cup {pos} ELSE fbs \ {pos}
    /\ UNCHANGED <<width, pc, args, free_index, last_free>>

\* bf_fbs_set; the assertions on position are the caller's part.  J1S and
\* J1U return 0 when the bit already has the value, and otherwise may run
\* out of memory, in which case they leave the array alone and return JERR.
\* bf_fbs_set then returns the previous value as if it had done its work.
Set(pos, val) ==
    /\ pc = "idle" /\ pos < width
    /\ \/ fbs' = IF val THEN fbs \cup {pos} ELSE fbs \ {pos}
       \/ (pos \in fbs) # val /\ fbs' = fbs
    /\ UNCHANGED <<width, pc, args, free_index, last_free>>

\* bf_fbs_destroy keeps the width.
Destroy ==
    /\ pc = "idle"
    /\ fbs' = {}
    /\ UNCHANGED <<width, pc, args, free_index, last_free>>

-----------------------------------------------------------------------------
(***************************************************************************)
(* bf_fbs_first_clr_contiguous                                             *)
(***************************************************************************)

\* Up to the loop.  pos is the argument, which is exclusive.
FirstClr(pos, cnt) ==
    /\ pc = "idle" /\ pos >= -1
    /\ position' = pos + 1 /\ count' = cnt
    /\ free_index' = Min(EmptyFrom(fbs, pos + 1))
    /\ last_free' = free_index'
    /\ pc' = IF (pos + 1 + cnt) % UINT > width \/ free_index' >= width
             THEN "up_none"
             ELSE IF cnt = 1 THEN "up_found" ELSE "up"
    /\ UNCHANGED bitset

\* The last index of the run of clear bits that begins at free_index.
RunEnd == IF SetAfter(fbs, last_free) = {} THEN width - 1
          ELSE Min(SetAfter(fbs, last_free)) - 1

\* Mutant of FirstClrRound: the search goes on at the run it has just left.
FirstClrRound_Stays ==
    /\ pc = "up" /\ last_free < width
    /\ IF (RunEnd + 1 - free_index) % WORD >= count
       THEN pc' = "up_found" /\ last_free' = RunEnd /\ UNCHANGED free_index
       ELSE /\ last_free' = Min(EmptyFrom(fbs, RunEnd))
            /\ free_index' = last_free'
            /\ pc' = "up"
    /\ UNCHANGED <<bitset, args>>

\* Mutant of FirstClrRound: a run that is one bit short is taken.
FirstClrRound_Short ==
    /\ pc = "up" /\ last_free < width
    /\ IF (RunEnd + 2 - free_index) % WORD >= count
       THEN pc' = "up_found" /\ last_free' = RunEnd /\ UNCHANGED free_index
       ELSE /\ last_free' = Min(EmptyAfter(fbs, RunEnd))
            /\ free_index' = last_free'
            /\ pc' = "up"
    /\ UNCHANGED <<bitset, args>>

\* One round of the loop.  J1NE always finds an index, since none at or
\* above width is set.
FirstClrRound ==
    /\ pc = "up" /\ last_free < width
    /\ IF (RunEnd + 1 - free_index) % WORD >= count
       THEN pc' = "up_found" /\ last_free' = RunEnd /\ UNCHANGED free_index
       ELSE /\ last_free' = Min(EmptyAfter(fbs, RunEnd))
            /\ free_index' = last_free'
            /\ pc' = "up"
    /\ UNCHANGED <<bitset, args>>

\* The condition of the loop has become false: return -1.
FirstClrEnd ==
    /\ pc = "up" /\ last_free >= width
    /\ pc' = "up_none"
    /\ UNCHANGED <<bitset, args, free_index, last_free>>

-----------------------------------------------------------------------------
(***************************************************************************)
(* bf_fbs_prev_clr_contiguous                                              *)
(***************************************************************************)

\* Up to the loop.  A position that is 0 or below is answered with -1 at
\* once; the assertion position <= width is the caller's part.
PrevClr(pos, cnt) ==
    /\ pc = "idle" /\ pos > 0 /\ pos <= width
    /\ position' = pos - 1 /\ count' = cnt
    /\ LET empty == EmptyUpTo(fbs, pos - 1)
       IN  /\ free_index' = IF empty = {} THEN 0 ELSE Max(empty)
           /\ last_free' = free_index'
           /\ pc' = IF pos < cnt \/ empty = {} THEN "down_none"
                    ELSE IF cnt = 1 THEN "down_found" ELSE "down"
    /\ UNCHANGED bitset

\* The first index of the run of clear bits that ends at free_index.
RunStart == IF SetBefore(fbs, last_free) = {} THEN 0
            ELSE Max(SetBefore(fbs, last_free)) + 1

\* Mutant of PrevClrRound: when no bit is set further down, it gives up.
PrevClrRound_GivesUp ==
    /\ pc = "down"
    /\ LET empty == EmptyBefore(fbs, RunStart)
       IN  IF (free_index + 1 - RunStart) % WORD >= count
           THEN pc' = "down_found" /\ last_free' = RunStart /\ UNCHANGED free_index
           ELSE /\ last_free' = IF empty = {} THEN RunStart ELSE Max(empty)
                /\ free_index' = IF empty = {} THEN free_index ELSE last_free'
                /\ pc' = IF SetBefore(fbs, last_free') = {} THEN "down_none"
                         ELSE "down"
    /\ UNCHANGED <<bitset, args>>

\* One round of the loop.
PrevClrRound ==
    /\ pc = "down"
    /\ LET empty == EmptyBefore(fbs, RunStart)
       IN  IF (free_index + 1 - RunStart) % WORD >= count
           THEN pc' = "down_found" /\ last_free' = RunStart /\ UNCHANGED free_index
           ELSE /\ last_free' = IF empty = {} THEN RunStart ELSE Max(empty)
                /\ free_index' = IF empty = {} THEN free_index ELSE last_free'
                /\ pc' = IF empty = {} THEN "down_none" ELSE "down"
    /\ UNCHANGED <<bitset, args>>

-----------------------------------------------------------------------------
\* The value a search returns.
Result ==
    CASE pc = "up_found"   -> free_index
      [] pc = "down_found" -> free_index + 1 - count
      [] OTHER             -> -1

Return ==
    /\ pc \in {"up_found", "up_none", "down_found", "down_none"}
    /\ pc' = "idle" /\ position' = 0 /\ count' = 0
    /\ free_index' = 0 /\ last_free' = 0
    /\ UNCHANGED bitset

Search == FirstClrRound \/ FirstClrEnd \/ PrevClrRound \/ Return

Next ==
    \/ \E pos \in 0..width, val \in BOOLEAN : Set(pos, val)
    \/ Destroy
    \/ \E pos \in -1..width, cnt \in Counts : FirstClr(pos, cnt) \/ PrevClr(pos, cnt)
    \/ Search

\* A call that has been made keeps running.
Spec == Init /\ [][Next]_vars /\ WF_vars(Search)

\* Mutant of bf_fbs_first_set: position is taken to be inclusive.
bf_fbs_first_set_Inclusive(pos) ==
    IF pos < 0 \/ pos > width \/ SetFrom(fbs, pos) = {} THEN -1
    ELSE Min(SetFrom(fbs, pos))

\* position is exclusive.
bf_fbs_first_set(pos) ==
    IF pos + 1 < 0 \/ pos + 1 > width \/ SetFrom(fbs, pos + 1) = {} THEN -1
    ELSE Min(SetFrom(fbs, pos + 1))

bf_fbs_get(pos) == pos \in fbs

-----------------------------------------------------------------------------
(***************************************************************************)
(* Properties                                                              *)
(***************************************************************************)

(***************************************************************************)
(* The fields and locals have the values their C types allow, and no bit   *)
(* beyond the width is set.                                                *)
(***************************************************************************)
TypeOK ==
    /\ width \in Widths /\ fbs \subseteq 0..(width - 1)
    /\ pc \in {"idle", "up", "up_found", "up_none",
               "down", "down_found", "down_none"}
    /\ position \in 0..(UINT - 1) /\ count \in Counts \cup {0}
    /\ free_index \in 0..(WORD - 1) /\ last_free \in 0..(WORD - 1)

\* The starts of the runs of count clear bits.
Runs == {i \in 0..(width - count) : i..(i + count - 1) \cap fbs = {}}

(***************************************************************************)
(* bf_fbs_first_clr_contiguous returns the lowest start of a run of count  *)
(* clear bits at or after position, and -1 just when there is none, also   *)
(* when position + count wraps around and its first test lets it pass.     *)
(***************************************************************************)
FirstClrExact ==
    LET found == {i \in Runs : i >= position}
    IN  pc \in {"up_found", "up_none"} =>
            Result = IF found = {} THEN -1 ELSE Min(found)

(***************************************************************************)
(* bf_fbs_prev_clr_contiguous returns the highest start of a run of count  *)
(* clear bits that ends at or before position, and -1 just when there is   *)
(* none.                                                                   *)
(***************************************************************************)
PrevClrExact ==
    LET found == {i \in Runs : i + count - 1 <= position}
    IN  pc \in {"down_found", "down_none"} =>
            Result = IF found = {} THEN -1 ELSE Max(found)

(***************************************************************************)
(* Started with -1, and then each time with what it returned last,         *)
(* bf_fbs_first_set visits the bits that bf_fbs_get reports, in ascending  *)
(* order and no other.                                                     *)
(***************************************************************************)
WalkVisitsSetBits ==
    LET bits == {i \in 0..(width - 1) : bf_fbs_get(i)}
    IN  \A pos \in bits \cup {-1} :
            bf_fbs_first_set(pos) = LET later == {i \in bits : i > pos}
                                    IN  IF later = {} THEN -1 ELSE Min(later)

(***************************************************************************)
(* A search returns: each round of either loop leaves a run of clear bits  *)
(* behind.                                                                 *)
(***************************************************************************)
SearchReturns == pc # "idle" ~> pc = "idle"
=============================================================================
