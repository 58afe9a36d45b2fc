-------------------------- MODULE Power2Allocator --------------------------
(***************************************************************************)
(* The allocator of src/power2_allocator/power2_allocator.c: blocks of     *)
(* indexes, a block of size s starting at a multiple of the power of two   *)
(* that s rounds up to.  Free space is kept in one list per power of two.  *)
(*                                                                         *)
(* The fields of power2_allocator_t are variables.  The Judy arrays        *)
(* free_lists[log2] (index -> size) are one set of entries                 *)
(* [log2, index, size]; inuse_list (index -> size) is a partial function.  *)
(* A call that returns an error leaves the state as it is, so the actions  *)
(* are the calls that succeed and the calls that trip an assertion.        *)
(***************************************************************************)
EXTENDS BitUtils, FiniteSetsExt, Functions

CONSTANTS UINT32,           \* uint32_t counts modulo this
          CreateArgs,       \* the <<size, count>> create is called with
          Sizes,            \* the sizes alloc and reserve are called with
          Indexes,          \* the indexes reserve is called with
          Counts            \* the counts of alloc_ and release_multiple

\* uint32_t has at most 32 bits.  Callers ask for no block of size 0, and the
\* indexes they reserve do not wrap around.  Indexes are returned as int, so
\* an allocator is made for at most half of the indexes of uint32_t.
ASSUME ArgsAssumption ==
    /\ \E n \in 1..32 : UINT32 = pow2[n]
    /\ CreateArgs \subseteq (0..(UINT32 - 1)) \X (0..(UINT32 - 1))
    /\ \A args \in CreateArgs : 2 * (args[1] * args[2]) <= UINT32
    /\ Sizes \subseteq 1..(UINT32 - 1)
    /\ Indexes \cup Counts \subseteq 0..(UINT32 - 1)
    /\ \A index \in Indexes, size \in Sizes : index + size < UINT32

VARIABLES live,             \* create has returned an allocator
          max_size, total_size, no_free_lists, free_lists, inuse_list,
          aborted           \* a bf_sys_assert has failed

vars == <<live, max_size, total_size, no_free_lists, free_lists, inuse_list,
          aborted>>

-----------------------------------------------------------------------------
(***************************************************************************)
(* Splitting free space into list entries                                  *)
(***************************************************************************)

\* Mutant of FreeLog2: lists beyond the allocator's last one.
FreeLog2_NoCap(nfl, cur, rem) == Min({ctz(cur), log2_uint32_ceil(rem)})

\* Mutant of FreeLog2: the size is rounded down.
FreeLog2_Floor(nfl, cur, rem) ==
    Min({ctz(cur), log2_uint32_floor(rem), nfl - 1})

\* The list for the entry that starts at cur when rem indexes from there are
\* free: the largest power of two cur is aligned to, rem rounds up to and the
\* allocator has a list for.
FreeLog2(nfl, cur, rem) ==
    Min({ctz(cur), log2_uint32_ceil(rem), nfl - 1})

ChunkAt(nfl, cur, rem) ==
    LET free_log2 == FreeLog2(nfl, cur, rem)
    IN  [log2  |-> free_log2,
         index |-> cur,
         size  |-> Min({rem, pow2[free_log2]})]

\* The loop that remove_free_index, insert_one_free and free_list_assert share,
\* run over the rem indexes that are left before end.
ChunksTo(nfl, end) ==
    LET left[rem \in 0..end] ==
            IF rem = 0 THEN {}
            ELSE LET chunk == ChunkAt(nfl, end - rem, rem)
                 IN  {chunk} \cup left[rem - chunk.size]
    IN  left

\* The entries that stand for the free space index..index+size-1.
Chunks(nfl, index, size) == ChunksTo(nfl, index + size)[size]

\* The assertions about one entry that is put into a list.
ChunkOk(chunk) ==
    /\ chunk.index % pow2[chunk.log2] = 0
    /\ 2 * chunk.size > pow2[chunk.log2]

\* insert_one_free: JLI finds no entry under any of the keys.
Insertable(lists, chunks) ==
    /\ \A c \in chunks : ChunkOk(c)
    /\ \A c \in chunks, f \in lists : c.log2 = f.log2 => c.index # f.index

\* remove_free_index: JLG finds every key, with the size that is expected.
Removable(lists, chunks) == chunks \subseteq lists

-----------------------------------------------------------------------------
(***************************************************************************)
(* The in-use list                                                         *)
(***************************************************************************)
NoBlocks == [i \in {} |-> 0]

Put(list, index, size) ==
    [i \in DOMAIN list \cup {index} |-> IF i = index THEN size ELSE list[i]]

Del(list, S) == Restrict(list, DOMAIN list \ S)

\* JLI in mark_inuse returns a slot that is new or holds zero.
Markable(list, index) == index \in DOMAIN list => list[index] = 0

\* power2_allocator_get_index_size asserts that the size it returns is not 0.
get_index_size_asserts(index) ==
    index \in DOMAIN inuse_list => inuse_list[index] # 0

\* Mutant of PrevEnd: the size of the block before index is forgotten.
PrevEnd_NoSize(list, index) ==
    LET before == {i \in DOMAIN list : i < index}
    IN  IF before = {} THEN 0 ELSE Max(before)

\* The end of the block before index and the start of the one after it: the
\* bounds of the free space around index.
PrevEnd(list, index) ==
    LET before == {i \in DOMAIN list : i < index}
    IN  IF before = {} THEN 0 ELSE Max(before) + list[Max(before)]

NextStart(list, index) ==
    LET after == {i \in DOMAIN list : i > index}
    IN  IF after = {} THEN total_size ELSE Min(after)

-----------------------------------------------------------------------------
(***************************************************************************)
(* Finding space                                                           *)
(***************************************************************************)

\* power2_allocator_remove_one_free: the entry of the list with the lowest
\* index among the ones that are large enough.
FirstEntry(lists, log2, size) ==
    LET fits == {f \in lists : f.log2 = log2 /\ f.size >= size}
    IN  CHOOSE f \in fits : \A g \in fits : f.index <= g.index

\* The lists alloc tries that have an entry for size indexes.
FitLists(size) ==
    {n \in log2_uint32_ceil(size)..(no_free_lists - 1) :
        \E f \in free_lists : f.log2 = n /\ f.size >= size}

AllocFails(size) == ~live \/ max_size < size \/ FitLists(size) = {}

AllocEntry(size) == FirstEntry(free_lists, Min(FitLists(size)), size)

\* The last aligned index from which size indexes of the entry are left.
AllocIndex(size) ==
    LET free == AllocEntry(size)
        log2 == log2_uint32_ceil(size)
        last == ClearLow(free.index + free.size - 1, log2)
    IN  IF last + size > free.index + free.size THEN last - pow2[log2] ELSE last

-----------------------------------------------------------------------------
(***************************************************************************)
(* The operations                                                          *)
(***************************************************************************)
Init ==
    /\ live = FALSE
    /\ max_size = 0 /\ total_size = 0 /\ no_free_lists = 0
    /\ free_lists = {} /\ inuse_list = NoBlocks
    /\ aborted = FALSE

\* The end of every operation: a failed assertion stops the program.
Commit(asserts, lists, inuse) ==
    /\ aborted' = ~asserts
    /\ free_lists' = IF asserts THEN lists ELSE free_lists
    /\ inuse_list' = IF asserts THEN inuse ELSE inuse_list
    /\ UNCHANGED <<live, max_size, total_size, no_free_lists>>

\* Mutant of Create: the size of one block is taken for that of all.
Create_OneBlock(size, count) ==
    /\ ~live /\ ~aborted
    /\ is_uint32_power2(size)
    /\ live' = TRUE
    /\ max_size' = size
    /\ total_size' = size
    /\ no_free_lists' = log2_uint32_ceil(size) + 1
    /\ free_lists' =
         UNION {Chunks(log2_uint32_ceil(size) + 1, i * size, size) :
                   i \in 0..(count - 1)}
    /\ inuse_list' = NoBlocks
    /\ UNCHANGED aborted

\* power2_allocator_create returns NULL unless size is a power of two.
Create(size, count) ==
    /\ ~live /\ ~aborted
    /\ is_uint32_power2(size)
    /\ live' = TRUE
    /\ max_size' = size
    /\ total_size' = (size * count) % UINT32
    /\ no_free_lists' = log2_uint32_ceil(size) + 1
    /\ free_lists' =
         UNION {Chunks(log2_uint32_ceil(size) + 1, i * size, size) :
                   i \in 0..(count - 1)}
    /\ inuse_list' = NoBlocks
    /\ UNCHANGED aborted

Destroy ==
    /\ live /\ ~aborted
    /\ live' = FALSE
    /\ max_size' = 0 /\ total_size' = 0 /\ no_free_lists' = 0
    /\ free_lists' = {} /\ inuse_list' = NoBlocks
    /\ UNCHANGED aborted

\* Mutant of Alloc: the space behind the new block is not put back.
Alloc_LosesTail(size) ==
    /\ ~aborted /\ ~AllocFails(size)
    /\ LET free  == AllocEntry(size)
           index == AllocIndex(size)
           rest  == free_lists \ {free}
           split == Chunks(no_free_lists, free.index, index - free.index)
       IN  Commit(Insertable(rest, split) /\ Markable(inuse_list, index),
                  rest \cup split, Put(inuse_list, index, size))

Alloc(size) ==
    /\ ~aborted /\ ~AllocFails(size)
    /\ LET free  == AllocEntry(size)
           index == AllocIndex(size)
           end   == free.index + free.size
           rest  == free_lists \ {free}
           split == Chunks(no_free_lists, free.index, index - free.index)
                    \cup Chunks(no_free_lists, index + size, end - (index + size))
       IN  Commit(/\ index >= free.index
                  /\ index + size <= end
                  /\ Insertable(rest, split)
                  /\ Markable(inuse_list, index),
                  rest \cup split,
                  Put(inuse_list, index, size))

\* Mutant of Release: the block is put back without its free neighbours.
Release_NoCoalescing(index) ==
    /\ live /\ ~aborted
    /\ index \in DOMAIN inuse_list
    /\ LET whole == Chunks(no_free_lists, index, inuse_list[index])
       IN  Commit(get_index_size_asserts(index) /\ Insertable(free_lists, whole),
                  free_lists \cup whole, Del(inuse_list, {index}))

\* The free space on both sides is taken out of the lists and put back
\* together with the block that is released.
Release(index) ==
    /\ live /\ ~aborted
    /\ index \in DOMAIN inuse_list
    /\ LET size  == inuse_list[index]
           prev  == PrevEnd(inuse_list, index)
           next  == NextStart(inuse_list, index)
           sides == Chunks(no_free_lists, prev, index - prev)
                    \cup Chunks(no_free_lists, index + size, next - (index + size))
           whole == Chunks(no_free_lists, prev, next - prev)
           rest  == free_lists \ sides
       IN  Commit(/\ get_index_size_asserts(index)
                  /\ Removable(free_lists, sides)
                  /\ Insertable(rest, whole),
                  rest \cup whole,
                  Del(inuse_list, {index}))

\* Mutant of ReserveStatus: the block before the range is not looked at.
ReserveStatus_NoPrev(index, size) ==
    IF /\ get_index_size_asserts(index)
       /\ \/ index \in DOMAIN inuse_list
          \/ (index + size) % UINT32 > NextStart(inuse_list, index)
    THEN 1 ELSE 0

\* What power2_allocator_reserve returns if no assertion fails.
ReserveStatus(index, size) ==
    IF /\ get_index_size_asserts(index)
       /\ \/ index \in DOMAIN inuse_list
          \/ index < PrevEnd(inuse_list, index)
          \/ (index + size) % UINT32 > NextStart(inuse_list, index)
    THEN 1 ELSE 0

\* Mutant of Reserve: the space before the range is not put back.
Reserve_LosesHead(index, size) ==
    /\ live /\ ~aborted
    /\ ReserveStatus(index, size) = 0
    /\ LET prev  == PrevEnd(inuse_list, index)
           next  == NextStart(inuse_list, index)
           end   == (index + size) % UINT32
           whole == Chunks(no_free_lists, prev, next - prev)
           rest  == free_lists \ whole
           split == Chunks(no_free_lists, end, next - end)
       IN  Commit(Removable(free_lists, whole) /\ Insertable(rest, split),
                  rest \cup split, Put(inuse_list, index, size))

Reserve(index, size) ==
    /\ live /\ ~aborted
    /\ ReserveStatus(index, size) = 0
    /\ LET prev  == PrevEnd(inuse_list, index)
           next  == NextStart(inuse_list, index)
           end   == (index + size) % UINT32
           whole == Chunks(no_free_lists, prev, next - prev)
           rest  == free_lists \ whole
           split == Chunks(no_free_lists, prev, index - prev)
                    \cup Chunks(no_free_lists, end, next - end)
       IN  Commit(/\ get_index_size_asserts(index)
                  /\ Removable(free_lists, whole)
                  /\ Insertable(rest, split)
                  /\ Markable(inuse_list, index),
                  rest \cup split,
                  Put(inuse_list, index, size))

-----------------------------------------------------------------------------
(***************************************************************************)
(* Rows of blocks, one block in each of count neighbouring places of the   *)
(* largest size                                                            *)
(***************************************************************************)
\* Mutant of TopEntry: an entry that is too small is taken.
TopEntry_AnySize(index, size) ==
    {f \in free_lists : f.log2 = no_free_lists - 1 /\ f.index = index}

TopEntry(index, size) ==
    {f \in free_lists :
        f.log2 = no_free_lists - 1 /\ f.index = index /\ f.size >= size}

\* The step of the scan: total_size and align of alloc_multiple, in 32 bits.
RowLength(size, count) == (next_pow2(size) * count) % UINT32
RowAlign(size, count) == next_pow2(RowLength(size, count))

\* Where power2_allocator_alloc_int_v2 finds an entry for each of the count
\* blocks.  Its scan steps by align, so it stops at the lowest of these.
RowStarts(size, count) ==
    {b \in {f.index : f \in free_lists} :
        /\ b % RowAlign(size, count) = 0
        /\ \A j \in 0..(count - 1) :
              TopEntry(b + j * pow2[no_free_lists - 1], size) # {}}

\* The scan ends when no entry is at or after its index.  With an entry after
\* the last multiple of align it does not: next_index = index + align is 0
\* again in 32 bits.
ScanWraps(size, count) ==
    \E f \in free_lists : /\ f.log2 = no_free_lists - 1
                          /\ f.index >= UINT32 - RowAlign(size, count)

\* What is refused before the scan.
RowRefused(size, count) ==
    \/ ~live
    \/ total_size < RowLength(size, count)
    \/ log2_uint32_ceil(size) # no_free_lists - 1
    \/ count = 0

AllocMultipleFails(size, count) ==
    \/ RowRefused(size, count)
    \/ RowStarts(size, count) = {} /\ ~ScanWraps(size, count)

AllocMultipleHangs(size, count) ==
    /\ ~RowRefused(size, count)
    /\ RowStarts(size, count) = {} /\ ScanWraps(size, count)

AllocMultipleIndex(size, count) == Min(RowStarts(size, count))

\* A count of 1 is a call of power2_allocator_alloc.
AllocMultiple(size, count) ==
    /\ ~aborted /\ count # 1
    /\ ~RowRefused(size, count) /\ RowStarts(size, count) # {}
    /\ LET first   == AllocMultipleIndex(size, count)
           starts  == {first + j * pow2[no_free_lists - 1] : j \in 0..(count - 1)}
           entries == UNION {TopEntry(i, size) : i \in starts}
           rest    == free_lists \ entries
           split   == UNION {Chunks(no_free_lists, f.index + size, f.size - size) :
                                f \in entries}
       IN  Commit(/\ Insertable(rest, split)
                  /\ \A i \in starts : Markable(inuse_list, i),
                  rest \cup split,
                  [i \in DOMAIN inuse_list \cup starts |->
                      IF i \in starts THEN size ELSE inuse_list[i]])

\* One round of the loop of power2_allocator_release_multiple.
ReleaseOne(at, index, size) ==
    LET next  == NextStart(at.inuse, index)
        end   == index + size
        gone  == Chunks(no_free_lists, end, next - end)
        whole == Chunks(no_free_lists, index, next - index)
        rest  == at.lists \ gone
    IN  [asserts |-> /\ at.asserts
                     /\ Removable(at.lists, gone)
                     /\ Insertable(rest, whole)
                     /\ index \in DOMAIN at.inuse,
         lists   |-> rest \cup whole,
         inuse   |-> Del(at.inuse, {index})]

\* What the loop takes for granted of its count rounds: the first block is
\* aligned to the largest size, and the others follow, with the same size.
IsRow(index, count) ==
    /\ index % max_size = 0
    /\ \A j \in 0..(count - 1) :
          /\ index + j * max_size \in DOMAIN inuse_list
          /\ inuse_list[index + j * max_size] = inuse_list[index]

\* The state of the loop after each of its count rounds.
ReleaseRounds(index, count) ==
    LET size == inuse_list[index]
        after[i \in 0..count] ==
            IF i = 0
            THEN [asserts |-> get_index_size_asserts(index),
                  lists |-> free_lists, inuse |-> inuse_list]
            ELSE ReleaseOne(after[i - 1],
                            index + (i - 1) * pow2[no_free_lists - 1], size)
    IN  after

ReleaseMultiple(index, count) ==
    /\ live /\ ~aborted /\ count # 1
    /\ index \in DOMAIN inuse_list
    /\ log2_uint32_ceil(inuse_list[index]) = no_free_lists - 1
    /\ LET end == ReleaseRounds(index, count)[count]
       IN  Commit(end.asserts, end.lists, end.inuse)

\* The client goes on with the copy power2_allocator_make_copy returns and
\* destroys the original.
MakeCopy ==
    /\ live /\ ~aborted
    /\ free_lists' = UNION {{f \in free_lists : f.log2 = n} :
                               n \in 0..(no_free_lists - 1)}
    /\ inuse_list' = [i \in DOMAIN inuse_list |-> inuse_list[i]]
    /\ UNCHANGED <<live, max_size, total_size, no_free_lists, aborted>>

\* Callers of release_multiple give back rows only.
Next ==
    \/ \E args \in CreateArgs : Create(args[1], args[2])
    \/ Destroy
    \/ MakeCopy
    \/ \E size \in Sizes : Alloc(size)
    \/ \E index \in DOMAIN inuse_list : Release(index)
    \/ \E index \in Indexes, size \in Sizes : Reserve(index, size)
    \/ \E size \in Sizes, count \in Counts : AllocMultiple(size, count)
    \/ \E index \in DOMAIN inuse_list, count \in Counts :
          IsRow(index, count) /\ ReleaseMultiple(index, count)

Spec == Init /\ [][Next]_vars

-----------------------------------------------------------------------------
(***************************************************************************)
(* Queries                                                                 *)
(***************************************************************************)
power2_allocator_usage == SumFunction(inuse_list)

power2_allocator_alloc_count == Cardinality(DOMAIN inuse_list)

power2_allocator_alloc_count_by_size(size) ==
    IF size > max_size THEN 0
    ELSE Cardinality({i \in DOMAIN inuse_list : inuse_list[i] = size})

\* The first block, and the first one after index idx.
power2_allocator_first_alloc ==
    IF DOMAIN inuse_list = {} THEN -1 ELSE Min(DOMAIN inuse_list)
power2_allocator_next_alloc(idx) ==
    LET later == {i \in DOMAIN inuse_list : i > idx}
    IN  IF later = {} THEN -1 ELSE Min(later)

-----------------------------------------------------------------------------
(***************************************************************************)
(* Properties                                                              *)
(***************************************************************************)
Span(i, n) == i .. (i + n - 1)

InUse == UNION {Span(i, inuse_list[i]) : i \in DOMAIN inuse_list}

\* The indexes that nobody holds.
Free == (0..(total_size - 1)) \ InUse

(***************************************************************************)
(* The fields of power2_allocator_t have the values their C types allow    *)
(* and every list entry names one of the allocator's lists.                *)
(***************************************************************************)
TypeOK ==
    /\ live \in BOOLEAN /\ aborted \in BOOLEAN
    /\ max_size \in 0..(UINT32 - 1) /\ total_size \in 0..(UINT32 - 1)
    /\ no_free_lists \in 0..33
    /\ free_lists \subseteq [log2 : 0..(no_free_lists - 1),
                             index : 0..(UINT32 - 1), size : 1..(UINT32 - 1)]
    /\ DOMAIN inuse_list \subseteq 0..(UINT32 - 1)
    /\ inuse_list \in [DOMAIN inuse_list -> 0..(UINT32 - 1)]

(***************************************************************************)
(* No bf_sys_assert in the operations ever fails: the entries a release or *)
(* a reservation takes out of the lists are there with the sizes it works  *)
(* out again from the neighbouring blocks, and none it puts in is there.   *)
(***************************************************************************)
NoAssertFails == ~aborted

\* power2_allocator_assert: entries of a fitting list, no two of them and no
\* two blocks overlapping, every index below total_size in one of either and
\* nothing above it, and power2_allocator_free_list_assert for the space
\* before each block and after the last.
power2_allocator_assert ==
    /\ \A f \in free_lists :
          f.size <= pow2[f.log2] /\ 2 * f.size > pow2[f.log2]
    /\ \A f, g \in free_lists :
          f # g => Span(f.index, f.size) \cap Span(g.index, g.size) = {}
    /\ \A i, j \in DOMAIN inuse_list :
          i # j => Span(i, inuse_list[i]) \cap Span(j, inuse_list[j]) = {}
    /\ UNION {Span(f.index, f.size) : f \in free_lists} = Free
    /\ InUse \subseteq 0..(total_size - 1)
    /\ \A i \in DOMAIN inuse_list \cup {total_size} :
          LET prev == PrevEnd(inuse_list, i)
          IN  Chunks(no_free_lists, prev, i - prev) \subseteq free_lists

(***************************************************************************)
(* power2_allocator_assert, which the code runs after every operation when *)
(* it is built with POWER2_ALLOCATOR_ASSERT, always holds: list entries    *)
(* and blocks cover every index below total_size exactly once, and the     *)
(* space between two blocks is split the way later operations expect it.   *)
(***************************************************************************)
ListsConsistent == live => power2_allocator_assert

(***************************************************************************)
(* power2_allocator_alloc turns a request of up to max_size down only when *)
(* no aligned run of free indexes can hold it, however the free space came *)
(* about, and otherwise returns the start of such a run.                   *)
(***************************************************************************)
AllocExact ==
    live => \A size \in Sizes \cap 1..max_size :
        LET runs == {i \in 0..(total_size - size) :
                        i % next_pow2(size) = 0 /\ Span(i, size) \subseteq Free}
        IN  IF AllocFails(size) THEN runs = {} ELSE AllocIndex(size) \in runs

(***************************************************************************)
(* power2_allocator_alloc_multiple, for sizes that round up to max_size,   *)
(* turns a request down only when there is no row of count free blocks at  *)
(* a multiple of the power of two the whole row rounds up to, and returns  *)
(* the lowest such row otherwise, although it looks at one list only.  Its *)
(* scan ends, also when the length of the row wraps around in 32 bits.     *)
(***************************************************************************)
AllocMultipleExact ==
    live => \A size \in Sizes \cap 1..max_size, count \in Counts \ {0, 1} :
        next_pow2(size) = max_size =>
            LET rows == {i \in 0..total_size :
                            /\ i % next_pow2(max_size * count) = 0
                            /\ \A j \in 0..(count - 1) :
                                  Span(i + j * max_size, size) \subseteq Free}
            IN  /\ ~AllocMultipleHangs(size, count)
                /\ IF AllocMultipleFails(size, count) THEN rows = {}
                   ELSE rows # {} /\ AllocMultipleIndex(size, count) = Min(rows)

(***************************************************************************)
(* When everything has been released, in whatever order, the free space is *)
(* whole again: the lists are the ones power2_allocator_create made.       *)
(***************************************************************************)
ReleasedIsWhole ==
    live /\ inuse_list = NoBlocks =>
        free_lists = {[log2 |-> no_free_lists - 1, index |-> i, size |-> max_size] :
                         i \in {j \in 0..(total_size - 1) : j % max_size = 0}}

(***************************************************************************)
(* No index is counted twice or lost: power2_allocator_usage and the sizes *)
(* in the free lists add up to total_size.  A client that walks through    *)
(* the blocks by first_alloc and next_alloc comes by all of them, each     *)
(* behind the end of the one before, and the counts by size add up to      *)
(* theirs, save that blocks above max_size, which reserve makes, have no   *)
(* count of their own.                                                     *)
(***************************************************************************)
UsageAddsUp ==
    LET starts == DOMAIN inuse_list
        walk   == {power2_allocator_next_alloc(i) : i \in starts}
        large  == {i \in starts : inuse_list[i] > max_size}
        counts == [n \in 0..total_size |-> power2_allocator_alloc_count_by_size(n)]
    IN  /\ power2_allocator_usage + SumFunction([f \in free_lists |-> f.size])
               = total_size
        /\ ({power2_allocator_first_alloc} \cup walk) \ {-1} = starts
        /\ \A i \in starts : LET j == power2_allocator_next_alloc(i)
                             IN  j # -1 => j >= i + inuse_list[i]
        /\ power2_allocator_alloc_count = Cardinality(large) + SumFunction(counts)

(***************************************************************************)
(* A client sees an allocator of disjoint blocks: every step of the        *)
(* implementation is a step of BlockAllocator or changes nothing a client  *)
(* can see.                                                                *)
(***************************************************************************)
Blocks == INSTANCE BlockAllocator WITH
             MaxIndex <- UINT32 - 1, open <- live, capacity <- total_size,
             blocks <- inuse_list

ImplementsBlockAllocator == Blocks!ASpec

(***************************************************************************)
(* power2_allocator_reserve, which looks at the two neighbouring blocks    *)
(* only, accepts a range exactly when all of it is free and below          *)
(* total_size.                                                             *)
(***************************************************************************)
ReserveExact ==
    live => \A index \in Indexes, size \in Sizes :
        ReserveStatus(index, size) = 0 <=> Span(index, size) \subseteq Free
=============================================================================
