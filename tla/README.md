# target-utils in TLA+

`target-utils` is a C library of data structures that P4 drivers share:
allocators, sets, maps, lists and a search tree. It keeps no threads, no
persistent state and no messages; every function runs to its end in the
caller's thread. What is hard in it are the long sequences of legal calls that
bring a structure into a shape no test builds, the boundaries of unsigned
arithmetic, and the loops that repair or search a structure and must come to an
end. Where memory can run out in the middle of a call and the code goes on, that
is a step of the model. The models are about these.

Paths below are relative to the repository.

## Inventory

| Component | State | Operations | What makes it right |
|---|---|---|---|
| Power-of-two allocator, `src/power2_allocator/power2_allocator.c` | per power of two a list of free entries (index, size); the list of blocks in use | create, destroy, make_copy, alloc, release, reserve, alloc_multiple, release_multiple, usage, counts, iterators, a self-check | blocks never overlap; free entries and blocks partition the range; free space is always split the way the next call expects; a request fails only if nothing fits; everything joins again when released |
| Bit helpers, `include/target-utils/bit_utils/bit_utils.h` | none | log2 up and down, ctz, power-of-two tests | their boundaries (0, 1, powers of two) |
| Id allocator, `src/id/id.c` | the set of ids in use, a size, a base | new, destroy, allocate, allocate_contiguous, release, set, is_set, get_first, get_next, copy | ids handed out are free and in range; refusals are justified; the search ends |
| Red-black tree, `src/rbt/rbt.c` | nodes with key, color, three pointers and data; the head pointer | insert, remove, lower and upper bound, lowest, highest | linked, ordered, balanced after every call; keys keep their data; the repair loops end |
| Bitset, `src/bitset/bitset.c` | an array of 64-bit words and a width | set, get, set_all, first_set, first_clr, words, copies, counts | agrees with a plain set of positions at every width |
| Judy bitset, `src/fbitset/fbitset.c` | a Judy1 array and a width | set, get, searches for runs of clear bits | finds a run exactly when there is one; ends |
| Map, `src/map/map.c` | a JudyL array | add, remove, get, first, next, counts | behaves as a partial function; status codes |
| Hash table, `src/hashtbl/hashtbl.c` | a tommy_hashlin of list nodes | init, insert, search, remove, foreach, delete | every node is freed once |
| List macros, `include/target-utils/list/bf_list.h` | `next`/`prev` pointers, the head's `prev` is the tail | prepend, append, remove, concatenate, last | the pointers spell one sequence in both directions |
| Version, `src/target_utils.c` | none | returns a string | - |

Components do not call one another, apart from the allocators and the map using
the bit helpers and Judy arrays. The vendored code under `third-party/` has no
module of its own: a Judy array is the set or the partial function it stands for,
and the operators for its macros say what the Judy functions return, including
what a search leaves in its index argument. They are mapped to the part of
`JudyFirst.c`, `JudyPrevNext.c` and `JudyPrevNextEmpty.c` that treats the array as
a whole; the tree in which Judy keeps it is left out.

## Plan

1. (done) `BitUtils`, `Power2Allocator` and the abstract `BlockAllocator` it
   implements; `IdAllocator`; `Rbt`; proofs for `IdAllocator` and
   `BlockAllocator`.
2. (done) The remaining components, one module each: `DList`, `FBitset`,
   `Bitset`, `Map` and `HashTable`.
3. (done) Proofs for the list macros, `Map`, `FBitset`, `HashTable`, the rest of
   `IdAllocator`, and the power-of-two allocator: everything the runs check of
   these by an invariant, and the refinement of `BlockAllocator`.
4. (done) Proofs for `Bitset`: everything its run checks.
5. (done) Proofs for the red-black tree: every invariant of its run.

## Modules

| Module | Models | Runs |
|---|---|---|
| `BitUtils` | the helpers of `bit_utils.h` over naturals | - |
| `BlockAllocator` | what a client of a block allocator sees: blocks, taken and given back, singly or as a row | as a property of `power2` |
| `Power2Allocator` | `power2_allocator.c` | `power2*` (`MCPower2`) |
| `IdAllocator` | `id.c` | `id`, `id_*` (`MCId`) |
| `Rbt` | `rbt.c` | `rbt` (`MCRbt`) |
| `DList` | `bf_list.h` | `dlist` (`MCDList`) |
| `FBitset` | `fbitset.c` | `fbitset` (`MCFBitset`) |
| `Bitset` | `bitset.c` | `bitset`, `bitset_*` (`MCBitset`) |
| `Map` | `map.c` | `map` (`MCMap`) |
| `HashTable` | `hashtbl.c` | `hashtbl` (`MCHashTable`) |
| `Power2AllocatorProofs`, `IdAllocatorProofs`, `RbtProofs`, `FBitsetProofs`, `BitsetProofs`, `MapProofs`, `HashTableProofs`, `DListProofs` | theorems about the module each is named after | - |

**Power2Allocator.** The fields of `power2_allocator_t` are variables.
`free_lists` is one set of entries `[log2, index, size]` and `inuse_list` a
partial function. `Chunks` is the loop shared by
`power2_allocator_insert_one_free`, `power2_allocator_remove_free_index` and
`power2_allocator_free_list_assert`, which splits free space into aligned
entries, and `ReleaseRounds` the state of `power2_allocator_release_multiple`
after each of its rounds. Each public operation that changes state is one action. A call that
returns an error changes nothing, so there is no action for it; whether a call
fails is an operator (`AllocFails`, `AllocMultipleFails`, `ReserveStatus`) about
which properties speak. The scan for a row steps by `align`; `RowStarts` are the
places where it would stop, and `ScanWraps` says when its next index is 0 again in
32 bits, so that it goes on forever (`AllocMultipleHangs`). Each action gathers the `bf_sys_assert`s it passes, and
`Commit` sets `aborted` when one of them is false: the program then stops.
`MakeCopy` lets the client go on with the copy and drop the original. Memory
never runs out.

**BlockAllocator.** The promise without the free lists. `Power2Allocator`
instantiates it with `open <- live`, `capacity <- total_size`,
`blocks <- inuse_list`; the property `ImplementsBlockAllocator` says that each of
its steps is a step of that specification.

**IdAllocator.** The Judy1 array is a set of indexes. `allocate_contiguous` runs
one round of its loop per step, with its locals as variables and with `Word_t`
arithmetic modulo `WORD`; the other functions are one step. `IndexAfterFailure`
is the one thing about Judy that is not obvious: a `J1N` that finds nothing in a
non-empty array leaves its index argument advanced by one
(`third-party/judy-1.0.5`, `JudyPrevNext.c`), and `id.c` goes on to use it.

**Rbt.** Nodes are records in a memory `rbt.node`, pointers are their addresses.
An insertion adds the node in one step and repairs the tree one recursive call
at a time; a removal moves keys and data up to a leaf, goes round the balancing
loop one round at a time, and unlinks the leaf. Sides are chosen as in the code,
by comparing keys or pointers, also while two nodes share a key. The code
compares addresses only with NULL and with the head, so a node is named after
its key whenever no call is running; this merges states that differ only in
addresses.

**DList.** `head`, `n` and `p` are the list variables and the pointers of the
elements, and each macro is one action on them. The history variable `list`
records the order in which a client has put elements into each list; the
properties say that the pointers spell it. Clients put an element into one list
at a time and remove it from the list it is in, which the macros take for
granted.

**FBitset.** The Judy1 array is a set of positions. The two searches go one round
of their loop per step; `position` holds the argument after the code has made it
inclusive. `unsigned` and `Word_t` arithmetic is modulo `UINT` and `WORD`. When
`J1S` or `J1U` runs out of memory, `Set` leaves the bit alone and returns as
usual, as the code does.

**Bitset.** A word of `W` bits is the set of the positions of its ones, so that
shifts and masks are set expressions. Each bitset has memory that goes on after
its array: a write past the end is a change there, not an error of the model.
`InitAgain` is `bf_bs_init` over the same memory with another width, the way bits
come to be set that are not part of the bitset. `Query` and `Equal` are the
masking of the last word that the functions which only look at the bitset do
first; what they answer are operators. The history variable `bits` is what the
calls have made of each bitset, as a plain set of positions. `bf_bs_copy_range`
may be called with any range that its own two assertions admit, also within one
bitset. It is a loop of reads and writes of up to a word: `CopyPieces` is the loop
on words and `CopiedBits` the same loop on sets of positions, and both stop at the
piece for which `bf_bs_get_word` or `bf_bs_set_word` fails an assertion, which
sets `aborted`. `HoldsBits` compares the two; whether the loop copies the range
that was asked for is the question of `CopyRangeCopies`.

**Map.** The JudyL array is a partial function, and each function one action that
leaves its status in `sts` and what it has assigned to `*data` in `out`. Calls of one client that walks through the map lie
between those of others. `JLI` and `JLD` may fail for lack of memory (the Judy
macros of this repository are built with `JUDYERROR_NOTEST` and return the
error). `bf_map_get_rmv` and `bf_map_get_first_rmv` assign `*data` first, and what
a removal that fails has assigned by then is the map's still. `lent`
is the data the map has, as far as clients can tell from the statuses they got.

**HashTable.** `hashlin` is the sequence of the entries of the `tommy_hashlin`,
whose source is not part of the repository; that entries with one hash are found
in the order of their insertion, and that its iteration has read the next pointer
when it calls the function, is what `hashtbl.c` relies on and taken as its
contract. `data` are the nodes that are allocated. `bf_hashtbl_delete` goes one
node per step. `owner` and `order` are history: whose each object is, and in
which order the objects came. A failed allocation of a node changes nothing. The
return of NULL or `BF_HASHTBL_INVALID_ARG` for bad arguments changes nothing
either and has no action.

## Runs

Passing runs:

| Run | Bounds | Shows |
|---|---|---|
| `power2` | six geometries of up to eight indexes (8x1, 4x2, 2x4, 2x3, 1x3, and 3x2, which create rejects), all sizes up to one above the range, all indexes, counts 0 to 4 | `NoAssertFails`, `ListsConsistent`, `AllocExact`, `AllocMultipleExact`, `ReleasedIsWhole`, `UsageAddsUp`, `ReserveExact`, `ImplementsBlockAllocator` |
| `id` | sizes 0, 1, 5 and 8, runs of 1 to 4 ids | `FoundIsFree`, `FailureLeavesNoLongerRun`, `SingleIdExact`, `WalkFindsAllocated` |
| `rbt` | nine keys, in every order of insertions and removals | `Linked`, `Ordered`, `RedBlack`, `HoldsKeys`, `LookupsFind`, `CallReturns` |
| `dlist` | five elements, two lists | `Forward`, `Backward`, `LinkedWhileListed` |
| `fbitset` | widths 1, 2 and 7, every set of bits, every position, runs of 1 to 4, 7, 8 and of `UINT - 1` bits | `FirstClrExact`, `PrevClrExact`, `WalkVisitsSetBits`, `SearchReturns` |
| `bitset` | words of two bits, widths 1, 4 and 5, two bitsets, every position, size and range | `HoldsBits`, `SearchesExact`, `CountsExact`, `PastEndKept` |
| `map` | keys 0 to 3, two data pointers and NULL, a count of four values | `DataAccounted`, `WalkMissesNothing`, `WalkEnds` |
| `hashtbl` | four objects: two with one key, one whose key has the same hash under one of two seeds, one apart | `EachFreedOnce`, `SearchFindsOldest` |

With eight indexes every pair of list lengths, an entry whose size is no power of
two, and space that spans several blocks of the largest size all occur. Nine keys
are the fewest with which a removal propagates upwards and then rotates, with
more than one kind of rotation on the way; with eight the tree is too low.
Five elements give a list with a head, a tail and an inner element beside another
list to append it to. The widths of `fbitset` let runs begin and end at both ends
of the set and between two set bits, and its largest count, 31 where `unsigned` has
32 values, makes `position + count` wrap around. The three widths of
`bitset` are less than a word, whole words, and more than two words, so that a
search starts in the first, a middle and the last word, a value written at an odd
place spills over, and a range is copied from a source that is longer than it,
from one with as many words, and from one with less than a word. The type and the
numbers 64 and 2^32 enter these only as the constants that stand for them. Four
keys leave room for one before, at and after the place where a walk stands, and
one to come later; with all four in the map the count, of type `uint32_t` in the
code, wraps around.

Runs that are expected to find a violation each document a place where the code
does not do what a comment or an assertion next to it says:

| Run | Property | What happens |
|---|---|---|
| `id_range` | `FoundInRange` | a run of ids beyond the size is handed out |
| `id_hang` | `CallReturns` | the search goes round forever |
| `bitset_search` | `FullBitsetSearched` | in a full bitset of two bits, with words of three, a search for a set bit from 0 returns 1, and one for a clear bit returns 2, the width, instead of -1 |
| `bitset_range` | `CopyRangeCopies` | `bf_bs_copy_range` of a range within both bitsets fails an assertion |

The exact properties of `id` therefore speak of one id at a time, which is the use
the code supports. `SearchesExact` speaks of the bits after `position`, since the
code begins there, where `bitset.h` (lines 46 and 50) has it begin at `position`,
and asks of `bf_bs_first_clr` only that it finds a clear bit if there is one.

Other places where the code differs from what it says have no run of their own;
the runs keep to the use that the code supports, and the properties say where it
ends.

- `power2_allocator_alloc` and `power2_allocator_reserve` accept size 0 and record
  a block of size 0, which `power2_allocator_get_index_size` then asserts cannot
  exist (line 219). `power2` asks for sizes from 1 up.
- `power2_allocator_reserve` compares `reserve_index + reserve_size` in 32 bits
  (line 590); a large size wraps and passes. `power2` stays within the type.
- `power2_allocator_create` computes the number of indexes in 32 bits too (line
  370), without a test. The geometries of `power2` do not wrap.
- `power2_allocator_alloc_multiple` computes `align` and the next index of its scan
  in 32 bits (lines 735 and 651). With 2^30 x 3 indexes and the first block in use,
  a request for two blocks of 2^30 steps from index 0 by 2^31 to the entry at 2^31
  and from there to 0 again, and never returns; a row of more than 2^31 indexes
  makes `align` the undefined `1 << 32`. Neither can happen in an allocator of up
  to 2^31 indexes, half of the type, and `power2` and the proofs stay within that;
  indexes are returned as `int`. `AllocMultipleExact` includes that the scan ends.
- `power2_allocator_reserve` answers 1 ("already in use", line 551) also for a
  range that is out of bounds with nothing in use, where its comment has -1.
- `power2_allocator_alloc_count_by_size` answers 0 for every size above `max_size`
  (line 837), although `power2_allocator_reserve` makes such blocks; `UsageAddsUp`
  counts these apart. Callers of `release_multiple` give back rows (`IsRow`), as
  its comment assumes.
- `bf_id_allocator_allocate_contiguous` refuses a request for exactly the ids that
  are free at the end of the range: after a `J1N` that fails, `Index` is one too
  high (`id.c` line 151). `FailureLeavesNoLongerRun` says that this is all that is
  overlooked.
- `bf_id_allocator_get_first` of a zero-based allocator returns 0 whichever id is
  the first (line 272), where its comment says that it "Finds first allocated id"
  (line 258). `WalkFindsAllocated` claims nothing of the start of a zero-based walk:
  it says that `bf_id_allocator_get_next` leads from the lowest id to all others,
  and, when ids start at 1, that `bf_id_allocator_get_first` returns the lowest.
- `bf_bs_copy` at a width that is a multiple of 64 also clears the word after the
  array of the destination (line 274). `PastEndKept` says that nothing else is
  ever written there.
- `bf_bs_copy_range` (the run `bitset_range`) copies as many whole words as the
  source has, whatever `n_bits` is (line 288), and asks for 0 bits when `n_bits`
  is a multiple of 64, which fails an assertion (line 292). With words of two bits
  and a width of five, a range of one bit is copied as five bits and nothing fails.
  It copies the range that was asked for when the source has as many whole words
  as the range and the range has a part of a word besides, in particular when the
  source has less than 64 bits.
- `bf_bs_all_1s` does not mask the unused bits of the last word as the other
  queries do; over the memory of a wider bitset it can answer false for a full
  set. `CountsExact` asks it about sets whose unused bits are clear.
- `bf_fbs_set` takes an error of Judy for a success (`fbitset.c` lines 36 to 42).

**Fairness.** `IdAllocator` (in `id_hang`), `FBitset` and `Rbt` assume weak fairness of the steps
of a call that is under way, and of nothing else: a C function that has been
entered keeps running. Clients need never call. In `Map` the client that walks is
assumed to go on calling `bf_map_get_next` until it returns `BF_MAP_NO_KEY`, since
`WalkEnds` is about such a loop; nobody has to begin one.

**Mutants.** Next to several definitions stands a variant named after it with a
suffix, marked as a mutant: the definition with a plausible slip in it. Each
property is violated by the variant listed for it in `PROJECT.json`.

## Proofs

`tlapm` checks these for all values of the constants that satisfy the named
assumptions of the modules; TLC evaluates the assumptions in the runs. Each
component has an inductive invariant, one lemma per action or group of actions,
and a theorem that the invariant holds (`Invariance`, for the tree
`TreeInvariant` and `BalanceInvariant`) from which the others follow. TLC has
checked each invariant on the instance of the component's run as well, except
those of the tree, which speak of functions that exist. Facts about least and
greatest numbers and about sums are at the head of each module that uses them.

| Module | Theorems | Property |
|---|---|---|
| `Power2AllocatorProofs` | `TypeCorrect`, `AssertsNeverFail`, `ListsAlwaysConsistent`, `AllocAlwaysExact`, `AllocMultipleAlwaysExact`, `ReserveAlwaysExact`, `ReleasedAlwaysWhole`, `UsageAlwaysAddsUp`, `Refinement` | `TypeOK`, `NoAssertFails`, `ListsConsistent`, `AllocExact`, `AllocMultipleExact`, `ReserveExact`, `ReleasedIsWhole`, `UsageAddsUp`, `ImplementsBlockAllocator` |
| | `BlocksExclusive` | `Exclusive` of `BlockAllocator`, for the blocks of the implementation |
| `IdAllocatorProofs` | `TypeCorrect`, `NoIdTwice`, `FailureAlwaysJustified`, `SingleIdAlwaysExact`, `WalkAlwaysFindsAllocated` | `TypeOK`, `FoundIsFree`, `FailureLeavesNoLongerRun`, `SingleIdExact`, `WalkFindsAllocated` |
| `RbtProofs` | `TypeCorrect`, `StaysLinked`, `StaysOrdered`, `StaysBalanced`, `KeysHeld`, `LookupsCorrect` | `TypeOK`, `Linked`, `Ordered`, `RedBlack`, `HoldsKeys`, `LookupsFind` |
| `FBitsetProofs` | `TypeCorrect`, `FirstClrAlwaysExact`, `PrevClrAlwaysExact`, `WalkAlwaysVisits` | `TypeOK`, `FirstClrExact`, `PrevClrExact`, `WalkVisitsSetBits` |
| `BitsetProofs` | `AlwaysHoldsBits`, `SearchesAlwaysExact`, `CountsAlwaysExact`, `PastEndAlwaysKept` | `HoldsBits`, `SearchesExact`, `CountsExact`, `PastEndKept` |
| `MapProofs` | `DataAlwaysAccounted`, `WalkNeverMisses` | `DataAccounted`, `WalkMissesNothing` |
| `HashTableProofs` | `EachAlwaysFreedOnce`, `SearchAlwaysFindsOldest` | `EachFreedOnce`, `SearchFindsOldest` |
| `DListProofs` | `ForwardAlways`, `BackwardAlways`, `LinkedAlways` | `Forward`, `Backward`, `LinkedWhileListed` |

**Power2AllocatorProofs.** `ArgsAssumption`: `uint32_t` has at most 32 bits; an
allocator has at most half as many indexes as `uint32_t` has values, and the end
of a range that is reserved does not wrap around; no size is 0. The code neither
tests for the opposite nor works then (see the list above). The length of a row
may wrap. `ScanEnds` is where the half is needed: `align` is then at most half of
the values of the type, no entry lies at or after its last multiple, and so the
scan for a row runs out of entries before its index wraps.

The invariant `PInv` says of an allocator that exists that its blocks do not
overlap (`BlocksOk`) and that the free lists are `Canonical`: the entries that
the splitting loop makes of each gap between two neighbouring blocks. None of
the properties is inductive without it. A release removes the entries of the gap
before and behind the block and inserts those of the joined gap, so that its
assertions pass only if the lists hold exactly what the loop would make of the
gaps now, however they came about; and the largest size that fits is visible in
the lists only because no gap is split finer than the loop would split it.

An allocation splits one entry and leaves the rest of the gap alone, so the proof
needs that the loop, run over the two parts of the gap, gives the untouched
entries again. `SplitAtEntry` says that the loop may be cut in two at any of its
entries, since what it does next depends only on where it is and on the end of
the space, and on the end only near it. `SplitAtBarrier` says the same of an
index that no aligned block crosses, such as the end of an entry whose size is a
power of two. `SplitAround` puts these together. `TakeBlock`, `DelBlock` and
`GiveBlock` carry it over to the lists; a row of blocks goes through `TakeRow`,
one block at a time, because each lies in an entry of its own. Exactness of
`power2_allocator_alloc` is `RunEntry`: an aligned run of free indexes lies in a
single entry, and this is in one of the lists that are searched.

The refinement maps the fields as the module does. A step that hands out blocks
is one of `BlockAllocator` because `BlocksOk` holds afterwards. `BlocksExclusive`
is the promise of the abstract allocator, for the blocks of the implementation.

For `UsageAddsUp` a sum over a set is compared with a cardinality: `SumIs` says
that a function of finite sets which grows by `F[x]` with each element `x` is the
sum of `F`, and `SumOfPieces` that the sizes of sets that share no element add up
to the size of their union. Blocks, free entries and the blocks of one size are
such sets.

The recursive definitions `pow2`, `ChunksTo` and `ReleaseRounds` are functions,
and what they compute is shown by least counterexamples (`LeastNat`, `Downwards`)
where an induction theorem would need an operator as its argument.

**IdAllocatorProofs.** `WordAssumption`: sizes and counts are words, and a size
plus a count does not overflow. `FoundIsFree` alone is not inductive: it speaks of
the moment before the bits are set. `IInv` adds what holds in the loop, `LoopInv`:
no bit is set from `first_empty` up to `next_set`, or, when `next_set` is the stale
one of an earlier round, none from `first_empty` on. In the first case the run is
free because the loop's test bounds it by `next_set`; in the second everything
above is free, so it does not matter that the unsigned difference has wrapped.
`CallInv` says which locals are in use. `SInv` adds that no run that is longer
than the one asked for begins before `first_empty`, from which the refusals
follow, and that a call for one id never enters the loop.

**RbtProofs.** `KeysAssumption`: keys are naturals and NULL is none. The number of
keys is arbitrary, infinite included; a tree has finitely many nodes.

Ways through a tree have any length, and what lies below a node is defined by
recursion. The proofs do without: `Shape(s, D)` says of a function `D` that it
satisfies the equations of "the nodes below", and the pointers of `s` form a tree
just when there is such a function. A step then gives the new `D` from the old one
(`TurnedD` for a rotation, where it changes at two nodes) and shows the equations
again, node by node. `B` in `Black(s, B, res, x)` is the same for the number of
black nodes on the ways down. Statements about all nodes below one are proved
by a least counterexample in the size of `D[n]` (`TreeInduction`,
`BelowInduction`), those about all nodes above one in the depth, and the searches
down the tree are recursive functions of which `WalkDown` says once that they are
what their definitions say.

`TreeInv` says that such a `D` exists and that the keys are `Sorted` by it, with
one exception: between the move of the keys and the unlinking, the leaf `res_node`
may hold the same key as a node above it. The properties are about
the time between two calls and none is inductive without what holds within a call:
`Direction`, `Neighbor`, `Rotate` and the unlinking find the pointers they change
by comparing keys, so the proof is that they find the right ones even then
(`DirectionIs`, `RotateKeeps`, `CutIs`). For the order after a removal,
`ReplacedIs` and `MovedTree` follow the keys up along the chain of successors and
predecessors.

`BalInv` says that a `B` exists with the exceptions of a running call. During an
insertion only `cur` may be red with a red kid, and the color of `cur` tells the
repair when to stop. During a removal `res_node` counts as nothing already, and
one black node is missing on every way through `cur` (`Seen`), which is not red;
hence the neighbor of `cur` exists and has one black node more
(`DeleteSums`), and each round moves the missing node up, finds a place for it, or
brings another case about (`LightenedBal`, `DeleteRotateFarBal`, `RotateBal`). At
the head it is missing everywhere and no longer counts. `BlackAboveIs` takes the
count from below to the one from above of which `RedBlack` speaks.

**FBitsetProofs.** `WidthAssumption`: `unsigned` is narrower than `Word_t`, and a
width is a positive `int` with room for one more above it. `UpInv` and
`DownInv` are the invariants of the two loops: every run that counts begins at or
after `free_index`, or ends at or before it. Each round leaves behind only
positions from which a run would have to cross a set bit; the cases in which the
arithmetic wraps are those in which nothing is left to search.

**BitsetProofs.** `WidthAssumption`: a word has at least one bit, and the widths
are positive and finite in number, so that the memory behind the bitsets has an
end. `BInv` says that the history `bits` is what the words hold below the width
(`Bits`). A position is taken to its word and back by `Place` and `PlaceIs`; from
there on everything is said of single bits (`Bit`). `SetWordIs` and `GetWordIs`
say what a write and a read of up to a word do to each bit when the window lies
across two words. `CopyPiecesIs` and `CopiedBitsAre` follow the loop of
`bf_bs_copy_range` piece by piece, on words and on sets of positions, up to the
piece at which it ends or fails an assertion, and `CopyRangeKeeps` concludes that
the words hold what was written, whichever bits those were. `FindIs` says what the
search over masked words returns, for set and, on the complements, for clear bits.
The population count is a sum over words and is compared with the cardinality of
`bits` by `SumIs`.

**MapProofs.** `KeyAssumption`: keys are naturals, NULL and the status for a
missing key are no data, and the count has at least one value. `Lent` relates the data under the keys to what the
clients have lent; `OutLent` says that what a call has assigned without returning
`BF_MAP_OK` is among it; `DueThere` says that a key the walk has to visit is still
there, which is why a walk that finds no further key has visited them all.

**HashTableProofs.** `HashAssumption`: hashes are numbers and NULL is no object.
`Held`, `Owns` and `InOrder` relate entries, nodes, objects and their owners, in
a table and in one that is being deleted; the hash function is arbitrary.

**DListProofs.** `NullAssumption`: NULL is no element. `Spells` says what it means
that pointers spell a sequence. `DInv` adds that no element is in two places, since
a macro on one list would otherwise change another, and that an element outside
has no pointers. One lemma per macro says what it does to a single chain.

Only model-checked:

- All liveness (`SearchReturns`, `WalkEnds`, `CallReturns` of the tree), which is
  out of the prover's reach.
- The four violations.

## Not modelled

`power2_allocator_set`, which is compiled out (`NOT_COMPLETE`), printing and the
self-test of the power-of-two allocator; `bf_id_allocator_copy`, whose body is
empty; `bf_sys_malloc` failing in `bf_hashtbl_init`, which does not test for it;
running out of memory in the two allocators; the version string; the vendored
libraries. The components do not call one another, so there is nothing to
compose.
