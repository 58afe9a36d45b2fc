--------------------------- MODULE BlockAllocator ---------------------------
(***************************************************************************)
(* What a block allocator promises its clients, with nothing said about    *)
(* how it finds space: a client owns blocks of consecutive indexes, no     *)
(* index belongs to two blocks, and a block stays where it is, with the    *)
(* size it was given, until that client gives it back.                     *)
(***************************************************************************)
EXTENDS Integers

CONSTANT MaxIndex           \* no index at or above this is ever handed out

VARIABLES open,             \* the allocator exists
          capacity,         \* indexes 0..capacity-1 may be handed out
          blocks            \* first index of each owned block -> its size

avars == <<open, capacity, blocks>>

\* The indexes of the block of n indexes at i.
Span(i, n) == i .. (i + n - 1)

\* Every index some client owns.
Owned == UNION {Span(i, blocks[i]) : i \in DOMAIN blocks}

NoBlocks == [i \in {} |-> 0]

AInit == open = FALSE /\ capacity = 0 /\ blocks = NoBlocks

AOpen(c) ==
    /\ ~open
    /\ open' = TRUE /\ capacity' = c /\ blocks' = NoBlocks

AClose ==
    /\ open
    /\ open' = FALSE /\ capacity' = 0 /\ blocks' = NoBlocks

\* The starts in S become the starts of new blocks of n indexes each; all of
\* them are free, and apart from one another.
AAcquire(S, n) ==
    /\ open
    /\ \A i \in S : Span(i, n) \subseteq (0..(capacity - 1)) \ Owned
    /\ \A i, j \in S : i # j => Span(i, n) \cap Span(j, n) = {}
    /\ blocks' = [i \in DOMAIN blocks \cup S |->
                     IF i \in S THEN n ELSE blocks[i]]
    /\ UNCHANGED <<open, capacity>>

\* The blocks that start at the indexes in S are given back.
ARelease(S) ==
    /\ open
    /\ S \subseteq DOMAIN blocks
    /\ blocks' = [i \in DOMAIN blocks \ S |-> blocks[i]]
    /\ UNCHANGED <<open, capacity>>

\* k starts, d indexes apart, the first at i.
Row(i, k, d) == {i + j * d : j \in 0..(k - 1)}

ANext ==
    \/ \E c \in 0..MaxIndex : AOpen(c)
    \/ AClose
    \/ \E i \in 0..(capacity - 1), n \in 1..capacity : AAcquire({i}, n)
    \/ \E i \in DOMAIN blocks : ARelease({i})
    \/ \E i \in 0..(capacity - 1), k \in 2..capacity, d \in 1..capacity :
          \/ \E n \in 1..d : AAcquire(Row(i, k, d), n)
          \/ ARelease(Row(i, k, d))

ASpec == AInit /\ [][ANext]_avars

(***************************************************************************)
(* No index belongs to two blocks, and every block lies below capacity:    *)
(* what a client of power2_allocator_alloc, reserve and release relies on. *)
(***************************************************************************)
Exclusive ==
    /\ \A i \in DOMAIN blocks : Span(i, blocks[i]) \subseteq 0..(capacity - 1)
    /\ \A i, j \in DOMAIN blocks :
          i # j => Span(i, blocks[i]) \cap Span(j, blocks[j]) = {}
=============================================================================
