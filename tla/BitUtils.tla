------------------------------ MODULE BitUtils ------------------------------
(***************************************************************************)
(* The bit twiddling helpers of include/target-utils/bit_utils/bit_utils.h *)
(* as functions of natural numbers.  A C shift 1u << n is pow2[n]; the     *)
(* compiler's count-leading-zeroes and count-trailing-zeroes are described *)
(* by the position they find.                                              *)
(***************************************************************************)
EXTENDS Integers

\* 1u << n.
pow2[n \in 0..32] == IF n = 0 THEN 1 ELSE 2 * pow2[n - 1]

\* 32 - clz(x - 1) for x > 1: the length in bits of x - 1.
log2_uint32_ceil(x) ==
    IF x > 1 THEN CHOOSE n \in 1..32 : pow2[n - 1] < x /\ x <= pow2[n] ELSE 0

\* 31 - clz(x): the position of the highest bit of x.
log2_uint32_floor(x) ==
    IF x > 0 THEN CHOOSE n \in 0..31 : pow2[n] <= x /\ x < pow2[n + 1] ELSE 0

\* The position of the lowest bit of x; 32 when there is none.
ctz(x) ==
    IF x > 0 THEN CHOOSE n \in 0..31 : x % pow2[n] = 0 /\ x % pow2[n + 1] # 0
             ELSE 32

\* x & (x - 1) takes the lowest bit away from x.
is_uint32_power2(x) == x > 0 /\ x - pow2[ctz(x)] = 0

next_pow2(x) == pow2[log2_uint32_ceil(x)]

\* x & ~((1 << n) - 1): x rounded down to a multiple of 1 << n.
ClearLow(x, n) == x - (x % pow2[n])
=============================================================================
