----------------------- MODULE Power2AllocatorProofs ------------------------
(***************************************************************************)
(* Proofs about Power2Allocator, for every sequence of calls with sizes,   *)
(* indexes and counts that ArgsAssumption allows.                          *)
(*                                                                         *)
(* The calls change the free lists locally: they take an entry out, merge  *)
(* what lies around a released block and split what is left.  That the     *)
(* result is again what the loop would make of the whole gap rests on two  *)
(* facts about the loop: it may be cut in two at an entry (SplitAtEntry)   *)
(* and at an index that no aligned block crosses (SplitAtBarrier).  So,    *)
(* whatever the calls were, the free lists are the entries of the gaps     *)
(* between the blocks (Canonical), and this is the inductive invariant     *)
(* PInv.                                                                   *)
(***************************************************************************)
EXTENDS Power2Allocator, FiniteSetTheorems, WellFoundedInduction, TLAPS

-----------------------------------------------------------------------------
(***************************************************************************)
(* Numbers                                                                 *)
(***************************************************************************)

(***************************************************************************)
(* A set of natural numbers that is not empty has a least element.  The    *)
(* inductions of the proofs are appeals to this fact, applied to the set   *)
(* of counterexamples.                                                     *)
(***************************************************************************)
LEMMA LeastNat ==
    ASSUME NEW S \in SUBSET Nat, S # {}
    PROVE  \E x \in S : \A y \in S : x <= y
<1> DEFINE R == OpToRel(<, Nat)
<1>1. \A x, y \in Nat : x < y => <<x, y>> \in R
  BY DEF OpToRel
<1>2. IsWellFoundedOn(R, Nat)
  BY NatLessThanWellFounded
<1> HIDE DEF R
<1>3. PICK x \in S : \A y \in S : ~ (<<y, x>> \in R)
  BY <1>2, WFMin
<1>4. ASSUME NEW y \in S PROVE x <= y
  <2>1. x \in Nat /\ y \in Nat
    OBVIOUS
  <2>2. ~ (y < x)
    BY <1>1, <1>3, <2>1
  <2> QED BY <2>1, <2>2
<1> QED BY <1>4

(***************************************************************************)
(* Min finds it.  The searches of the model are written with Min.          *)
(***************************************************************************)
LEMMA MinOfNats ==
    ASSUME NEW S \in SUBSET Nat, S # {}
    PROVE  Min(S) \in S /\ \A y \in S : Min(S) <= y
BY LeastNat DEF Min

(***************************************************************************)
(* Max finds the greatest element of a set of natural numbers that has an  *)
(* upper bound.                                                            *)
(***************************************************************************)
LEMMA MaxOfNats ==
    ASSUME NEW S \in SUBSET Nat, S # {}, NEW b \in Nat, \A y \in S : y <= b
    PROVE  Max(S) \in S /\ \A y \in S : y <= Max(S)
<1> DEFINE D == {b - y : y \in S}
<1>1. D \in SUBSET Nat /\ D # {}
  <2>1. \A y \in S : b - y \in Nat /\ b - y \in D
    OBVIOUS
  <2>2. PICK y \in S : TRUE
    OBVIOUS
  <2> QED BY <2>1, <2>2
<1>2. PICK d \in D : \A x \in D : d <= x
  BY <1>1, LeastNat
<1>3. PICK m \in S : d = b - m
  OBVIOUS
<1>4. ASSUME NEW y \in S PROVE m >= y
  <2>1. d <= b - y
    BY <1>2
  <2> QED BY <1>3, <2>1
<1>5. Max(S) \in S /\ \A y \in S : Max(S) >= y
  BY <1>4 DEF Max
<1> QED BY <1>5

(***************************************************************************)
(* A function of finite sets that grows by F[x] with every element x is    *)
(* the sum of F over the set, whatever the order in which the elements     *)
(* are added up.  This is how sums are compared with cardinalities.        *)
(***************************************************************************)
LEMMA SumIs ==
    ASSUME NEW S, IsFiniteSet(S), NEW F, NEW h,
           h[{}] = 0,
           \A s \in SUBSET S : \A x \in s : h[s] = F[x] + h[s \ {x}]
    PROVE  SumFunctionOnSet(F, S) = h[S]
<1> DEFINE Body(g) == [s \in SUBSET S |->
                          IF s = {} THEN 0
                          ELSE LET x == CHOOSE x \in s : TRUE
                               IN  F[x] + g[s \ {x}]]
           g == CHOOSE g : g = Body(g)
           hs == [s \in SUBSET S |-> h[s]]
<1>1. SumFunctionOnSet(F, S) = g[S]
  BY DEF SumFunctionOnSet, FoldFunctionOnSet, MapThenFoldSet
<1>2. hs = Body(hs)
  <2>1. ASSUME NEW s \in SUBSET S, s # {}
        PROVE  h[s] = LET x == CHOOSE x \in s : TRUE IN F[x] + hs[s \ {x}]
    <3> DEFINE x == CHOOSE x \in s : TRUE
    <3>1. x \in s
      BY <2>1
    <3>2. hs[s \ {x}] = h[s \ {x}]
      OBVIOUS
    <3>3. h[s] = F[x] + h[s \ {x}]
      BY <3>1
    <3> QED BY <3>2, <3>3
  <2> QED BY <2>1
<1>3. g = Body(g)
  <2> HIDE DEF Body, hs
  <2> QED BY <1>2
<1>4. ASSUME NEW s \in SUBSET S 
      PROVE  g[s] = IF s = {} THEN 0
                    ELSE LET x == CHOOSE x \in s : TRUE IN F[x] + g[s \ {x}]
  <2> HIDE DEF g
  <2> QED BY <1>3
<1> HIDE DEF g
<1> DEFINE Bad == {n \in Nat : \E s \in SUBSET S : Cardinality(s) = n /\ g[s] # h[s]}
<1>5. Bad = {}
  <2> SUFFICES ASSUME Bad # {} PROVE FALSE
    OBVIOUS
  <2>1. PICK n \in Bad : \A m \in Bad : n <= m
    <3>1. Bad \in SUBSET Nat
      OBVIOUS
    <3> HIDE DEF Bad
    <3> QED BY <3>1, LeastNat
  <2>2. PICK s \in SUBSET S : Cardinality(s) = n /\ g[s] # h[s]
    OBVIOUS
  <2>3. IsFiniteSet(s)
    BY FS_Subset
  <2>4. CASE s = {}
    BY <1>4, <2>2, <2>4
  <2>5. CASE s # {}
    <3> DEFINE x == CHOOSE x \in s : TRUE
    <3>1. x \in s
      BY <2>5
    <3>2. g[s] = F[x] + g[s \ {x}]
      BY <1>4, <2>5
    <3> HIDE DEF x
    <3>3. h[s] = F[x] + h[s \ {x}]
      BY <3>1
    <3>4. Cardinality(s \ {x}) = n - 1 /\ Cardinality(s \ {x}) \in Nat
      BY <2>2, <2>3, <3>1, FS_RemoveElement, FS_CardinalityType
    <3>5. n - 1 \notin Bad
      BY <2>1
    <3>6. g[s \ {x}] = h[s \ {x}]
      BY <3>4, <3>5
    <3> QED BY <2>2, <3>2, <3>3, <3>6
  <2> QED BY <2>4, <2>5
<1>6. Cardinality(S) \in Nat
  BY FS_CardinalityType
<1> QED BY <1>1, <1>5, <1>6

-----------------------------------------------------------------------------
(***************************************************************************)
(* Powers of two                                                           *)
(***************************************************************************)

(***************************************************************************)
(* pow2 is the function its definition says it is.                         *)
(***************************************************************************)
LEMMA Pow2Recursion ==
    /\ pow2[0] = 1
    /\ \A n \in 1..32 : pow2[n] = 2 * pow2[n - 1]
<1> DEFINE UpTo(n, f) == f = [k \in 0..n |-> IF k = 0 THEN 1 ELSE 2 * f[k - 1]]
           Bad == {n \in Nat : ~ \E f : UpTo(n, f)}
<1>1. ASSUME Bad # {} PROVE FALSE
  <2>1. PICK n \in Bad : \A m \in Bad : n <= m
    BY <1>1, LeastNat
  <2>2. n # 0
    <3> DEFINE f == [k \in 0..0 |-> 1]
    <3>1. UpTo(0, f)
      OBVIOUS
    <3> QED BY <3>1
  <2>3. n - 1 \in Nat /\ n - 1 \notin Bad
    <3> HIDE DEF UpTo
    <3>1. n \in Nat
      BY <2>1
    <3>2. n - 1 \in Nat /\ ~(n <= n - 1)
      BY <2>2, <3>1
    <3> QED BY <2>1, <3>2
  <2>4. PICK f : UpTo(n - 1, f)
    BY <2>3
  <2> DEFINE g == [k \in 0..n |-> IF k = 0 THEN 1 ELSE 2 * f[k - 1]]
  <2>5. ASSUME NEW k \in 1..n PROVE g[k - 1] = f[k - 1]
    <3>1. k - 1 \in 0..(n - 1) /\ k - 1 \in 0..n
      BY <2>1
    <3>2. f[k - 1] = IF k - 1 = 0 THEN 1 ELSE 2 * f[k - 1 - 1]
      BY <2>4, <3>1
    <3> QED BY <3>1, <3>2
  <2>6. UpTo(n, g)
    <3> DEFINE h == [k \in 0..n |-> IF k = 0 THEN 1 ELSE 2 * g[k - 1]]
    <3>1. ASSUME NEW k \in 0..n PROVE g[k] = h[k]
      <4>1. k = 0 \/ k \in 1..n
        OBVIOUS
      <4>2. k # 0 => g[k - 1] = f[k - 1]
        BY <2>5, <4>1
      <4> HIDE DEF g
      <4>3. h[k] = IF k = 0 THEN 1 ELSE 2 * g[k - 1]
        OBVIOUS
      <4> QED BY <4>2, <4>3 DEF g
    <3>2. g = h
      <4>1. g = [k \in 0..n |-> g[k]] /\ h = [k \in 0..n |-> h[k]]
        OBVIOUS
      <4> HIDE DEF g, h
      <4> QED BY <3>1, <4>1
    <3> QED BY <3>2
  <2> QED BY <2>1, <2>6
<1>2. \E f : UpTo(32, f)
  BY <1>1
<1>3. UpTo(32, pow2)
  BY <1>2 DEF pow2
<1> QED BY <1>3

(***************************************************************************)
(* The powers of two are positive, and grow by a factor.                   *)
(***************************************************************************)
LEMMA Pow2Positive == \A n \in 0..32 : pow2[n] \in Nat \ {0}
<1> DEFINE Bad == {n \in 0..32 : pow2[n] \notin Nat \ {0}}
<1> SUFFICES ASSUME Bad # {} PROVE FALSE
  OBVIOUS
<1>1. PICK n \in Bad : \A m \in Bad : n <= m
  <2>1. Bad \in SUBSET Nat
    OBVIOUS
  <2> HIDE DEF Bad
  <2> QED BY <2>1, LeastNat
<1>2. n # 0
  BY Pow2Recursion
<1>3. n \in 1..32 /\ n - 1 \in 0..32 /\ ~(n <= n - 1)
  BY <1>2
<1>4. pow2[n - 1] \in Nat \ {0}
  BY <1>1, <1>3
<1>5. pow2[n] = 2 * pow2[n - 1]
  BY <1>3, Pow2Recursion
<1> QED BY <1>4, <1>5

(***************************************************************************)
(* A lower power divides a higher one, and is at most half of it.          *)
(***************************************************************************)
LEMMA Pow2Multiple ==
    ASSUME NEW m \in 0..32
    PROVE  \A n \in m..32 : \E q \in Nat \ {0} :
              pow2[n] = q * pow2[m] /\ (n > m => q >= 2)
<1> DEFINE Good(n) == \E q \in Nat \ {0} : pow2[n] = q * pow2[m] /\ (n > m => q >= 2)
           Bad == {n \in m..32 : ~Good(n)}
<1> SUFFICES ASSUME Bad # {} PROVE FALSE
  OBVIOUS
<1>1. PICK n \in Bad : \A k \in Bad : n <= k
  <2>1. Bad \in SUBSET Nat
    OBVIOUS
  <2> HIDE DEF Bad
  <2> QED BY <2>1, LeastNat
<1>2. n # m
  <2>1. pow2[m] = 1 * pow2[m]
    BY Pow2Positive
  <2>2. Good(m)
    BY <2>1
  <2> QED BY <2>2
<1>3. n \in 1..32 /\ n - 1 \in m..32 /\ ~(n <= n - 1) /\ n - 1 \in 0..32
  BY <1>2
<1>4. Good(n - 1)
  BY <1>1, <1>3
<1>5. PICK q \in Nat \ {0} : pow2[n - 1] = q * pow2[m]
  BY <1>4
<1>6. pow2[n] = 2 * pow2[n - 1]
  BY <1>3, Pow2Recursion
<1>7. pow2[m] \in Nat
  BY Pow2Positive
<1>8. pow2[n] = (2 * q) * pow2[m]
  BY <1>5, <1>6, <1>7
<1>9. 2 * q \in Nat \ {0} /\ 2 * q >= 2
  OBVIOUS
<1>10. Good(n)
  BY <1>8, <1>9
<1> QED BY <1>10

(***************************************************************************)
(* A larger exponent makes a larger power of two.                          *)
(***************************************************************************)
LEMMA Pow2Grows ==
    ASSUME NEW m \in 0..32, NEW n \in 0..32
    PROVE  /\ m <= n => pow2[m] <= pow2[n]
           /\ m < n => 2 * pow2[m] <= pow2[n] /\ pow2[m] < pow2[n]
<1>1. CASE m <= n
  <2>1. PICK q \in Nat \ {0} : pow2[n] = q * pow2[m] /\ (n > m => q >= 2)
    <3>1. n \in m..32
      BY <1>1
    <3> QED BY <3>1, Pow2Multiple
  <2>2. pow2[m] \in Nat \ {0}
    BY Pow2Positive
  <2> DEFINE p == pow2[m]
  <2>3. q >= 1 /\ p \in Nat
    BY <2>2
  <2>4. q * p >= p /\ (q >= 2 => q * p >= 2 * p)
    <3> HIDE DEF p
    <3> QED BY <2>3
  <2> QED BY <1>1, <2>1, <2>2, <2>4
<1>2. CASE m > n
  BY <1>2
<1> QED BY <1>1, <1>2

-----------------------------------------------------------------------------
(***************************************************************************)
(* Alignment                                                               *)
(***************************************************************************)
Aligned(x, k) == x % pow2[k] = 0

(***************************************************************************)
(* A number is aligned just when it is a multiple.                         *)
(***************************************************************************)
LEMMA Multiples ==
    ASSUME NEW p \in Nat \ {0}, NEW x \in Nat
    PROVE  x % p = 0 <=> \E q \in Nat : x = q * p
<1>1. x = p * (x \div p) + (x % p) /\ x % p \in 0..(p - 1) /\ x \div p \in Nat
  OBVIOUS
<1>2. ASSUME x % p = 0 PROVE \E q \in Nat : x = q * p
  <2>1. x = (x \div p) * p
    BY <1>1, <1>2
  <2> QED BY <1>1, <2>1
<1>3. ASSUME NEW q \in Nat, x = q * p PROVE x % p = 0
  <2> DEFINE d == x \div p
             r == x % p
  <2>1. q * p = p * d + r /\ r \in Nat /\ r < p /\ d \in Nat
    BY <1>1, <1>3
  <2> HIDE DEF d, r
  <2>2. (q - d) * p = r
    BY <2>1
  <2>3. q - d >= 1 => (q - d) * p >= p
    BY <2>1
  <2>4. q - d <= -1 => (q - d) * p <= -p
    BY <2>1
  <2>5. q - d = 0
    BY <2>1, <2>2, <2>3, <2>4
  <2>6. r = 0
    BY <2>1, <2>2, <2>5
  <2> QED BY <2>6 DEF r
<1> QED BY <1>2, <1>3

(***************************************************************************)
(* The same, with the power of two that Aligned takes.                     *)
(***************************************************************************)
LEMMA AlignedMultiple ==
    ASSUME NEW x \in Nat, NEW k \in 0..32
    PROVE  Aligned(x, k) <=> \E q \in Nat : x = q * pow2[k]
BY Pow2Positive, Multiples DEF Aligned

(***************************************************************************)
(* What is aligned to a power of two is aligned to every lower one.        *)
(***************************************************************************)
LEMMA AlignedLower ==
    ASSUME NEW x \in Nat, NEW k \in 0..32, NEW j \in 0..k, Aligned(x, k)
    PROVE  Aligned(x, j)
<1>0. j \in 0..32 /\ k \in j..32
  OBVIOUS
<1>1. PICK q \in Nat : x = q * pow2[k]
  BY AlignedMultiple
<1>2. PICK r \in Nat \ {0} : pow2[k] = r * pow2[j]
  BY <1>0, Pow2Multiple
<1>3. pow2[j] \in Nat
  BY <1>0, Pow2Positive
<1>4. x = (q * r) * pow2[j] /\ q * r \in Nat
  BY <1>1, <1>2, <1>3
<1> QED BY <1>0, <1>4, AlignedMultiple

(***************************************************************************)
(* Sums and differences of aligned numbers are aligned, and two different  *)
(* ones are a power of two apart.                                          *)
(***************************************************************************)
LEMMA AlignedSums ==
    ASSUME NEW x \in Nat, NEW y \in Nat, NEW k \in 0..32,
           Aligned(x, k), Aligned(y, k)
    PROVE  /\ Aligned(x + y, k)
           /\ x <= y => Aligned(y - x, k)
           /\ x < y => x + pow2[k] <= y
<1> DEFINE p == pow2[k]
<1>0. p \in Nat \ {0}
  BY Pow2Positive
<1>1. PICK a \in Nat : x = a * p
  BY AlignedMultiple
<1>2. PICK b \in Nat : y = b * p
  BY AlignedMultiple
<1> HIDE DEF p
<1>3. x + y = (a + b) * p /\ a + b \in Nat
  BY <1>0, <1>1, <1>2
<1>4. y - x = (b - a) * p
  BY <1>0, <1>1, <1>2
<1>5. b - a >= 1 => (b - a) * p >= p
  BY <1>0
<1>6. b - a <= -1 => (b - a) * p <= -p
  BY <1>0
<1>7. b - a <= 0 => (b - a) * p <= 0
  BY <1>0
<1>8. x <= y => b - a \in Nat
  BY <1>0, <1>4, <1>6
<1>9. x < y => y - x >= p
  BY <1>0, <1>4, <1>5, <1>7
<1>10. Aligned(x + y, k)
  BY <1>3, AlignedMultiple DEF p
<1>11. x <= y => Aligned(y - x, k)
  <2>1. x <= y => y - x \in Nat
    OBVIOUS
  <2> QED BY <1>4, <1>8, <2>1, AlignedMultiple DEF p
<1>12. x < y => x + pow2[k] <= y
  BY <1>0, <1>9 DEF p
<1> QED BY <1>10, <1>11, <1>12

(***************************************************************************)
(* ctz(x) is the highest power of two x is aligned to.                     *)
(***************************************************************************)
LEMMA CtzIs ==
    ASSUME NEW x \in Nat, x < pow2[32]
    PROVE  /\ ctz(x) \in 0..32
           /\ \A k \in 0..32 : Aligned(x, k) <=> k <= ctz(x)
<1>0. \A k \in 0..32 : pow2[k] \in Nat \ {0}
  BY Pow2Positive
<1>1. CASE x = 0
  <2>1. \A k \in 0..32 : Aligned(x, k)
    BY <1>0, <1>1 DEF Aligned
  <2> QED BY <1>1, <2>1 DEF ctz
<1>2. CASE x > 0
  <2> DEFINE S == {k \in 0..32 : ~Aligned(x, k)}
  <2>1. 32 \in S
    BY <1>0, <1>2 DEF Aligned
  <2>2. 0 \notin S
    <3>1. x % 1 = 0
      OBVIOUS
    <3> QED BY <3>1, Pow2Recursion DEF Aligned
  <2>3. PICK m \in S : \A k \in S : m <= k
    <3>1. S \in SUBSET Nat /\ S # {}
      BY <2>1
    <3> HIDE DEF S
    <3> QED BY <3>1, LeastNat
  <2>4. m \in 1..32 /\ m - 1 \in 0..31 /\ m - 1 \in 0..32 /\ ~(m <= m - 1)
    BY <2>2
  <2>5. Aligned(x, m - 1) /\ ~Aligned(x, m) /\ (m - 1) + 1 = m
    BY <2>3, <2>4
  <2> DEFINE Q(n) == x % pow2[n] = 0 /\ x % pow2[n + 1] # 0
             c == ctz(x)
  <2>6. \E n \in 0..31 : Q(n)
    BY <2>4, <2>5 DEF Aligned
  <2>7. c \in 0..31 /\ Q(c)
    BY <1>2, <2>6 DEF ctz
  <2> HIDE DEF c
  <2>8. c \in 0..32 /\ c + 1 \in 0..32 /\ Aligned(x, c) /\ ~Aligned(x, c + 1)
    BY <2>7 DEF Aligned
  <2>9. ASSUME NEW k \in 0..32 PROVE Aligned(x, k) <=> k <= c
    <3>1. k <= c => k \in 0..c
      OBVIOUS
    <3>2. k <= c => Aligned(x, k)
      BY <2>8, <3>1, AlignedLower
    <3>3. k > c => c + 1 \in 0..k
      BY <2>8
    <3>4. k > c => ~Aligned(x, k)
      BY <2>8, <3>3, AlignedLower
    <3> QED BY <2>8, <3>2, <3>4
  <2> QED BY <2>8, <2>9 DEF c
<1> QED BY <1>1, <1>2

(***************************************************************************)
(* log2_uint32_ceil(x) is the lowest power of two that is not below x.     *)
(***************************************************************************)
LEMMA CeilIs ==
    ASSUME NEW x \in Nat, x <= pow2[32]
    PROVE  /\ log2_uint32_ceil(x) \in 0..32
           /\ \A k \in 0..32 : x <= pow2[k] <=> log2_uint32_ceil(x) <= k
<1>0. \A k \in 0..32 : pow2[k] \in Nat \ {0}
  BY Pow2Positive
<1>1. CASE x <= 1
  <2>1. \A k \in 0..32 : x <= pow2[k]
    BY <1>0, <1>1
  <2>2. log2_uint32_ceil(x) = 0
    BY <1>1 DEF log2_uint32_ceil
  <2> QED BY <2>1, <2>2
<1>2. CASE x > 1
  <2> DEFINE S == {k \in 0..32 : x <= pow2[k]}
  <2>1. 32 \in S
    OBVIOUS
  <2>2. 0 \notin S
    BY <1>2, Pow2Recursion
  <2>3. PICK m \in S : \A k \in S : m <= k
    <3>1. S \in SUBSET Nat /\ S # {}
      BY <2>1
    <3> HIDE DEF S
    <3> QED BY <3>1, LeastNat
  <2>4. m \in 1..32 /\ m - 1 \in 0..32 /\ ~(m <= m - 1)
    BY <2>2
  <2>5. m - 1 \notin S
    BY <2>3, <2>4
  <2>6. pow2[m - 1] < x /\ x <= pow2[m]
    BY <1>0, <2>4, <2>5
  <2> DEFINE Q(n) == pow2[n - 1] < x /\ x <= pow2[n]
             c == log2_uint32_ceil(x)
  <2>7. \E n \in 1..32 : Q(n)
    BY <2>4, <2>6
  <2>8. c \in 1..32 /\ Q(c)
    BY <1>2, <2>7 DEF log2_uint32_ceil
  <2> HIDE DEF c
  <2>9. ASSUME NEW k \in 0..32 PROVE x <= pow2[k] <=> c <= k
    <3>0. c \in 0..32 /\ c - 1 \in 0..32
      BY <2>8
    <3>1. c <= k => pow2[c] <= pow2[k]
      BY <3>0, Pow2Grows
    <3>2. k <= c - 1 => pow2[k] <= pow2[c - 1]
      BY <3>0, Pow2Grows
    <3>3. c <= k \/ k <= c - 1
      BY <3>0
    <3>4. pow2[k] \in Nat /\ pow2[c] \in Nat /\ pow2[c - 1] \in Nat
      BY <1>0, <3>0
    <3> QED BY <2>8, <3>0, <3>1, <3>2, <3>3, <3>4
  <2> QED BY <2>8, <2>9 DEF c
<1> QED BY <1>1, <1>2

(***************************************************************************)
(* The numbers is_uint32_power2 accepts.                                   *)
(***************************************************************************)
LEMMA Power2Is ==
    ASSUME NEW x \in Nat, x < pow2[32], is_uint32_power2(x)
    PROVE  log2_uint32_ceil(x) \in 0..31 /\ pow2[log2_uint32_ceil(x)] = x
<1> DEFINE c == ctz(x)
           k == log2_uint32_ceil(x)
<1>1. c \in 0..32 /\ x > 0 /\ x - pow2[c] = 0
  BY CtzIs DEF is_uint32_power2
<1>2. \A n \in 0..32 : pow2[n] \in Nat \ {0}
  BY Pow2Positive
<1>3. x = pow2[c] /\ c # 32
  BY <1>1, <1>2
<1>4. x <= pow2[32] /\ 32 \in 0..32
  BY <1>2
<1>5. k \in 0..32 /\ \A n \in 0..32 : x <= pow2[n] <=> k <= n
  BY <1>4, CeilIs
<1> HIDE DEF c, k
<1>6. k <= c /\ x <= pow2[k]
  BY <1>1, <1>2, <1>3, <1>5
<1>7. k < c => pow2[k] < pow2[c]
  BY <1>1, <1>5, Pow2Grows
<1>8. k = c
  BY <1>1, <1>2, <1>3, <1>5, <1>6, <1>7
<1>9. k \in 0..31 /\ pow2[k] = x
  BY <1>1, <1>3, <1>8
<1> QED BY <1>9 DEF k

(***************************************************************************)
(* The loop that splits free space                                         *)
(***************************************************************************)

\* The numbers of lists an allocator may have, and spaces within uint32_t.
Lists == 1..32
Space(a, b) == a \in Nat /\ b \in Nat /\ a <= b /\ b < pow2[32]

\* What the entry c that starts at a is, when the space goes on up to b.
IsChunk(nfl, a, b, c) ==
    /\ c = [log2 |-> c.log2, index |-> a, size |-> c.size]
    /\ c.log2 \in 0..(nfl - 1) /\ c.index = a
    /\ Aligned(a, c.log2)
    /\ c.size \in 1..(b - a) /\ c.size <= pow2[c.log2]
    /\ pow2[c.log2] < 2 * c.size
    /\ c.size = b - a \/ c.size = pow2[c.log2]
    /\ c.log2 <= log2_uint32_ceil(b - a)
    /\ \A k \in 0..(nfl - 1) :
          Aligned(a, k) /\ k <= log2_uint32_ceil(b - a) => k <= c.log2

(***************************************************************************)
(* The entry that starts at a: which list it is for and how long it is.    *)
(***************************************************************************)
LEMMA ChunkIs ==
    ASSUME NEW nfl \in Lists, NEW a, NEW b, Space(a, b), a < b
    PROVE  IsChunk(nfl, a, b, ChunkAt(nfl, a, b - a))
<1> DEFINE t == ctz(a)
           u == log2_uint32_ceil(b - a)
           k == FreeLog2(nfl, a, b - a)
           s == Min({b - a, pow2[k]})
<1>0. a \in Nat /\ b \in Nat /\ b - a \in Nat /\ b - a >= 1
  BY DEF Space
<1>1. /\ t \in 0..32 /\ \A j \in 0..32 : Aligned(a, j) <=> j <= t
  <2>1. a < pow2[32]
    BY <1>0, Pow2Positive DEF Space
  <2> QED BY <1>0, <2>1, CtzIs
<1>2. /\ u \in 0..32 /\ \A j \in 0..32 : b - a <= pow2[j] <=> u <= j
  <2>1. b - a <= pow2[32]
    BY <1>0, Pow2Positive DEF Space
  <2> QED BY <1>0, <2>1, CeilIs
<1>3. nfl - 1 \in 0..31
  BY DEF Lists
<1> HIDE DEF t, u
<1>4. k \in {t, u, nfl - 1} /\ k <= t /\ k <= u /\ k <= nfl - 1
  <2>1. {t, u, nfl - 1} \in SUBSET Nat /\ {t, u, nfl - 1} # {}
    BY <1>1, <1>2, <1>3
  <2>2. k = Min({t, u, nfl - 1})
    BY DEF FreeLog2, t, u
  <2> HIDE DEF k
  <2>3. Min({t, u, nfl - 1}) \in {t, u, nfl - 1}
        /\ \A y \in {t, u, nfl - 1} : Min({t, u, nfl - 1}) <= y
    BY <2>1, MinOfNats
  <2> QED BY <2>2, <2>3
<1> HIDE DEF k
<1>5. k \in 0..31 /\ k \in 0..32 /\ k \in 0..(nfl - 1)
  BY <1>1, <1>2, <1>3, <1>4
<1>6. pow2[k] \in Nat \ {0}
  BY <1>5, Pow2Positive
<1>7. s \in {b - a, pow2[k]} /\ s <= b - a /\ s <= pow2[k]
  <2>1. {b - a, pow2[k]} \in SUBSET Nat /\ {b - a, pow2[k]} # {}
    BY <1>0, <1>6
  <2> QED BY <2>1, MinOfNats
<1> HIDE DEF s
<1>8. s \in 1..(b - a)
  BY <1>0, <1>6, <1>7
<1>9. pow2[k] < 2 * s
  <2>1. CASE s = pow2[k]
    BY <1>6, <2>1
  <2>2. CASE s = b - a /\ k = 0
    BY <1>0, <2>2, Pow2Recursion
  <2>3. CASE s = b - a /\ k # 0
    <3>1. k \in 1..32 /\ k - 1 \in 0..32 /\ ~(u <= k - 1)
      BY <1>2, <1>4, <1>5, <2>3
    <3>2. ~(b - a <= pow2[k - 1])
      BY <1>2, <3>1
    <3>3. pow2[k] = 2 * pow2[k - 1] /\ pow2[k - 1] \in Nat
      BY <3>1, Pow2Recursion, Pow2Positive
    <3> QED BY <1>0, <2>3, <3>2, <3>3
  <2> QED BY <1>7, <2>1, <2>2, <2>3
<1>10. Aligned(a, k)
  BY <1>1, <1>4, <1>5
<1>11. ASSUME NEW j \in 0..(nfl - 1), Aligned(a, j), j <= u PROVE j <= k
  <2>1. j \in 0..32 /\ j <= nfl - 1
    BY <1>3
  <2>2. j <= t
    BY <1>1, <1>11, <2>1
  <2> QED BY <1>4, <1>11, <2>1, <2>2
<1>12. ChunkAt(nfl, a, b - a) = [log2 |-> k, index |-> a, size |-> s]
  BY DEF ChunkAt, k, s
<1> QED BY <1>4, <1>5, <1>7, <1>8, <1>9, <1>10, <1>11, <1>12 DEF u, IsChunk

\* g is the loop that goes through the space before b.
IsLoop(nfl, b, g) ==
    \A rem \in 0..b :
        g[rem] = IF rem = 0 THEN {}
                 ELSE {ChunkAt(nfl, b - rem, rem)} \cup
                      g[rem - ChunkAt(nfl, b - rem, rem).size]

(***************************************************************************)
(* ChunksTo is the function its definition says it is.                     *)
(***************************************************************************)
LEMMA ChunksToRecursion ==
    ASSUME NEW nfl \in Lists, NEW b \in Nat, b < pow2[32]
    PROVE  IsLoop(nfl, b, ChunksTo(nfl, b))
<1> DEFINE C(r) == ChunkAt(nfl, b - r, r)
           Body(n, f) == [r \in 0..n |-> IF r = 0 THEN {} ELSE {C(r)} \cup f[r - C(r).size]]
           UpTo(n, f) == f = Body(n, f)
           Bad == {n \in 0..b : ~ \E f : UpTo(n, f)}
<1>0. ASSUME NEW r \in 1..b PROVE C(r).size \in 1..r
  <2>1. Space(b - r, b) /\ b - r < b /\ b - (b - r) = r
    BY DEF Space
  <2>2. ChunkAt(nfl, b - r, b - (b - r)).size \in 1..(b - (b - r))
    BY <2>1, ChunkIs DEF IsChunk
  <2> QED BY <2>1, <2>2
<1> HIDE DEF C
<1>1. ASSUME Bad # {} PROVE FALSE
  <2>1. PICK n \in Bad : \A m \in Bad : n <= m
    <3>1. Bad \in SUBSET Nat
      OBVIOUS
    <3> HIDE DEF Bad
    <3> QED BY <1>1, <3>1, LeastNat
  <2>2. n # 0
    <3> DEFINE f == [r \in 0..0 |-> {}]
    <3>1. UpTo(0, f)
      OBVIOUS
    <3> HIDE DEF UpTo, f
    <3> QED BY <3>1
  <2>3. n \in 1..b /\ n - 1 \in 0..b /\ ~(n <= n - 1)
    <3> HIDE DEF UpTo
    <3>1. n \in 0..b
      OBVIOUS
    <3> QED BY <2>2, <3>1
  <2>4. PICK f : UpTo(n - 1, f)
    <3> HIDE DEF UpTo
    <3> QED BY <2>1, <2>3
  <2> DEFINE g == Body(n, f)
             h == Body(n, g)
  <2>5. ASSUME NEW r \in 0..(n - 1) PROVE g[r] = f[r]
    <3>1. r \in 0..n
      BY <2>3
    <3>2. f[r] = IF r = 0 THEN {} ELSE {C(r)} \cup f[r - C(r).size]
      BY <2>4
    <3> QED BY <3>1, <3>2
  <2>6. ASSUME NEW r \in 0..n PROVE g[r] = h[r]
    <3>1. r # 0 => r - C(r).size \in 0..(n - 1)
      BY <1>0, <2>3
    <3>2. r # 0 => g[r - C(r).size] = f[r - C(r).size]
      BY <2>5, <3>1
    <3>3. g[r] = IF r = 0 THEN {} ELSE {C(r)} \cup f[r - C(r).size]
      OBVIOUS
    <3> HIDE DEF g
    <3>4. h[r] = IF r = 0 THEN {} ELSE {C(r)} \cup g[r - C(r).size]
      OBVIOUS
    <3> QED BY <3>2, <3>3, <3>4
  <2>7. g = h
    <3>1. g = [r \in 0..n |-> g[r]] /\ h = [r \in 0..n |-> h[r]]
      OBVIOUS
    <3> HIDE DEF g, h
    <3> QED BY <2>6, <3>1
  <2>8. UpTo(n, g)
    BY <2>7
  <2> HIDE DEF UpTo, g
  <2> QED BY <2>8
<1>2. \E f : UpTo(b, f)
  <2>1. b \in 0..b
    OBVIOUS
  <2> HIDE DEF UpTo
  <2> QED BY <1>1, <2>1
<1>3. UpTo(b, ChunksTo(nfl, b))
  BY <1>2 DEF ChunksTo, C
<1> DEFINE g == ChunksTo(nfl, b)
<1> HIDE DEF g
<1>4. \A rem \in 0..b : g[rem] = IF rem = 0 THEN {} ELSE {C(rem)} \cup g[rem - C(rem).size]
  BY <1>3 DEF g
<1> QED BY <1>4 DEF g, C, IsLoop

\* The entries of the space from a up to b.
Split(nfl, a, b) == Chunks(nfl, a, b - a)

EndOf(c) == c.index + c.size

(***************************************************************************)
(* The first entry, and the entries of the rest.                           *)
(***************************************************************************)
LEMMA SplitStep ==
    ASSUME NEW nfl \in Lists, NEW a, NEW b, Space(a, b)
    PROVE  /\ a = b => Split(nfl, a, b) = {}
           /\ a < b => LET c == ChunkAt(nfl, a, b - a)
                       IN  /\ Split(nfl, a, b) = {c} \cup Split(nfl, EndOf(c), b)
                           /\ c.index = a /\ a < EndOf(c) /\ EndOf(c) <= b
                           /\ Space(EndOf(c), b)
<1> DEFINE c == ChunkAt(nfl, a, b - a)
           g == ChunksTo(nfl, b)
<1>0. a \in Nat /\ b \in Nat /\ a <= b /\ b < pow2[32]
  BY DEF Space
<1>1. \A x \in 0..b : Split(nfl, x, b) = g[b - x]
  <2>1. \A x \in 0..b : x + (b - x) = b
    BY <1>0
  <2> QED BY <2>1 DEF Split, Chunks
<1>2. \A rem \in 0..b :
         g[rem] = IF rem = 0 THEN {}
                  ELSE {ChunkAt(nfl, b - rem, rem)} \cup
                       g[rem - ChunkAt(nfl, b - rem, rem).size]
  <2>1. IsLoop(nfl, b, g)
    BY <1>0, ChunksToRecursion
  <2> HIDE DEF g
  <2> QED BY <2>1 DEF IsLoop
<1> HIDE DEF g
<1>3. b - a \in 0..b /\ b - (b - a) = a /\ a \in 0..b
  BY <1>0
<1>4. a = b => Split(nfl, a, b) = {}
  <2>1. Split(nfl, a, b) = g[b - a]
    BY <1>1, <1>3
  <2>2. a = b => b - a = 0
    BY <1>0
  <2> QED BY <1>2, <1>3, <2>1, <2>2
<1>5. ASSUME a < b
      PROVE  /\ Split(nfl, a, b) = {c} \cup Split(nfl, EndOf(c), b)
             /\ c.index = a /\ a < EndOf(c) /\ EndOf(c) <= b
             /\ Space(EndOf(c), b)
  <2>1. c.index = a /\ c.size \in 1..(b - a)
    <3>1. IsChunk(nfl, a, b, c)
      BY <1>5, ChunkIs
    <3> QED BY <3>1 DEF IsChunk
  <2> DEFINE n == c.size
  <2>2. EndOf(c) = a + n /\ n \in 1..(b - a)
    BY <2>1 DEF EndOf
  <2>3. b - a # 0
    BY <1>0, <1>5
  <2>4. g[b - a] = {c} \cup g[(b - a) - n]
    BY <1>2, <1>3, <2>3
  <2> HIDE DEF n
  <2>5. a + n \in 0..b /\ b - (a + n) = (b - a) - n /\ a < a + n
    BY <1>0, <2>2
  <2>6. Split(nfl, a, b) = g[b - a] /\ Split(nfl, EndOf(c), b) = g[(b - a) - n]
    BY <1>1, <1>3, <2>2, <2>5
  <2>7. Space(EndOf(c), b)
    BY <1>0, <2>2, <2>5 DEF Space
  <2> QED BY <1>0, <2>1, <2>2, <2>4, <2>5, <2>6, <2>7
<1> HIDE DEF c
<1> QED BY <1>4, <1>5 DEF c

(***************************************************************************)
(* Induction over the start of a space whose end is fixed: S are the       *)
(* starts for which something is known to hold.                            *)
(***************************************************************************)
LEMMA Downwards ==
    ASSUME NEW b \in Nat, NEW S,
           \A a \in 0..b : (\A x \in (a + 1)..b : x \in S) => a \in S
    PROVE  \A a \in 0..b : a \in S
<1> DEFINE Bad == {n \in 0..b : b - n \notin S}
<1>1. ASSUME Bad # {} PROVE FALSE
  <2>1. PICK n \in Bad : \A m \in Bad : n <= m
    <3>1. Bad \in SUBSET Nat
      OBVIOUS
    <3> HIDE DEF Bad
    <3> QED BY <1>1, <3>1, LeastNat
  <2>2. ASSUME NEW x \in (b - n + 1)..b PROVE x \in S
    <3>1. b - x \in 0..b /\ b - (b - x) = x /\ ~(n <= b - x)
      OBVIOUS
    <3> QED BY <2>1, <3>1
  <2>3. b - n \in 0..b
    OBVIOUS
  <2>4. b - n \in S
    BY <2>2, <2>3
  <2> QED BY <2>4
<1>2. ASSUME NEW a \in 0..b PROVE a \in S
  <2>1. b - a \in 0..b /\ b - (b - a) = a
    OBVIOUS
  <2> QED BY <1>1, <2>1
<1> QED BY <1>2

(***************************************************************************)
(* Each entry is the one the loop makes at its place.                      *)
(***************************************************************************)
LEMMA SplitPieces ==
    ASSUME NEW nfl \in Lists, NEW b \in Nat, b < pow2[32]
    PROVE  \A a \in 0..b : \A c \in Split(nfl, a, b) :
              c.index \in a..(b - 1) /\ c = ChunkAt(nfl, c.index, b - c.index)
<1> DEFINE S == {a \in 0..b : \A c \in Split(nfl, a, b) :
                   c.index \in a..(b - 1) /\ c = ChunkAt(nfl, c.index, b - c.index)}
<1>1. ASSUME NEW a \in 0..b, \A x \in (a + 1)..b : x \in S,
             NEW c \in Split(nfl, a, b)
      PROVE  c.index \in a..(b - 1) /\ c = ChunkAt(nfl, c.index, b - c.index)
  <2> DEFINE d == ChunkAt(nfl, a, b - a)
  <2>0. Space(a, b)
    BY DEF Space
  <2>1. a < b
    BY <2>0, SplitStep
  <2>2. /\ Split(nfl, a, b) = {d} \cup Split(nfl, EndOf(d), b)
        /\ d.index = a /\ a < EndOf(d) /\ EndOf(d) <= b /\ Space(EndOf(d), b)
    BY <2>0, <2>1, SplitStep
  <2> DEFINE e == EndOf(d)
  <2>3. e \in (a + 1)..b
    BY <2>2 DEF Space
  <2> HIDE DEF d
  <2>4. CASE c = d
    BY <2>1, <2>2, <2>4 DEF d
  <2>5. CASE c \in Split(nfl, e, b)
    <3>1. c.index \in e..(b - 1) /\ c = ChunkAt(nfl, c.index, b - c.index)
      BY <1>1, <2>3, <2>5
    <3> HIDE DEF e
    <3> QED BY <2>3, <3>1
  <2> QED BY <2>2, <2>4, <2>5
<1>2. \A a \in 0..b : (\A x \in (a + 1)..b : x \in S) => a \in S
  BY <1>1
<1> HIDE DEF S
<1>3. \A a \in 0..b : a \in S
  BY <1>2, Downwards
<1> QED BY <1>3 DEF S

(***************************************************************************)
(* What that says of an entry.                                             *)
(***************************************************************************)
LEMMA PieceIs ==
    ASSUME NEW nfl \in Lists, NEW a, NEW b, Space(a, b), NEW c \in Split(nfl, a, b)
    PROVE  /\ c \in [log2 : 0..(nfl - 1), index : a..(b - 1), size : 1..b]
           /\ EndOf(c) \in (c.index + 1)..b
           /\ Aligned(c.index, c.log2)
           /\ c.size <= pow2[c.log2] /\ pow2[c.log2] < 2 * c.size
           /\ EndOf(c) = b \/ c.size = pow2[c.log2]
           /\ c = ChunkAt(nfl, c.index, b - c.index)
<1>0. a \in Nat /\ b \in Nat /\ a \in 0..b /\ b < pow2[32]
  BY DEF Space
<1> DEFINE i == c.index
<1>1. i \in a..(b - 1) /\ c = ChunkAt(nfl, i, b - i)
  BY <1>0, SplitPieces
<1>2. Space(i, b) /\ i < b /\ i \in Nat
  BY <1>0, <1>1 DEF Space
<1>3. /\ c = [log2 |-> c.log2, index |-> i, size |-> c.size]
      /\ c.log2 \in 0..(nfl - 1)
      /\ Aligned(i, c.log2)
      /\ c.size \in 1..(b - i) /\ c.size <= pow2[c.log2]
      /\ pow2[c.log2] < 2 * c.size
      /\ c.size = b - i \/ c.size = pow2[c.log2]
  <2>1. IsChunk(nfl, i, b, c)
    BY <1>1, <1>2, ChunkIs
  <2> QED BY <2>1 DEF IsChunk
<1> DEFINE s == c.size
<1>4. s \in 1..b /\ i + s \in (i + 1)..b /\ (s = b - i => i + s = b)
  BY <1>0, <1>2, <1>3
<1>5. c \in [log2 : 0..(nfl - 1), index : a..(b - 1), size : 1..b]
  BY <1>1, <1>3, <1>4
<1> QED BY <1>1, <1>3, <1>4, <1>5 DEF EndOf

(***************************************************************************)
(* No two entries share an index of the space.                             *)
(***************************************************************************)
LEMMA SplitApart ==
    ASSUME NEW nfl \in Lists, NEW b \in Nat, b < pow2[32]
    PROVE  \A a \in 0..b : \A c, d \in Split(nfl, a, b) :
              c # d => EndOf(c) <= d.index \/ EndOf(d) <= c.index
<1> DEFINE Apart(a) == \A c, d \in Split(nfl, a, b) :
                          c # d => EndOf(c) <= d.index \/ EndOf(d) <= c.index
           S == {a \in 0..b : Apart(a)}
<1>1. ASSUME NEW a \in 0..b, \A x \in (a + 1)..b : x \in S PROVE Apart(a)
  <2>0. Space(a, b)
    BY DEF Space
  <2>1. CASE a = b
    BY <2>0, <2>1, SplitStep
  <2>2. CASE a < b
    <3> DEFINE f == ChunkAt(nfl, a, b - a)
               e == EndOf(f)
    <3>1. /\ Split(nfl, a, b) = {f} \cup Split(nfl, e, b)
          /\ a < e /\ e <= b /\ Space(e, b)
      BY <2>0, <2>2, SplitStep
    <3>2. e \in (a + 1)..b
      BY <3>1 DEF Space
    <3> HIDE DEF f
    <3>3. Apart(e)
      <4> HIDE DEF Apart, e
      <4> QED BY <1>1, <3>2
    <3>4. \A c \in Split(nfl, e, b) : e <= c.index
      BY <3>1, PieceIs DEF Space
    <3> QED BY <3>1, <3>3, <3>4
  <2> QED BY <2>1, <2>2
<1>2. \A a \in 0..b : (\A x \in (a + 1)..b : x \in S) => a \in S
  <2> HIDE DEF Apart
  <2> QED BY <1>1
<1>3. \A a \in 0..b : a \in S
  <2> HIDE DEF S
  <2> QED BY <1>2, Downwards
<1> QED BY <1>3

(***************************************************************************)
(* Every index of the space is in an entry.                                *)
(***************************************************************************)
LEMMA SplitCovers ==
    ASSUME NEW nfl \in Lists, NEW b \in Nat, b < pow2[32]
    PROVE  \A a \in 0..b : \A x \in a..(b - 1) :
              \E c \in Split(nfl, a, b) : c.index <= x /\ x < EndOf(c)
<1> DEFINE Covers(a) == \A x \in a..(b - 1) :
                           \E c \in Split(nfl, a, b) : c.index <= x /\ x < EndOf(c)
           S == {a \in 0..b : Covers(a)}
<1>1. ASSUME NEW a \in 0..b, \A x \in (a + 1)..b : x \in S PROVE Covers(a)
  <2>0. Space(a, b)
    BY DEF Space
  <2>1. CASE a = b
    BY <2>1
  <2>2. CASE a < b
    <3> DEFINE f == ChunkAt(nfl, a, b - a)
               e == EndOf(f)
    <3>1. /\ Split(nfl, a, b) = {f} \cup Split(nfl, e, b)
          /\ f.index = a /\ a < e /\ e <= b /\ Space(e, b)
      BY <2>0, <2>2, SplitStep
    <3>2. e \in (a + 1)..b
      BY <3>1 DEF Space
    <3> HIDE DEF f
    <3>3. Covers(e)
      <4> HIDE DEF Covers, e
      <4> QED BY <1>1, <3>2
    <3>4. ASSUME NEW x \in a..(b - 1)
          PROVE  \E c \in Split(nfl, a, b) : c.index <= x /\ x < EndOf(c)
      <4>1. CASE x < e
        BY <3>1, <4>1
      <4>2. CASE ~(x < e)
        <5>1. x \in e..(b - 1)
          <6> HIDE DEF e
          <6> QED BY <3>2, <4>2
        <5> QED BY <3>1, <3>3, <5>1
      <4> QED BY <4>1, <4>2
    <3> QED BY <3>4
  <2> QED BY <2>1, <2>2
<1>2. \A a \in 0..b : (\A x \in (a + 1)..b : x \in S) => a \in S
  <2> HIDE DEF Covers
  <2> QED BY <1>1
<1>3. \A a \in 0..b : a \in S
  <2> HIDE DEF S
  <2> QED BY <1>2, Downwards
<1> QED BY <1>3

(***************************************************************************)
(* The first entry does not depend on where the space ends, as long as it  *)
(* ends behind the entry.                                                  *)
(***************************************************************************)
LEMMA SameFirst ==
    ASSUME NEW nfl \in Lists, NEW a, NEW b, Space(a, b), a < b,
           NEW p \in Nat, EndOf(ChunkAt(nfl, a, b - a)) <= p, p <= b
    PROVE  ChunkAt(nfl, a, p - a) = ChunkAt(nfl, a, b - a) /\ a < p /\ Space(a, p)
<1> DEFINE c == ChunkAt(nfl, a, b - a)
           d == ChunkAt(nfl, a, p - a)
           k == c.log2
           j == d.log2
<1>0. a \in Nat /\ b \in Nat /\ b < pow2[32] /\ pow2[32] \in Nat
  BY Pow2Positive DEF Space
<1>1. IsChunk(nfl, a, b, c)
  BY ChunkIs
<1>2. a + c.size <= p /\ c.size \in 1..(b - a)
  BY <1>1 DEF IsChunk, EndOf
<1>3. a < p /\ Space(a, p)
  BY <1>0, <1>2 DEF Space
<1>4. IsChunk(nfl, a, p, d)
  BY <1>3, ChunkIs
<1> DEFINE u == log2_uint32_ceil(b - a)
           v == log2_uint32_ceil(p - a)
<1>5. /\ b - a \in Nat /\ p - a \in Nat /\ p - a <= b - a
      /\ b - a <= pow2[32] /\ p - a <= pow2[32]
  BY <1>0, <1>3
<1>6. u \in 0..32 /\ \A n \in 0..32 : b - a <= pow2[n] <=> u <= n
  BY <1>5, CeilIs
<1>7. v \in 0..32 /\ \A n \in 0..32 : p - a <= pow2[n] <=> v <= n
  BY <1>5, CeilIs
<1>8. /\ k \in 0..(nfl - 1) /\ k <= u /\ Aligned(a, k)
      /\ \A n \in 0..(nfl - 1) : Aligned(a, n) /\ n <= u => n <= k
      /\ c.size \in 1..(b - a) /\ c.size <= pow2[k]
      /\ c.size = b - a \/ c.size = pow2[k]
      /\ c = [log2 |-> k, index |-> a, size |-> c.size]
  BY <1>1 DEF IsChunk
<1>9. /\ j \in 0..(nfl - 1) /\ j <= v /\ Aligned(a, j)
      /\ \A n \in 0..(nfl - 1) : Aligned(a, n) /\ n <= v => n <= j
      /\ d.size \in 1..(p - a) /\ d.size <= pow2[j]
      /\ d.size = p - a \/ d.size = pow2[j]
      /\ d = [log2 |-> j, index |-> a, size |-> d.size]
  BY <1>4 DEF IsChunk
<1>10. CASE c.size = b - a
  <2>1. p = b
    BY <1>0, <1>2, <1>10
  <2> QED BY <1>3, <2>1
<1>11. CASE c.size = pow2[k]
  <2> HIDE DEF u, v
  <2>1. k \in 0..32 /\ j \in 0..32
    BY <1>8, <1>9 DEF Lists
  <2> DEFINE s == c.size
             t == d.size
  <2> HIDE DEF c, d
  <2>2. pow2[k] \in Nat /\ pow2[k] <= p - a
    BY <1>0, <1>2, <1>11, <2>1, Pow2Positive
  <2>3. v <= u
    <3>1. b - a <= pow2[u]
      BY <1>6
    <3>2. pow2[u] \in Nat
      BY <1>6, Pow2Positive
    <3>3. p - a <= pow2[u]
      BY <1>5, <3>1, <3>2
    <3> QED BY <1>6, <1>7, <3>3
  <2>4. j <= k
    BY <1>6, <1>7, <1>8, <1>9, <2>1, <2>3
  <2>5. k <= v
    <3>1. v < k => pow2[v] < pow2[k]
      BY <1>7, <2>1, Pow2Grows
    <3>2. p - a <= pow2[v] /\ pow2[v] \in Nat
      BY <1>7, Pow2Positive
    <3> QED BY <1>5, <1>7, <2>1, <2>2, <3>1, <3>2
  <2>6. k <= j
    BY <1>8, <1>9, <2>5
  <2>7. j = k
    BY <2>1, <2>4, <2>6
  <2>8. t = pow2[k]
    BY <1>5, <1>9, <2>2, <2>7
  <2>9. d = c
    BY <1>8, <1>9, <1>11, <2>7, <2>8
  <2> QED BY <1>3, <2>9 DEF c, d
<1> QED BY <1>8, <1>10, <1>11

(***************************************************************************)
(* A space that is cut at or behind the start of one of its entries is     *)
(* split the same way up to that entry.                                    *)
(***************************************************************************)
LEMMA SplitAtEntry ==
    ASSUME NEW nfl \in Lists, NEW b \in Nat, b < pow2[32],
           NEW f, NEW p \in Nat, f.index <= p, p <= b, f.index \in Nat
    PROVE  \A a \in 0..b : f \in Split(nfl, a, b) =>
              Split(nfl, a, p) = Split(nfl, a, f.index) \cup Split(nfl, f.index, p)
<1> DEFINE y == f.index
           Same(a) == f \in Split(nfl, a, b) =>
                        Split(nfl, a, p) = Split(nfl, a, y) \cup Split(nfl, y, p)
           S == {a \in 0..b : Same(a)}
<1>0. y \in Nat /\ y <= p /\ pow2[32] \in Nat
  BY Pow2Positive
<1>1. ASSUME NEW a \in 0..b, \A x \in (a + 1)..b : x \in S PROVE Same(a)
  <2> SUFFICES ASSUME f \in Split(nfl, a, b)
               PROVE  Split(nfl, a, p) = Split(nfl, a, y) \cup Split(nfl, y, p)
    OBVIOUS
  <2>0. Space(a, b)
    BY DEF Space
  <2>1. y \in a..(b - 1)
    BY <2>0, PieceIs
  <2> HIDE DEF y
  <2>2. CASE a = y
    <3>1. Space(a, a)
      BY <2>0, <1>0 DEF Space
    <3> QED BY <2>2, <3>1, SplitStep
  <2>3. CASE a # y
    <3> DEFINE c == ChunkAt(nfl, a, b - a)
               e == EndOf(c)
    <3>1. a < y /\ a < b
      BY <2>1, <2>3
    <3>2. /\ Split(nfl, a, b) = {c} \cup Split(nfl, e, b)
          /\ c.index = a /\ a < e /\ e <= b /\ Space(e, b)
      BY <2>0, <3>1, SplitStep
    <3>3. e \in (a + 1)..b
      BY <3>2 DEF Space
    <3>4. f \in Split(nfl, e, b)
      BY <2>3, <3>2 DEF y
    <3>5. e <= y
      BY <3>2, <3>4, PieceIs DEF Space, y
    <3>6. e \in Nat /\ e <= p
      BY <1>0, <3>3, <3>5
    <3>7. ChunkAt(nfl, a, p - a) = c /\ a < p /\ Space(a, p)
      BY <2>0, <3>1, <3>6, SameFirst
    <3>8. y <= b
      BY <2>1
    <3>9. ChunkAt(nfl, a, y - a) = c /\ Space(a, y)
      BY <1>0, <2>0, <3>1, <3>5, <3>8, SameFirst
    <3>10. Split(nfl, a, p) = {c} \cup Split(nfl, e, p)
      BY <3>7, SplitStep
    <3>11. Split(nfl, a, y) = {c} \cup Split(nfl, e, y)
      BY <3>1, <3>9, SplitStep
    <3>12. Same(e)
      <4> HIDE DEF Same, e
      <4> QED BY <1>1, <3>3
    <3> HIDE DEF c, e
    <3> QED BY <3>4, <3>10, <3>11, <3>12
  <2> QED BY <2>2, <2>3
<1>2. \A a \in 0..b : (\A x \in (a + 1)..b : x \in S) => a \in S
  <2> HIDE DEF Same
  <2> QED BY <1>1
<1>3. \A a \in 0..b : a \in S
  <2> HIDE DEF S
  <2> QED BY <1>2, Downwards
<1> QED BY <1>3

\* No aligned block of a list that starts from a on reaches beyond e.
Barrier(nfl, a, e) ==
    \A x \in a..(e - 1), k \in 0..(nfl - 1) : Aligned(x, k) => x + pow2[k] <= e

(***************************************************************************)
(* At a barrier the entries of a space divide.                             *)
(***************************************************************************)
LEMMA SplitAtBarrier ==
    ASSUME NEW nfl \in Lists, NEW b \in Nat, b < pow2[32], NEW e \in 0..b
    PROVE  \A a \in 0..b : a <= e /\ Barrier(nfl, a, e) =>
              Split(nfl, a, b) = Split(nfl, a, e) \cup Split(nfl, e, b)
<1> DEFINE Same(a) == a <= e /\ Barrier(nfl, a, e) =>
                         Split(nfl, a, b) = Split(nfl, a, e) \cup Split(nfl, e, b)
           S == {a \in 0..b : Same(a)}
<1>0. pow2[32] \in Nat
  BY Pow2Positive
<1>1. ASSUME NEW a \in 0..b, \A x \in (a + 1)..b : x \in S PROVE Same(a)
  <2> SUFFICES ASSUME a <= e, Barrier(nfl, a, e)
               PROVE  Split(nfl, a, b) = Split(nfl, a, e) \cup Split(nfl, e, b)
    OBVIOUS
  <2>0. Space(a, b) /\ Space(a, e)
    BY <1>0 DEF Space
  <2>1. CASE a = e
    BY <2>0, <2>1, SplitStep
  <2>2. CASE a # e
    <3> DEFINE c == ChunkAt(nfl, a, b - a)
               z == EndOf(c)
    <3>1. a < e /\ a < b
      BY <2>2
    <3>2. /\ Split(nfl, a, b) = {c} \cup Split(nfl, z, b)
          /\ c.index = a /\ a < z /\ z <= b /\ Space(z, b)
      BY <2>0, <3>1, SplitStep
    <3>3. z \in (a + 1)..b
      BY <3>2 DEF Space
    <3>4. z <= e
      <4>1. IsChunk(nfl, a, b, c)
        BY <2>0, <3>1, ChunkIs
      <4>2. c.log2 \in 0..(nfl - 1) /\ Aligned(a, c.log2) /\ c.size <= pow2[c.log2]
            /\ c.size \in 1..(b - a)
        BY <4>1 DEF IsChunk
      <4>3. a \in a..(e - 1)
        BY <3>1
      <4>4. a + pow2[c.log2] <= e
        BY <4>2, <4>3 DEF Barrier
      <4>5. pow2[c.log2] \in Nat
        BY <4>2, Pow2Positive DEF Lists
      <4>6. z = a + c.size
        BY <3>2 DEF EndOf
      <4> QED BY <4>2, <4>4, <4>5, <4>6
    <3>5. ChunkAt(nfl, a, e - a) = c
      BY <2>0, <3>1, <3>4, SameFirst
    <3>6. Split(nfl, a, e) = {c} \cup Split(nfl, z, e)
      BY <2>0, <3>1, <3>5, SplitStep
    <3>7. Same(z)
      <4> HIDE DEF Same, z
      <4> QED BY <1>1, <3>3
    <3> HIDE DEF c, z
    <3>8. Barrier(nfl, z, e)
      BY <3>3 DEF Barrier
    <3> QED BY <3>2, <3>4, <3>6, <3>7, <3>8
  <2> QED BY <2>1, <2>2
<1>2. \A a \in 0..b : (\A x \in (a + 1)..b : x \in S) => a \in S
  <2> HIDE DEF Same
  <2> QED BY <1>1
<1>3. \A a \in 0..b : a \in S
  <2> HIDE DEF S
  <2> QED BY <1>2, Downwards
<1> QED BY <1>3

(***************************************************************************)
(* A multiple of the largest size is a barrier for every space.            *)
(***************************************************************************)
LEMMA BarrierAtTop ==
    ASSUME NEW nfl \in Lists, NEW e \in Nat, Aligned(e, nfl - 1), NEW a \in Nat
    PROVE  Barrier(nfl, a, e)
<1> SUFFICES ASSUME NEW x \in a..(e - 1), NEW k \in 0..(nfl - 1), Aligned(x, k)
             PROVE  x + pow2[k] <= e
  BY DEF Barrier
<1>1. k \in 0..32 /\ nfl - 1 \in 0..32 /\ x \in Nat /\ x < e
  BY DEF Lists
<1>2. Aligned(e, k)
  BY <1>1, AlignedLower
<1> QED BY <1>1, <1>2, AlignedSums

(***************************************************************************)
(* The end of an aligned block is a barrier for every space that starts    *)
(* inside of it.                                                           *)
(***************************************************************************)
LEMMA BarrierInside ==
    ASSUME NEW nfl \in Lists, NEW n \in 0..(nfl - 1), NEW i \in Nat,
           Aligned(i, n), NEW a \in Nat, i < a
    PROVE  Barrier(nfl, a, i + pow2[n])
<1> DEFINE e == i + pow2[n]
<1>0. n \in 0..32 /\ pow2[n] \in Nat \ {0}
  BY Pow2Positive DEF Lists
<1> SUFFICES ASSUME NEW x \in a..(e - 1), NEW k \in 0..(nfl - 1), Aligned(x, k)
             PROVE  x + pow2[k] <= e
  BY DEF Barrier
<1>1. k \in 0..32 /\ x \in Nat /\ i < x /\ x < e
  BY <1>0 DEF Lists
<1>2. k < n
  <2>1. ASSUME n <= k PROVE FALSE
    <3>1. n \in 0..k
      BY <1>0, <1>1, <2>1
    <3>2. Aligned(x, n)
      BY <1>1, <3>1, AlignedLower
    <3>3. i + pow2[n] <= x
      BY <1>0, <1>1, <3>2, AlignedSums
    <3> QED BY <1>0, <1>1, <3>3
  <2> QED BY <1>0, <1>1, <2>1
<1>3. k \in 0..n
  BY <1>0, <1>1, <1>2
<1>4. Aligned(pow2[n], n)
  <2>1. pow2[n] = 1 * pow2[n]
    BY <1>0
  <2> QED BY <1>0, <2>1, AlignedMultiple
<1>5. Aligned(e, n)
  BY <1>0, <1>4, AlignedSums
<1>6. e \in Nat
  BY <1>0
<1>7. Aligned(e, k)
  BY <1>0, <1>3, <1>5, <1>6, AlignedLower
<1> HIDE DEF e
<1> QED BY <1>1, <1>6, <1>7, AlignedSums

(***************************************************************************)
(* A space divides in front of and behind a block that is taken out of one *)
(* of its entries, and only this entry is split anew.                      *)
(***************************************************************************)
LEMMA SplitAround ==
    ASSUME NEW nfl \in Lists, NEW a, NEW b, Space(a, b), NEW f \in Split(nfl, a, b),
           NEW p \in Nat, NEW q \in Nat, f.index <= p, p < q, q <= EndOf(f)
    PROVE  /\ Split(nfl, a, p) \cup Split(nfl, q, b) =
                 (Split(nfl, a, b) \ {f})
                 \cup Split(nfl, f.index, p) \cup Split(nfl, q, EndOf(f))
           /\ Space(a, p) /\ Space(q, b)
<1> DEFINE i == f.index
           e == EndOf(f)
<1>0. a \in Nat /\ b \in Nat /\ a \in 0..b /\ b < pow2[32] /\ pow2[32] \in Nat
  BY Pow2Positive DEF Space
<1>1. /\ i \in a..(b - 1) /\ e \in (i + 1)..b /\ Aligned(i, f.log2)
      /\ f.log2 \in 0..(nfl - 1) /\ f = ChunkAt(nfl, i, b - i)
      /\ e = b \/ f.size = pow2[f.log2]
  BY PieceIs
<1>2. i \in Nat /\ i <= b /\ p <= b /\ i < b /\ e \in Nat /\ e \in 0..b /\ e <= b
      /\ q \in 0..b /\ q <= e /\ i < q
  BY <1>0, <1>1
<1>3. Space(a, p) /\ Space(q, b) /\ Space(i, b) /\ Space(e, b)
  BY <1>0, <1>1, <1>2 DEF Space
<1>4. Split(nfl, a, p) = Split(nfl, a, i) \cup Split(nfl, i, p)
  BY <1>0, <1>2, SplitAtEntry
<1>5. Split(nfl, a, b) = Split(nfl, a, i) \cup Split(nfl, i, b)
  <2>1. b <= b
    BY <1>0
  <2> QED BY <1>0, <1>2, <2>1, SplitAtEntry
<1>6. Split(nfl, i, b) = {f} \cup Split(nfl, e, b)
  BY <1>1, <1>2, <1>3, SplitStep
<1>7. Split(nfl, q, b) = Split(nfl, q, e) \cup Split(nfl, e, b)
  <2>1. CASE e = b
    BY <1>3, <2>1, SplitStep
  <2>2. CASE f.size = pow2[f.log2]
    <3>1. e = i + pow2[f.log2]
      BY <2>2 DEF EndOf
    <3>2. Barrier(nfl, q, e)
      BY <1>1, <1>2, <3>1, BarrierInside
    <3> HIDE DEF e
    <3> QED BY <1>0, <1>2, <3>2, SplitAtBarrier
  <2> QED BY <1>1, <2>1, <2>2
<1>8. f \notin Split(nfl, a, i) /\ f \notin Split(nfl, e, b)
  <2>1. Space(a, i)
    BY <1>0, <1>1 DEF Space
  <2>2. f \in Split(nfl, a, i) => i \in a..(i - 1)
    BY <2>1, PieceIs
  <2>3. f \in Split(nfl, e, b) => i \in e..(b - 1)
    BY <1>3, PieceIs
  <2> HIDE DEF e, i
  <2> QED BY <1>0, <1>1, <1>2, <2>2, <2>3
<1> HIDE DEF e, i
<1>9. Split(nfl, a, p) \cup Split(nfl, q, b) =
         (Split(nfl, a, b) \ {f}) \cup Split(nfl, i, p) \cup Split(nfl, q, e)
  BY <1>4, <1>5, <1>6, <1>7, <1>8
<1> QED BY <1>3, <1>9 DEF i, e

-----------------------------------------------------------------------------
(***************************************************************************)
(* Blocks and the gaps between them                                        *)
(***************************************************************************)

\* The blocks w have sizes, lie below t and do not overlap.
BlocksOk(w, t) ==
    /\ t \in Nat
    /\ DOMAIN w \subseteq Nat /\ w \in [DOMAIN w -> Nat \ {0}]
    /\ \A i \in DOMAIN w : i + w[i] <= t
    /\ \A i, j \in DOMAIN w : i # j => i + w[i] <= j \/ j + w[j] <= i

\* Where a gap may begin and where it may end.
Ends(w) == {0} \cup {i + w[i] : i \in DOMAIN w}
Starts(w, t) == {t} \cup DOMAIN w

\* Nothing from a up to b is in a block, and it goes no further on either side.
IsGap(w, t, a, b) ==
    /\ a \in Ends(w) /\ b \in Starts(w, t) /\ a <= b
    /\ \A i \in DOMAIN w : i + w[i] <= a \/ b <= i

Gaps(w, t) == {g \in (0..t) \X (0..t) : IsGap(w, t, g[1], g[2])}

\* The free lists hold the entries of the gaps.
Canonical(nfl, lists, w, t) ==
    lists = UNION {Split(nfl, g[1], g[2]) : g \in Gaps(w, t)}

(***************************************************************************)
(* Gaps lie below t.                                                       *)
(***************************************************************************)
LEMMA GapSpace ==
    ASSUME NEW w, NEW t, BlocksOk(w, t), NEW a, NEW b, IsGap(w, t, a, b)
    PROVE  a \in 0..t /\ b \in 0..t /\ a <= b /\ (t < pow2[32] => Space(a, b))
<1>1. t \in Nat /\ a \in Nat /\ b \in Nat /\ a <= b /\ b <= t
  BY DEF BlocksOk, IsGap, Ends, Starts
<1>2. pow2[32] \in Nat
  BY Pow2Positive
<1> QED BY <1>1, <1>2 DEF Space

\* c is an entry of one of the gaps.
InGap(nfl, w, t, c) ==
    \E a \in 0..t, b \in 0..t : IsGap(w, t, a, b) /\ c \in Split(nfl, a, b)

(***************************************************************************)
(* Which entries the lists hold.                                           *)
(***************************************************************************)
LEMMA CanonicalMembers ==
    ASSUME NEW nfl, NEW lists, NEW w, NEW t
    PROVE  Canonical(nfl, lists, w, t) <=> \A c : c \in lists <=> InGap(nfl, w, t, c)
<1> DEFINE all == UNION {Split(nfl, g[1], g[2]) : g \in Gaps(w, t)}
<1>1. ASSUME NEW c, c \in all PROVE InGap(nfl, w, t, c)
  <2>1. PICK g \in Gaps(w, t) : c \in Split(nfl, g[1], g[2])
    BY <1>1
  <2>2. g[1] \in 0..t /\ g[2] \in 0..t /\ IsGap(w, t, g[1], g[2])
    BY DEF Gaps
  <2> QED BY <2>1, <2>2 DEF InGap
<1>2. ASSUME NEW c, InGap(nfl, w, t, c) PROVE c \in all
  <2>1. PICK a \in 0..t, b \in 0..t : IsGap(w, t, a, b) /\ c \in Split(nfl, a, b)
    BY <1>2 DEF InGap
  <2>2. <<a, b>> \in Gaps(w, t) /\ <<a, b>>[1] = a /\ <<a, b>>[2] = b
    BY <2>1 DEF Gaps
  <2> QED BY <2>1, <2>2
<1>3. \A c : c \in all <=> InGap(nfl, w, t, c)
  BY <1>1, <1>2
<1>4. Canonical(nfl, lists, w, t) <=> lists = all
  BY DEF Canonical
<1> HIDE DEF all
<1>5. lists = all <=> \A c : c \in lists <=> c \in all
  OBVIOUS
<1> QED BY <1>3, <1>4, <1>5

(***************************************************************************)
(* Two gaps are the same or apart.                                         *)
(***************************************************************************)
LEMMA GapsApart ==
    ASSUME NEW w, NEW t, BlocksOk(w, t), NEW a, NEW b, IsGap(w, t, a, b),
           NEW c, NEW d, IsGap(w, t, c, d)
    PROVE  (a = c /\ b = d) \/ b <= c \/ d <= a
<1>0. a \in 0..t /\ b \in 0..t /\ c \in 0..t /\ d \in 0..t /\ a <= b /\ c <= d /\ t \in Nat
  BY GapSpace DEF BlocksOk
<1>1. ASSUME NEW x \in 0..t, NEW y \in 0..t, IsGap(w, t, x, y),
             NEW z \in 0..t, NEW v \in 0..t, IsGap(w, t, z, v), x < z
      PROVE  y <= z
  <2>1. PICK i \in DOMAIN w : z = i + w[i]
    BY <1>1 DEF IsGap, Ends
  <2>2. i \in Nat /\ w[i] \in Nat \ {0}
    BY DEF BlocksOk
  <2>3. z <= x \/ y <= i
    BY <1>1, <2>1 DEF IsGap
  <2> QED BY <1>1, <2>1, <2>2, <2>3
<1>2. ASSUME NEW x \in 0..t, NEW y \in 0..t, IsGap(w, t, x, y),
             NEW v \in 0..t, IsGap(w, t, x, v), y < v
      PROVE  FALSE
  <2>1. y \in DOMAIN w
    BY <1>2 DEF IsGap, Starts
  <2>2. w[y] \in Nat \ {0}
    BY <2>1 DEF BlocksOk
  <2>3. y + w[y] <= x \/ v <= y
    BY <1>2, <2>1 DEF IsGap
  <2>4. x <= y
    BY <1>2 DEF IsGap
  <2> QED BY <1>2, <2>2, <2>3, <2>4
<1>3. CASE a < c
  BY <1>0, <1>1, <1>3
<1>4. CASE c < a
  BY <1>0, <1>1, <1>4
<1>5. CASE a = c
  <2>1. ~(b < d) /\ ~(d < b)
    BY <1>0, <1>2, <1>5
  <2> QED BY <1>0, <1>5, <2>1
<1> QED BY <1>0, <1>3, <1>4, <1>5

(***************************************************************************)
(* A new block in a gap keeps blocks apart.                                *)
(***************************************************************************)
LEMMA PutBlocks ==
    ASSUME NEW w, NEW t, BlocksOk(w, t), NEW a, NEW b, IsGap(w, t, a, b),
           NEW p \in Nat, NEW n \in Nat \ {0}, a <= p, p + n <= b
    PROVE  BlocksOk(Put(w, p, n), t) /\ p \notin DOMAIN w
<1> DEFINE v == Put(w, p, n)
<1>0. a \in 0..t /\ b \in 0..t /\ t \in Nat
  BY GapSpace DEF BlocksOk
<1>1. /\ DOMAIN w \subseteq Nat /\ \A i \in DOMAIN w : i \in Nat /\ w[i] \in Nat \ {0}
      /\ \A i \in DOMAIN w : i + w[i] <= a \/ b <= i
  BY DEF BlocksOk, IsGap
<1>2. p \notin DOMAIN w
  BY <1>0, <1>1
<1>3. /\ DOMAIN v = DOMAIN w \cup {p} /\ v[p] = n
      /\ \A i \in DOMAIN w : v[i] = w[i]
      /\ v = [i \in DOMAIN v |-> v[i]]
  BY <1>2 DEF Put
<1> HIDE DEF v
<1>4. DOMAIN v \subseteq Nat /\ v \in [DOMAIN v -> Nat \ {0}]
  BY <1>1, <1>3
<1>5. \A i \in DOMAIN v : i + v[i] <= t
  BY <1>0, <1>3 DEF BlocksOk
<1>6. \A i \in DOMAIN w : i + w[i] <= p \/ p + n <= i
  BY <1>0, <1>1
<1>7. \A i, j \in DOMAIN v : i # j => i + v[i] <= j \/ j + v[j] <= i
  BY <1>3, <1>6 DEF BlocksOk
<1>8. BlocksOk(v, t)
  BY <1>0, <1>4, <1>5, <1>7 DEF BlocksOk
<1> QED BY <1>2, <1>8 DEF v

(***************************************************************************)
(* A new block divides its gap and leaves the others.                      *)
(***************************************************************************)
LEMMA PutGaps ==
    ASSUME NEW w, NEW t, BlocksOk(w, t), NEW a, NEW b, IsGap(w, t, a, b),
           NEW p \in Nat, NEW n \in Nat \ {0}, a <= p, p + n <= b, NEW x, NEW y
    PROVE  IsGap(Put(w, p, n), t, x, y) <=>
              \/ IsGap(w, t, x, y) /\ ~(x = a /\ y = b)
              \/ x = a /\ y = p
              \/ x = p + n /\ y = b
<1> DEFINE v == Put(w, p, n)
           q == p + n
<1>0. /\ a \in 0..t /\ b \in 0..t /\ t \in Nat /\ q \in Nat /\ p < q /\ q <= b
      /\ p \notin DOMAIN w
  BY GapSpace, PutBlocks DEF BlocksOk
<1>1. /\ \A i \in DOMAIN w : i \in Nat /\ w[i] \in Nat \ {0} /\ i + w[i] <= t
      /\ \A i \in DOMAIN w : i + w[i] <= a \/ b <= i
      /\ a \in Ends(w) /\ b \in Starts(w, t)
  BY DEF BlocksOk, IsGap
<1>2. /\ DOMAIN v = DOMAIN w \cup {p} /\ v[p] = n
      /\ \A i \in DOMAIN w : v[i] = w[i]
  BY <1>0 DEF Put
<1> HIDE DEF v
<1>3. Ends(v) = Ends(w) \cup {q} /\ Starts(v, t) = Starts(w, t) \cup {p}
  BY <1>2 DEF Ends, Starts
<1> HIDE DEF q
<1>4. IsGap(v, t, x, y) <=>
         /\ x \in Ends(w) \cup {q} /\ y \in Starts(w, t) \cup {p} /\ x <= y
         /\ \A i \in DOMAIN w : i + w[i] <= x \/ y <= i
         /\ q <= x \/ y <= p
  BY <1>2, <1>3 DEF IsGap, q
<1>5. ASSUME IsGap(w, t, x, y), ~(x = a /\ y = b) PROVE IsGap(v, t, x, y)
  <2>1. x \in 0..t /\ y \in 0..t
    BY <1>5, GapSpace
  <2>2. y <= a \/ b <= x
    BY <1>5, GapsApart
  <2>3. q <= x \/ y <= p
    BY <1>0, <2>1, <2>2
  <2> QED BY <1>4, <1>5, <2>3 DEF IsGap
<1>6. ASSUME x = a, y = p PROVE IsGap(v, t, x, y)
  <2>1. \A i \in DOMAIN w : i + w[i] <= a \/ p <= i
    BY <1>0, <1>1
  <2> QED BY <1>0, <1>1, <1>4, <1>6, <2>1
<1>7. ASSUME x = q, y = b PROVE IsGap(v, t, x, y)
  <2>1. \A i \in DOMAIN w : i + w[i] <= q \/ b <= i
    BY <1>0, <1>1
  <2> QED BY <1>0, <1>1, <1>4, <1>7, <2>1
<1>8. ASSUME IsGap(v, t, x, y)
      PROVE  \/ IsGap(w, t, x, y) /\ ~(x = a /\ y = b)
             \/ x = a /\ y = p
             \/ x = q /\ y = b
  <2>0. x \in Nat /\ y \in Nat /\ x <= y /\ y <= t
    BY <1>0, <1>1, <1>4, <1>8 DEF Ends, Starts
  <2>1. CASE x \in Ends(w) /\ y \in Starts(w, t)
    <3>1. IsGap(w, t, x, y)
      BY <1>4, <1>8, <2>1 DEF IsGap
    <3>2. ~(x = a /\ y = b)
      BY <1>0, <1>4, <1>8
    <3> QED BY <3>1, <3>2
  <2>2. CASE x = q /\ y \in Starts(w, t)
    <3>1. b <= y
      <4>1. CASE y = t
        BY <1>0, <4>1
      <4>2. CASE y \in DOMAIN w
        BY <1>0, <1>1, <2>0, <2>2, <4>2
      <4> QED BY <2>2, <4>1, <4>2 DEF Starts
    <3>2. ASSUME b < y PROVE FALSE
      <4>1. b \in DOMAIN w
        BY <1>0, <1>1, <2>0, <3>2 DEF Starts
      <4>2. b + w[b] <= q \/ y <= b
        BY <1>4, <1>8, <2>2, <4>1
      <4> QED BY <1>0, <1>1, <2>0, <3>2, <4>1, <4>2
    <3> QED BY <1>0, <2>0, <2>2, <3>1, <3>2
  <2>3. CASE y = p /\ x \in Ends(w)
    <3>1. x <= a
      <4>1. CASE x = 0
        BY <1>0, <4>1
      <4>2. ASSUME NEW i \in DOMAIN w, x = i + w[i] PROVE x <= a
        BY <1>0, <1>1, <2>0, <2>3, <4>2
      <4> QED BY <2>3, <4>1, <4>2 DEF Ends
    <3>2. ASSUME x < a PROVE FALSE
      <4>1. PICK j \in DOMAIN w : a = j + w[j]
        BY <1>0, <1>1, <2>0, <3>2 DEF Ends
      <4>2. a <= x \/ p <= j
        BY <1>4, <1>8, <2>3, <4>1
      <4> QED BY <1>0, <1>1, <2>0, <3>2, <4>1, <4>2
    <3> QED BY <1>0, <2>0, <2>3, <3>1, <3>2
  <2>4. CASE x = q /\ y = p
    BY <1>0, <2>0, <2>4
  <2> QED BY <1>4, <1>8, <2>1, <2>2, <2>3, <2>4
<1> QED BY <1>5, <1>6, <1>7, <1>8 DEF v, q

(***************************************************************************)
(* The entries of different gaps are apart.                                *)
(***************************************************************************)
LEMMA EntriesOfGaps ==
    ASSUME NEW nfl \in Lists, NEW w, NEW t, BlocksOk(w, t), t < pow2[32],
           NEW a, NEW b, IsGap(w, t, a, b), NEW x, NEW y, IsGap(w, t, x, y),
           ~(x = a /\ y = b), NEW c \in Split(nfl, a, b), NEW d \in Split(nfl, x, y)
    PROVE  c # d /\ c.index # d.index /\ (EndOf(c) <= d.index \/ EndOf(d) <= c.index)
<1>1. Space(a, b) /\ Space(x, y)
  BY GapSpace
<1>2. /\ c.index \in a..(b - 1) /\ EndOf(c) \in (c.index + 1)..b
      /\ d.index \in x..(y - 1) /\ EndOf(d) \in (d.index + 1)..y
  BY <1>1, PieceIs
<1>3. b <= x \/ y <= a
  BY GapsApart
<1>4. a \in Nat /\ b \in Nat /\ x \in Nat /\ y \in Nat
  BY <1>1 DEF Space
<1> DEFINE i == c.index
           j == d.index
           e == EndOf(c)
           f == EndOf(d)
<1>5. i # j /\ (e <= j \/ f <= i)
  <2> HIDE DEF i, j, e, f
  <2>1. i \in a..(b - 1) /\ e \in (i + 1)..b /\ j \in x..(y - 1) /\ f \in (j + 1)..y
    BY <1>2 DEF i, j, e, f
  <2> QED BY <1>3, <1>4, <2>1
<1> QED BY <1>5

(***************************************************************************)
(* The lists stay canonical when a gap is taken out of them, and what is   *)
(* left of it on both sides of a new block is put back.                    *)
(***************************************************************************)
LEMMA TakeBlock ==
    ASSUME NEW nfl \in Lists, NEW lists, NEW w, NEW t, BlocksOk(w, t), t < pow2[32],
           Canonical(nfl, lists, w, t), NEW a, NEW b, IsGap(w, t, a, b),
           NEW p \in Nat, NEW n \in Nat \ {0}, a <= p, p + n <= b
    PROVE  Canonical(nfl,
                     (lists \ Split(nfl, a, b)) \cup Split(nfl, a, p)
                        \cup Split(nfl, p + n, b),
                     Put(w, p, n), t)
<1> DEFINE v == Put(w, p, n)
           q == p + n
           new == (lists \ Split(nfl, a, b)) \cup Split(nfl, a, p) \cup Split(nfl, q, b)
<1>0. a \in 0..t /\ b \in 0..t /\ p \in 0..t /\ q \in 0..t
  BY GapSpace DEF BlocksOk
<1>1. \A x, y : IsGap(v, t, x, y) <=>
         \/ IsGap(w, t, x, y) /\ ~(x = a /\ y = b)
         \/ x = a /\ y = p
         \/ x = q /\ y = b
  BY PutGaps
<1>2. \A c : c \in lists <=> InGap(nfl, w, t, c)
  BY CanonicalMembers
<1> HIDE DEF v, q
<1>3. ASSUME NEW c, c \in new PROVE InGap(nfl, v, t, c)
  <2>1. CASE c \in lists /\ c \notin Split(nfl, a, b)
    <3>1. PICK x \in 0..t, y \in 0..t : IsGap(w, t, x, y) /\ c \in Split(nfl, x, y)
      BY <1>2, <2>1 DEF InGap
    <3>2. IsGap(v, t, x, y)
      BY <1>1, <2>1, <3>1
    <3> QED BY <3>1, <3>2 DEF InGap
  <2>2. CASE c \in Split(nfl, a, p)
    BY <1>0, <1>1, <2>2 DEF InGap
  <2>3. CASE c \in Split(nfl, q, b)
    BY <1>0, <1>1, <2>3 DEF InGap
  <2> QED BY <1>3, <2>1, <2>2, <2>3
<1>4. ASSUME NEW c, InGap(nfl, v, t, c) PROVE c \in new
  <2>1. PICK x \in 0..t, y \in 0..t : IsGap(v, t, x, y) /\ c \in Split(nfl, x, y)
    BY <1>4 DEF InGap
  <2>2. CASE IsGap(w, t, x, y) /\ ~(x = a /\ y = b)
    <3>1. c \in lists
      BY <1>2, <2>1, <2>2 DEF InGap
    <3>2. c \notin Split(nfl, a, b)
      BY <2>1, <2>2, EntriesOfGaps
    <3> QED BY <3>1, <3>2
  <2>3. CASE x = a /\ y = p
    BY <2>1, <2>3
  <2>4. CASE x = q /\ y = b
    BY <2>1, <2>4
  <2> QED BY <1>1, <2>1, <2>2, <2>3, <2>4
<1> HIDE DEF new
<1>5. Canonical(nfl, new, v, t)
  BY <1>3, <1>4, CanonicalMembers
<1> QED BY <1>5 DEF new, v, q

(***************************************************************************)
(* Without block p the blocks are still apart, the gaps on both its sides  *)
(* are one, and putting the block back gives the blocks there were.        *)
(***************************************************************************)
LEMMA DelBlock ==
    ASSUME NEW w, NEW t, BlocksOk(w, t), NEW p \in DOMAIN w,
           NEW a, NEW b, IsGap(w, t, a, p), IsGap(w, t, p + w[p], b)
    PROVE  LET v == Del(w, {p})
           IN  /\ BlocksOk(v, t) /\ IsGap(v, t, a, b) /\ Put(v, p, w[p]) = w
               /\ p \in Nat /\ w[p] \in Nat \ {0} /\ a <= p /\ p + w[p] <= b
<1> DEFINE v == Del(w, {p})
           q == p + w[p]
<1>1. /\ t \in Nat /\ a \in 0..t /\ b \in 0..t /\ a <= p /\ q <= b
      /\ \A i \in DOMAIN w : i \in Nat /\ w[i] \in Nat \ {0} /\ i + w[i] <= t
      /\ \A i, j \in DOMAIN w : i # j => i + w[i] <= j \/ j + w[j] <= i
      /\ w = [i \in DOMAIN w |-> w[i]]
  BY GapSpace DEF BlocksOk
<1>2. /\ DOMAIN v = DOMAIN w \ {p} /\ \A i \in DOMAIN v : v[i] = w[i]
      /\ v = [i \in DOMAIN v |-> v[i]]
  BY DEF Del, Restrict
<1> HIDE DEF v
<1>3. BlocksOk(v, t)
  BY <1>1, <1>2 DEF BlocksOk
<1>4. Put(v, p, w[p]) = w
  <2>1. DOMAIN v \cup {p} = DOMAIN w
    BY <1>2
  <2>2. \A i \in DOMAIN w : (IF i = p THEN w[p] ELSE v[i]) = w[i]
    BY <1>2
  <2> QED BY <1>1, <2>1, <2>2 DEF Put
<1>5. IsGap(v, t, a, b)
  <2>1. a \in Ends(v)
    <3>1. a # q
      BY <1>1
    <3> QED BY <1>2, <3>1 DEF IsGap, Ends
  <2>2. b \in Starts(v, t)
    <3>1. b # p
      BY <1>1
    <3> QED BY <1>2, <3>1 DEF IsGap, Starts
  <2>3. a <= b
    BY <1>1
  <2>4. ASSUME NEW i \in DOMAIN v PROVE i + v[i] <= a \/ b <= i
    <3>1. i \in DOMAIN w /\ i # p /\ v[i] = w[i]
      BY <1>2
    <3>2. i + w[i] <= a \/ p <= i
      BY <3>1 DEF IsGap
    <3>3. i + w[i] <= q \/ b <= i
      BY <3>1 DEF IsGap
    <3>4. i + w[i] <= p \/ q <= i
      BY <1>1, <3>1
    <3> QED BY <1>1, <3>1, <3>2, <3>3, <3>4
  <2> QED BY <2>1, <2>2, <2>3, <2>4 DEF IsGap
<1> QED BY <1>1, <1>3, <1>4, <1>5 DEF v

(***************************************************************************)
(* The lists stay canonical when the gaps on both sides of a block are     *)
(* taken out of them and put back as one, with the block between them.     *)
(***************************************************************************)
LEMMA GiveBlock ==
    ASSUME NEW nfl \in Lists, NEW lists, NEW w, NEW t, BlocksOk(w, t), t < pow2[32],
           Canonical(nfl, lists, w, t), NEW p \in DOMAIN w,
           NEW a, NEW b, IsGap(w, t, a, p), IsGap(w, t, p + w[p], b)
    PROVE  Canonical(nfl,
                     (lists \ (Split(nfl, a, p) \cup Split(nfl, p + w[p], b)))
                        \cup Split(nfl, a, b),
                     Del(w, {p}), t)
<1> DEFINE v == Del(w, {p})
           n == w[p]
           q == p + w[p]
           old == Split(nfl, a, p) \cup Split(nfl, q, b)
           new == (lists \ old) \cup Split(nfl, a, b)
<1>1. /\ BlocksOk(v, t) /\ IsGap(v, t, a, b) /\ Put(v, p, n) = w
      /\ p \in Nat /\ n \in Nat \ {0} /\ a <= p /\ p + n <= b
  BY DelBlock
<1> HIDE DEF v
<1>2. \A x, y : IsGap(Put(v, p, n), t, x, y) <=>
         \/ IsGap(v, t, x, y) /\ ~(x = a /\ y = b)
         \/ x = a /\ y = p
         \/ x = p + n /\ y = b
  <2> HIDE DEF n
  <2> QED BY <1>1, PutGaps
<1>3. \A x, y : IsGap(w, t, x, y) <=>
         \/ IsGap(v, t, x, y) /\ ~(x = a /\ y = b)
         \/ x = a /\ y = p
         \/ x = q /\ y = b
  BY <1>1, <1>2
<1>4. \A c : c \in lists <=> InGap(nfl, w, t, c)
  BY CanonicalMembers
<1>0. a \in 0..t /\ b \in 0..t
  BY <1>1, GapSpace
<1>5. ~(IsGap(v, t, a, p) /\ ~(a = a /\ p = b)) /\ ~(IsGap(v, t, q, b) /\ ~(q = a /\ b = b))
  <2>0. a \in Nat /\ b \in Nat /\ p < b /\ a < q /\ q <= b /\ q \in Nat
    BY <1>0, <1>1
  <2>1. p \notin Starts(v, t)
    <3>1. p \notin DOMAIN v
      BY DEF v, Del, Restrict
    <3>2. t \in Nat
      BY DEF BlocksOk
    <3> QED BY <1>0, <2>0, <3>1, <3>2 DEF Starts
  <2>2. q \notin Ends(v)
    <3>1. ASSUME NEW i \in DOMAIN v, q = i + v[i] PROVE FALSE
      <4>1. i \in DOMAIN w /\ i # p /\ v[i] = w[i]
        BY DEF v, Del, Restrict
      <4>2. i + w[i] <= p \/ q <= i
        BY <4>1 DEF BlocksOk
      <4>3. i \in Nat /\ w[i] \in Nat \ {0}
        BY <4>1 DEF BlocksOk
      <4> QED BY <1>1, <3>1, <4>1, <4>2, <4>3
    <3> QED BY <2>0, <3>1 DEF Ends
  <2> QED BY <2>1, <2>2 DEF IsGap
<1> HIDE DEF q, n
<1>6. ASSUME NEW c, c \in new PROVE InGap(nfl, v, t, c)
  <2>1. CASE c \in lists /\ c \notin old
    <3>1. PICK x \in 0..t, y \in 0..t : IsGap(w, t, x, y) /\ c \in Split(nfl, x, y)
      BY <1>4, <2>1 DEF InGap
    <3>2. IsGap(v, t, x, y)
      BY <1>3, <2>1, <3>1
    <3> QED BY <3>1, <3>2 DEF InGap
  <2>2. CASE c \in Split(nfl, a, b)
    BY <1>0, <1>1, <2>2 DEF InGap
  <2> QED BY <1>6, <2>1, <2>2
<1>7. ASSUME NEW c, InGap(nfl, v, t, c) PROVE c \in new
  <2>1. PICK x \in 0..t, y \in 0..t : IsGap(v, t, x, y) /\ c \in Split(nfl, x, y)
    BY <1>7 DEF InGap
  <2>2. CASE x = a /\ y = b
    BY <2>1, <2>2
  <2>3. CASE ~(x = a /\ y = b)
    <3>1. IsGap(w, t, x, y)
      BY <1>3, <2>1, <2>3
    <3>2. c \in lists
      BY <1>4, <2>1, <3>1 DEF InGap
    <3>3. ~(x = a /\ y = p) /\ ~(x = q /\ y = b)
      BY <1>5, <2>1, <2>3
    <3>4. IsGap(w, t, a, p) /\ IsGap(w, t, q, b)
      BY DEF q
    <3>5. c \notin Split(nfl, a, p) /\ c \notin Split(nfl, q, b)
      BY <2>1, <3>1, <3>3, <3>4, EntriesOfGaps
    <3> QED BY <3>2, <3>5
  <2> QED BY <2>2, <2>3
<1> HIDE DEF new
<1>8. Canonical(nfl, new, v, t)
  BY <1>6, <1>7, CanonicalMembers
<1> QED BY <1>8 DEF new, old, v, q

(***************************************************************************)
(* Entries that are put into lists which hold nothing of their space       *)
(***************************************************************************)

\* No entry of lists reaches into the space from a up to b.
Clear(lists, a, b) ==
    \A g \in lists : g.index \in Nat /\ EndOf(g) \in Nat /\ g.index < EndOf(g)
                     /\ (EndOf(g) <= a \/ b <= g.index)

(***************************************************************************)
(* insert_one_free asserts nothing that is false when it splits space of   *)
(* which the lists hold nothing.                                           *)
(***************************************************************************)
LEMMA Fits ==
    ASSUME NEW nfl \in Lists, NEW lists, NEW a \in Nat, NEW b \in Nat,
           Clear(lists, a, b), NEW x, NEW y, Space(x, y), a <= x, y <= b
    PROVE  Insertable(lists, Split(nfl, x, y))
<1>1. x \in Nat /\ y \in Nat
  BY DEF Space
<1>2. ASSUME NEW c \in Split(nfl, x, y)
      PROVE  ChunkOk(c) /\ \A g \in lists : c.index # g.index
  <2>1. /\ c.index \in x..(y - 1) /\ Aligned(c.index, c.log2)
        /\ pow2[c.log2] < 2 * c.size /\ c.log2 \in 0..(nfl - 1) /\ c.size \in 1..y
    BY PieceIs
  <2>2. pow2[c.log2] \in Nat
    BY <2>1, Pow2Positive DEF Lists
  <2>3. ChunkOk(c)
    BY <2>1, <2>2 DEF ChunkOk, Aligned
  <2>4. ASSUME NEW g \in lists PROVE c.index # g.index
    <3>1. g.index \in Nat /\ EndOf(g) \in Nat /\ g.index < EndOf(g)
          /\ (EndOf(g) <= a \/ b <= g.index)
      BY DEF Clear
    <3> DEFINE i == c.index
               j == g.index
               e == EndOf(g)
    <3> HIDE DEF i, j, e
    <3>2. i # j
      BY <1>1, <2>1, <3>1 DEF i, j, e
    <3> QED BY <3>2 DEF i, j
  <2> QED BY <2>3, <2>4
<1> QED BY <1>2 DEF Insertable

(***************************************************************************)
(* The entries of a space can all be put in when each part can.            *)
(***************************************************************************)
LEMMA FitsBoth ==
    ASSUME NEW lists, NEW S, NEW T, Insertable(lists, S), Insertable(lists, T)
    PROVE  Insertable(lists, S \cup T)
BY DEF Insertable

(***************************************************************************)
(* The lists hold the entries of a gap, and nothing else that reaches into *)
(* it.                                                                     *)
(***************************************************************************)
LEMMA GapClear ==
    ASSUME NEW nfl \in Lists, NEW lists, NEW w, NEW t, BlocksOk(w, t), t < pow2[32],
           Canonical(nfl, lists, w, t), NEW a, NEW b, IsGap(w, t, a, b)
    PROVE  Split(nfl, a, b) \subseteq lists /\ Clear(lists \ Split(nfl, a, b), a, b)
<1>0. \A c : c \in lists <=> InGap(nfl, w, t, c)
  BY CanonicalMembers
<1>1. a \in 0..t /\ b \in 0..t
  BY GapSpace
<1>2. Split(nfl, a, b) \subseteq lists
  BY <1>0, <1>1 DEF InGap
<1>3. ASSUME NEW g \in lists, g \notin Split(nfl, a, b)
      PROVE  g.index \in Nat /\ EndOf(g) \in Nat /\ g.index < EndOf(g)
             /\ (EndOf(g) <= a \/ b <= g.index)
  <2>1. PICK x \in 0..t, y \in 0..t : IsGap(w, t, x, y) /\ g \in Split(nfl, x, y)
    BY <1>0 DEF InGap
  <2>2. Space(x, y)
    BY <2>1, GapSpace
  <2>3. g.index \in x..(y - 1) /\ EndOf(g) \in (g.index + 1)..y
    BY <2>1, <2>2, PieceIs
  <2>4. y <= a \/ b <= x
    BY <1>3, <2>1, GapsApart
  <2>5. x \in Nat /\ y \in Nat /\ a \in Nat /\ b \in Nat
    BY <1>1
  <2> DEFINE i == g.index
             e == EndOf(g)
  <2> HIDE DEF i, e
  <2>6. i \in Nat /\ e \in Nat /\ i < e /\ (e <= a \/ b <= i)
    BY <2>3, <2>4, <2>5 DEF i, e
  <2> QED BY <2>6 DEF i, e
<1> QED BY <1>2, <1>3 DEF Clear

(***************************************************************************)
(* Without the entries of the gaps on both sides of a block, nothing in    *)
(* the lists reaches into these gaps and the block.                        *)
(***************************************************************************)
LEMMA BlockClear ==
    ASSUME NEW nfl \in Lists, NEW lists, NEW w, NEW t, BlocksOk(w, t), t < pow2[32],
           Canonical(nfl, lists, w, t), NEW p \in DOMAIN w,
           NEW a, NEW b, IsGap(w, t, a, p), IsGap(w, t, p + w[p], b)
    PROVE  Clear(lists \ (Split(nfl, a, p) \cup Split(nfl, p + w[p], b)), a, b)
<1> DEFINE q == p + w[p]
<1>0. \A c : c \in lists <=> InGap(nfl, w, t, c)
  BY CanonicalMembers
<1>1. /\ a \in 0..t /\ b \in 0..t /\ p \in 0..t /\ q \in 0..t
      /\ p \in Nat /\ w[p] \in Nat \ {0} /\ a <= p /\ q <= b
  BY GapSpace DEF BlocksOk
<1>3. ASSUME NEW g \in lists, g \notin Split(nfl, a, p), g \notin Split(nfl, q, b)
      PROVE  g.index \in Nat /\ EndOf(g) \in Nat /\ g.index < EndOf(g)
             /\ (EndOf(g) <= a \/ b <= g.index)
  <2>1. PICK x \in 0..t, y \in 0..t : IsGap(w, t, x, y) /\ g \in Split(nfl, x, y)
    BY <1>0 DEF InGap
  <2>2. Space(x, y)
    BY <2>1, GapSpace
  <2>3. g.index \in x..(y - 1) /\ EndOf(g) \in (g.index + 1)..y
    BY <2>1, <2>2, PieceIs
  <2>4. p <= x \/ y <= a
    BY <1>3, <2>1, GapsApart
  <2>5. b <= x \/ y <= q
    BY <1>3, <2>1, GapsApart
  <2>6. q <= x \/ y <= p
    BY <2>1 DEF IsGap
  <2>7. x \in Nat /\ y \in Nat /\ a \in Nat /\ b \in Nat /\ q \in Nat
    BY <1>1
  <2> DEFINE i == g.index
             e == EndOf(g)
  <2> HIDE DEF i, e, q
  <2>9. y <= a \/ b <= x
    <3>1. i \in x..(y - 1)
      BY <2>3 DEF i
    <3> QED BY <1>1, <2>4, <2>5, <2>6, <2>7, <3>1
  <2>8. i \in Nat /\ e \in Nat /\ i < e /\ (e <= a \/ b <= i)
    BY <2>3, <2>7, <2>9 DEF i, e
  <2> QED BY <2>8 DEF i, e
<1> QED BY <1>3 DEF Clear

(***************************************************************************)
(* No two entries of the lists share an index, and each lies below t.      *)
(***************************************************************************)
LEMMA EntriesApart ==
    ASSUME NEW nfl \in Lists, NEW lists, NEW w, NEW t, BlocksOk(w, t), t < pow2[32],
           Canonical(nfl, lists, w, t), NEW f \in lists
    PROVE  /\ Clear(lists \ {f}, f.index, EndOf(f))
           /\ f \in [log2 : 0..(nfl - 1), index : 0..t, size : 1..t]
           /\ f.index < EndOf(f) /\ EndOf(f) <= t
           /\ Aligned(f.index, f.log2)
           /\ f.size <= pow2[f.log2] /\ pow2[f.log2] < 2 * f.size
           /\ \A i \in DOMAIN w : i + w[i] <= f.index \/ EndOf(f) <= i
<1>1. PICK a \in 0..t, b \in 0..t : IsGap(w, t, a, b) /\ f \in Split(nfl, a, b)
  BY CanonicalMembers DEF InGap
<1>2. Space(a, b) /\ a \in Nat /\ b \in Nat /\ b < pow2[32] /\ a \in 0..b /\ t \in Nat
  <2>1. Space(a, b) /\ t \in Nat
    BY <1>1, GapSpace DEF BlocksOk
  <2> QED BY <2>1 DEF Space
<1>3. /\ f \in [log2 : 0..(nfl - 1), index : a..(b - 1), size : 1..b]
      /\ EndOf(f) \in (f.index + 1)..b
      /\ Aligned(f.index, f.log2)
      /\ f.size <= pow2[f.log2] /\ pow2[f.log2] < 2 * f.size
  BY <1>1, <1>2, PieceIs
<1>4. f \in [log2 : 0..(nfl - 1), index : 0..t, size : 1..t]
  <2>1. a..(b - 1) \subseteq 0..t /\ 1..b \subseteq 1..t
    BY <1>2
  <2> QED BY <1>3, <2>1
<1>5. f.index < EndOf(f) /\ EndOf(f) <= t /\ EndOf(f) \in Nat /\ f.index \in Nat
      /\ a <= f.index /\ EndOf(f) <= b
  BY <1>2, <1>3
<1>6. ASSUME NEW g \in lists \ {f}
      PROVE  g.index \in Nat /\ EndOf(g) \in Nat /\ g.index < EndOf(g)
             /\ (EndOf(g) <= f.index \/ EndOf(f) <= g.index)
  <2>1. CASE g \in Split(nfl, a, b)
    <3>1. g.index \in a..(b - 1) /\ EndOf(g) \in (g.index + 1)..b
      BY <1>2, <2>1, PieceIs
    <3>2. EndOf(g) <= f.index \/ EndOf(f) <= g.index
      BY <1>1, <1>2, <2>1, SplitApart
    <3> QED BY <1>2, <3>1, <3>2
  <2>2. CASE g \notin Split(nfl, a, b)
    <3>1. Clear(lists \ Split(nfl, a, b), a, b)
      BY <1>1, GapClear
    <3>2. g.index \in Nat /\ EndOf(g) \in Nat /\ g.index < EndOf(g)
             /\ (EndOf(g) <= a \/ b <= g.index)
      BY <2>2, <3>1 DEF Clear
    <3> QED BY <1>2, <1>5, <3>2
  <2> QED BY <2>1, <2>2
<1>7. ASSUME NEW i \in DOMAIN w PROVE i + w[i] <= f.index \/ EndOf(f) <= i
  <2>1. i + w[i] <= a \/ b <= i
    BY <1>1 DEF IsGap
  <2>2. i \in Nat /\ w[i] \in Nat
    BY DEF BlocksOk
  <2> QED BY <1>2, <1>5, <2>1, <2>2
<1> QED BY <1>3, <1>4, <1>5, <1>6, <1>7 DEF Clear

(***************************************************************************)
(* A block that is taken out of an entry: what is left of the entry on     *)
(* both sides can be put back, and the lists stay canonical.               *)
(***************************************************************************)
LEMMA TakeEntry ==
    ASSUME NEW nfl \in Lists, NEW lists, NEW w, NEW t, BlocksOk(w, t), t < pow2[32],
           Canonical(nfl, lists, w, t), NEW f \in lists,
           NEW p \in Nat, NEW n \in Nat \ {0}, f.index <= p, p + n <= EndOf(f)
    PROVE  LET split == Split(nfl, f.index, p) \cup Split(nfl, p + n, EndOf(f))
               v     == Put(w, p, n)
           IN  /\ BlocksOk(v, t) /\ p \notin DOMAIN w
               /\ Canonical(nfl, (lists \ {f}) \cup split, v, t)
               /\ Insertable(lists \ {f}, split)
<1> DEFINE q == p + n
           i == f.index
           e == EndOf(f)
           L == Split(nfl, i, p)
           R == Split(nfl, q, e)
           v == Put(w, p, n)
<1>1. PICK a \in 0..t, b \in 0..t : IsGap(w, t, a, b) /\ f \in Split(nfl, a, b)
  BY CanonicalMembers DEF InGap
<1>2. Space(a, b) /\ a \in Nat /\ b \in Nat /\ b < pow2[32] /\ t \in Nat /\ pow2[32] \in Nat
  <2>1. Space(a, b) /\ t \in Nat
    BY <1>1, GapSpace DEF BlocksOk
  <2> QED BY <2>1, Pow2Positive DEF Space
<1>3. i \in a..(b - 1) /\ e \in (i + 1)..b
  BY <1>1, <1>2, PieceIs
<1>4. a <= p /\ q <= b /\ i \in Nat /\ e \in Nat /\ p < q /\ q \in Nat
  BY <1>2, <1>3
<1>5. Split(nfl, a, p) \cup Split(nfl, q, b) = (Split(nfl, a, b) \ {f}) \cup L \cup R
  BY <1>1, <1>2, <1>4, SplitAround
<1>6. BlocksOk(v, t) /\ p \notin DOMAIN w
  BY <1>1, <1>4, PutBlocks
<1>7. Canonical(nfl, (lists \ Split(nfl, a, b)) \cup Split(nfl, a, p) \cup Split(nfl, q, b), v, t)
  BY <1>1, <1>4, TakeBlock
<1>8. Split(nfl, a, b) \subseteq lists
  BY <1>1, GapClear
<1>9. (lists \ Split(nfl, a, b)) \cup Split(nfl, a, p) \cup Split(nfl, q, b)
         = (lists \ {f}) \cup (L \cup R)
  <2> HIDE DEF L, R, q
  <2> QED BY <1>1, <1>5, <1>8
<1>10. Insertable(lists \ {f}, L \cup R)
  <2>1. Clear(lists \ {f}, i, e)
    BY EntriesApart
  <2>2. Space(i, p) /\ Space(q, e) /\ i <= i /\ p <= e /\ i <= q /\ e <= e
    BY <1>2, <1>3, <1>4 DEF Space
  <2> HIDE DEF i, e, q
  <2>3. Insertable(lists \ {f}, L) /\ Insertable(lists \ {f}, R)
    BY <1>4, <2>1, <2>2, Fits
  <2> HIDE DEF L, R
  <2> QED BY <2>3, FitsBoth
<1> QED BY <1>6, <1>7, <1>9, <1>10

-----------------------------------------------------------------------------
(***************************************************************************)
(* The neighbours of an index                                              *)
(***************************************************************************)

(***************************************************************************)
(* PrevEnd is where the last block that starts before an index ends, and   *)
(* no block before it ends behind that.                                    *)
(***************************************************************************)
LEMMA PrevIs ==
    ASSUME NEW w, NEW t, BlocksOk(w, t), NEW x \in Nat
    PROVE  /\ PrevEnd(w, x) \in Ends(w) /\ PrevEnd(w, x) \in Nat
           /\ PrevEnd(w, x) = 0 \/ \E i \in DOMAIN w : i < x /\ PrevEnd(w, x) = i + w[i]
           /\ \A i \in DOMAIN w : i < x => i + w[i] <= PrevEnd(w, x)
<1> DEFINE before == {i \in DOMAIN w : i < x}
           m == Max(before)
<1>0. \A i \in DOMAIN w : i \in Nat /\ w[i] \in Nat \ {0}
  BY DEF BlocksOk
<1>1. CASE before = {}
  <2>1. PrevEnd(w, x) = 0
    BY <1>1 DEF PrevEnd
  <2> QED BY <1>1, <2>1 DEF Ends
<1>2. CASE before # {}
  <2>1. m \in before /\ \A i \in before : i <= m
    <3>1. before \in SUBSET Nat /\ \A i \in before : i <= x
      BY <1>0
    <3> HIDE DEF before
    <3> QED BY <1>2, <3>1, MaxOfNats
  <2>2. PrevEnd(w, x) = m + w[m]
    BY <1>2 DEF PrevEnd
  <2> HIDE DEF m
  <2>3. m \in DOMAIN w /\ m < x /\ m \in Nat /\ w[m] \in Nat \ {0}
    BY <1>0, <2>1
  <2>4. ASSUME NEW i \in DOMAIN w, i < x PROVE i + w[i] <= m + w[m]
    <3>1. i \in Nat /\ w[i] \in Nat \ {0} /\ i <= m
      BY <1>0, <2>1, <2>4
    <3>2. i # m => i + w[i] <= m \/ m + w[m] <= i
      BY <2>3 DEF BlocksOk
    <3> QED BY <2>3, <3>1, <3>2
  <2>5. m + w[m] \in Ends(w) /\ m + w[m] \in Nat
    BY <2>3 DEF Ends
  <2> QED BY <2>2, <2>3, <2>4, <2>5
<1> QED BY <1>1, <1>2

(***************************************************************************)
(* NextStart is where the first block behind an index starts.              *)
(***************************************************************************)
LEMMA NextIs ==
    ASSUME NEW w, BlocksOk(w, total_size), NEW x \in Nat
    PROVE  /\ NextStart(w, x) \in Starts(w, total_size) /\ NextStart(w, x) \in Nat
           /\ NextStart(w, x) <= total_size
           /\ NextStart(w, x) = total_size \/
                 (NextStart(w, x) \in DOMAIN w /\ x < NextStart(w, x))
           /\ \A i \in DOMAIN w : i > x => NextStart(w, x) <= i
<1> DEFINE after == {i \in DOMAIN w : i > x}
           m == Min(after)
<1>0. /\ \A i \in DOMAIN w : i \in Nat /\ w[i] \in Nat \ {0} /\ i + w[i] <= total_size
      /\ total_size \in Nat
  BY DEF BlocksOk
<1>1. CASE after = {}
  <2>1. NextStart(w, x) = total_size
    BY <1>1 DEF NextStart
  <2> QED BY <1>0, <1>1, <2>1 DEF Starts
<1>2. CASE after # {}
  <2>1. m \in after /\ \A i \in after : m <= i
    <3>1. after \in SUBSET Nat
      BY <1>0
    <3> HIDE DEF after
    <3> QED BY <1>2, <3>1, MinOfNats
  <2>2. NextStart(w, x) = m
    BY <1>2 DEF NextStart
  <2> HIDE DEF m
  <2>3. m \in DOMAIN w /\ x < m /\ m \in Nat /\ m <= total_size
    BY <1>0, <2>1
  <2>4. \A i \in DOMAIN w : i > x => m <= i
    BY <2>1
  <2>5. m \in Starts(w, total_size)
    BY <2>3 DEF Starts
  <2> QED BY <2>2, <2>3, <2>4, <2>5
<1> QED BY <1>1, <1>2

(***************************************************************************)
(* The space between a block, or the end of all, and the block before it   *)
(* is a gap.                                                               *)
(***************************************************************************)
LEMMA GapBefore ==
    ASSUME NEW w, NEW t, BlocksOk(w, t), NEW x \in Starts(w, t)
    PROVE  IsGap(w, t, PrevEnd(w, x), x)
<1> DEFINE a == PrevEnd(w, x)
<1>0. /\ \A i \in DOMAIN w : i \in Nat /\ w[i] \in Nat \ {0} /\ i + w[i] <= t
      /\ \A i, j \in DOMAIN w : i # j => i + w[i] <= j \/ j + w[j] <= i
      /\ t \in Nat /\ x \in Nat
  BY DEF BlocksOk, Starts
<1>1. /\ a \in Ends(w) /\ a \in Nat
      /\ a = 0 \/ \E i \in DOMAIN w : i < x /\ a = i + w[i]
      /\ \A i \in DOMAIN w : i < x => i + w[i] <= a
  BY <1>0, PrevIs
<1> HIDE DEF a
<1>2. a <= x
  <2>1. ASSUME NEW i \in DOMAIN w, i < x, a = i + w[i] PROVE a <= x
    <3>1. CASE x = t
      BY <1>0, <2>1, <3>1
    <3>2. CASE x \in DOMAIN w
      <4>1. i + w[i] <= x \/ x + w[x] <= i
        BY <1>0, <2>1, <3>2
      <4> QED BY <1>0, <2>1, <3>2, <4>1
    <3> QED BY <3>1, <3>2 DEF Starts
  <2> QED BY <1>0, <1>1, <2>1
<1>3. \A i \in DOMAIN w : i + w[i] <= a \/ x <= i
  BY <1>0, <1>1
<1> QED BY <1>1, <1>2, <1>3 DEF IsGap, a

(***************************************************************************)
(* So is the space between a block and the next one.                       *)
(***************************************************************************)
LEMMA GapAfter ==
    ASSUME NEW w, BlocksOk(w, total_size), NEW p \in DOMAIN w
    PROVE  IsGap(w, total_size, p + w[p], NextStart(w, p))
<1> DEFINE b == NextStart(w, p)
           q == p + w[p]
<1>0. /\ \A i \in DOMAIN w : i \in Nat /\ w[i] \in Nat \ {0} /\ i + w[i] <= total_size
      /\ \A i, j \in DOMAIN w : i # j => i + w[i] <= j \/ j + w[j] <= i
      /\ total_size \in Nat /\ p \in Nat /\ w[p] \in Nat \ {0}
  BY DEF BlocksOk
<1>1. /\ b \in Starts(w, total_size) /\ b \in Nat
      /\ b = total_size \/ (b \in DOMAIN w /\ p < b)
      /\ \A i \in DOMAIN w : i > p => b <= i
  BY <1>0, NextIs
<1> HIDE DEF b
<1>2. q \in Ends(w)
  BY DEF Ends
<1>3. q <= b
  <2>1. CASE b = total_size
    BY <1>0, <2>1
  <2>2. CASE b \in DOMAIN w /\ p < b
    <3>1. q <= b \/ b + w[b] <= p
      BY <1>0, <2>2
    <3> QED BY <1>0, <2>2, <3>1
  <2> QED BY <1>1, <2>1, <2>2
<1>4. ASSUME NEW i \in DOMAIN w PROVE i + w[i] <= q \/ b <= i
  <2>1. i # p => i + w[i] <= p \/ q <= i
    BY <1>0
  <2>2. i \in Nat /\ w[i] \in Nat \ {0}
    BY <1>0
  <2> QED BY <1>0, <1>1, <2>1, <2>2
<1> QED BY <1>1, <1>2, <1>3, <1>4 DEF IsGap, b

(***************************************************************************)
(* Space that starts between two neighbouring blocks lies in the gap       *)
(* between them.                                                           *)
(***************************************************************************)
LEMMA GapAround ==
    ASSUME NEW w, BlocksOk(w, total_size), NEW x \in Nat, x \notin DOMAIN w,
           PrevEnd(w, x) <= x, x <= NextStart(w, x)
    PROVE  IsGap(w, total_size, PrevEnd(w, x), NextStart(w, x))
<1> DEFINE a == PrevEnd(w, x)
           b == NextStart(w, x)
<1>0. \A i \in DOMAIN w : i \in Nat
  BY DEF BlocksOk
<1>1. a \in Ends(w) /\ a \in Nat /\ \A i \in DOMAIN w : i < x => i + w[i] <= a
  BY PrevIs
<1>2. b \in Starts(w, total_size) /\ b \in Nat /\ \A i \in DOMAIN w : i > x => b <= i
  BY NextIs
<1> HIDE DEF a, b
<1>3. a <= b
  BY <1>1, <1>2 DEF a, b
<1>4. \A i \in DOMAIN w : i + w[i] <= a \/ b <= i
  <2> TAKE i \in DOMAIN w
  <2>1. i < x \/ i > x
    BY <1>0
  <2> QED BY <1>1, <1>2, <2>1
<1> QED BY <1>1, <1>2, <1>3, <1>4 DEF IsGap, a, b

(***************************************************************************)
(* Space of which no index is in a block lies between two neighbouring     *)
(* blocks.                                                                 *)
(***************************************************************************)
LEMMA FreeBetween ==
    ASSUME NEW w, BlocksOk(w, total_size), NEW x \in Nat, NEW n \in Nat \ {0}
    PROVE  (/\ x + n <= total_size
            /\ \A y \in x..(x + n - 1), i \in DOMAIN w : y \notin i..(i + w[i] - 1))
           <=> /\ x \notin DOMAIN w /\ PrevEnd(w, x) <= x
               /\ x + n <= NextStart(w, x)
<1> DEFINE a == PrevEnd(w, x)
           b == NextStart(w, x)
<1>0. /\ \A i \in DOMAIN w : i \in Nat /\ w[i] \in Nat \ {0} /\ i + w[i] <= total_size
      /\ total_size \in Nat
  BY DEF BlocksOk
<1>1. /\ a \in Nat
      /\ a = 0 \/ \E i \in DOMAIN w : i < x /\ a = i + w[i]
      /\ \A i \in DOMAIN w : i < x => i + w[i] <= a
  BY PrevIs
<1>2. /\ b \in Nat /\ b <= total_size
      /\ b = total_size \/ (b \in DOMAIN w /\ x < b)
      /\ \A i \in DOMAIN w : i > x => b <= i
  BY NextIs
<1> HIDE DEF a, b
<1>3. ASSUME x + n <= total_size,
             \A y \in x..(x + n - 1), i \in DOMAIN w : y \notin i..(i + w[i] - 1)
      PROVE  x \notin DOMAIN w /\ a <= x /\ x + n <= b
  <2>1. x \in x..(x + n - 1)
    OBVIOUS
  <2>2. ASSUME x \in DOMAIN w PROVE FALSE
    <3>1. x \in x..(x + w[x] - 1)
      BY <1>0, <2>2
    <3> QED BY <1>3, <2>1, <2>2, <3>1
  <2>3. a <= x
    <3>1. ASSUME NEW i \in DOMAIN w, i < x, a = i + w[i], a > x PROVE FALSE
      <4>1. x \in i..(i + w[i] - 1)
        BY <1>0, <3>1
      <4> QED BY <1>3, <2>1, <4>1
    <3> QED BY <1>1, <3>1
  <2>4. x + n <= b
    <3>1. ASSUME b \in DOMAIN w, x < b, b < x + n PROVE FALSE
      <4>1. b \in x..(x + n - 1) /\ b \in b..(b + w[b] - 1)
        BY <1>0, <3>1
      <4> QED BY <1>3, <3>1, <4>1
    <3> QED BY <1>2, <1>3, <3>1
  <2> QED BY <2>2, <2>3, <2>4
<1>4. ASSUME x \notin DOMAIN w, a <= x, x + n <= b
      PROVE  /\ x + n <= total_size
             /\ \A y \in x..(x + n - 1), i \in DOMAIN w : y \notin i..(i + w[i] - 1)
  <2>1. x + n <= total_size
    BY <1>0, <1>2, <1>4
  <2>2. ASSUME NEW y \in x..(x + n - 1), NEW i \in DOMAIN w, y \in i..(i + w[i] - 1)
        PROVE  FALSE
    <3>1. i \in Nat /\ w[i] \in Nat
      BY <1>0
    <3>2. i < x \/ i > x
      BY <1>4, <3>1
    <3>3. i + w[i] <= a \/ b <= i
      BY <1>1, <1>2, <3>2
    <3> QED BY <1>1, <1>2, <1>4, <2>2, <3>1, <3>3
  <2> QED BY <2>1, <2>2
<1> QED BY <1>3, <1>4 DEF a, b

-----------------------------------------------------------------------------
(***************************************************************************)
(* Space without blocks                                                    *)
(***************************************************************************)

\* The entry of the last list that starts at i.
Cell(nfl, i) == [log2 |-> nfl - 1, index |-> i, size |-> pow2[nfl - 1]]

\* Those that start from a on and before b.
Cells(nfl, a, b) ==
    {Cell(nfl, i) : i \in {j \in a..(b - 1) : Aligned(j, nfl - 1)}}

(***************************************************************************)
(* Space between multiples of the largest size is split into entries of    *)
(* that size.                                                              *)
(***************************************************************************)
LEMMA WholeSpace ==
    ASSUME NEW nfl \in Lists, NEW b \in Nat, b < pow2[32], Aligned(b, nfl - 1)
    PROVE  \A a \in 0..b : Aligned(a, nfl - 1) => Split(nfl, a, b) = Cells(nfl, a, b)
<1> DEFINE top == nfl - 1
           p == pow2[top]
           Same(a) == Aligned(a, top) => Split(nfl, a, b) = Cells(nfl, a, b)
           S == {a \in 0..b : Same(a)}
<1>0. top \in 0..32 /\ p \in Nat \ {0} /\ top \in 0..(nfl - 1) /\ pow2[32] \in Nat
  BY Pow2Positive DEF Lists
<1>1. ASSUME NEW a \in 0..b, \A x \in (a + 1)..b : x \in S PROVE Same(a)
  <2> SUFFICES ASSUME Aligned(a, top) PROVE Split(nfl, a, b) = Cells(nfl, a, b)
    OBVIOUS
  <2>0. Space(a, b) /\ a \in Nat
    BY DEF Space
  <2>1. CASE a = b
    <3>1. Cells(nfl, a, b) = {}
      BY <2>1 DEF Cells
    <3> QED BY <2>0, <2>1, <3>1, SplitStep
  <2>2. CASE a < b
    <3> DEFINE c == ChunkAt(nfl, a, b - a)
               e == EndOf(c)
    <3>1. /\ Split(nfl, a, b) = {c} \cup Split(nfl, e, b)
          /\ c.index = a /\ a < e /\ e <= b /\ Space(e, b)
      BY <2>0, <2>2, SplitStep
    <3>2. IsChunk(nfl, a, b, c)
      BY <2>0, <2>2, ChunkIs
    <3>3. a + p <= b
      BY <1>0, <2>0, <2>2, AlignedSums
    <3>4. c = Cell(nfl, a) /\ e = a + p
      <4> DEFINE u == log2_uint32_ceil(b - a)
      <4>1. u \in 0..32 /\ \A k \in 0..32 : b - a <= pow2[k] <=> u <= k
        <5>1. b - a \in Nat /\ b - a <= pow2[32]
          BY <1>0
        <5> QED BY <5>1, CeilIs
      <4>2. top <= u
        <5>1. u < top => pow2[u] < p
          BY <1>0, <4>1, Pow2Grows
        <5>2. b - a <= pow2[u] /\ pow2[u] \in Nat
          BY <4>1, Pow2Positive
        <5> HIDE DEF u, p
        <5> QED BY <1>0, <3>3, <4>1, <5>1, <5>2
      <4>3. c.log2 = top
        <5>1. top <= c.log2 /\ c.log2 \in 0..(nfl - 1)
          BY <1>0, <3>2, <4>2 DEF IsChunk
        <5> QED BY <1>0, <5>1
      <4>4. c.size = p
        <5>1. /\ c.size \in 1..(b - a) /\ c.size <= p
              /\ c.size = b - a \/ c.size = p
          BY <3>2, <4>3 DEF IsChunk
        <5> HIDE DEF c, p
        <5> QED BY <1>0, <3>3, <5>1
      <4>5. c = [log2 |-> c.log2, index |-> a, size |-> c.size]
        BY <3>2 DEF IsChunk
      <4> HIDE DEF c
      <4> QED BY <3>1, <4>3, <4>4, <4>5 DEF Cell, EndOf
    <3>5. Aligned(a + p, top)
      <4>1. Aligned(p, top)
        <5>1. p = 1 * p
          BY <1>0
        <5> QED BY <1>0, <5>1, AlignedMultiple
      <4> QED BY <1>0, <2>0, <4>1, AlignedSums
    <3> HIDE DEF c, e
    <3>6. Split(nfl, e, b) = Cells(nfl, e, b)
      <4>1. e \in (a + 1)..b
        BY <1>0, <3>3, <3>4
      <4>2. Same(e)
        <5> HIDE DEF Same
        <5> QED BY <1>1, <4>1
      <4> QED BY <3>4, <3>5, <4>2
    <3>7. Cells(nfl, a, b) = {Cell(nfl, a)} \cup Cells(nfl, a + p, b)
      <4> HIDE DEF p
      <4> DEFINE A == {j \in a..(b - 1) : Aligned(j, top)}
                 E == {j \in (a + p)..(b - 1) : Aligned(j, top)}
      <4>1. ASSUME NEW j \in A, j # a PROVE j \in E
        <5>1. j \in Nat /\ a < j /\ Aligned(j, top)
          BY <2>0, <4>1
        <5>2. a + p <= j
          BY <1>0, <2>0, <5>1, AlignedSums DEF p
        <5> QED BY <1>0, <5>1, <5>2
      <4>2. a \in A /\ E \subseteq A
        BY <1>0, <2>0, <2>2
      <4>3. A = {a} \cup E
        <5> HIDE DEF A, E
        <5> QED BY <4>1, <4>2
      <4> QED BY <4>3 DEF Cells
    <3> QED BY <3>1, <3>4, <3>6, <3>7
  <2> QED BY <2>1, <2>2
<1>2. \A a \in 0..b : (\A x \in (a + 1)..b : x \in S) => a \in S
  <2> HIDE DEF Same
  <2> QED BY <1>1
<1>3. \A a \in 0..b : a \in S
  <2> HIDE DEF S
  <2> QED BY <1>2, Downwards
<1> QED BY <1>3

(***************************************************************************)
(* Without blocks all of the space is one gap.                             *)
(***************************************************************************)
LEMMA NoBlocksGap ==
    ASSUME NEW nfl \in Lists, NEW lists, NEW t \in Nat, t < pow2[32], Aligned(t, nfl - 1)
    PROVE  /\ BlocksOk(NoBlocks, t)
           /\ Canonical(nfl, lists, NoBlocks, t) <=> lists = Cells(nfl, 0, t)
<1>1. DOMAIN NoBlocks = {} /\ NoBlocks \in [DOMAIN NoBlocks -> Nat \ {0}]
  BY DEF NoBlocks
<1>2. BlocksOk(NoBlocks, t)
  BY <1>1 DEF BlocksOk
<1>3. \A a, b : IsGap(NoBlocks, t, a, b) <=> a = 0 /\ b = t
  BY <1>1 DEF IsGap, Ends, Starts
<1>4. Gaps(NoBlocks, t) = {<<0, t>>}
  <2>1. \A g \in (0..t) \X (0..t) : g = <<g[1], g[2]>>
    OBVIOUS
  <2>2. <<0, t>> \in (0..t) \X (0..t) /\ <<0, t>>[1] = 0 /\ <<0, t>>[2] = t
    OBVIOUS
  <2> QED BY <1>3, <2>1, <2>2 DEF Gaps
<1>5. UNION {Split(nfl, g[1], g[2]) : g \in Gaps(NoBlocks, t)} = Split(nfl, 0, t)
  BY <1>4
<1>6. Split(nfl, 0, t) = Cells(nfl, 0, t)
  <2>1. Aligned(0, nfl - 1) /\ 0 \in 0..t
    <3>1. nfl - 1 \in 0..32 /\ pow2[nfl - 1] \in Nat \ {0}
      BY Pow2Positive DEF Lists
    <3> QED BY <3>1 DEF Aligned
  <2> QED BY <2>1, WholeSpace
<1> QED BY <1>2, <1>5, <1>6 DEF Canonical

(***************************************************************************)
(* The entries that power2_allocator_create makes for count blocks of the  *)
(* largest size.                                                           *)
(***************************************************************************)
LEMMA CreatedCells ==
    ASSUME NEW nfl \in Lists, NEW count \in Nat, pow2[nfl - 1] * count < pow2[32]
    PROVE  UNION {Chunks(nfl, i * pow2[nfl - 1], pow2[nfl - 1]) : i \in 0..(count - 1)}
              = Cells(nfl, 0, pow2[nfl - 1] * count)
<1> DEFINE top == nfl - 1
           p == pow2[top]
           t == p * count
           made == UNION {Chunks(nfl, i * p, p) : i \in 0..(count - 1)}
<1>0. top \in 0..32 /\ p \in Nat \ {0} /\ pow2[32] \in Nat
  BY Pow2Positive DEF Lists
<1>00. t \in Nat
  BY <1>0
<1>1. ASSUME NEW i \in 0..(count - 1)
      PROVE  /\ Chunks(nfl, i * p, p) = {Cell(nfl, i * p)}
             /\ i * p \in 0..(t - 1) /\ Aligned(i * p, top)
  <2> DEFINE a == i * p
             b == (i + 1) * p
  <2>1. a \in Nat /\ b \in Nat /\ b = a + p /\ a < b
    <3> HIDE DEF p
    <3> QED BY <1>0
  <2>2. b <= t
    <3>1. count - (i + 1) \in Nat
      OBVIOUS
    <3>2. t = b + (count - (i + 1)) * p /\ (count - (i + 1)) * p >= 0
      <4> HIDE DEF p
      <4> QED BY <1>0, <3>1
    <3> DEFINE r == (count - (i + 1)) * p
    <3>3. r \in Nat
      BY <1>0, <3>1
    <3> HIDE DEF r, b, t
    <3> QED BY <2>1, <3>2, <3>3 DEF r
  <2>3. Aligned(a, top) /\ Aligned(b, top)
    <3>1. i \in Nat /\ i + 1 \in Nat
      OBVIOUS
    <3> QED BY <1>0, <2>1, <3>1, AlignedMultiple
  <2>4. b < pow2[32]
    <3> HIDE DEF b, t
    <3> QED BY <1>0, <1>00, <2>1, <2>2 DEF t
  <2>5. Split(nfl, a, b) = Cells(nfl, a, b)
    <3> HIDE DEF a, b
    <3>1. a \in 0..b
      BY <2>1
    <3> QED BY <2>1, <2>3, <2>4, <3>1, WholeSpace
  <2>6. Cells(nfl, a, b) = {Cell(nfl, a)}
    <3> HIDE DEF a, b, p
    <3>1. ASSUME NEW j \in a..(b - 1), Aligned(j, top), j # a PROVE FALSE
      <4>1. j \in Nat /\ a < j
        BY <2>1, <3>1
      <4>2. a + p <= j
        BY <1>0, <2>1, <2>3, <3>1, <4>1, AlignedSums DEF p
      <4> QED BY <1>0, <2>1, <4>1, <4>2
    <3>2. {j \in a..(b - 1) : Aligned(j, top)} = {a}
      BY <2>1, <2>3, <3>1
    <3> QED BY <3>2 DEF Cells
  <2>7. Split(nfl, a, b) = Chunks(nfl, a, p)
    <3>1. b - a = p
      <4> HIDE DEF a, b, p
      <4> QED BY <1>0, <2>1
    <3> QED BY <3>1 DEF Split
  <2>8. a \in 0..(t - 1)
    <3> HIDE DEF a, b, t
    <3> QED BY <1>00, <2>1, <2>2
  <2> QED BY <2>3, <2>5, <2>6, <2>7, <2>8
<1>2. ASSUME NEW j \in 0..(t - 1), Aligned(j, top)
      PROVE  \E i \in 0..(count - 1) : j = i * p
  <2>0. j \in Nat
    <3> HIDE DEF t
    <3> QED BY <1>00
  <2>1. PICK q \in Nat : j = q * p
    BY <1>0, <1>2, <2>0, AlignedMultiple
  <2>2. q < count
    <3>1. ASSUME q >= count PROVE FALSE
      <4>1. q - count \in Nat
        BY <3>1
      <4> DEFINE r == (q - count) * p
      <4>2. r \in Nat /\ q * p = t + r
        <5> HIDE DEF p
        <5> QED BY <1>0, <4>1
      <4> HIDE DEF r, t
      <4> QED BY <1>00, <2>1, <4>2
    <3> QED BY <3>1
  <2> QED BY <2>1, <2>2
<1> HIDE DEF t, p
<1>3. made = {Cell(nfl, j) : j \in {k \in 0..(t - 1) : Aligned(k, top)}}
  BY <1>1, <1>2
<1> QED BY <1>3 DEF Cells, t, p

-----------------------------------------------------------------------------
(***************************************************************************)
(* The inductive invariant                                                 *)
(***************************************************************************)

\* What holds of an allocator that power2_allocator_create has returned: the
\* blocks are apart, and the free lists are what the loop that splits free
\* space makes of the gaps between them, however the gaps came about.
Sound ==
    /\ no_free_lists \in Lists
    /\ max_size = pow2[no_free_lists - 1] /\ max_size < UINT32
    /\ total_size \in 0..(UINT32 - 1) /\ Aligned(total_size, no_free_lists - 1)
    /\ 2 * total_size <= UINT32
    /\ BlocksOk(inuse_list, total_size)
    /\ Canonical(no_free_lists, free_lists, inuse_list, total_size)

Blank ==
    /\ max_size = 0 /\ total_size = 0 /\ no_free_lists = 0
    /\ free_lists = {} /\ inuse_list = NoBlocks

PInv ==
    /\ live \in BOOLEAN /\ aborted = FALSE
    /\ live => Sound
    /\ ~live => Blank

(***************************************************************************)
(* What is in uint32_t is below 2^32.                                      *)
(***************************************************************************)
LEMMA Width == UINT32 \in Nat \ {0} /\ \A x \in 0..(UINT32 - 1) : x \in Nat /\ x < pow2[32]
<1>1. PICK n \in 1..32 : UINT32 = pow2[n]
  BY ArgsAssumption
<1>2. n \in 0..32 /\ 32 \in 0..32 /\ n <= 32
  OBVIOUS
<1>3. UINT32 <= pow2[32] /\ UINT32 \in Nat \ {0} /\ pow2[32] \in Nat
  BY <1>1, <1>2, Pow2Grows, Pow2Positive
<1> DEFINE p == pow2[32]
<1> HIDE DEF p
<1>4. UINT32 <= p /\ UINT32 \in Nat \ {0} /\ p \in Nat
  BY <1>3 DEF p
<1>5. \A x \in 0..(UINT32 - 1) : x \in Nat /\ x < p
  BY <1>4
<1> QED BY <1>4, <1>5 DEF p

(***************************************************************************)
(* An operation none of whose assertions fails.                            *)
(***************************************************************************)
LEMMA Commits ==
    ASSUME PInv, live, NEW asserts, NEW lists, NEW inuse, Commit(asserts, lists, inuse),
           asserts, BlocksOk(inuse, total_size),
           Canonical(no_free_lists, lists, inuse, total_size)
    PROVE  PInv' /\ inuse_list' = inuse /\ free_lists' = lists
<1>1. /\ aborted' = FALSE /\ free_lists' = lists /\ inuse_list' = inuse
      /\ live' = live /\ max_size' = max_size /\ total_size' = total_size
      /\ no_free_lists' = no_free_lists
  BY DEF Commit
<1>2. Sound
  BY DEF PInv
<1>3. Sound'
  <2>1. BlocksOk(inuse_list', total_size')
    BY <1>1
  <2>2. Canonical(no_free_lists', free_lists', inuse_list', total_size')
    BY <1>1
  <2> QED BY <1>1, <1>2, <2>1, <2>2 DEF Sound
<1> QED BY <1>1, <1>3 DEF PInv

(***************************************************************************)
(* power2_allocator_create                                                 *)
(***************************************************************************)
LEMMA CreateKeeps ==
    ASSUME PInv, NEW args \in CreateArgs, Create(args[1], args[2])
    PROVE  PInv' /\ total_size' \in 0..(UINT32 - 1)
<1> DEFINE s == args[1]
           n == args[2]
           k == log2_uint32_ceil(s)
<1>0. s \in 0..(UINT32 - 1) /\ n \in 0..(UINT32 - 1) /\ 2 * (s * n) <= UINT32
  BY ArgsAssumption
<1>1. s \in 0..(UINT32 - 1) /\ n \in 0..(UINT32 - 1) /\ s * n < UINT32
  <2>1. UINT32 \in Nat \ {0} /\ s \in Nat /\ n \in Nat
    BY <1>0, Width
  <2>2. s * n \in Nat
    BY <2>1
  <2> DEFINE t == s * n
  <2> HIDE DEF t
  <2>3. t \in Nat /\ 2 * t <= UINT32
    BY <1>0, <2>2 DEF t
  <2>4. t < UINT32
    BY <2>1, <2>3
  <2> QED BY <1>0, <2>4 DEF t
<1>2. UINT32 \in Nat \ {0} /\ \A x \in 0..(UINT32 - 1) : x \in Nat /\ x < pow2[32]
  BY Width
<1>3. s \in Nat /\ n \in Nat /\ s < pow2[32] /\ s < UINT32
  BY <1>1, <1>2
<1>4. k \in 0..31 /\ pow2[k] = s
  BY <1>3, Power2Is DEF Create
<1> DEFINE nfl == k + 1
<1>5. nfl \in Lists /\ nfl - 1 = k
  BY <1>4 DEF Lists
<1>6. s * n \in 0..(UINT32 - 1) /\ (s * n) % UINT32 = s * n
  <2>1. s * n \in Nat
    BY <1>3
  <2> DEFINE t == s * n
  <2> HIDE DEF t
  <2>2. t \in Nat /\ t < UINT32
    BY <1>1, <2>1 DEF t
  <2>3. t \in 0..(UINT32 - 1) /\ t % UINT32 = t
    BY <1>2, <2>2
  <2> QED BY <2>3 DEF t
<1>7. s * n \in Nat /\ s * n < pow2[32]
  BY <1>2, <1>6
<1>8. Aligned(s * n, nfl - 1)
  <2>1. s * n = n * pow2[k]
    BY <1>3, <1>4
  <2>2. k \in 0..32
    BY <1>4
  <2> QED BY <1>3, <1>5, <1>7, <2>1, <2>2, AlignedMultiple
<1> HIDE DEF k
<1>9. UNION {Chunks(nfl, i * s, s) : i \in 0..(n - 1)} = Cells(nfl, 0, s * n)
  <2>1. pow2[nfl - 1] * n < pow2[32] /\ pow2[nfl - 1] = s
    BY <1>4, <1>5, <1>7
  <2> HIDE DEF nfl, s
  <2> QED BY <1>3, <1>5, <2>1, CreatedCells
<1>10. /\ live' = TRUE /\ aborted' = FALSE /\ max_size' = s
       /\ total_size' = s * n /\ no_free_lists' = nfl
       /\ free_lists' = Cells(nfl, 0, s * n) /\ inuse_list' = NoBlocks
  BY <1>6, <1>9 DEF Create, PInv, k
<1>11. BlocksOk(NoBlocks, s * n) /\ Canonical(nfl, Cells(nfl, 0, s * n), NoBlocks, s * n)
  <2> DEFINE t == s * n
  <2> HIDE DEF nfl, t
  <2> QED BY <1>5, <1>7, <1>8, NoBlocksGap DEF t
<1> HIDE DEF nfl
<1>12. Sound'
  <2>1. BlocksOk(inuse_list', total_size')
    BY <1>10, <1>11
  <2>2. Canonical(no_free_lists', free_lists', inuse_list', total_size')
    BY <1>10, <1>11
  <2>3. Aligned(total_size', no_free_lists' - 1)
    BY <1>8, <1>10
  <2>4. max_size' = pow2[no_free_lists' - 1] /\ max_size' < UINT32
    BY <1>3, <1>4, <1>5, <1>10
  <2>5. no_free_lists' \in Lists /\ total_size' \in 0..(UINT32 - 1)
    BY <1>5, <1>6, <1>10
  <2>6. 2 * total_size' <= UINT32
    BY <1>0, <1>10
  <2> QED BY <2>1, <2>2, <2>3, <2>4, <2>5, <2>6 DEF Sound, Aligned
<1> QED BY <1>6, <1>10, <1>12 DEF PInv

(***************************************************************************)
(* Rounding down.                                                          *)
(***************************************************************************)
LEMMA ClearLowIs ==
    ASSUME NEW x \in Nat, NEW n \in 0..32
    PROVE  /\ ClearLow(x, n) \in Nat /\ Aligned(ClearLow(x, n), n)
           /\ ClearLow(x, n) <= x /\ x < ClearLow(x, n) + pow2[n]
<1> DEFINE p == pow2[n]
           y == x - (x % p)
<1>1. p \in Nat \ {0}
  BY Pow2Positive
<1> HIDE DEF p
<1>2. x % p \in 0..(p - 1) /\ x \div p \in Nat /\ x = p * (x \div p) + (x % p)
  BY <1>1
<1>3. x % p <= x
  <2>1. p * (x \div p) \in Nat
    BY <1>1, <1>2
  <2> DEFINE d == p * (x \div p)
             r == x % p
  <2> HIDE DEF d, r
  <2>2. x = d + r /\ d \in Nat /\ r \in Nat
    BY <1>1, <1>2, <2>1 DEF d, r
  <2>3. r <= x
    BY <2>2
  <2> QED BY <2>3 DEF r
<1>4. y \in Nat /\ y <= x /\ x < y + p
  <2> DEFINE r == x % p
  <2> HIDE DEF r
  <2>1. r \in 0..(p - 1) /\ r <= x
    BY <1>2, <1>3 DEF r
  <2>2. x - r \in Nat /\ x - r <= x /\ x < (x - r) + p
    BY <1>1, <2>1
  <2> QED BY <2>2 DEF r
<1>5. y = (x \div p) * p
  <2> DEFINE r == x % p
             d == x \div p
  <2> HIDE DEF r, d
  <2>1. x = p * d + r /\ r \in 0..(p - 1) /\ d \in Nat
    BY <1>2 DEF r, d
  <2>2. x - r = d * p
    BY <1>1, <2>1
  <2> QED BY <2>2 DEF r, d
<1>6. Aligned(y, n)
  <2> HIDE DEF y
  <2> QED BY <1>2, <1>4, <1>5, AlignedMultiple DEF p
<1> HIDE DEF y
<1> QED BY <1>4, <1>6 DEF ClearLow, y, p

(***************************************************************************)
(* The sizes that alloc and reserve are called with.                       *)
(***************************************************************************)
LEMMA SizeIs ==
    ASSUME NEW size \in Sizes
    PROVE  /\ size \in Nat \ {0} /\ size < UINT32 /\ size <= pow2[32]
           /\ log2_uint32_ceil(size) \in 0..32
           /\ \A k \in 0..32 : size <= pow2[k] <=> log2_uint32_ceil(size) <= k
<1>1. size \in 1..(UINT32 - 1) /\ size \in 0..(UINT32 - 1)
  BY ArgsAssumption, Width
<1>2. size \in Nat /\ size < pow2[32] /\ size \in Nat \ {0} /\ size < UINT32
  BY <1>1, Width
<1>3. size <= pow2[32]
  BY <1>2, Pow2Positive
<1> QED BY <1>2, <1>3, CeilIs

(***************************************************************************)
(* The facts about an allocator that the steps below start from.           *)
(***************************************************************************)
LEMMA SoundIs ==
    ASSUME PInv, live
    PROVE  /\ no_free_lists \in Lists /\ no_free_lists - 1 \in 0..31
           /\ max_size = pow2[no_free_lists - 1] /\ max_size \in Nat \ {0}
           /\ max_size < UINT32
           /\ total_size \in Nat /\ total_size < pow2[32] /\ total_size < UINT32
           /\ Aligned(total_size, no_free_lists - 1)
           /\ BlocksOk(inuse_list, total_size)
           /\ Canonical(no_free_lists, free_lists, inuse_list, total_size)
<1>1. Sound
  BY DEF PInv
<1>2. total_size \in Nat /\ total_size < pow2[32] /\ total_size < UINT32
  BY <1>1, Width DEF Sound
<1>3. no_free_lists - 1 \in 0..31 /\ no_free_lists - 1 \in 0..32
  BY <1>1 DEF Sound, Lists
<1>4. pow2[no_free_lists - 1] \in Nat \ {0}
  BY <1>3, Pow2Positive
<1> QED BY <1>1, <1>2, <1>3, <1>4 DEF Sound

(***************************************************************************)
(* power2_allocator_alloc finds an entry that holds the block, at an index *)
(* that is aligned.                                                        *)
(***************************************************************************)
LEMMA AllocFinds ==
    ASSUME PInv, live, NEW size \in Sizes, ~AllocFails(size)
    PROVE  /\ AllocEntry(size) \in free_lists
           /\ AllocIndex(size) \in Nat
           /\ AllocEntry(size).index <= AllocIndex(size)
           /\ AllocIndex(size) + size <= EndOf(AllocEntry(size))
           /\ Aligned(AllocIndex(size), log2_uint32_ceil(size))
<1> DEFINE k == log2_uint32_ceil(size)
           m == Min(FitLists(size))
           fits == {g \in free_lists : g.log2 = m /\ g.size >= size}
           f == AllocEntry(size)
<1>0. size \in Nat \ {0} /\ k \in 0..32 /\ size <= pow2[k]
  <2>1. /\ size \in Nat \ {0} /\ k \in 0..32
        /\ \A j \in 0..32 : size <= pow2[j] <=> k <= j
    BY SizeIs
  <2> QED BY <2>1
<1>1. /\ no_free_lists \in Lists /\ total_size < pow2[32] /\ total_size \in Nat
      /\ BlocksOk(inuse_list, total_size)
      /\ Canonical(no_free_lists, free_lists, inuse_list, total_size)
  BY SoundIs
<1>2. m \in FitLists(size)
  <2>1. FitLists(size) \in SUBSET Nat /\ FitLists(size) # {}
    <3>1. k..(no_free_lists - 1) \subseteq Nat
      BY <1>0, <1>1 DEF Lists
    <3> QED BY <3>1 DEF FitLists, AllocFails
  <2> QED BY <2>1, MinOfNats
<1>3. m \in k..(no_free_lists - 1) /\ fits # {}
  BY <1>2 DEF FitLists
<1> HIDE DEF m
<1>4. \A g \in free_lists : g.index \in Nat
  <2> TAKE g \in free_lists
  <2>1. g \in [log2 : 0..(no_free_lists - 1), index : 0..total_size, size : 1..total_size]
    BY <1>1, EntriesApart
  <2> QED BY <2>1
<1>5. f \in fits
  <2> DEFINE S == {g.index : g \in fits}
  <2>1. S \in SUBSET Nat /\ S # {}
    BY <1>3, <1>4
  <2> HIDE DEF S
  <2>2. PICK x \in S : \A y \in S : x <= y
    BY <2>1, LeastNat
  <2>3. \E g \in fits : \A h \in fits : g.index <= h.index
    BY <2>2 DEF S
  <2>4. f = CHOOSE g \in fits : \A h \in fits : g.index <= h.index
    BY DEF AllocEntry, FirstEntry, m
  <2> HIDE DEF f, fits
  <2> QED BY <2>3, <2>4
<1>6. f \in free_lists /\ f.log2 = m /\ f.size >= size
  BY <1>5
<1>7. /\ f \in [log2 : 0..(no_free_lists - 1), index : 0..total_size, size : 1..total_size]
      /\ f.index < EndOf(f) /\ EndOf(f) <= total_size /\ Aligned(f.index, f.log2)
  BY <1>1, <1>6, EntriesApart
<1> HIDE DEF f
<1> DEFINE i == f.index
           e == EndOf(f)
           p == pow2[k]
           z == ClearLow(e - 1, k)
<1>8. i \in Nat /\ f.size \in Nat \ {0} /\ e = i + f.size /\ e \in Nat /\ e - 1 \in Nat
  BY <1>1, <1>7 DEF EndOf
<1>9. Aligned(i, k)
  <2>1. m \in 0..32 /\ k \in 0..m
    BY <1>0, <1>1, <1>3 DEF Lists
  <2> QED BY <1>6, <1>7, <1>8, <2>1, AlignedLower
<1>10. z \in Nat /\ Aligned(z, k) /\ z <= e - 1 /\ e - 1 < z + p
  <2> HIDE DEF e
  <2> QED BY <1>0, <1>8, ClearLowIs
<1>11. p \in Nat \ {0} /\ size <= p
  BY <1>0, Pow2Positive
<1>12. AllocIndex(size) = IF z + size > e THEN z - p ELSE z
  <2> DEFINE y == ClearLow(f.index + f.size - 1, k)
  <2>1. AllocIndex(size) = IF y + size > f.index + f.size THEN y - p ELSE y
    BY DEF AllocIndex, f
  <2>2. e = f.index + f.size
    BY DEF EndOf
  <2>3. y = z
    <3>1. e - 1 = f.index + f.size - 1
      <4> HIDE DEF e
      <4> QED BY <1>8, <2>2
    <3> HIDE DEF e
    <3> QED BY <3>1
  <2> HIDE DEF y, e, p, z
  <2> QED BY <2>1, <2>2, <2>3
<1>13. i < z => i + p <= z
  BY <1>0, <1>8, <1>9, <1>10, AlignedSums
<1>14. z < i => z + p <= i
  BY <1>0, <1>8, <1>9, <1>10, AlignedSums
<1> HIDE DEF z, p, e, i, k
<1>15. i + size <= e
  BY <1>0, <1>6, <1>8 DEF i
<1>16. i <= z
  BY <1>8, <1>10, <1>11, <1>14
<1>17. CASE z + size > e
  <2>1. i < z
    BY <1>0, <1>8, <1>10, <1>15, <1>16, <1>17
  <2>2. z - p \in Nat /\ i <= z - p /\ (z - p) + size <= e
    BY <1>0, <1>8, <1>10, <1>11, <1>13, <2>1
  <2>3. Aligned(z - p, k)
    <3>1. Aligned(p, k)
      <4>1. p = 1 * p
        BY <1>11
      <4> QED BY <1>0, <1>11, <4>1, AlignedMultiple DEF p
    <3>2. p <= z
      BY <1>8, <1>11, <1>13, <2>1, <1>10
    <3> QED BY <1>0, <1>10, <1>11, <3>1, <3>2, AlignedSums
  <2> QED BY <1>6, <1>12, <1>17, <2>2, <2>3 DEF i, e, k, f
<1>18. CASE ~(z + size > e)
  <2>1. z + size <= e
    BY <1>0, <1>8, <1>10, <1>18
  <2> QED BY <1>6, <1>10, <1>12, <1>16, <1>18, <2>1 DEF i, e, k, f
<1> QED BY <1>17, <1>18

(***************************************************************************)
(* power2_allocator_alloc                                                  *)
(***************************************************************************)
LEMMA AllocKeeps ==
    ASSUME PInv, NEW size \in Sizes, Alloc(size)
    PROVE  PInv' /\ live /\ inuse_list' = Put(inuse_list, AllocIndex(size), size)
<1> DEFINE f == AllocEntry(size)
           p == AllocIndex(size)
           e == EndOf(f)
           rest == free_lists \ {f}
           split == Split(no_free_lists, f.index, p) \cup Split(no_free_lists, p + size, e)
           v == Put(inuse_list, p, size)
<1>1. live /\ ~AllocFails(size)
  BY DEF Alloc, AllocFails
<1>2. /\ no_free_lists \in Lists /\ total_size < pow2[32]
      /\ BlocksOk(inuse_list, total_size)
      /\ Canonical(no_free_lists, free_lists, inuse_list, total_size)
  BY <1>1, SoundIs
<1>3. /\ f \in free_lists /\ p \in Nat /\ f.index <= p /\ p + size <= e
  BY <1>1, AllocFinds
<1>4. size \in Nat \ {0}
  BY SizeIs
<1>5. Commit(/\ p >= f.index
             /\ p + size <= e
             /\ Insertable(rest, split)
             /\ Markable(inuse_list, p), rest \cup split, v)
  BY DEF Alloc, Split, EndOf
<1> HIDE DEF f, p
<1>6. /\ BlocksOk(v, total_size) /\ p \notin DOMAIN inuse_list
      /\ Canonical(no_free_lists, rest \cup split, v, total_size)
      /\ Insertable(rest, split)
  BY <1>2, <1>3, <1>4, TakeEntry
<1>7. Markable(inuse_list, p)
  BY <1>6 DEF Markable
<1>8. f.index \in Nat
  <2>1. f \in [log2 : 0..(no_free_lists - 1), index : 0..total_size, size : 1..total_size]
    BY <1>2, <1>3, EntriesApart
  <2> QED BY <2>1
<1> DEFINE asserts == p >= f.index /\ p + size <= e /\ Insertable(rest, split)
                      /\ Markable(inuse_list, p)
<1>9. asserts /\ Commit(asserts, rest \cup split, v)
  BY <1>3, <1>5, <1>6, <1>7, <1>8
<1> HIDE DEF rest, split, e, asserts, v
<1>10. PInv' /\ inuse_list' = v
  BY <1>1, <1>6, <1>9, Commits
<1> QED BY <1>1, <1>10 DEF v, p

(***************************************************************************)
(* power2_allocator_release                                                *)
(***************************************************************************)
LEMMA ReleaseKeeps ==
    ASSUME PInv, NEW index \in DOMAIN inuse_list, Release(index)
    PROVE  PInv' /\ live /\ inuse_list' = Del(inuse_list, {index})
<1> DEFINE w == inuse_list
           a == PrevEnd(w, index)
           b == NextStart(w, index)
           q == index + w[index]
           L == Split(no_free_lists, a, index)
           R == Split(no_free_lists, q, b)
           whole == Split(no_free_lists, a, b)
           rest == free_lists \ (L \cup R)
           asserts == /\ get_index_size_asserts(index)
                      /\ Removable(free_lists, L \cup R)
                      /\ Insertable(rest, whole)
<1>1. live
  BY DEF Release
<1>2. /\ no_free_lists \in Lists /\ total_size < pow2[32]
      /\ BlocksOk(w, total_size)
      /\ Canonical(no_free_lists, free_lists, w, total_size)
  BY <1>1, SoundIs
<1>3. IsGap(w, total_size, a, index) /\ IsGap(w, total_size, q, b)
  <2>1. index \in Starts(w, total_size)
    BY DEF Starts
  <2> QED BY <1>2, <2>1, GapBefore, GapAfter
<1>4. Commit(asserts, rest \cup whole, Del(w, {index}))
  BY DEF Release, Split
<1>5. get_index_size_asserts(index)
  BY <1>2 DEF get_index_size_asserts, BlocksOk
<1> HIDE DEF a, b
<1>6. L \subseteq free_lists /\ R \subseteq free_lists
  BY <1>2, <1>3, GapClear
<1>7. Removable(free_lists, L \cup R)
  BY <1>6 DEF Removable
<1>8. Clear(rest, a, b)
  BY <1>2, <1>3, BlockClear
<1>9. BlocksOk(Del(w, {index}), total_size) /\ IsGap(Del(w, {index}), total_size, a, b)
  BY <1>2, <1>3, DelBlock
<1>10. Space(a, b) /\ a \in Nat /\ b \in Nat
  <2>1. Space(a, b)
    BY <1>2, <1>9, GapSpace
  <2> QED BY <2>1 DEF Space
<1>11. Insertable(rest, whole)
  <2> HIDE DEF rest
  <2>1. a <= a /\ b <= b
    BY <1>10
  <2> QED BY <1>2, <1>8, <1>10, <2>1, Fits
<1>12. Canonical(no_free_lists, rest \cup whole, Del(w, {index}), total_size)
  BY <1>2, <1>3, GiveBlock
<1>13. asserts
  BY <1>5, <1>7, <1>11
<1> HIDE DEF rest, whole, asserts, w
<1>14. PInv' /\ inuse_list' = Del(w, {index})
  BY <1>1, <1>4, <1>9, <1>12, <1>13, Commits
<1> QED BY <1>1, <1>14 DEF w

(***************************************************************************)
(* What power2_allocator_reserve accepts lies in the gap it works on.      *)
(***************************************************************************)
LEMMA ReserveFinds ==
    ASSUME PInv, live, NEW index \in Indexes, NEW size \in Sizes
    PROVE  /\ index \in Nat /\ (index + size) % UINT32 = index + size
           /\ ReserveStatus(index, size) = 0 <=>
                 /\ index \notin DOMAIN inuse_list
                 /\ PrevEnd(inuse_list, index) <= index
                 /\ index + size <= NextStart(inuse_list, index)
<1>1. size \in Nat \ {0}
  BY SizeIs
<1>2. index \in 0..(UINT32 - 1) /\ index + size < UINT32 /\ UINT32 \in Nat \ {0}
  BY ArgsAssumption, Width
<1>3. index \in Nat /\ index + size \in 0..(UINT32 - 1)
  BY <1>1, <1>2
<1>4. (index + size) % UINT32 = index + size
  <2> DEFINE x == index + size
  <2> HIDE DEF x
  <2>1. x % UINT32 = x
    BY <1>2, <1>3 DEF x
  <2> QED BY <2>1 DEF x
<1>5. BlocksOk(inuse_list, total_size)
  BY SoundIs
<1>6. get_index_size_asserts(index)
  BY <1>5 DEF get_index_size_asserts, BlocksOk
<1>7. PrevEnd(inuse_list, index) \in Nat /\ NextStart(inuse_list, index) \in Nat
  BY <1>3, <1>5, PrevIs, NextIs
<1> DEFINE a == PrevEnd(inuse_list, index)
           b == NextStart(inuse_list, index)
           x == (index + size) % UINT32
<1>8. ReserveStatus(index, size) =
         IF index \in DOMAIN inuse_list \/ index < a \/ x > b THEN 1 ELSE 0
  BY <1>6 DEF ReserveStatus
<1> HIDE DEF a, b, x
<1>9. x = index + size
  BY <1>4 DEF x
<1>10. ReserveStatus(index, size) = 0 <=> index \notin DOMAIN inuse_list /\ a <= index /\ index + size <= b
  BY <1>1, <1>3, <1>7, <1>8, <1>9 DEF a, b
<1> QED BY <1>3, <1>4, <1>10 DEF a, b

(***************************************************************************)
(* power2_allocator_reserve                                                *)
(***************************************************************************)
LEMMA ReserveKeeps ==
    ASSUME PInv, NEW index \in Indexes, NEW size \in Sizes, Reserve(index, size)
    PROVE  PInv' /\ live /\ inuse_list' = Put(inuse_list, index, size)
<1> DEFINE w == inuse_list
           a == PrevEnd(w, index)
           b == NextStart(w, index)
           q == index + size
           L == Split(no_free_lists, a, index)
           R == Split(no_free_lists, q, b)
           whole == Split(no_free_lists, a, b)
           rest == free_lists \ whole
           v == Put(w, index, size)
           asserts == /\ get_index_size_asserts(index)
                      /\ Removable(free_lists, whole)
                      /\ Insertable(rest, L \cup R)
                      /\ Markable(w, index)
<1>1. live /\ ReserveStatus(index, size) = 0
  BY DEF Reserve
<1>2. /\ no_free_lists \in Lists /\ total_size < pow2[32] /\ total_size \in Nat
      /\ BlocksOk(w, total_size)
      /\ Canonical(no_free_lists, free_lists, w, total_size)
  BY <1>1, SoundIs
<1>3. /\ index \in Nat /\ (index + size) % UINT32 = q
      /\ index \notin DOMAIN w /\ a <= index /\ q <= b
  BY <1>1, ReserveFinds
<1>4. Commit(asserts, rest \cup (L \cup R), v)
  BY <1>3 DEF Reserve, Split
<1>5. size \in Nat \ {0}
  BY SizeIs
<1>6. a \in Nat /\ b \in Nat /\ b <= total_size
  BY <1>2, <1>3, PrevIs, NextIs
<1>7. IsGap(w, total_size, a, b)
  <2>1. index <= b
    <3> HIDE DEF b
    <3> QED BY <1>3, <1>5, <1>6
  <2> QED BY <1>2, <1>3, <2>1, GapAround
<1> HIDE DEF a, b
<1>8. whole \subseteq free_lists /\ Clear(rest, a, b)
  BY <1>2, <1>7, GapClear
<1>9. BlocksOk(v, total_size)
  BY <1>2, <1>3, <1>5, <1>7, PutBlocks
<1>10. Canonical(no_free_lists, rest \cup L \cup R, v, total_size)
  BY <1>2, <1>3, <1>5, <1>7, TakeBlock
<1>11. Canonical(no_free_lists, rest \cup (L \cup R), v, total_size)
  <2>1. rest \cup (L \cup R) = rest \cup L \cup R
    OBVIOUS
  <2> QED BY <1>10, <2>1
<1>12. Insertable(rest, L) /\ Insertable(rest, R)
  <2>1. Space(a, index) /\ Space(q, b) /\ a <= a /\ index <= b /\ a <= q /\ b <= b
    BY <1>2, <1>3, <1>5, <1>6, Pow2Positive DEF Space
  <2> HIDE DEF rest, q
  <2> QED BY <1>2, <1>6, <1>8, <2>1, Fits
<1>13. asserts
  <2>1. Insertable(rest, L \cup R)
    <3> HIDE DEF rest, L, R
    <3> QED BY <1>12, FitsBoth
  <2>2. get_index_size_asserts(index) /\ Markable(w, index)
    BY <1>3 DEF get_index_size_asserts, Markable
  <2>3. Removable(free_lists, whole)
    BY <1>8 DEF Removable
  <2> QED BY <2>1, <2>2, <2>3
<1> HIDE DEF rest, L, R, asserts, v
<1>14. PInv' /\ inuse_list' = v
  BY <1>1, <1>4, <1>9, <1>11, <1>13, Commits
<1> QED BY <1>1, <1>14 DEF v

-----------------------------------------------------------------------------
(***************************************************************************)
(* Rows of blocks                                                          *)
(***************************************************************************)

\* w with new blocks of n indexes at the starts in S.
PutAll(w, S, n) == [i \in DOMAIN w \cup S |-> IF i \in S THEN n ELSE w[i]]

\* What is left of the entries in E behind blocks of n indexes.
Tails(nfl, E, n) == UNION {Split(nfl, f.index + n, EndOf(f)) : f \in E}

\* h has an entry of its own for each of count blocks of n indexes.
OwnEntries(h, lists, count, n) ==
    /\ h \in [0..(count - 1) -> lists]
    /\ \A i, j \in 0..(count - 1) : i # j => h[i] # h[j]
    /\ \A j \in 0..(count - 1) : n <= h[j].size

\* These entries and their starts.
Entries(h, count) == {h[j] : j \in 0..(count - 1)}
Firsts(h, count) == {h[j].index : j \in 0..(count - 1)}

\* Blocks of n indexes at the starts S have been taken out of the entries E.
RowTaken(nfl, lists, w, t, S, E, n) ==
    /\ BlocksOk(PutAll(w, S, n), t)
    /\ Canonical(nfl, (lists \ E) \cup Tails(nfl, E, n), PutAll(w, S, n), t)
    /\ Insertable(lists \ E, Tails(nfl, E, n))
    /\ S \cap DOMAIN w = {}

(***************************************************************************)
(* One block taken from the start of each of several entries.              *)
(***************************************************************************)
LEMMA TakeRow ==
    ASSUME NEW nfl \in Lists, NEW lists, NEW w, NEW t, BlocksOk(w, t), t < pow2[32],
           Canonical(nfl, lists, w, t), NEW count \in Nat,
           NEW n \in Nat \ {0}, NEW h, OwnEntries(h, lists, count, n)
    PROVE  RowTaken(nfl, lists, w, t, Firsts(h, count), Entries(h, count), n)
<1>0. t \in Nat /\ pow2[32] \in Nat /\ \A k \in 0..32 : pow2[k] \in Nat
  <2>1. 32 \in 0..32 /\ \A k \in 0..32 : pow2[k] \in Nat
    BY Pow2Positive
  <2> QED BY <2>1 DEF BlocksOk
<1>1. ASSUME NEW j \in 0..(count - 1)
      PROVE  /\ h[j] \in lists /\ Clear(lists \ {h[j]}, h[j].index, EndOf(h[j]))
             /\ h[j].index \in Nat /\ h[j].size \in Nat /\ EndOf(h[j]) = h[j].index + h[j].size
             /\ h[j].index + n <= EndOf(h[j]) /\ EndOf(h[j]) \in Nat /\ EndOf(h[j]) < pow2[32]
             /\ \A i \in DOMAIN w : i + w[i] <= h[j].index \/ EndOf(h[j]) <= i
  <2> DEFINE f == h[j]
  <2>0. f \in lists /\ n <= f.size
    BY DEF OwnEntries
  <2> HIDE DEF f
  <2>1. /\ Clear(lists \ {f}, f.index, EndOf(f))
        /\ f \in [log2 : 0..(nfl - 1), index : 0..t, size : 1..t] /\ EndOf(f) <= t
        /\ \A i \in DOMAIN w : i + w[i] <= f.index \/ EndOf(f) <= i
    BY <2>0, EntriesApart
  <2>2. t \in Nat /\ pow2[32] \in Nat
    BY <1>0
  <2>3. f.index \in Nat /\ f.size \in Nat /\ EndOf(f) = f.index + f.size
    BY <2>1, <2>2 DEF EndOf
  <2>4. f.index + n <= EndOf(f) /\ EndOf(f) \in Nat /\ EndOf(f) < pow2[32]
    BY <2>0, <2>1, <2>2, <2>3
  <2> QED BY <2>0, <2>1, <2>3, <2>4 DEF f
<1>2. ASSUME NEW j \in 0..(count - 1), NEW c \in Split(nfl, h[j].index + n, EndOf(h[j]))
      PROVE  /\ c.index \in h[j].index..(EndOf(h[j]) - 1)
             /\ Space(h[j].index + n, EndOf(h[j]))
  <2> DEFINE i == h[j].index
             e == EndOf(h[j])
  <2>0. i \in Nat /\ e \in Nat /\ i + n <= e /\ e < pow2[32] /\ n \in Nat
    BY <1>1
  <2> HIDE DEF i, e
  <2>1. Space(i + n, e)
    BY <2>0 DEF Space
  <2>2. c.index \in (i + n)..(e - 1)
    <3>1. c \in Split(nfl, i + n, e)
      BY DEF i, e
    <3> QED BY <2>1, <3>1, PieceIs
  <2>3. c.index \in i..(e - 1)
    BY <2>0, <2>2
  <2> QED BY <2>1, <2>3 DEF i, e
<1>3. ASSUME NEW j \in 0..(count - 1), NEW c \in Split(nfl, h[j].index + n, EndOf(h[j])),
             NEW g \in lists, g # h[j]
      PROVE  c.index # g.index
  <2>1. g.index \in Nat /\ EndOf(g) \in Nat /\ g.index < EndOf(g)
        /\ (EndOf(g) <= h[j].index \/ EndOf(h[j]) <= g.index)
    BY <1>1, <1>3 DEF Clear
  <2>2. c.index \in h[j].index..(EndOf(h[j]) - 1) /\ h[j].index \in Nat /\ EndOf(h[j]) \in Nat
    BY <1>1, <1>2
  <2> QED BY <2>1, <2>2
<1> DEFINE S(k) == {h[j].index : j \in 0..(k - 1)}
           E(k) == {h[j] : j \in 0..(k - 1)}
           L(k) == (lists \ E(k)) \cup Tails(nfl, E(k), n)
           Good(k) == BlocksOk(PutAll(w, S(k), n), t)
                      /\ Canonical(nfl, L(k), PutAll(w, S(k), n), t)
           Bad == {k \in 0..count : ~Good(k)}
<1>4. ASSUME NEW k \in 0..(count - 1), Good(k) PROVE Good(k + 1)
  <2> DEFINE f == h[k]
             p == f.index
             T == Split(nfl, p, p) \cup Split(nfl, p + n, EndOf(f))
             v == PutAll(w, S(k), n)
  <2>1. /\ f \in lists /\ p \in Nat /\ p + n <= EndOf(f) /\ EndOf(f) \in Nat
        /\ EndOf(f) < pow2[32]
    BY <1>1
  <2>2. ASSUME NEW j \in 0..(k - 1)
        PROVE  h[j] # f /\ j \in 0..(count - 1)
    <3>1. j \in 0..(count - 1) /\ j # k
      OBVIOUS
    <3> QED BY <3>1 DEF OwnEntries
  <2>3. f \notin E(k)
    BY <2>2
  <2>4. f \notin Tails(nfl, E(k), n)
    <3>1. ASSUME NEW j \in 0..(k - 1), f \in Split(nfl, h[j].index + n, EndOf(h[j]))
          PROVE  FALSE
      <4>1. f.index # f.index
        BY <1>3, <2>1, <2>2, <3>1
      <4> QED BY <4>1
    <3> QED BY <3>1 DEF Tails
  <2>5. E(k + 1) = E(k) \cup {f} /\ S(k + 1) = S(k) \cup {p}
    <3>1. 0..((k + 1) - 1) = (0..(k - 1)) \cup {k}
      OBVIOUS
    <3> QED BY <3>1
  <2>6. f \in L(k)
    BY <2>1, <2>3
  <2>7. /\ BlocksOk(Put(v, p, n), t) /\ p \notin DOMAIN v
        /\ Canonical(nfl, (L(k) \ {f}) \cup T, Put(v, p, n), t)
    <3> HIDE DEF f, L, v
    <3>1. p <= p
      BY <2>1
    <3> QED BY <1>4, <2>1, <2>6, <3>1, TakeEntry DEF v
  <2>8. Put(v, p, n) = PutAll(w, S(k + 1), n)
    <3> HIDE DEF p, S, f
    <3>1. DOMAIN v \cup {p} = DOMAIN w \cup S(k + 1)
      BY <2>5 DEF PutAll
    <3>2. \A i \in DOMAIN w \cup S(k + 1) :
             (IF i = p THEN n ELSE v[i]) = IF i \in S(k + 1) THEN n ELSE w[i]
      BY <2>5 DEF PutAll
    <3> QED BY <3>1, <3>2 DEF Put, PutAll
  <2>9. Split(nfl, p, p) = {}
    <3>1. Space(p, p)
      <4> HIDE DEF f, p
      <4>1. n \in Nat \ {0} /\ pow2[32] \in Nat
        BY <1>0
      <4> QED BY <2>1, <4>1 DEF Space
    <3> HIDE DEF p
    <3> QED BY <3>1, SplitStep
  <2>10. Tails(nfl, E(k + 1), n) = Tails(nfl, E(k), n) \cup Split(nfl, p + n, EndOf(f))
    <3> HIDE DEF E
    <3> QED BY <2>5 DEF Tails
  <2>11. (L(k) \ {f}) \cup T = L(k + 1)
    <3> HIDE DEF f, p, E
    <3> QED BY <2>3, <2>4, <2>5, <2>9, <2>10
  <2> HIDE DEF L, v, T, S, p
  <2> QED BY <2>7, <2>8, <2>11
<1>5. Good(0)
  <2>1. S(0) = {} /\ E(0) = {}
    OBVIOUS
  <2>2. Tails(nfl, {}, n) = {}
    BY DEF Tails
  <2>3. PutAll(w, {}, n) = w
    BY DEF PutAll, BlocksOk
  <2>4. L(0) = lists
    <3> HIDE DEF E
    <3> QED BY <2>1, <2>2
  <2> HIDE DEF L, S
  <2> QED BY <2>1, <2>3, <2>4
<1>6. Good(count)
  <2> HIDE DEF Good
  <2>1. ASSUME Bad # {} PROVE FALSE
    <3>1. PICK k \in Bad : \A m \in Bad : k <= m
      <4>1. Bad \in SUBSET Nat
        OBVIOUS
      <4> HIDE DEF Bad
      <4> QED BY <2>1, <4>1, LeastNat
    <3>2. k # 0
      BY <1>5
    <3>3. k - 1 \in 0..(count - 1) /\ k - 1 \in 0..count /\ ~(k <= k - 1) /\ (k - 1) + 1 = k
      BY <3>2
    <3>4. Good(k - 1)
      BY <3>1, <3>3
    <3>5. Good(k)
      BY <1>4, <3>3, <3>4
    <3> QED BY <3>5
  <2>2. count \in 0..count
    OBVIOUS
  <2> QED BY <2>1, <2>2
<1>7. Insertable(lists \ E(count), Tails(nfl, E(count), n))
  <2>1. ASSUME NEW c \in Tails(nfl, E(count), n)
        PROVE  ChunkOk(c) /\ \A g \in lists \ E(count) : c.index # g.index
    <3>1. PICK j \in 0..(count - 1) : c \in Split(nfl, h[j].index + n, EndOf(h[j]))
      BY DEF Tails
    <3>2. \A g \in lists \ E(count) : c.index # g.index
      BY <1>3, <3>1
    <3>3. Space(h[j].index + n, EndOf(h[j]))
      BY <1>2, <3>1
    <3>4. /\ Aligned(c.index, c.log2) /\ pow2[c.log2] < 2 * c.size
          /\ c.log2 \in 0..(nfl - 1) /\ c.size \in 1..EndOf(h[j])
      BY <3>1, <3>3, PieceIs
    <3>5. pow2[c.log2] \in Nat
      <4>1. c.log2 \in 0..32
        BY <3>4 DEF Lists
      <4> QED BY <1>0, <4>1
    <3>6. ChunkOk(c)
      BY <3>4, <3>5 DEF ChunkOk, Aligned
    <3> QED BY <3>2, <3>6
  <2> HIDE DEF E
  <2> QED BY <2>1 DEF Insertable
<1>8. S(count) \cap DOMAIN w = {}
  <2>1. ASSUME NEW j \in 0..(count - 1), h[j].index \in DOMAIN w PROVE FALSE
    <3> DEFINE i == h[j].index
    <3>1. i \in Nat /\ EndOf(h[j]) \in Nat /\ i + n <= EndOf(h[j])
          /\ (i + w[i] <= i \/ EndOf(h[j]) <= i)
      BY <1>1, <2>1
    <3>2. w[i] \in Nat \ {0}
      BY <2>1 DEF BlocksOk
    <3> HIDE DEF i
    <3> QED BY <3>1, <3>2
  <2> QED BY <2>1
<1> HIDE DEF Bad
<1> QED BY <1>6, <1>7, <1>8 DEF RowTaken, Firsts, Entries

(***************************************************************************)
(* What power2_allocator_alloc_multiple finds: one entry of the last list  *)
(* for each block of the row.                                              *)
(***************************************************************************)
LEMMA RowFinds ==
    ASSUME PInv, live, NEW size \in Sizes, NEW count \in Counts,
           NEW first \in Nat,
           \A j \in 0..(count - 1) :
              TopEntry(first + j * pow2[no_free_lists - 1], size) # {}
    PROVE  LET starts  == {first + j * pow2[no_free_lists - 1] : j \in 0..(count - 1)}
               entries == UNION {TopEntry(i, size) : i \in starts}
               split   == UNION {Chunks(no_free_lists, f.index + size, f.size - size) :
                                f \in entries}
               v       == PutAll(inuse_list, starts, size)
           IN  /\ BlocksOk(v, total_size)
               /\ Canonical(no_free_lists, (free_lists \ entries) \cup split, v, total_size)
               /\ Insertable(free_lists \ entries, split)
               /\ starts \cap DOMAIN inuse_list = {}
<1> DEFINE p == pow2[no_free_lists - 1]
           at(j) == first + j * p
           starts == {at(j) : j \in 0..(count - 1)}
           entries == UNION {TopEntry(i, size) : i \in starts}
           split == UNION {Chunks(no_free_lists, f.index + size, f.size - size) :
                              f \in entries}
           h == [j \in 0..(count - 1) |-> CHOOSE f : f \in TopEntry(at(j), size)]
<1>1. /\ no_free_lists \in Lists /\ total_size < pow2[32] /\ total_size \in Nat
      /\ p \in Nat \ {0}
      /\ BlocksOk(inuse_list, total_size)
      /\ Canonical(no_free_lists, free_lists, inuse_list, total_size)
  BY SoundIs
<1>2. size \in Nat \ {0} /\ count \in Nat
  BY SizeIs, ArgsAssumption, Width
<1>3. ASSUME NEW i PROVE \A f \in TopEntry(i, size) : TopEntry(i, size) = {f}
  <2>1. ASSUME NEW f \in TopEntry(i, size), NEW g \in TopEntry(i, size), f # g PROVE FALSE
    <3>1. f \in free_lists /\ g \in free_lists \ {f} /\ f.index = i /\ g.index = i
      BY <2>1 DEF TopEntry
    <3>2. /\ Clear(free_lists \ {f}, f.index, EndOf(f)) /\ f.index < EndOf(f)
          /\ f \in [log2 : 0..(no_free_lists - 1), index : 0..total_size, size : 1..total_size]
      BY <1>1, <3>1, EntriesApart
    <3>3. g.index \in Nat /\ EndOf(g) \in Nat /\ g.index < EndOf(g)
          /\ (EndOf(g) <= f.index \/ EndOf(f) <= g.index)
      BY <3>1, <3>2 DEF Clear
    <3>4. EndOf(f) \in Int
      BY <3>2 DEF EndOf
    <3> QED BY <3>1, <3>2, <3>3, <3>4
  <2> QED BY <2>1
<1>4. ASSUME NEW j \in 0..(count - 1)
      PROVE  /\ h[j] \in free_lists /\ h[j].index = at(j) /\ size <= h[j].size
             /\ TopEntry(at(j), size) = {h[j]}
  <2>1. h[j] \in TopEntry(at(j), size)
    OBVIOUS
  <2> HIDE DEF h
  <2>2. h[j] \in free_lists /\ h[j].index = at(j) /\ h[j].size >= size
    BY <2>1 DEF TopEntry
  <2>3. h[j].size \in Nat
    <3>1. h[j] \in [log2 : 0..(no_free_lists - 1), index : 0..total_size, size : 1..total_size]
      BY <1>1, <2>2, EntriesApart
    <3> QED BY <3>1
  <2> QED BY <1>2, <1>3, <2>1, <2>2, <2>3
<1>5. h \in [0..(count - 1) -> free_lists]
  BY <1>4
<1> HIDE DEF h
<1>6. ASSUME NEW i \in 0..(count - 1), NEW j \in 0..(count - 1), i # j PROVE h[i] # h[j]
  <2>1. at(i) # at(j)
    <3> HIDE DEF p
    <3>1. i - j >= 1 => (i - j) * p >= p
      BY <1>1
    <3>2. i - j <= -1 => (i - j) * p <= -p
      BY <1>1
    <3>3. (i - j) * p # 0
      BY <1>1, <1>6, <3>1, <3>2
    <3>4. at(i) - at(j) = (i - j) * p
      BY <1>1
    <3> QED BY <1>1, <3>3, <3>4
  <2> QED BY <1>4, <2>1
<1>7. starts = {h[j].index : j \in 0..(count - 1)}
  <2> HIDE DEF at
  <2> QED BY <1>4
<1>8. entries = {h[j] : j \in 0..(count - 1)}
  <2> HIDE DEF at
  <2> QED BY <1>4
<1>9. split = Tails(no_free_lists, entries, size)
  <2>1. ASSUME NEW f \in entries
        PROVE  Chunks(no_free_lists, f.index + size, f.size - size)
                  = Split(no_free_lists, f.index + size, EndOf(f))
    <3>1. f \in free_lists
      BY DEF TopEntry
    <3>2. f \in [log2 : 0..(no_free_lists - 1), index : 0..total_size, size : 1..total_size]
      BY <1>1, <3>1, EntriesApart
    <3>3. EndOf(f) - (f.index + size) = f.size - size
      BY <1>2, <3>2 DEF EndOf
    <3> QED BY <3>3 DEF Split
  <2> HIDE DEF entries
  <2> QED BY <2>1 DEF Tails
<1> DEFINE E == Entries(h, count)
           S == Firsts(h, count)
<1>10. RowTaken(no_free_lists, free_lists, inuse_list, total_size, S, E, size)
  <2>1. OwnEntries(h, free_lists, count, size)
    BY <1>4, <1>5, <1>6 DEF OwnEntries
  <2> HIDE DEF at, starts, entries
  <2> QED BY <1>1, <1>2, <2>1, TakeRow
<1>11. starts = S /\ entries = E
  BY <1>7, <1>8 DEF Entries, Firsts
<1> HIDE DEF S, E, split
<1>12. /\ BlocksOk(PutAll(inuse_list, starts, size), total_size)
       /\ Canonical(no_free_lists, (free_lists \ entries) \cup split,
                    PutAll(inuse_list, starts, size), total_size)
       /\ Insertable(free_lists \ entries, split)
       /\ starts \cap DOMAIN inuse_list = {}
  <2> HIDE DEF starts, entries
  <2> QED BY <1>9, <1>10, <1>11 DEF RowTaken
<1> QED BY <1>12 DEF split

(***************************************************************************)
(* power2_allocator_alloc_multiple                                         *)
(***************************************************************************)
LEMMA AllocMultipleKeeps ==
    ASSUME PInv, NEW size \in Sizes, NEW count \in Counts, AllocMultiple(size, count)
    PROVE  LET first  == AllocMultipleIndex(size, count)
               starts == {first + j * pow2[no_free_lists - 1] : j \in 0..(count - 1)}
           IN  /\ PInv' /\ live /\ first \in Nat
               /\ starts \cap DOMAIN inuse_list = {}
               /\ inuse_list' = PutAll(inuse_list, starts, size)
<1> DEFINE first == AllocMultipleIndex(size, count)
           starts == {first + j * pow2[no_free_lists - 1] : j \in 0..(count - 1)}
           entries == UNION {TopEntry(i, size) : i \in starts}
           rest == free_lists \ entries
           split == UNION {Chunks(no_free_lists, f.index + size, f.size - size) :
                              f \in entries}
           v == PutAll(inuse_list, starts, size)
           asserts == /\ Insertable(rest, split)
                      /\ \A i \in starts : Markable(inuse_list, i)
<1>1. live /\ RowStarts(size, count) # {}
  BY DEF AllocMultiple, RowRefused
<1>2. first \in Nat /\ first \in RowStarts(size, count)
  <2>1. /\ no_free_lists \in Lists /\ total_size < pow2[32] /\ total_size \in Nat
        /\ BlocksOk(inuse_list, total_size)
        /\ Canonical(no_free_lists, free_lists, inuse_list, total_size)
    BY <1>1, SoundIs
  <2>2. \A g \in free_lists : g.index \in Nat
    <3> TAKE g \in free_lists
    <3>1. g \in [log2 : 0..(no_free_lists - 1), index : 0..total_size, size : 1..total_size]
      BY <2>1, EntriesApart
    <3> QED BY <3>1
  <2>3. RowStarts(size, count) \in SUBSET Nat
    BY <2>2 DEF RowStarts
  <2> QED BY <1>1, <2>3, MinOfNats DEF AllocMultipleIndex
<1>3. \A j \in 0..(count - 1) : TopEntry(first + j * pow2[no_free_lists - 1], size) # {}
  BY <1>2 DEF RowStarts
<1>4. Commit(asserts, rest \cup split, v)
  BY DEF AllocMultiple, PutAll
<1> HIDE DEF first
<1>5. /\ BlocksOk(v, total_size)
      /\ Canonical(no_free_lists, rest \cup split, v, total_size)
      /\ Insertable(rest, split)
      /\ starts \cap DOMAIN inuse_list = {}
  BY <1>1, <1>2, <1>3, RowFinds
<1> HIDE DEF starts, rest, split
<1>6. asserts
  BY <1>5 DEF Markable
<1> HIDE DEF asserts, v
<1>7. PInv' /\ inuse_list' = v
  BY <1>1, <1>4, <1>5, <1>6, Commits
<1> QED BY <1>1, <1>2, <1>5, <1>7 DEF first, starts, v

(***************************************************************************)
(* A block that is released at a multiple of the largest size: the gap in  *)
(* front of it may stay as it is, since no entry reaches across such an    *)
(* index.                                                                  *)
(***************************************************************************)
LEMMA GiveTop ==
    ASSUME NEW nfl \in Lists, NEW lists, NEW w, BlocksOk(w, total_size),
           total_size < pow2[32], Canonical(nfl, lists, w, total_size),
           NEW p \in DOMAIN w, Aligned(p, nfl - 1)
    PROVE  LET b     == NextStart(w, p)
               gone  == Split(nfl, p + w[p], b)
               whole == Split(nfl, p, b)
           IN  /\ gone \subseteq lists
               /\ Insertable(lists \ gone, whole)
               /\ BlocksOk(Del(w, {p}), total_size)
               /\ Canonical(nfl, (lists \ gone) \cup whole, Del(w, {p}), total_size)
<1> DEFINE t == total_size
           a == PrevEnd(w, p)
           b == NextStart(w, p)
           q == p + w[p]
           L == Split(nfl, a, p)
           gone == Split(nfl, q, b)
           whole == Split(nfl, p, b)
<1>1. IsGap(w, t, a, p) /\ IsGap(w, t, q, b)
  <2>1. p \in Starts(w, t)
    BY DEF Starts
  <2> QED BY <2>1, GapBefore, GapAfter
<1> HIDE DEF a, b
<1>2. L \subseteq lists /\ gone \subseteq lists
  BY <1>1, GapClear
<1>3. BlocksOk(Del(w, {p}), t) /\ p \in Nat /\ w[p] \in Nat \ {0} /\ a <= p /\ q <= b
  BY <1>1, DelBlock
<1>4. Space(a, p) /\ Space(q, b)
  BY <1>1, GapSpace
<1>5. a \in Nat /\ b \in Nat /\ q \in Nat /\ p < q /\ b < pow2[32] /\ a \in 0..b /\ p \in 0..b
  BY <1>3, <1>4 DEF Space
<1>6. Space(p, b)
  BY <1>5 DEF Space
<1>7. Split(nfl, a, b) = L \cup whole
  <2>1. Barrier(nfl, a, p)
    BY <1>3, <1>5, BarrierAtTop
  <2> QED BY <1>3, <1>5, <2>1, SplitAtBarrier
<1>8. Canonical(nfl, (lists \ (L \cup gone)) \cup Split(nfl, a, b), Del(w, {p}), t)
  BY <1>1, GiveBlock
<1>9. L \cap gone = {}
  <2>1. ASSUME NEW c \in L, c \in gone PROVE FALSE
    <3>1. c.index \in a..(p - 1) /\ c.index \in q..(b - 1)
      BY <1>4, <2>1, PieceIs
    <3> QED BY <1>3, <1>5, <3>1
  <2> QED BY <2>1
<1>10. (lists \ (L \cup gone)) \cup Split(nfl, a, b) = (lists \ gone) \cup whole
  <2> HIDE DEF L, gone, whole
  <2> QED BY <1>2, <1>7, <1>9
<1>11. Clear(lists \ gone, p, b)
  <2>1. Clear(lists \ (L \cup gone), a, b)
    BY <1>1, BlockClear
  <2>2. ASSUME NEW g \in lists \ gone
        PROVE  g.index \in Nat /\ EndOf(g) \in Nat /\ g.index < EndOf(g)
               /\ (EndOf(g) <= p \/ b <= g.index)
    <3>1. CASE g \in L
      <4>1. g.index \in a..(p - 1) /\ EndOf(g) \in (g.index + 1)..p
        BY <1>4, <3>1, PieceIs
      <4> QED BY <1>3, <1>5, <4>1
    <3>2. CASE g \notin L
      <4>1. g \in lists \ (L \cup gone)
        BY <3>2
      <4>2. g.index \in Nat /\ EndOf(g) \in Nat /\ g.index < EndOf(g)
               /\ (EndOf(g) <= a \/ b <= g.index)
        <5> HIDE DEF L, gone
        <5> QED BY <2>1, <4>1 DEF Clear
      <4> QED BY <1>3, <1>5, <4>2
    <3> QED BY <3>1, <3>2
  <2> HIDE DEF gone
  <2> QED BY <2>2 DEF Clear
<1>12. Insertable(lists \ gone, whole)
  <2> HIDE DEF gone
  <2>1. p <= p /\ b <= b
    BY <1>3, <1>5
  <2> QED BY <1>3, <1>5, <1>6, <1>11, <2>1, Fits
<1> HIDE DEF gone, whole
<1>13. Canonical(nfl, (lists \ gone) \cup whole, Del(w, {p}), t)
  BY <1>8, <1>10
<1> QED BY <1>2, <1>3, <1>12, <1>13 DEF gone, whole, b

\* The function of the rounds is what its definition says it is.
IsRounds(index, count, r) ==
    /\ r[0] = [asserts |-> get_index_size_asserts(index),
               lists |-> free_lists, inuse |-> inuse_list]
    /\ \A i \in 1..count :
          r[i] = ReleaseOne(r[i - 1], index + (i - 1) * pow2[no_free_lists - 1],
                            inuse_list[index])

(***************************************************************************)
(* The loop of power2_allocator_release_multiple, round by round.          *)
(***************************************************************************)
LEMMA RoundsRecursion ==
    ASSUME NEW index, NEW count \in Nat
    PROVE  IsRounds(index, count, ReleaseRounds(index, count))
<1> DEFINE zero == [asserts |-> get_index_size_asserts(index),
                    lists |-> free_lists, inuse |-> inuse_list]
           F(i, r) == ReleaseOne(r, index + (i - 1) * pow2[no_free_lists - 1],
                                 inuse_list[index])
<1>0. ReleaseRounds(index, count) =
         CHOOSE f : f = [i \in 0..count |-> IF i = 0 THEN zero ELSE F(i, f[i - 1])]
  BY DEF ReleaseRounds
<1> HIDE DEF zero, F
<1> DEFINE Body(n, f) == [i \in 0..n |-> IF i = 0 THEN zero ELSE F(i, f[i - 1])]
           UpTo(n, f) == f = Body(n, f)
           Bad == {n \in Nat : ~ \E f : UpTo(n, f)}
<1>1. ASSUME Bad # {} PROVE FALSE
  <2>1. PICK n \in Bad : \A m \in Bad : n <= m
    BY <1>1, LeastNat
  <2>2. n # 0
    <3> DEFINE f == [i \in 0..0 |-> zero]
    <3>1. UpTo(0, f)
      OBVIOUS
    <3> HIDE DEF UpTo, f
    <3> QED BY <3>1
  <2>3. n - 1 \in Nat /\ n - 1 \notin Bad /\ n \in Nat /\ n >= 1
    <3> HIDE DEF UpTo
    <3>1. n \in Nat
      BY <2>1
    <3>2. n - 1 \in Nat /\ ~(n <= n - 1)
      BY <2>2, <3>1
    <3> QED BY <2>1, <2>2, <3>1, <3>2
  <2>4. PICK f : UpTo(n - 1, f)
    <3> HIDE DEF UpTo
    <3> QED BY <2>3
  <2> DEFINE g == Body(n, f)
             h == Body(n, g)
  <2>5. ASSUME NEW i \in 0..(n - 1) PROVE g[i] = f[i]
    <3>1. i \in 0..n
      BY <2>3
    <3>2. f[i] = IF i = 0 THEN zero ELSE F(i, f[i - 1])
      BY <2>4
    <3> QED BY <3>1, <3>2
  <2>6. ASSUME NEW i \in 0..n PROVE g[i] = h[i]
    <3>1. i # 0 => i - 1 \in 0..(n - 1)
      BY <2>3
    <3>2. i # 0 => g[i - 1] = f[i - 1]
      BY <2>5, <3>1
    <3>3. g[i] = IF i = 0 THEN zero ELSE F(i, f[i - 1])
      OBVIOUS
    <3> HIDE DEF g
    <3>4. h[i] = IF i = 0 THEN zero ELSE F(i, g[i - 1])
      OBVIOUS
    <3> QED BY <3>2, <3>3, <3>4
  <2>7. g = h
    <3>1. g = [i \in 0..n |-> g[i]] /\ h = [i \in 0..n |-> h[i]]
      OBVIOUS
    <3> HIDE DEF g, h
    <3> QED BY <2>6, <3>1
  <2>8. UpTo(n, g)
    BY <2>7
  <2> HIDE DEF UpTo, g
  <2> QED BY <2>8
<1>2. \E f : UpTo(count, f)
  <2> HIDE DEF UpTo
  <2> QED BY <1>1
<1> DEFINE r == ReleaseRounds(index, count)
<1>3. UpTo(count, r)
  BY <1>0, <1>2
<1> HIDE DEF r
<1>4. \A i \in 0..count : r[i] = IF i = 0 THEN zero ELSE F(i, r[i - 1])
  BY <1>3
<1>5. r[0] = zero
  BY <1>4
<1>6. \A i \in 1..count : r[i] = F(i, r[i - 1])
  BY <1>4
<1> QED BY <1>5, <1>6 DEF IsRounds, r, zero, F

(***************************************************************************)
(* One round of the loop.                                                  *)
(***************************************************************************)
LEMMA RoundKeeps ==
    ASSUME PInv, live, NEW at, at.asserts, BlocksOk(at.inuse, total_size),
           Canonical(no_free_lists, at.lists, at.inuse, total_size),
           NEW p \in DOMAIN at.inuse, Aligned(p, no_free_lists - 1)
    PROVE  LET r == ReleaseOne(at, p, at.inuse[p])
           IN  /\ r.asserts /\ r.inuse = Del(at.inuse, {p})
               /\ BlocksOk(r.inuse, total_size)
               /\ Canonical(no_free_lists, r.lists, r.inuse, total_size)
<1> DEFINE w == at.inuse
           b == NextStart(w, p)
           gone == Split(no_free_lists, p + w[p], b)
           whole == Split(no_free_lists, p, b)
           r == ReleaseOne(at, p, w[p])
<1>1. no_free_lists \in Lists /\ total_size < pow2[32]
  BY SoundIs
<1>2. /\ gone \subseteq at.lists
      /\ Insertable(at.lists \ gone, whole)
      /\ BlocksOk(Del(w, {p}), total_size)
      /\ Canonical(no_free_lists, (at.lists \ gone) \cup whole, Del(w, {p}), total_size)
  <2> HIDE DEF w
  <2> QED BY <1>1, GiveTop DEF w
<1>3. r = [asserts |-> /\ at.asserts
                       /\ Removable(at.lists, gone)
                       /\ Insertable(at.lists \ gone, whole)
                       /\ p \in DOMAIN w,
           lists |-> (at.lists \ gone) \cup whole,
           inuse |-> Del(w, {p})]
  BY DEF ReleaseOne, Split
<1> HIDE DEF r, gone, whole
<1>4. r.lists = (at.lists \ gone) \cup whole /\ r.inuse = Del(w, {p})
  BY <1>3
<1>5. r.asserts
  <2>1. Removable(at.lists, gone)
    BY <1>2 DEF Removable
  <2> QED BY <1>2, <1>3, <2>1
<1>6. BlocksOk(r.inuse, total_size)
      /\ Canonical(no_free_lists, r.lists, r.inuse, total_size)
  BY <1>2, <1>4
<1> QED BY <1>4, <1>5, <1>6 DEF r

\* The starts of the first k blocks of a row.
RowOf(index, k) == {index + j * pow2[no_free_lists - 1] : j \in 0..(k - 1)}

(***************************************************************************)
(* power2_allocator_release_multiple                                       *)
(***************************************************************************)
LEMMA ReleaseMultipleKeeps ==
    ASSUME PInv, NEW index \in DOMAIN inuse_list, NEW count \in Counts,
           IsRow(index, count), ReleaseMultiple(index, count)
    PROVE  PInv' /\ live /\ inuse_list' = Del(inuse_list, RowOf(index, count))
<1> DEFINE w == inuse_list
           top == no_free_lists - 1
           p == pow2[top]
           r == ReleaseRounds(index, count)
           Good(k) == /\ r[k].asserts /\ r[k].inuse = Del(w, RowOf(index, k))
                      /\ BlocksOk(r[k].inuse, total_size)
                      /\ Canonical(no_free_lists, r[k].lists, r[k].inuse, total_size)
<1>0. live
  BY DEF ReleaseMultiple
<1>1. /\ no_free_lists \in Lists /\ top \in 0..31 /\ max_size = p /\ p \in Nat \ {0}
      /\ BlocksOk(w, total_size)
      /\ Canonical(no_free_lists, free_lists, w, total_size)
  BY <1>0, SoundIs
<1>2. count \in Nat /\ index \in Nat /\ DOMAIN w \subseteq Nat
  BY <1>1, ArgsAssumption, Width DEF BlocksOk
<1>3. ASSUME NEW j \in 0..(count - 1)
      PROVE  index + j * p \in DOMAIN w /\ w[index + j * p] = w[index]
  BY <1>1 DEF IsRow
<1>4. Aligned(index, top)
  BY <1>1 DEF IsRow, Aligned
<1>5. IsRounds(index, count, r)
  BY <1>2, RoundsRecursion
<1> HIDE DEF r
<1>6. Good(0)
  <2>1. r[0] = [asserts |-> get_index_size_asserts(index),
                lists |-> free_lists, inuse |-> w]
    BY <1>5 DEF IsRounds
  <2>2. get_index_size_asserts(index)
    BY <1>1 DEF get_index_size_asserts, BlocksOk
  <2>3. RowOf(index, 0) = {}
    BY DEF RowOf
  <2>4. Del(w, {}) = w
    BY <1>1 DEF Del, Restrict, BlocksOk
  <2>5. r[0].asserts /\ r[0].lists = free_lists /\ r[0].inuse = w
    BY <2>1, <2>2
  <2> QED BY <1>1, <2>3, <2>4, <2>5
<1>7. ASSUME NEW k \in 0..(count - 1), Good(k) PROVE Good(k + 1)
  <2> DEFINE i == index + k * p
             at == r[k]
  <2>1. k + 1 \in 1..count /\ (k + 1) - 1 = k
    BY <1>2
  <2>2. r[k + 1] = ReleaseOne(at, i, w[index])
    <3>1. r[k + 1] = ReleaseOne(r[(k + 1) - 1], index + ((k + 1) - 1) * pow2[no_free_lists - 1],
                                inuse_list[index])
      BY <1>5, <2>1 DEF IsRounds
    <3> QED BY <2>1, <3>1
  <2>3. i \in Nat /\ Aligned(i, top)
    <3>1. k * p \in Nat /\ k \in Nat
      BY <1>1
    <3>2. Aligned(k * p, top)
      <4>1. top \in 0..32
        BY <1>1
      <4> QED BY <3>1, <4>1, AlignedMultiple
    <3>3. top \in 0..32
      BY <1>1
    <3> DEFINE d == k * p
    <3> HIDE DEF d
    <3>4. d \in Nat /\ Aligned(d, top)
      BY <3>1, <3>2 DEF d
    <3> HIDE DEF top
    <3>5. index + d \in Nat /\ Aligned(index + d, top)
      <4>1. index \in Nat /\ d \in Nat /\ top \in 0..32 /\ Aligned(index, top) /\ Aligned(d, top)
        BY <1>2, <1>4, <3>3, <3>4
      <4> HIDE DEF p
      <4>2. index + d \in Nat
        BY <4>1
      <4>3. Aligned(index + d, top)
        BY <4>1, AlignedSums
      <4> QED BY <4>2, <4>3
    <3> QED BY <3>5 DEF d, top
  <2>4. i \notin RowOf(index, k)
    <3>1. ASSUME NEW j \in 0..(k - 1), i = index + j * p PROVE FALSE
      <4> HIDE DEF p
      <4>1. (k - j) * p = 0
        BY <1>1, <1>2, <3>1
      <4>2. k - j >= 1 => (k - j) * p >= p
        BY <1>1
      <4> QED BY <1>1, <4>1, <4>2
    <3> QED BY <3>1 DEF RowOf
  <2> HIDE DEF i
  <2>5. i \in DOMAIN at.inuse /\ at.inuse[i] = w[index]
    <3>1. i \in DOMAIN w /\ w[i] = w[index]
      BY <1>3 DEF i
    <3>2. at.inuse = Del(w, RowOf(index, k))
      BY <1>7
    <3> QED BY <2>4, <3>1, <3>2 DEF Del, Restrict
  <2> DEFINE z == ReleaseOne(at, i, at.inuse[i])
  <2>6. /\ z.asserts /\ z.inuse = Del(at.inuse, {i})
        /\ BlocksOk(z.inuse, total_size)
        /\ Canonical(no_free_lists, z.lists, z.inuse, total_size)
    <3>1. at.asserts /\ BlocksOk(at.inuse, total_size)
          /\ Canonical(no_free_lists, at.lists, at.inuse, total_size)
      BY <1>7
    <3> HIDE DEF at
    <3> QED BY <1>0, <2>3, <2>5, <3>1, RoundKeeps
  <2>7. r[k + 1] = z
    BY <2>2, <2>5
  <2>8. Del(at.inuse, {i}) = Del(w, RowOf(index, k + 1))
    <3>1. RowOf(index, k + 1) = RowOf(index, k) \cup {i}
      <4>1. 0..((k + 1) - 1) = (0..(k - 1)) \cup {k}
        OBVIOUS
      <4> QED BY <4>1 DEF RowOf, i
    <3> DEFINE R == RowOf(index, k)
               u == Del(w, R)
    <3>2. at.inuse = u
      BY <1>7
    <3> HIDE DEF R
    <3>3. DOMAIN u = DOMAIN w \ R /\ \A x \in DOMAIN w \ R : u[x] = w[x]
      BY DEF Del, Restrict
    <3> HIDE DEF u
    <3>4. DOMAIN u \ {i} = DOMAIN w \ (R \cup {i})
      BY <3>3
    <3>5. Del(u, {i}) = [x \in DOMAIN w \ (R \cup {i}) |-> u[x]]
      BY <3>4 DEF Del, Restrict
    <3>6. Del(w, R \cup {i}) = [x \in DOMAIN w \ (R \cup {i}) |-> w[x]]
      BY DEF Del, Restrict
    <3>7. Del(u, {i}) = Del(w, R \cup {i})
      BY <3>3, <3>5, <3>6
    <3> QED BY <3>1, <3>2, <3>7 DEF R
  <2> HIDE DEF z, at
  <2> QED BY <2>6, <2>7, <2>8
<1>8. Good(count)
  <2> HIDE DEF Good
  <2> DEFINE Bad == {k \in 0..count : ~Good(k)}
  <2>1. ASSUME Bad # {} PROVE FALSE
    <3>1. PICK k \in Bad : \A m \in Bad : k <= m
      <4>1. Bad \in SUBSET Nat
        OBVIOUS
      <4> HIDE DEF Bad
      <4> QED BY <2>1, <4>1, LeastNat
    <3>2. k # 0
      BY <1>6
    <3>3. k - 1 \in 0..(count - 1) /\ k - 1 \in 0..count /\ ~(k <= k - 1) /\ (k - 1) + 1 = k
      BY <1>2, <3>2
    <3>4. Good(k - 1)
      BY <3>1, <3>3
    <3>5. Good(k)
      BY <1>7, <3>3, <3>4
    <3> QED BY <3>5
  <2>2. count \in 0..count
    BY <1>2
  <2> QED BY <2>1, <2>2
<1>9. Commit(r[count].asserts, r[count].lists, r[count].inuse)
  BY DEF ReleaseMultiple, r
<1> DEFINE end == r[count]
<1>10. /\ end.asserts /\ end.inuse = Del(w, RowOf(index, count))
       /\ BlocksOk(end.inuse, total_size)
       /\ Canonical(no_free_lists, end.lists, end.inuse, total_size)
  BY <1>8
<1> HIDE DEF end, Good
<1>11. PInv' /\ inuse_list' = end.inuse
  BY <1>0, <1>9, <1>10, Commits DEF end
<1> QED BY <1>0, <1>10, <1>11

(***************************************************************************)
(* power2_allocator_make_copy                                              *)
(***************************************************************************)
LEMMA MakeCopyKeeps ==
    ASSUME PInv, MakeCopy
    PROVE  PInv' /\ UNCHANGED vars
<1>1. live
  BY DEF MakeCopy
<1>2. /\ no_free_lists \in Lists /\ total_size < pow2[32]
      /\ BlocksOk(inuse_list, total_size)
      /\ Canonical(no_free_lists, free_lists, inuse_list, total_size)
  BY <1>1, SoundIs
<1>3. \A f \in free_lists : f.log2 \in 0..(no_free_lists - 1)
  <2> TAKE f \in free_lists
  <2>1. f \in [log2 : 0..(no_free_lists - 1), index : 0..total_size, size : 1..total_size]
    BY <1>2, EntriesApart
  <2> QED BY <2>1
<1>4. free_lists' = free_lists
  BY <1>3 DEF MakeCopy
<1>5. inuse_list' = inuse_list
  BY <1>2 DEF MakeCopy, BlocksOk
<1>6. UNCHANGED vars
  BY <1>4, <1>5 DEF MakeCopy, vars
<1>7. PInv'
  BY <1>6 DEF PInv, Sound, Blank, vars
<1> QED BY <1>6, <1>7

(***************************************************************************)
(* PInv holds in every state of the specification.                         *)
(***************************************************************************)
THEOREM Invariance == Spec => []PInv
<1>1. Init => PInv
  BY DEF Init, PInv, Blank
<1>2. PInv /\ [Next]_vars => PInv'
  <2> SUFFICES ASSUME PInv, [Next]_vars PROVE PInv'
    OBVIOUS
  <2>1. CASE \E args \in CreateArgs : Create(args[1], args[2])
    BY <2>1, CreateKeeps
  <2>2. CASE Destroy
    BY <2>2 DEF Destroy, PInv, Blank
  <2>3. CASE MakeCopy
    BY <2>3, MakeCopyKeeps
  <2>4. CASE \E size \in Sizes : Alloc(size)
    BY <2>4, AllocKeeps
  <2>5. CASE \E index \in DOMAIN inuse_list : Release(index)
    BY <2>5, ReleaseKeeps
  <2>6. CASE \E index \in Indexes, size \in Sizes : Reserve(index, size)
    BY <2>6, ReserveKeeps
  <2>7. CASE \E size \in Sizes, count \in Counts : AllocMultiple(size, count)
    BY <2>7, AllocMultipleKeeps
  <2>8. CASE \E index \in DOMAIN inuse_list, count \in Counts :
                IsRow(index, count) /\ ReleaseMultiple(index, count)
    BY <2>8, ReleaseMultipleKeeps
  <2>9. CASE UNCHANGED vars
    BY <2>9 DEF PInv, Sound, Blank, vars
  <2> QED
    BY <2>1, <2>2, <2>3, <2>4, <2>5, <2>6, <2>7, <2>8, <2>9 DEF Next
<1> QED BY <1>1, <1>2, PTL DEF Spec

-----------------------------------------------------------------------------
(***************************************************************************)
(* What the invariant implies                                              *)
(***************************************************************************)

(***************************************************************************)
(* Every field keeps a value of its C type, and every entry names a list   *)
(* that there is.                                                          *)
(***************************************************************************)
LEMMA InvTyped == PInv => TypeOK
<1> SUFFICES ASSUME PInv PROVE TypeOK
  OBVIOUS
<1>0. UINT32 \in Nat \ {0}
  BY Width
<1>1. live \in BOOLEAN /\ aborted \in BOOLEAN
  BY DEF PInv
<1>2. CASE ~live
  <2>1. Blank
    BY <1>2 DEF PInv
  <2>2. NoBlocks \in [DOMAIN NoBlocks -> 0..(UINT32 - 1)] /\ DOMAIN NoBlocks = {}
    BY DEF NoBlocks
  <2>3. inuse_list \in [DOMAIN inuse_list -> 0..(UINT32 - 1)] /\ DOMAIN inuse_list = {}
    BY <2>1, <2>2 DEF Blank
  <2> QED BY <1>0, <1>1, <2>1, <2>3 DEF Blank, TypeOK
<1>3. CASE live
  <2>1. /\ no_free_lists \in Lists /\ max_size \in Nat /\ max_size < UINT32
        /\ total_size \in Nat /\ total_size < pow2[32] /\ total_size < UINT32
        /\ BlocksOk(inuse_list, total_size)
        /\ Canonical(no_free_lists, free_lists, inuse_list, total_size)
    BY <1>3, SoundIs
  <2>2. max_size \in 0..(UINT32 - 1) /\ total_size \in 0..(UINT32 - 1)
        /\ no_free_lists \in 0..33
    BY <1>0, <2>1 DEF Lists
  <2>3. free_lists \subseteq [log2 : 0..(no_free_lists - 1),
                              index : 0..(UINT32 - 1), size : 1..(UINT32 - 1)]
    <3> SUFFICES ASSUME NEW f \in free_lists
                 PROVE  f \in [log2 : 0..(no_free_lists - 1),
                               index : 0..(UINT32 - 1), size : 1..(UINT32 - 1)]
      OBVIOUS
    <3>1. f \in [log2 : 0..(no_free_lists - 1), index : 0..total_size, size : 1..total_size]
      BY <2>1, EntriesApart
    <3>2. 0..total_size \subseteq 0..(UINT32 - 1) /\ 1..total_size \subseteq 1..(UINT32 - 1)
      BY <1>0, <2>2
    <3> QED BY <3>1, <3>2
  <2>4. \A i \in DOMAIN inuse_list :
           i \in 0..(UINT32 - 1) /\ inuse_list[i] \in 0..(UINT32 - 1)
    <3> TAKE i \in DOMAIN inuse_list
    <3>1. i \in Nat /\ inuse_list[i] \in Nat \ {0} /\ i + inuse_list[i] <= total_size
      BY <2>1 DEF BlocksOk
    <3> QED BY <1>0, <2>1, <3>1
  <2>5. inuse_list \in [DOMAIN inuse_list -> 0..(UINT32 - 1)]
    BY <2>1, <2>4 DEF BlocksOk
  <2>6. DOMAIN inuse_list \subseteq 0..(UINT32 - 1)
    BY <2>4
  <2> QED BY <1>1, <2>2, <2>3, <2>5, <2>6 DEF TypeOK
<1> QED BY <1>1, <1>2, <1>3

(***************************************************************************)
(* The indexes nobody holds, in terms of the blocks.                       *)
(***************************************************************************)
LEMMA FreeIs ==
    ASSUME PInv, live, NEW x
    PROVE  x \in Free <=>
              /\ x \in 0..(total_size - 1)
              /\ \A i \in DOMAIN inuse_list : x \notin i..(i + inuse_list[i] - 1)
BY DEF Free, InUse, Span

(***************************************************************************)
(* A range is free just when it lies between two neighbouring blocks.      *)
(***************************************************************************)
LEMMA FreeSpan ==
    ASSUME PInv, live, NEW x \in Nat, NEW n \in Nat \ {0}
    PROVE  Span(x, n) \subseteq Free <=>
              /\ x \notin DOMAIN inuse_list /\ PrevEnd(inuse_list, x) <= x
              /\ x + n <= NextStart(inuse_list, x)
<1>1. BlocksOk(inuse_list, total_size) /\ total_size \in Nat
  BY SoundIs
<1>2. Span(x, n) \subseteq Free <=>
         /\ x + n <= total_size
         /\ \A y \in x..(x + n - 1), i \in DOMAIN inuse_list :
               y \notin i..(i + inuse_list[i] - 1)
  <2>1. ASSUME Span(x, n) \subseteq Free
        PROVE  /\ x + n <= total_size
               /\ \A y \in x..(x + n - 1), i \in DOMAIN inuse_list :
                     y \notin i..(i + inuse_list[i] - 1)
    <3>1. \A y \in x..(x + n - 1) : y \in Free
      BY <2>1 DEF Span
    <3>2. x + n - 1 \in x..(x + n - 1)
      OBVIOUS
    <3>3. x + n - 1 \in 0..(total_size - 1)
      BY <3>1, <3>2, FreeIs
    <3>4. x + n <= total_size
      BY <1>1, <3>3
    <3> QED BY <3>1, <3>4, FreeIs
  <2>2. ASSUME x + n <= total_size,
               \A y \in x..(x + n - 1), i \in DOMAIN inuse_list :
                  y \notin i..(i + inuse_list[i] - 1),
               NEW y \in Span(x, n)
        PROVE  y \in Free
    <3>1. y \in x..(x + n - 1)
      BY DEF Span
    <3>2. y \in 0..(total_size - 1)
      BY <1>1, <2>2, <3>1
    <3> QED BY <2>2, <3>1, <3>2, FreeIs
  <2> QED BY <2>1, <2>2
<1> QED BY <1>1, <1>2, FreeBetween

(***************************************************************************)
(* power2_allocator_reserve accepts a range just when it is free.          *)
(***************************************************************************)
LEMMA InvReserve == PInv => ReserveExact
<1> SUFFICES ASSUME PInv, live, NEW index \in Indexes, NEW size \in Sizes
             PROVE  ReserveStatus(index, size) = 0 <=> Span(index, size) \subseteq Free
  BY DEF ReserveExact
<1>1. index \in Nat /\ size \in Nat \ {0}
  BY ReserveFinds, SizeIs
<1>2. ReserveStatus(index, size) = 0 <=>
                 /\ index \notin DOMAIN inuse_list
                 /\ PrevEnd(inuse_list, index) <= index
                 /\ index + size <= NextStart(inuse_list, index)
  BY ReserveFinds
<1> QED BY <1>1, <1>2, FreeSpan

(***************************************************************************)
(* Without blocks the lists are those power2_allocator_create made.        *)
(***************************************************************************)
LEMMA InvWhole == PInv => ReleasedIsWhole
<1> SUFFICES ASSUME PInv, live, inuse_list = NoBlocks
             PROVE  free_lists =
                       {[log2 |-> no_free_lists - 1, index |-> i, size |-> max_size] :
                          i \in {j \in 0..(total_size - 1) : j % max_size = 0}}
  BY DEF ReleasedIsWhole
<1>1. /\ no_free_lists \in Lists /\ max_size = pow2[no_free_lists - 1]
      /\ total_size \in Nat /\ total_size < pow2[32]
      /\ Aligned(total_size, no_free_lists - 1)
      /\ Canonical(no_free_lists, free_lists, NoBlocks, total_size)
  BY SoundIs
<1>2. free_lists = Cells(no_free_lists, 0, total_size)
  BY <1>1, NoBlocksGap
<1> QED BY <1>1, <1>2 DEF Cells, Cell, Aligned

(***************************************************************************)
(* power2_allocator_assert passes.                                         *)
(***************************************************************************)
LEMMA InvConsistent == PInv => ListsConsistent
<1> SUFFICES ASSUME PInv, live PROVE power2_allocator_assert
  BY DEF ListsConsistent
<1> DEFINE w == inuse_list
           t == total_size
<1>1. /\ no_free_lists \in Lists /\ t \in Nat /\ t < pow2[32]
      /\ BlocksOk(w, t) /\ Canonical(no_free_lists, free_lists, w, t)
  BY SoundIs
<1>2. ASSUME NEW f \in free_lists
      PROVE  /\ Clear(free_lists \ {f}, f.index, EndOf(f))
             /\ f \in [log2 : 0..(no_free_lists - 1), index : 0..t, size : 1..t]
             /\ f.index < EndOf(f) /\ EndOf(f) <= t
             /\ f.size <= pow2[f.log2] /\ pow2[f.log2] < 2 * f.size
             /\ \A i \in DOMAIN w : i + w[i] <= f.index \/ EndOf(f) <= i
  BY <1>1, EntriesApart
<1>3. ASSUME NEW f \in free_lists
      PROVE  /\ f.index \in Nat /\ f.size \in Nat \ {0} /\ f.log2 \in 0..32
             /\ EndOf(f) = f.index + f.size
             /\ Span(f.index, f.size) = f.index..(EndOf(f) - 1)
  <2>1. f.index \in Nat /\ f.size \in Nat \ {0} /\ f.log2 \in 0..32
    <3>1. f \in [log2 : 0..(no_free_lists - 1), index : 0..t, size : 1..t]
      BY <1>2
    <3> QED BY <1>1, <3>1 DEF Lists
  <2> QED BY <2>1 DEF EndOf, Span
<1>4. \A i \in DOMAIN w : i \in Nat /\ w[i] \in Nat \ {0} /\ i + w[i] <= t
  BY <1>1 DEF BlocksOk
<1>5. \A f \in free_lists : f.size <= pow2[f.log2] /\ 2 * f.size > pow2[f.log2]
  <2> TAKE f \in free_lists
  <2>1. pow2[f.log2] \in Nat
    BY <1>3, Pow2Positive
  <2> QED BY <1>2, <1>3, <2>1
<1>6. ASSUME NEW f \in free_lists, NEW g \in free_lists, f # g
      PROVE  Span(f.index, f.size) \cap Span(g.index, g.size) = {}
  <2>1. EndOf(g) <= f.index \/ EndOf(f) <= g.index
    <3>1. Clear(free_lists \ {f}, f.index, EndOf(f))
      BY <1>2
    <3>2. g \in free_lists \ {f}
      BY <1>6
    <3> QED BY <3>1, <3>2 DEF Clear
  <2> DEFINE i == f.index
             j == g.index
             d == EndOf(f)
             e == EndOf(g)
  <2>2. i \in Nat /\ j \in Nat /\ d \in Nat /\ e \in Nat
    BY <1>3
  <2> HIDE DEF i, j, d, e
  <2>3. e <= i \/ d <= j
    BY <2>1 DEF i, j, d, e
  <2>4. (i..(d - 1)) \cap (j..(e - 1)) = {}
    BY <2>2, <2>3
  <2> QED BY <1>3, <2>4 DEF i, j, d, e
<1>7. ASSUME NEW i \in DOMAIN w, NEW j \in DOMAIN w, i # j
      PROVE  Span(i, w[i]) \cap Span(j, w[j]) = {}
  <2>1. i + w[i] <= j \/ j + w[j] <= i
    BY <1>1, <1>7 DEF BlocksOk
  <2> QED BY <1>4, <2>1 DEF Span
<1>8. ASSUME NEW f \in free_lists, NEW x \in Span(f.index, f.size) PROVE x \in Free
  <2>1. x \in f.index..(EndOf(f) - 1)
    BY <1>3
  <2>2. f.index \in Nat /\ EndOf(f) \in Nat /\ EndOf(f) <= t
    <3>1. f.index \in Nat /\ f.size \in Nat /\ EndOf(f) = f.index + f.size
      BY <1>3
    <3>2. EndOf(f) <= t
      BY <1>2
    <3> QED BY <3>1, <3>2
  <2>3. x \in 0..(t - 1)
    BY <1>1, <2>1, <2>2
  <2>4. ASSUME NEW i \in DOMAIN w PROVE x \notin i..(i + w[i] - 1)
    <3>1. i + w[i] <= f.index \/ EndOf(f) <= i
      BY <1>2
    <3>2. i \in Nat /\ w[i] \in Nat
      BY <1>4
    <3> QED BY <2>1, <2>2, <3>1, <3>2
  <2> QED BY <2>3, <2>4, FreeIs
<1>9. ASSUME NEW x \in Free PROVE \E f \in free_lists : x \in Span(f.index, f.size)
  <2>1. x \in 0..(t - 1) /\ x \in Nat /\ 1 \in Nat \ {0} /\ x < t
    BY <1>1, FreeIs
  <2>2. Span(x, 1) \subseteq Free
    BY <2>1 DEF Span
  <2> DEFINE a == PrevEnd(w, x)
             b == NextStart(w, x)
  <2>3. x \notin DOMAIN w /\ a <= x /\ x + 1 <= b
    BY <2>1, <2>2, FreeSpan
  <2>4. a \in Nat /\ b \in Nat
    BY <1>1, <2>1, PrevIs, NextIs
  <2>5. x <= b
    <3> HIDE DEF b
    <3> QED BY <2>1, <2>3, <2>4
  <2>6. IsGap(w, t, a, b)
    BY <1>1, <2>1, <2>3, <2>5, GapAround
  <2> HIDE DEF a, b
  <2>7. Space(a, b)
    BY <1>1, <2>6, GapSpace
  <2>8. b < pow2[32] /\ a \in 0..b /\ x \in a..(b - 1)
    BY <2>1, <2>3, <2>4, <2>7 DEF Space
  <2>9. PICK c \in Split(no_free_lists, a, b) : c.index <= x /\ x < EndOf(c)
    BY <1>1, <2>4, <2>8, SplitCovers
  <2>10. c \in free_lists
    BY <1>1, <2>6, GapClear
  <2>11. x \in c.index..(EndOf(c) - 1)
    <3>1. c.index \in Nat /\ EndOf(c) \in Nat
      BY <1>3, <2>10
    <3> QED BY <2>1, <2>9, <3>1
  <2> QED BY <1>3, <2>10, <2>11
<1>10. UNION {Span(f.index, f.size) : f \in free_lists} = Free
  BY <1>8, <1>9
<1>11. InUse \subseteq 0..(t - 1)
  <2>1. ASSUME NEW i \in DOMAIN w, NEW x \in Span(i, w[i]) PROVE x \in 0..(t - 1)
    BY <1>1, <1>4 DEF Span
  <2> QED BY <2>1 DEF InUse
<1>12. ASSUME NEW i \in DOMAIN w \cup {t}
       PROVE  Chunks(no_free_lists, PrevEnd(w, i), i - PrevEnd(w, i)) \subseteq free_lists
  <2>1. i \in Starts(w, t)
    BY DEF Starts
  <2>2. IsGap(w, t, PrevEnd(w, i), i)
    BY <1>1, <2>1, GapBefore
  <2>3. Split(no_free_lists, PrevEnd(w, i), i) \subseteq free_lists
    BY <1>1, <2>2, GapClear
  <2> QED BY <2>3 DEF Split
<1> QED BY <1>5, <1>6, <1>7, <1>10, <1>11, <1>12 DEF power2_allocator_assert

(***************************************************************************)
(* A free run that starts at a multiple of the power of two its size       *)
(* rounds up to lies in one entry, and this entry is of a list that alloc  *)
(* looks at for such a size.                                               *)
(***************************************************************************)
LEMMA RunEntry ==
    ASSUME PInv, live, NEW size \in Sizes, size <= max_size, NEW x \in Nat,
           Aligned(x, log2_uint32_ceil(size)), Span(x, size) \subseteq Free
    PROVE  \E c \in free_lists :
              /\ c.log2 \in log2_uint32_ceil(size)..(no_free_lists - 1)
              /\ c.index <= x /\ x + size <= EndOf(c) /\ c.size >= size
<1> DEFINE k == log2_uint32_ceil(size)
           nfl == no_free_lists
           w == inuse_list
           t == total_size
           a == PrevEnd(w, x)
           b == NextStart(w, x)
<1>1. /\ nfl \in Lists /\ nfl - 1 \in 0..31 /\ max_size = pow2[nfl - 1]
      /\ t \in Nat /\ t < pow2[32]
      /\ BlocksOk(w, t) /\ Canonical(nfl, free_lists, w, t)
  BY SoundIs
<1>2. /\ size \in Nat \ {0} /\ k \in 0..32
      /\ \A j \in 0..32 : size <= pow2[j] <=> k <= j
  BY SizeIs
<1>3. k \in 0..(nfl - 1) /\ size <= pow2[k]
  <2>1. nfl - 1 \in 0..32
    BY <1>1
  <2>2. k <= nfl - 1
    BY <1>1, <1>2, <2>1
  <2> QED BY <1>1, <1>2, <2>2
<1>4. x \notin DOMAIN w /\ a <= x /\ x + size <= b /\ a \in Nat /\ b \in Nat
  <2>1. x \notin DOMAIN w /\ a <= x /\ x + size <= b
    BY <1>2, FreeSpan
  <2>2. a \in Nat /\ b \in Nat
    BY <1>1, PrevIs, NextIs
  <2> QED BY <2>1, <2>2
<1>5. IsGap(w, t, a, b)
  <2>1. x <= b
    <3> HIDE DEF a, b
    <3> QED BY <1>2, <1>4
  <2> QED BY <1>1, <1>4, <2>1, GapAround
<1> HIDE DEF a, b, w
<1>6. Space(a, b) /\ Split(nfl, a, b) \subseteq free_lists
  BY <1>1, <1>5, GapSpace, GapClear
<1>7. b < pow2[32] /\ a \in 0..b /\ x \in a..(b - 1)
  BY <1>2, <1>4, <1>6 DEF Space
<1>8. PICK c \in Split(nfl, a, b) : c.index <= x /\ x < EndOf(c)
  BY <1>1, <1>4, <1>7, SplitCovers
<1> DEFINE i == c.index
           e == EndOf(c)
           m == c.log2
           p == pow2[m]
<1>9. /\ c \in [log2 : 0..(nfl - 1), index : a..(b - 1), size : 1..b]
      /\ EndOf(c) \in (c.index + 1)..b
      /\ Aligned(c.index, c.log2)
      /\ c.size <= pow2[c.log2]
      /\ EndOf(c) = b \/ c.size = pow2[c.log2]
      /\ c = ChunkAt(nfl, c.index, b - c.index)
  BY <1>1, <1>6, PieceIs
<1>10. /\ i \in Nat /\ e \in Nat /\ c.size \in Nat /\ m \in 0..(nfl - 1) /\ m \in 0..32
       /\ e = i + c.size /\ i <= x /\ x < e /\ e <= b /\ i < b
  <2>1. i \in a..(b - 1) /\ e \in (i + 1)..b /\ c.size \in 1..b /\ m \in 0..(nfl - 1)
    BY <1>9
  <2>2. e = i + c.size
    BY DEF EndOf
  <2> HIDE DEF i, e, m
  <2>3. i <= x /\ x < e
    BY <1>8 DEF i, e
  <2> QED BY <1>1, <1>4, <2>1, <2>2, <2>3
<1>11. p \in Nat \ {0} /\ pow2[k] \in Nat \ {0}
  BY <1>2, <1>10, Pow2Positive
<1>12. k <= m /\ x + size <= e
  <2>1. CASE i = x
    <3>1. Space(x, b) /\ x < b
      BY <1>4, <1>6, <1>10, <2>1 DEF Space
    <3>2. IsChunk(nfl, x, b, c)
      BY <1>1, <1>9, <2>1, <3>1, ChunkIs
    <3>3. k <= log2_uint32_ceil(b - x)
      <4> DEFINE u == log2_uint32_ceil(b - x)
      <4>1. b - x \in Nat /\ b - x <= pow2[32] /\ size <= b - x
        BY <1>2, <1>4, <1>7, <3>1, Pow2Positive
      <4>2. u \in 0..32 /\ \A j \in 0..32 : b - x <= pow2[j] <=> u <= j
        BY <4>1, CeilIs
      <4> HIDE DEF u, k
      <4>3. b - x <= pow2[u] /\ pow2[u] \in Nat
        BY <4>2, Pow2Positive
      <4>4. size <= pow2[u]
        BY <1>2, <4>1, <4>3
      <4>5. k <= u
        BY <1>2, <4>2, <4>4
      <4> QED BY <4>5 DEF u
    <3>4. k <= m
      BY <1>3, <3>2, <3>3 DEF IsChunk
    <3>5. size <= p
      <4>1. pow2[k] <= p
        BY <1>2, <1>10, <3>4, Pow2Grows
      <4> HIDE DEF p, k
      <4> QED BY <1>2, <1>3, <1>11, <4>1
    <3>6. size <= c.size
      <4>1. c.size = b - x \/ c.size = p
        BY <1>9, <1>10, <2>1
      <4> HIDE DEF p
      <4> QED BY <1>2, <1>4, <1>10, <3>5, <4>1
    <3> HIDE DEF i, e, m, p, k
    <3>7. x + size <= e
      BY <1>2, <1>10, <2>1, <3>6
    <3> QED BY <3>4, <3>7
  <2>2. CASE i # x
    <3>0. i < x /\ x < i + p
      <4>1. Aligned(i, m) /\ c.size <= p
        BY <1>9
      <4> HIDE DEF i, e, p
      <4> QED BY <1>10, <1>11, <2>2, <4>1
    <3>1. k < m
      <4>1. ASSUME m <= k PROVE FALSE
        <5>1. m \in 0..k
          BY <1>2, <1>10, <4>1
        <5>2. Aligned(x, m)
          BY <1>2, <5>1, AlignedLower
        <5>3. i + pow2[m] <= x
          BY <1>9, <1>10, <3>0, <5>2, AlignedSums
        <5> HIDE DEF i, e, k
        <5> QED BY <1>10, <1>11, <3>0, <5>3
      <4> HIDE DEF k, m
      <4> QED BY <1>2, <1>10, <4>1
    <3>2. x + pow2[k] <= i + p
      <4>1. k \in 0..m
        BY <1>2, <1>10, <3>1
      <4>2. Aligned(i, k)
        BY <1>9, <1>10, <4>1, AlignedLower
      <4>3. Aligned(p, k)
        <5>1. Aligned(p, m)
          <6>1. p = 1 * pow2[m]
            BY <1>11
          <6> QED BY <1>10, <1>11, <6>1, AlignedMultiple
        <5> QED BY <1>10, <1>11, <4>1, <5>1, AlignedLower
      <4>4. Aligned(i + p, k)
        BY <1>2, <1>10, <1>11, <4>2, <4>3, AlignedSums
      <4>5. i + p \in Nat
        BY <1>10, <1>11
      <4> DEFINE z == i + p
      <4> HIDE DEF z
      <4>6. z \in Nat /\ x < z /\ Aligned(z, k)
        BY <3>0, <4>4, <4>5 DEF z
      <4>7. x + pow2[k] <= z
        BY <1>2, <4>6, AlignedSums
      <4> QED BY <4>7 DEF z
    <3>3. x + size <= e
      <4>1. e = b \/ c.size = p
        BY <1>9
      <4> HIDE DEF i, e, p, k
      <4>2. CASE e = b
        BY <1>4, <4>2
      <4>3. CASE c.size = p
        BY <1>2, <1>3, <1>10, <1>11, <3>2, <4>3
      <4> QED BY <4>1, <4>2, <4>3
    <3> HIDE DEF k, m
    <3> QED BY <1>2, <1>10, <3>1, <3>3
  <2> QED BY <2>1, <2>2
<1>13. m \in k..(nfl - 1) /\ c.size >= size
  <2> HIDE DEF i, e, k, m
  <2> QED BY <1>1, <1>2, <1>10, <1>12
<1> QED BY <1>6, <1>10, <1>12, <1>13

(***************************************************************************)
(* What lies inside of an entry is free.                                   *)
(***************************************************************************)
LEMMA EntryFree ==
    ASSUME PInv, live, NEW f \in free_lists, NEW x \in Nat, NEW n \in Nat \ {0},
           f.index <= x, x + n <= EndOf(f)
    PROVE  Span(x, n) \subseteq Free
<1> DEFINE e == EndOf(f)
<1>1. /\ no_free_lists \in Lists /\ total_size \in Nat /\ total_size < pow2[32]
      /\ BlocksOk(inuse_list, total_size)
      /\ Canonical(no_free_lists, free_lists, inuse_list, total_size)
  BY SoundIs
<1>2. /\ f \in [log2 : 0..(no_free_lists - 1), index : 0..total_size, size : 1..total_size]
      /\ EndOf(f) <= total_size
      /\ \A i \in DOMAIN inuse_list : i + inuse_list[i] <= f.index \/ EndOf(f) <= i
  BY <1>1, EntriesApart
<1>3. f.index \in Nat /\ e \in Nat /\ e <= total_size
  BY <1>2 DEF EndOf
<1> HIDE DEF e
<1> SUFFICES ASSUME NEW y \in Span(x, n) PROVE y \in Free
  OBVIOUS
<1>4. y \in x..(x + n - 1)
  BY DEF Span
<1>5. y \in 0..(total_size - 1)
  BY <1>1, <1>3, <1>4 DEF e
<1>6. ASSUME NEW i \in DOMAIN inuse_list PROVE y \notin i..(i + inuse_list[i] - 1)
  <2>1. i + inuse_list[i] <= f.index \/ e <= i
    BY <1>2 DEF e
  <2>2. i \in Nat /\ inuse_list[i] \in Nat
    BY <1>1 DEF BlocksOk
  <2>3. x + n <= e
    BY DEF e
  <2> QED BY <1>3, <1>4, <2>1, <2>2, <2>3
<1> QED BY <1>5, <1>6, FreeIs

(***************************************************************************)
(* power2_allocator_alloc fails just when there is no such run.            *)
(***************************************************************************)
LEMMA InvAlloc == PInv => AllocExact
<1> SUFFICES ASSUME PInv, live, NEW size \in Sizes \cap 1..max_size
             PROVE  LET runs == {i \in 0..(total_size - size) :
                                   i % next_pow2(size) = 0 /\ Span(i, size) \subseteq Free}
                    IN  IF AllocFails(size) THEN runs = {} ELSE AllocIndex(size) \in runs
  BY DEF AllocExact
<1> DEFINE k == log2_uint32_ceil(size)
           runs == {i \in 0..(total_size - size) :
                       i % next_pow2(size) = 0 /\ Span(i, size) \subseteq Free}
<1>1. /\ no_free_lists \in Lists /\ total_size \in Nat /\ total_size < pow2[32]
      /\ max_size \in Nat
      /\ BlocksOk(inuse_list, total_size)
      /\ Canonical(no_free_lists, free_lists, inuse_list, total_size)
  BY SoundIs
<1>2. size \in Nat \ {0} /\ size <= max_size /\ size \in Sizes
  BY <1>1
<1>3. \A i : i % next_pow2(size) = 0 <=> Aligned(i, k)
  BY DEF next_pow2, Aligned
<1>4. ASSUME AllocFails(size), NEW i \in runs PROVE FALSE
  <2>1. i \in Nat /\ Aligned(i, k) /\ Span(i, size) \subseteq Free
    BY <1>3
  <2>2. PICK c \in free_lists : c.log2 \in k..(no_free_lists - 1) /\ c.size >= size
    BY <1>2, <2>1, RunEntry
  <2>3. c.log2 \in FitLists(size)
    BY <2>2 DEF FitLists
  <2> QED BY <1>1, <1>2, <1>4, <2>3 DEF AllocFails
<1>5. ASSUME ~AllocFails(size) PROVE AllocIndex(size) \in runs
  <2> DEFINE f == AllocEntry(size)
             x == AllocIndex(size)
             e == EndOf(f)
  <2>1. f \in free_lists /\ x \in Nat /\ f.index <= x /\ x + size <= e /\ Aligned(x, k)
    BY <1>2, <1>5, AllocFinds
  <2> HIDE DEF f, x
  <2>2. /\ f \in [log2 : 0..(no_free_lists - 1), index : 0..total_size, size : 1..total_size]
        /\ EndOf(f) <= total_size
    BY <1>1, <2>1, EntriesApart
  <2>3. f.index \in Nat /\ e \in Nat /\ e <= total_size
    BY <2>2 DEF EndOf
  <2>4. Span(x, size) \subseteq Free
    BY <1>2, <2>1, EntryFree
  <2> HIDE DEF e
  <2>5. x \in 0..(total_size - size)
    BY <1>1, <1>2, <2>1, <2>3
  <2>6. x \in runs
    BY <1>3, <2>1, <2>4, <2>5
  <2> QED BY <2>6 DEF x
<1>6. AllocFails(size) => runs = {}
  <2> HIDE DEF runs
  <2> QED BY <1>4
<1> HIDE DEF runs
<1> QED BY <1>5, <1>6 DEF runs

(***************************************************************************)
(* At a multiple of the largest size, there is room for a block that       *)
(* rounds up to this size just when the last list has an entry there.      *)
(***************************************************************************)
LEMMA TopRun ==
    ASSUME PInv, live, NEW size \in Sizes, NEW x \in Nat,
           log2_uint32_ceil(size) = no_free_lists - 1, Aligned(x, no_free_lists - 1)
    PROVE  TopEntry(x, size) # {} <=> Span(x, size) \subseteq Free
<1> DEFINE top == no_free_lists - 1
           p == pow2[top]
<1>1. /\ no_free_lists \in Lists /\ top \in 0..31 /\ max_size = p /\ p \in Nat \ {0}
      /\ total_size \in Nat /\ total_size < pow2[32]
      /\ BlocksOk(inuse_list, total_size)
      /\ Canonical(no_free_lists, free_lists, inuse_list, total_size)
  BY SoundIs
<1>2. size \in Nat \ {0} /\ size <= p
  BY <1>1, SizeIs
<1>3. ASSUME TopEntry(x, size) # {} PROVE Span(x, size) \subseteq Free
  <2>1. PICK f \in free_lists : f.index = x /\ f.size >= size
    BY <1>3 DEF TopEntry
  <2>2. f.index \in Nat /\ f.size \in Nat
    <3>1. f \in [log2 : 0..top, index : 0..total_size, size : 1..total_size]
      BY <1>1, EntriesApart
    <3> QED BY <1>1, <3>1
  <2>3. f.index <= x /\ x + size <= EndOf(f)
    BY <1>2, <2>1, <2>2 DEF EndOf
  <2> QED BY <1>2, <2>3, EntryFree
<1>4. ASSUME Span(x, size) \subseteq Free PROVE TopEntry(x, size) # {}
  <2>1. PICK c \in free_lists :
               /\ c.log2 \in top..top
               /\ c.index <= x /\ x + size <= EndOf(c) /\ c.size >= size
    BY <1>1, <1>2, <1>4, RunEntry
  <2>2. /\ c.index \in Nat /\ c.size \in Nat /\ Aligned(c.index, c.log2)
        /\ c.size <= pow2[c.log2]
    <3>1. /\ c \in [log2 : 0..top, index : 0..total_size, size : 1..total_size]
          /\ Aligned(c.index, c.log2) /\ c.size <= pow2[c.log2]
      BY <1>1, EntriesApart
    <3> QED BY <1>1, <3>1
  <2>3. c.log2 = top
    BY <1>1, <2>1
  <2>4. c.index < x => c.index + p <= x
    <3>1. top \in 0..32 /\ c.index \in Nat /\ Aligned(c.index, top)
      BY <1>1, <2>2, <2>3
    <3> QED BY <3>1, AlignedSums
  <2>5. x + size <= c.index + p
    <3>1. x + size <= c.index + c.size /\ c.size <= p
      BY <2>1, <2>2, <2>3 DEF EndOf
    <3> HIDE DEF p
    <3> QED BY <1>1, <1>2, <2>2, <3>1
  <2>6. c.index = x
    <3> DEFINE i == c.index
    <3>1. i <= x /\ i \in Nat /\ (i < x => i + p <= x) /\ x + size <= i + p
      BY <2>1, <2>2, <2>4, <2>5
    <3> HIDE DEF p, i
    <3>2. i = x
      BY <1>1, <1>2, <3>1
    <3> QED BY <3>2 DEF i
  <2> QED BY <2>1, <2>3, <2>6 DEF TopEntry
<1> QED BY <1>3, <1>4

(***************************************************************************)
(* A row that does not fit into the range does not begin anywhere in it.   *)
(***************************************************************************)
LEMMA RowTooLong ==
    ASSUME NEW t \in Nat, NEW k \in 0..31, Aligned(t, k), NEW count \in Nat \ {0},
           pow2[k] * count > t
    PROVE  (count - 1) * pow2[k] >= t
<1> DEFINE p == pow2[k]
<1>1. p \in Nat \ {0} /\ k \in 0..32
  BY Pow2Positive
<1>2. PICK q \in Nat : t = q * p
  BY <1>1, AlignedMultiple
<1> HIDE DEF p
<1>3. p * count > t
  BY DEF p
<1>4. count > q
  BY <1>1, <1>2, <1>3
<1>5. (count - 1) * p >= q * p
  <2>1. count - 1 \in Nat /\ count - 1 >= q
    BY <1>4
  <2> DEFINE c == count - 1
  <2> HIDE DEF c
  <2>2. c \in Nat /\ c >= q
    BY <2>1 DEF c
  <2>3. c * p >= q * p
    BY <1>1, <2>2
  <2> QED BY <2>3 DEF c
<1> QED BY <1>2, <1>5 DEF p

(***************************************************************************)
(* The scan for a row ends: its step is at most half of the indexes of     *)
(* uint32_t, and every entry lies in the first half.                       *)
(***************************************************************************)
LEMMA ScanEnds ==
    ASSUME PInv, live, NEW size \in Sizes, NEW count \in Nat,
           ~(total_size < RowLength(size, count))
    PROVE  ~ScanWraps(size, count)
<1> DEFINE r == RowLength(size, count)
           a == RowAlign(size, count)
           t == total_size
<1>1. PICK n \in 1..32 : UINT32 = pow2[n]
  BY ArgsAssumption
<1>2. n - 1 \in 0..32 /\ UINT32 = 2 * pow2[n - 1] /\ pow2[n - 1] \in Nat
  <2>1. n - 1 \in 0..32
    OBVIOUS
  <2> QED BY <1>1, <2>1, Pow2Recursion, Pow2Positive
<1>3. /\ no_free_lists \in Lists /\ t \in Nat /\ t < pow2[32] /\ BlocksOk(inuse_list, t)
      /\ Canonical(no_free_lists, free_lists, inuse_list, t)
  BY SoundIs
<1>4. 2 * t <= UINT32
  BY DEF PInv, Sound
<1> DEFINE h == pow2[n - 1]
<1> HIDE DEF h
<1>5. t <= h /\ h \in Nat /\ UINT32 = 2 * h
  BY <1>2, <1>3, <1>4 DEF h
<1>6. r \in Nat /\ r <= t
  <2>1. next_pow2(size) \in Nat
    BY SizeIs, Pow2Positive DEF next_pow2
  <2>2. next_pow2(size) * count \in Nat
    BY <2>1
  <2>3. r \in Nat
    <3> DEFINE x == next_pow2(size) * count
    <3> HIDE DEF x
    <3>1. x \in Nat /\ UINT32 \in Nat \ {0}
      BY <2>2, Width DEF x
    <3>2. x % UINT32 \in Nat
      BY <3>1
    <3> QED BY <3>2 DEF RowLength, x
  <2> HIDE DEF r
  <2> QED BY <1>3, <2>3 DEF r
<1> HIDE DEF r
<1>7. r <= h /\ r <= pow2[32]
  <2>1. pow2[32] \in Nat
    BY Pow2Positive
  <2> QED BY <1>3, <1>5, <1>6, <2>1
<1>8. a <= h /\ a \in Nat
  <2> DEFINE k == log2_uint32_ceil(r)
  <2>1. k \in 0..32 /\ k <= n - 1
    BY <1>2, <1>6, <1>7, CeilIs DEF h
  <2>2. a = pow2[k]
    BY DEF RowAlign, next_pow2, r
  <2> HIDE DEF k, a
  <2> QED BY <1>2, <2>1, <2>2, Pow2Grows, Pow2Positive DEF h
<1> HIDE DEF a
<1>9. ASSUME NEW f \in free_lists PROVE ~(f.index >= UINT32 - a)
  <2>1. /\ f \in [log2 : 0..(no_free_lists - 1), index : 0..t, size : 1..t]
        /\ f.index < EndOf(f) /\ EndOf(f) <= t
    BY <1>3, EntriesApart
  <2>2. f.index \in Nat /\ f.size \in Nat
    BY <1>3, <2>1
  <2>3. f.index < t
    <3> DEFINE x == f.index
               y == f.size
    <3>1. x < x + y /\ x + y <= t /\ x \in Nat /\ y \in Nat
      BY <2>1, <2>2 DEF EndOf
    <3> HIDE DEF x, y
    <3>2. x < t
      BY <1>3, <3>1
    <3> QED BY <3>2 DEF x
  <2> DEFINE x == f.index
  <2>4. x \in Nat /\ x < t
    BY <2>2, <2>3
  <2> HIDE DEF x
  <2>5. ~(x >= UINT32 - a)
    BY <1>3, <1>5, <1>8, <2>4
  <2> QED BY <2>5 DEF x
<1> QED BY <1>9 DEF ScanWraps, a

(***************************************************************************)
(* power2_allocator_alloc_multiple fails just when there is no row of free *)
(* blocks, and takes the lowest otherwise.  A row whose length wraps       *)
(* around is longer than the range and is found nowhere.                   *)
(***************************************************************************)
LEMMA InvAllocMultiple == PInv => AllocMultipleExact
<1> SUFFICES ASSUME PInv, live, NEW size \in Sizes \cap 1..max_size,
                    NEW count \in Counts \ {0, 1}, next_pow2(size) = max_size
             PROVE  LET rows == {i \in 0..total_size :
                                   /\ i % next_pow2(max_size * count) = 0
                                   /\ \A j \in 0..(count - 1) :
                                         Span(i + j * max_size, size) \subseteq Free}
                    IN  /\ ~AllocMultipleHangs(size, count)
                        /\ IF AllocMultipleFails(size, count) THEN rows = {}
                           ELSE rows # {} /\ AllocMultipleIndex(size, count) = Min(rows)
  BY DEF AllocMultipleExact
<1> DEFINE top == no_free_lists - 1
           p == pow2[top]
           n == p * count
           t == total_size
           Room(x) == Span(x, size) \subseteq Free
           Row(i) == \A j \in 0..(count - 1) : Room(i + j * p)
           rows == {i \in 0..t : i % next_pow2(n) = 0 /\ Row(i)}
<1>1. /\ no_free_lists \in Lists /\ top \in 0..31 /\ max_size = p /\ p \in Nat \ {0}
      /\ t \in Nat /\ t < pow2[32] /\ t < UINT32 /\ Aligned(t, top)
      /\ BlocksOk(inuse_list, t)
      /\ Canonical(no_free_lists, free_lists, inuse_list, t)
  BY SoundIs
<1>2. size \in Sizes /\ size \in Nat \ {0} /\ count \in Nat \ {0} /\ UINT32 \in Nat \ {0}
  BY ArgsAssumption, SizeIs, Width
<1>3. log2_uint32_ceil(size) = top
  <2> DEFINE k == log2_uint32_ceil(size)
  <2>1. k \in 0..32 /\ top \in 0..32 /\ pow2[k] = pow2[top]
    BY <1>1, <1>2, SizeIs DEF next_pow2
  <2> HIDE DEF k, top
  <2>2. pow2[k] \in Nat
    BY <2>1, Pow2Positive
  <2>3. ~(k < top) /\ ~(top < k)
    <3>1. k < top => pow2[k] < pow2[top]
      BY <2>1, Pow2Grows
    <3>2. top < k => pow2[top] < pow2[k]
      BY <2>1, Pow2Grows
    <3> QED BY <2>1, <2>2, <3>1, <3>2
  <2>4. k = top
    BY <2>1, <2>3
  <2> QED BY <2>4 DEF k
<1>4. n \in Nat /\ n = next_pow2(size) * count
  <2>1. n \in Nat
    <3> HIDE DEF p
    <3> QED BY <1>1, <1>2
  <2> QED BY <1>1, <2>1
<1>5. ASSUME NEW x \in Nat, Room(x) PROVE x < t
  <2>1. x \in Span(x, size)
    BY <1>2 DEF Span
  <2>2. x \in Free
    BY <1>5, <2>1
  <2> QED BY <1>1, <2>2 DEF Free
<1>6. count - 1 \in 0..(count - 1) /\ 0 \in 0..(count - 1)
  BY <1>2
<1>7. \A j \in 0..(count - 1) : j * p \in Nat /\ Aligned(j * p, top)
  <2> SUFFICES ASSUME NEW j \in 0..(count - 1) PROVE j * p \in Nat /\ Aligned(j * p, top)
    OBVIOUS
  <2>1. j \in Nat /\ top \in 0..32
    BY <1>1, <1>2
  <2>2. j * p \in Nat
    <3> HIDE DEF p
    <3> QED BY <1>1, <2>1
  <2> QED BY <2>1, <2>2, AlignedMultiple
<1>8. ASSUME NEW f \in free_lists
      PROVE  f.index \in Nat /\ f.index \in 0..t
  <2>1. f \in [log2 : 0..top, index : 0..t, size : 1..t]
    BY <1>1, EntriesApart
  <2> QED BY <1>1, <2>1
<1>9. ASSUME NEW x \in Nat, NEW f \in TopEntry(x, size) PROVE x < t /\ Aligned(x, top)
  <2>1. f \in free_lists /\ f.index = x /\ f.log2 = top
    BY DEF TopEntry
  <2>2. f.index < EndOf(f) /\ EndOf(f) <= t /\ Aligned(f.index, f.log2)
    BY <1>1, <2>1, EntriesApart
  <2>3. EndOf(f) \in Nat
    <3>1. f \in [log2 : 0..top, index : 0..t, size : 1..t]
      BY <1>1, <2>1, EntriesApart
    <3> QED BY <1>1, <3>1 DEF EndOf
  <2> QED BY <1>1, <2>1, <2>2, <2>3
<1>10. ~AllocMultipleHangs(size, count)
  BY <1>2, ScanEnds DEF AllocMultipleHangs, RowRefused
<1>11. CASE n > t
  <2>1. (count - 1) * p >= t
    BY <1>1, <1>2, <1>11, RowTooLong
  <2>2. ASSUME NEW i \in Nat PROVE ~(i + (count - 1) * p < t) /\ i + (count - 1) * p \in Nat
    <3> DEFINE d == (count - 1) * p
    <3>1. d \in Nat /\ d >= t
      BY <1>6, <1>7, <2>1
    <3> HIDE DEF d
    <3>2. ~(i + d < t) /\ i + d \in Nat
      BY <1>1, <3>1
    <3> QED BY <3>2 DEF d
  <2>3. rows = {}
    <3> SUFFICES ASSUME NEW i \in rows PROVE FALSE
      OBVIOUS
    <3>1. i \in Nat /\ Room(i + (count - 1) * p)
      BY <1>1, <1>6
    <3> HIDE DEF Room, p
    <3> QED BY <1>5, <2>2, <3>1
  <2>4. RowStarts(size, count) = {}
    <3> SUFFICES ASSUME NEW i \in RowStarts(size, count) PROVE FALSE
      OBVIOUS
    <3>1. i \in {f.index : f \in free_lists} /\ TopEntry(i + (count - 1) * p, size) # {}
      BY <1>6 DEF RowStarts
    <3>2. i \in Nat
      BY <1>8, <3>1
    <3>3. i + (count - 1) * p \in Nat /\ ~(i + (count - 1) * p < t)
      BY <2>2, <3>2
    <3> HIDE DEF p, top
    <3> QED BY <1>9, <3>1, <3>3
  <2>5. AllocMultipleFails(size, count)
    BY <1>2, <2>4, ScanEnds DEF AllocMultipleFails, RowRefused
  <2> HIDE DEF rows
  <2>6. IF AllocMultipleFails(size, count) THEN rows = {}
        ELSE rows # {} /\ AllocMultipleIndex(size, count) = Min(rows)
    BY <2>3, <2>5
  <2> QED BY <1>1, <1>10, <2>6 DEF rows
<1>12. CASE n <= t
  <2> DEFINE k == log2_uint32_ceil(n)
  <2>1. n % UINT32 = n /\ n < pow2[32] /\ n <= pow2[32]
    <3>1. n < UINT32 /\ n < pow2[32] /\ pow2[32] \in Nat
      <4> HIDE DEF n
      <4> QED BY <1>1, <1>2, <1>4, <1>12, Pow2Positive
    <3> HIDE DEF n
    <3> QED BY <1>2, <1>4, <3>1
  <2>2. k \in 0..32 /\ top \in 0..k
    <3>1. k \in 0..32 /\ \A j \in 0..32 : n <= pow2[j] <=> k <= j
      BY <1>4, <2>1, CeilIs
    <3>2. p <= n
      <4> HIDE DEF p
      <4> QED BY <1>1, <1>2
    <3>3. ASSUME k < top PROVE FALSE
      <4>1. n <= pow2[k] /\ pow2[k] \in Nat
        BY <3>1, Pow2Positive
      <4>2. pow2[k] < p
        <5>1. top \in 0..32
          BY <1>1
        <5> HIDE DEF k, top
        <5> QED BY <3>1, <3>3, <5>1, Pow2Grows
      <4> HIDE DEF n, k, p
      <4> QED BY <1>1, <1>4, <3>2, <4>1, <4>2
    <3> HIDE DEF k, top
    <3> QED BY <1>1, <3>1, <3>3
  <2>3. \A i : i % next_pow2(n) = 0 <=> Aligned(i, k)
    BY DEF next_pow2, Aligned
  <2>4. ASSUME NEW i \in Nat, Aligned(i, k), NEW j \in 0..(count - 1)
        PROVE  Room(i + j * p) <=> TopEntry(i + j * p, size) # {}
    <3>1. Aligned(i, top) /\ top \in 0..32
      BY <1>1, <2>2, <2>4, AlignedLower
    <3>2. j * p \in Nat /\ Aligned(j * p, top)
      BY <1>7
    <3>3. i + j * p \in Nat /\ Aligned(i + j * p, top)
      <4> DEFINE d == j * p
      <4>1. d \in Nat /\ Aligned(d, top)
        BY <3>2
      <4> HIDE DEF d, top
      <4>2. Aligned(i + d, top)
        BY <3>1, <4>1, AlignedSums
      <4>3. i + d \in Nat
        BY <4>1
      <4> QED BY <4>2, <4>3 DEF d
    <3> QED BY <1>2, <1>3, <3>3, TopRun
  <2>5. RowStarts(size, count) =
           {b \in {f.index : f \in free_lists} :
               /\ b % next_pow2(n) = 0
               /\ \A j \in 0..(count - 1) : TopEntry(b + j * p, size) # {}}
    BY <1>4, <2>1 DEF RowStarts, RowAlign, RowLength
  <2>6. ASSUME NEW i \in RowStarts(size, count) PROVE i \in rows
    <3>1. i \in Nat /\ i \in 0..t
      BY <1>8, <2>5
    <3>2. i % next_pow2(n) = 0 /\ \A j \in 0..(count - 1) : TopEntry(i + j * p, size) # {}
      BY <2>5
    <3>3. Row(i)
      BY <2>3, <2>4, <3>1, <3>2
    <3> QED BY <3>1, <3>2, <3>3
  <2>7. ASSUME NEW i \in rows PROVE i \in RowStarts(size, count)
    <3>1. i \in Nat /\ i % next_pow2(n) = 0 /\ Row(i)
      BY <1>1
    <3>2. \A j \in 0..(count - 1) : TopEntry(i + j * p, size) # {}
      BY <2>3, <2>4, <3>1
    <3>3. i + 0 * p = i
      <4> HIDE DEF p
      <4> QED BY <1>1, <3>1
    <3>4. i \in {f.index : f \in free_lists}
      BY <1>6, <3>2, <3>3 DEF TopEntry
    <3> QED BY <2>5, <3>1, <3>2, <3>4
  <2> HIDE DEF rows
  <2>8. rows = RowStarts(size, count)
    BY <2>6, <2>7
  <2>9. AllocMultipleFails(size, count) <=> RowStarts(size, count) = {}
    <3>1. ~(t < RowLength(size, count))
      <4> HIDE DEF n
      <4> QED BY <1>1, <1>4, <1>12, <2>1 DEF RowLength
    <3> QED BY <1>2, <1>3, <3>1, ScanEnds DEF AllocMultipleFails, RowRefused
  <2>10. IF AllocMultipleFails(size, count) THEN rows = {}
         ELSE rows # {} /\ AllocMultipleIndex(size, count) = Min(rows)
    BY <2>8, <2>9 DEF AllocMultipleIndex
  <2> QED BY <1>1, <1>10, <2>10 DEF rows
<1> HIDE DEF n, rows
<1> QED BY <1>1, <1>4, <1>11, <1>12

-----------------------------------------------------------------------------
(***************************************************************************)
(* The refinement of BlockAllocator                                        *)
(***************************************************************************)

(***************************************************************************)
(* New blocks that do not overlap each other or the old ones are blocks    *)
(* the abstract allocator may hand out.                                    *)
(***************************************************************************)
LEMMA Acquires ==
    ASSUME PInv, live, NEW S, NEW n \in Nat \ {0}, S \cap DOMAIN inuse_list = {},
           BlocksOk(PutAll(inuse_list, S, n), total_size),
           inuse_list' = PutAll(inuse_list, S, n),
           live' = live, total_size' = total_size
    PROVE  Blocks!AAcquire(S, n)
<1> DEFINE v == PutAll(inuse_list, S, n)
<1>1. /\ DOMAIN v = DOMAIN inuse_list \cup S
      /\ \A i \in S : v[i] = n
      /\ \A i \in DOMAIN inuse_list : v[i] = inuse_list[i]
  BY DEF PutAll
<1>2. /\ \A i \in DOMAIN v : i \in Nat /\ v[i] \in Nat \ {0} /\ i + v[i] <= total_size
      /\ \A i, j \in DOMAIN v : i # j => i + v[i] <= j \/ j + v[j] <= i
      /\ total_size \in Nat
  BY DEF BlocksOk
<1> HIDE DEF v
<1>3. ASSUME NEW i \in S
      PROVE  i..(i + n - 1) \subseteq (0..(total_size - 1)) \ Blocks!Owned
  <2>1. i \in DOMAIN v /\ v[i] = n /\ i \in Nat /\ i + n <= total_size
    BY <1>1, <1>2
  <2>2. ASSUME NEW j \in DOMAIN inuse_list, NEW y \in i..(i + n - 1),
               y \in j..(j + inuse_list[j] - 1)
        PROVE  FALSE
    <3>1. j \in DOMAIN v /\ v[j] = inuse_list[j] /\ j # i
      BY <1>1
    <3>2. i + v[i] <= j \/ j + v[j] <= i
      BY <1>2, <2>1, <3>1
    <3>3. j \in Nat /\ v[j] \in Nat
      BY <1>2, <3>1
    <3> QED BY <2>1, <2>2, <3>1, <3>2, <3>3
  <2>3. i..(i + n - 1) \subseteq 0..(total_size - 1)
    BY <1>2, <2>1
  <2> QED BY <2>2, <2>3 DEF Blocks!Owned, Blocks!Span
<1>4. ASSUME NEW i \in S, NEW j \in S, i # j
      PROVE  (i..(i + n - 1)) \cap (j..(j + n - 1)) = {}
  <2>1. i \in Nat /\ j \in Nat /\ (i + n <= j \/ j + n <= i)
    BY <1>1, <1>2, <1>4
  <2> QED BY <2>1
<1>5. inuse_list' = [i \in DOMAIN inuse_list \cup S |-> IF i \in S THEN n ELSE inuse_list[i]]
  BY DEF PutAll
<1> QED BY <1>3, <1>4, <1>5 DEF Blocks!AAcquire, Blocks!Span

(***************************************************************************)
(* A single block is a set of one.                                         *)
(***************************************************************************)
LEMMA PutOne ==
    ASSUME NEW w, NEW p, NEW n
    PROVE  Put(w, p, n) = PutAll(w, {p}, n)
BY DEF Put, PutAll

(***************************************************************************)
(* A row of at least two blocks is one the abstract allocator knows.       *)
(***************************************************************************)
LEMMA RowFits ==
    ASSUME NEW v, NEW t, BlocksOk(v, t), NEW i \in Nat, NEW count \in Nat, count >= 2,
           NEW p \in Nat \ {0}, \A j \in 0..(count - 1) : i + j * p \in DOMAIN v
    PROVE  i \in 0..(t - 1) /\ count \in 2..t /\ p \in 1..t
<1>1. \A x \in DOMAIN v : x \in Nat /\ x + 1 <= t
  <2> TAKE x \in DOMAIN v
  <2>1. x \in Nat /\ v[x] \in Nat \ {0} /\ x + v[x] <= t /\ t \in Nat
    BY DEF BlocksOk
  <2> QED BY <2>1
<1>2. t \in Nat
  BY DEF BlocksOk
<1>3. i + 0 * p + 1 <= t /\ i + 1 * p + 1 <= t /\ i + (count - 1) * p + 1 <= t
  <2>1. 0 \in 0..(count - 1) /\ 1 \in 0..(count - 1) /\ count - 1 \in 0..(count - 1)
    OBVIOUS
  <2> QED BY <1>1, <2>1
<1>4. (count - 1) * p >= count - 1
  <2>1. count - 1 \in Nat /\ p >= 1
    OBVIOUS
  <2> DEFINE c == count - 1
  <2> HIDE DEF c
  <2>2. c \in Nat
    BY <2>1 DEF c
  <2>3. c * p = c + c * (p - 1) /\ c * (p - 1) >= 0
    BY <2>1, <2>2
  <2> DEFINE d == c * (p - 1)
  <2>4. d \in Int
    BY <2>2
  <2>5. c * p >= c
    BY <2>2, <2>3, <2>4
  <2> QED BY <2>5 DEF c
<1> DEFINE d == (count - 1) * p
<1>5. d \in Nat
  BY <1>4
<1> HIDE DEF d
<1>6. i + d + 1 <= t /\ d >= count - 1 /\ i + p + 1 <= t /\ i + 1 <= t
  BY <1>3, <1>4 DEF d
<1> QED BY <1>2, <1>5, <1>6

(***************************************************************************)
(* What every operation but create and destroy leaves alone.               *)
(***************************************************************************)
LEMMA Leaves ==
    ASSUME NEW asserts, NEW lists, NEW inuse, Commit(asserts, lists, inuse)
    PROVE  live' = live /\ total_size' = total_size
BY DEF Commit

(***************************************************************************)
(* One new block: alloc and reserve.                                       *)
(***************************************************************************)
LEMMA OneBlock ==
    ASSUME PInv, PInv', live, NEW p, NEW n \in Nat \ {0}, p \notin DOMAIN inuse_list,
           inuse_list' = Put(inuse_list, p, n), live' = live, total_size' = total_size
    PROVE  Blocks!ANext
<1>1. inuse_list' = PutAll(inuse_list, {p}, n)
  BY PutOne
<1>2. BlocksOk(inuse_list', total_size')
  BY DEF PInv, Sound
<1>3. BlocksOk(PutAll(inuse_list, {p}, n), total_size)
  BY <1>1, <1>2
<1>4. Blocks!AAcquire({p}, n)
  BY <1>1, <1>3, Acquires
<1>5. p \in 0..(total_size - 1) /\ n \in 1..total_size
  <2> DEFINE v == PutAll(inuse_list, {p}, n)
  <2>1. p \in DOMAIN v /\ v[p] = n
    BY DEF PutAll
  <2> HIDE DEF v
  <2>2. p \in Nat /\ p + n <= total_size /\ total_size \in Nat
    <3>1. BlocksOk(v, total_size)
      BY <1>3 DEF v
    <3> QED BY <2>1, <3>1 DEF BlocksOk
  <2> QED BY <2>2
<1> QED BY <1>4, <1>5 DEF Blocks!ANext

(***************************************************************************)
(* Every step is a step of BlockAllocator or leaves what it sees alone.    *)
(***************************************************************************)
LEMMA StepSimulates ==
    ASSUME PInv, PInv', [Next]_vars
    PROVE  [Blocks!ANext]_<<live, total_size, inuse_list>>
<1>1. ASSUME NEW args \in CreateArgs, Create(args[1], args[2]) PROVE Blocks!ANext
  <2>1. total_size' \in 0..(UINT32 - 1)
    BY <1>1, CreateKeeps
  <2>2. Blocks!AOpen(total_size')
    BY <1>1 DEF Create, Blocks!AOpen, Blocks!NoBlocks, NoBlocks
  <2> QED BY <2>1, <2>2 DEF Blocks!ANext
<1>2. ASSUME Destroy PROVE Blocks!ANext
  <2>1. Blocks!AClose
    BY <1>2 DEF Destroy, Blocks!AClose, Blocks!NoBlocks, NoBlocks
  <2> QED BY <2>1 DEF Blocks!ANext
<1>3. ASSUME MakeCopy PROVE UNCHANGED <<live, total_size, inuse_list>>
  BY <1>3, MakeCopyKeeps DEF vars
<1>4. ASSUME NEW size \in Sizes, Alloc(size) PROVE Blocks!ANext
  <2>1. live /\ inuse_list' = Put(inuse_list, AllocIndex(size), size)
    BY <1>4, AllocKeeps
  <2>2. live' = live /\ total_size' = total_size
    BY <1>4, Leaves DEF Alloc
  <2>3. size \in Nat \ {0}
    BY SizeIs
  <2>4. AllocIndex(size) \notin DOMAIN inuse_list
    <3> DEFINE f == AllocEntry(size)
               x == AllocIndex(size)
    <3>1. f \in free_lists /\ x \in Nat /\ f.index <= x /\ x + size <= EndOf(f)
      BY <1>4, <2>1, AllocFinds DEF Alloc
    <3>2. /\ no_free_lists \in Lists /\ total_size < pow2[32]
          /\ BlocksOk(inuse_list, total_size)
          /\ Canonical(no_free_lists, free_lists, inuse_list, total_size)
      BY <2>1, SoundIs
    <3> HIDE DEF f, x
    <3>3. x \notin DOMAIN inuse_list
      BY <2>3, <3>1, <3>2, TakeEntry
    <3> QED BY <3>3 DEF x
  <2> QED BY <2>1, <2>2, <2>3, <2>4, OneBlock
<1>5. ASSUME NEW index \in DOMAIN inuse_list, Release(index) PROVE Blocks!ANext
  <2>1. live /\ inuse_list' = Del(inuse_list, {index})
    BY <1>5, ReleaseKeeps
  <2>2. live' = live /\ total_size' = total_size
    BY <1>5, Leaves DEF Release
  <2>3. Blocks!ARelease({index})
    BY <2>1, <2>2 DEF Blocks!ARelease, Del, Restrict
  <2> QED BY <2>3 DEF Blocks!ANext
<1>6. ASSUME NEW index \in Indexes, NEW size \in Sizes, Reserve(index, size)
      PROVE  Blocks!ANext
  <2>1. live /\ inuse_list' = Put(inuse_list, index, size)
    BY <1>6, ReserveKeeps
  <2>2. live' = live /\ total_size' = total_size
    BY <1>6, Leaves DEF Reserve
  <2>3. size \in Nat \ {0}
    BY SizeIs
  <2>4. index \notin DOMAIN inuse_list
    BY <1>6, <2>1, ReserveFinds DEF Reserve
  <2> QED BY <2>1, <2>2, <2>3, <2>4, OneBlock
<1>7. ASSUME NEW size \in Sizes, NEW count \in Counts, AllocMultiple(size, count)
      PROVE  Blocks!ANext
  <2> DEFINE i == AllocMultipleIndex(size, count)
             p == pow2[no_free_lists - 1]
             S == {i + j * p : j \in 0..(count - 1)}
  <2>1. live /\ i \in Nat /\ S \cap DOMAIN inuse_list = {}
        /\ inuse_list' = PutAll(inuse_list, S, size)
    BY <1>7, AllocMultipleKeeps
  <2>2. live' = live /\ total_size' = total_size
    BY <1>7, Leaves DEF AllocMultiple
  <2>3. size \in Nat \ {0} /\ size <= p
    <3>1. /\ size \in Nat \ {0}
          /\ \A k \in 0..32 : size <= pow2[k] <=> log2_uint32_ceil(size) <= k
      BY SizeIs
    <3>2. no_free_lists - 1 \in 0..31 /\ log2_uint32_ceil(size) = no_free_lists - 1
      BY <1>7, <2>1, SoundIs DEF AllocMultiple, RowRefused
    <3> QED BY <3>1, <3>2
  <2>4. count \in Nat /\ count >= 2
    <3>1. count \in 0..(UINT32 - 1) /\ count # 0 /\ count # 1
      BY <1>7, ArgsAssumption DEF AllocMultiple, RowRefused
    <3>2. UINT32 \in Nat
      BY Width
    <3> QED BY <3>1, <3>2
  <2>5. p \in Nat \ {0}
    BY <2>1, SoundIs
  <2> HIDE DEF i, p
  <2>6. BlocksOk(PutAll(inuse_list, S, size), total_size)
    <3>1. BlocksOk(inuse_list', total_size')
      BY <2>1, <2>2 DEF PInv, Sound
    <3> QED BY <2>1, <2>2, <3>1
  <2>7. Blocks!AAcquire(S, size)
    <3> HIDE DEF S
    <3> QED BY <2>1, <2>2, <2>3, <2>6, Acquires
  <2>8. i \in 0..(total_size - 1) /\ count \in 2..total_size /\ p \in 1..total_size
    <3> DEFINE v == PutAll(inuse_list, S, size)
    <3>1. \A j \in 0..(count - 1) : i + j * p \in DOMAIN v
      BY DEF PutAll
    <3> HIDE DEF v
    <3> QED BY <2>1, <2>4, <2>5, <2>6, <3>1, RowFits DEF v
  <2>9. size \in 1..p /\ S = Blocks!Row(i, count, p)
    BY <2>3, <2>5 DEF Blocks!Row
  <2> HIDE DEF S
  <2>10. Blocks!AAcquire(Blocks!Row(i, count, p), size)
    BY <2>7, <2>9
  <2> QED BY <2>8, <2>9, <2>10 DEF Blocks!ANext
<1>8. ASSUME NEW index \in DOMAIN inuse_list, NEW count \in Counts,
             IsRow(index, count), ReleaseMultiple(index, count)
      PROVE  Blocks!ANext \/ UNCHANGED <<live, total_size, inuse_list>>
  <2> DEFINE p == pow2[no_free_lists - 1]
             S == RowOf(index, count)
  <2>1. live /\ inuse_list' = Del(inuse_list, S)
    BY <1>8, ReleaseMultipleKeeps
  <2>2. live' = live /\ total_size' = total_size
    BY <1>8, Leaves DEF ReleaseMultiple
  <2>3. p \in Nat \ {0} /\ max_size = p /\ BlocksOk(inuse_list, total_size)
    BY <2>1, SoundIs
  <2>4. count \in Nat /\ count # 1 /\ index \in Nat
    BY <1>8, <2>3, ArgsAssumption, Width DEF ReleaseMultiple, BlocksOk
  <2>5. CASE count = 0
    <3>1. S = {}
      BY <2>5 DEF RowOf
    <3>2. Del(inuse_list, {}) = inuse_list
      BY <2>3 DEF Del, Restrict, BlocksOk
    <3> QED BY <2>1, <2>2, <3>1, <3>2
  <2>6. CASE count >= 2
    <3>1. \A j \in 0..(count - 1) : index + j * p \in DOMAIN inuse_list
      BY <1>8, <2>3 DEF IsRow
    <3>2. S = Blocks!Row(index, count, p) /\ S \subseteq DOMAIN inuse_list
      BY <3>1 DEF RowOf, Blocks!Row
    <3> HIDE DEF p, S
    <3>3. index \in 0..(total_size - 1) /\ count \in 2..total_size /\ p \in 1..total_size
      BY <2>3, <2>4, <2>6, <3>1, RowFits
    <3>4. Blocks!ARelease(Blocks!Row(index, count, p))
      BY <2>1, <2>2, <3>2 DEF Blocks!ARelease, Del, Restrict
    <3> QED BY <3>3, <3>4 DEF Blocks!ANext
  <2> QED BY <2>4, <2>5, <2>6
<1>9. ASSUME UNCHANGED vars PROVE UNCHANGED <<live, total_size, inuse_list>>
  BY <1>9 DEF vars
<1> QED
  BY <1>1, <1>2, <1>3, <1>4, <1>5, <1>6, <1>7, <1>8, <1>9 DEF Next

-----------------------------------------------------------------------------
(***************************************************************************)
(* Sums of sizes                                                           *)
(***************************************************************************)

\* The sets C[x] share no element, and each has the size F[x].
Pieces(C, F, S, n) ==
    /\ \A x \in S : C[x] \subseteq 0..n /\ F[x] = Cardinality(C[x])
    /\ \A x, y \in S : x # y => C[x] \cap C[y] = {}

(***************************************************************************)
(* The sizes of pieces add up to the size of what they cover.              *)
(***************************************************************************)
LEMMA SumOfPieces ==
    ASSUME NEW S, IsFiniteSet(S), NEW C, NEW F, NEW n \in Nat, Pieces(C, F, S, n)
    PROVE  SumFunctionOnSet(F, S) = Cardinality(UNION {C[x] : x \in S})
<1>s. ASSUME NEW k, k[{}] = 0,
             \A s \in SUBSET S : \A x \in s : k[s] = F[x] + k[s \ {x}]
      PROVE  SumFunctionOnSet(F, S) = k[S]
  BY <1>s, SumIs
<1> DEFINE U(s) == UNION {C[x] : x \in s}
           h == [s \in SUBSET S |-> Cardinality(U(s))]
<1>0. IsFiniteSet(0..n)
  BY FS_Interval
<1>1. h[{}] = 0
  <2>1. U({}) = {}
    OBVIOUS
  <2>2. h[{}] = Cardinality({})
    BY <2>1
  <2> QED BY <2>2, FS_EmptySet
<1>2. ASSUME NEW s \in SUBSET S, NEW x \in s
      PROVE  h[s] = F[x] + h[s \ {x}]
  <2>1. U(s) = C[x] \cup U(s \ {x})
    OBVIOUS
  <2>2. C[x] \cap U(s \ {x}) = {}
    BY DEF Pieces
  <2>3. IsFiniteSet(C[x]) /\ IsFiniteSet(U(s \ {x}))
    <3>1. C[x] \in SUBSET (0..n) /\ U(s \ {x}) \in SUBSET (0..n)
      BY DEF Pieces
    <3> HIDE DEF U
    <3> QED BY <1>0, <3>1, FS_Subset
  <2>4. h[s] = Cardinality(U(s)) /\ h[s \ {x}] = Cardinality(U(s \ {x}))
    <3>1. s \ {x} \in SUBSET S
      OBVIOUS
    <3> HIDE DEF U
    <3> QED BY <3>1
  <2> HIDE DEF U, h
  <2> DEFINE A == C[x]
             B == U(s \ {x})
  <2>5. Cardinality(A \cup B) = Cardinality(A) + Cardinality(B) - Cardinality(A \cap B)
    <3> HIDE DEF A, B
    <3>1. IsFiniteSet(A) /\ IsFiniteSet(B)
      BY <2>3 DEF A, B
    <3> QED BY <3>1, FS_Union
  <2>6. Cardinality(A \cap B) = 0
    BY <2>2, FS_EmptySet
  <2>7. Cardinality(A) \in Nat /\ Cardinality(B) \in Nat
    BY <2>3, FS_CardinalityType
  <2>8. F[x] = Cardinality(A)
    BY DEF Pieces
  <2> QED BY <2>1, <2>4, <2>5, <2>6, <2>7, <2>8
<1>3. SumFunctionOnSet(F, S) = h[S]
  <2>1. \A s \in SUBSET S : \A x \in s : h[s] = F[x] + h[s \ {x}]
    <3> HIDE DEF h, U
    <3> QED BY <1>2, Zenon
  <2> HIDE DEF h, U
  <2> QED BY <1>1, <1>s, <2>1, Zenon
<1>4. h[S] = Cardinality(U(S))
  <2> HIDE DEF U
  <2> QED OBVIOUS
<1> QED BY <1>3, <1>4

(***************************************************************************)
(* The size of a block or an entry is the number of its indexes.           *)
(***************************************************************************)
LEMMA SpanIs ==
    ASSUME NEW i \in Nat, NEW n \in Nat \ {0}, NEW t \in Nat, i + n <= t
    PROVE  Cardinality(Span(i, n)) = n /\ Span(i, n) \subseteq 0..t
<1>1. i \in Int /\ i + n - 1 \in Int /\ ~ (i > i + n - 1) /\ i + n - 1 - i + 1 = n
  OBVIOUS
<1>2. Cardinality(i..(i + n - 1)) = i + n - 1 - i + 1
  BY <1>1, FS_Interval
<1>3. i..(i + n - 1) \subseteq 0..t
  OBVIOUS
<1> QED BY <1>1, <1>2, <1>3 DEF Span

(***************************************************************************)
(* What power2_allocator_usage adds up is the number of indexes in use.    *)
(***************************************************************************)
LEMMA UsageIs ==
    ASSUME PInv, live
    PROVE  power2_allocator_usage = Cardinality(InUse) /\ IsFiniteSet(DOMAIN inuse_list)
<1> DEFINE w == inuse_list
           t == total_size
           S == DOMAIN inuse_list
           C == [i \in S |-> Span(i, w[i])]
<1>1. t \in Nat /\ BlocksOk(w, t)
  BY SoundIs
<1>2. \A i \in S : i \in Nat /\ w[i] \in Nat \ {0} /\ i + w[i] <= t /\ i <= t
  BY <1>1 DEF BlocksOk
<1>3. IsFiniteSet(S)
  <2>1. S \in SUBSET Nat
    BY <1>2
  <2> HIDE DEF S
  <2> QED BY <1>1, <1>2, <2>1, FS_BoundedSetOfNaturals
<1>4. Pieces(C, w, S, t)
  <2>1. \A i \in S : C[i] \subseteq 0..t /\ w[i] = Cardinality(C[i])
    BY <1>1, <1>2, SpanIs
  <2>2. ASSUME NEW i \in S, NEW j \in S, i # j PROVE C[i] \cap C[j] = {}
    <3>1. Span(i, w[i]) \cap Span(j, w[j]) = {}
      BY <2>2, InvConsistent DEF ListsConsistent, power2_allocator_assert
    <3> QED BY <3>1
  <2> HIDE DEF C
  <2> QED BY <2>1, <2>2 DEF Pieces
<1>5. UNION {C[i] : i \in S} = InUse
  BY DEF InUse
<1> HIDE DEF C
<1>6. SumFunctionOnSet(w, S) = Cardinality(UNION {C[i] : i \in S})
  BY <1>1, <1>3, <1>4, SumOfPieces
<1> QED BY <1>3, <1>5, <1>6 DEF power2_allocator_usage, SumFunction

(***************************************************************************)
(* The sizes in the free lists add up to the number of free indexes.       *)
(***************************************************************************)
LEMMA FreeSizesAre ==
    ASSUME PInv, live
    PROVE  SumFunction([f \in free_lists |-> f.size]) = Cardinality(Free)
<1> DEFINE t == total_size
           F == [f \in free_lists |-> f.size]
           C == [f \in free_lists |-> Span(f.index, f.size)]
           I == [f \in free_lists |-> f.index]
<1>1. /\ no_free_lists \in Lists /\ t \in Nat /\ t < pow2[32]
      /\ BlocksOk(inuse_list, t) /\ Canonical(no_free_lists, free_lists, inuse_list, t)
  BY SoundIs
<1>2. ASSUME NEW f \in free_lists
      PROVE  f.index \in 0..t /\ f.index \in Nat /\ f.size \in Nat \ {0} /\ f.index + f.size <= t
  <2>1. f \in [log2 : 0..(no_free_lists - 1), index : 0..t, size : 1..t] /\ EndOf(f) <= t
    BY <1>1, EntriesApart
  <2> QED BY <1>1, <2>1 DEF EndOf
<1>3. ASSUME NEW f \in free_lists, NEW g \in free_lists, f # g
      PROVE  Span(f.index, f.size) \cap Span(g.index, g.size) = {} /\ f.index # g.index
  <2>1. Span(f.index, f.size) \cap Span(g.index, g.size) = {}
    BY <1>3, InvConsistent DEF ListsConsistent, power2_allocator_assert
  <2>2. f.index \in Span(f.index, f.size) /\ g.index \in Span(g.index, g.size)
    BY <1>2 DEF Span
  <2> QED BY <2>1, <2>2
<1>4. IsFiniteSet(free_lists)
  <2>1. I \in [free_lists -> 0..t] /\ \A f, g \in free_lists : I[f] = I[g] => f = g
    BY <1>2, <1>3
  <2>2. I \in Injection(free_lists, 0..t)
    <3> HIDE DEF I
    <3> QED BY <2>1 DEF Injection, IsInjective
  <2>3. IsFiniteSet(0..t)
    BY <1>1, FS_Interval
  <2> QED BY <2>2, <2>3, FS_Injection
<1>5. Pieces(C, F, free_lists, t)
  <2>1. \A f \in free_lists : C[f] \subseteq 0..t /\ F[f] = Cardinality(C[f])
    BY <1>1, <1>2, SpanIs
  <2>2. \A f, g \in free_lists : f # g => C[f] \cap C[g] = {}
    BY <1>3
  <2> HIDE DEF C, F
  <2> QED BY <2>1, <2>2 DEF Pieces
<1>6. UNION {C[f] : f \in free_lists} = Free
  <2>1. UNION {Span(f.index, f.size) : f \in free_lists} = Free
    BY InvConsistent DEF ListsConsistent, power2_allocator_assert
  <2> QED BY <2>1
<1>7. DOMAIN F = free_lists
  OBVIOUS
<1> HIDE DEF C, F
<1>8. SumFunctionOnSet(F, free_lists) = Cardinality(UNION {C[f] : f \in free_lists})
  BY <1>1, <1>4, <1>5, SumOfPieces
<1>9. SumFunction(F) = Cardinality(Free)
  BY <1>6, <1>7, <1>8 DEF SumFunction
<1> QED BY <1>9 DEF F

(***************************************************************************)
(* Every index is in use or free.                                          *)
(***************************************************************************)
LEMMA IndexesAddUp ==
    ASSUME PInv, live
    PROVE  Cardinality(InUse) + Cardinality(Free) = total_size
<1> DEFINE T == 0..(total_size - 1)
<1>1. total_size \in Nat /\ InUse \subseteq T
  BY SoundIs, InvConsistent DEF ListsConsistent, power2_allocator_assert
<1>2. IsFiniteSet(T) /\ Cardinality(T) = total_size
  <2>1. total_size - 1 \in Int /\ (0 > total_size - 1 <=> total_size = 0)
    BY <1>1
  <2>2. IsFiniteSet(T) /\ Cardinality(T) = IF 0 > total_size - 1 THEN 0 ELSE total_size - 1 - 0 + 1
    BY <2>1, FS_Interval
  <2> QED BY <1>1, <2>1, <2>2
<1>3. Free = T \ InUse /\ T \cap InUse = InUse
  BY <1>1 DEF Free
<1> HIDE DEF T
<1>4. IsFiniteSet(InUse)
  BY <1>1, <1>2, FS_Subset
<1>5. Cardinality(Free) = Cardinality(T) - Cardinality(InUse)
  BY <1>2, <1>3, FS_Difference
<1>6. Cardinality(InUse) \in Nat
  BY <1>4, FS_CardinalityType
<1> QED BY <1>1, <1>2, <1>5, <1>6

(***************************************************************************)
(* The walk by first_alloc and next_alloc.                                 *)
(***************************************************************************)
LEMMA WalkIs ==
    ASSUME NEW w, NEW t, BlocksOk(w, t), inuse_list = w
    PROVE  /\ ({power2_allocator_first_alloc}
                 \cup {power2_allocator_next_alloc(i) : i \in DOMAIN w}) \ {-1} = DOMAIN w
           /\ \A i \in DOMAIN w : LET j == power2_allocator_next_alloc(i)
                                  IN  j # -1 => j >= i + w[i]
<1> DEFINE S == DOMAIN w
           Later(i) == power2_allocator_next_alloc(i)
           After(i) == {j \in S : j > i}
<1>1. \A i \in S : i \in Nat /\ w[i] \in Nat \ {0}
  BY DEF BlocksOk
<1>2. \A i, j \in S : i # j => i + w[i] <= j \/ j + w[j] <= i
  BY DEF BlocksOk
<1>3. -1 \notin S
  BY <1>1
<1>4. IF S = {} THEN power2_allocator_first_alloc = -1
      ELSE power2_allocator_first_alloc \in S
           /\ \A j \in S : power2_allocator_first_alloc <= j
  <2>1. S \in SUBSET Nat
    BY <1>1
  <2>2. power2_allocator_first_alloc = IF S = {} THEN -1 ELSE Min(S)
    BY DEF power2_allocator_first_alloc
  <2> HIDE DEF S
  <2> QED BY <2>1, <2>2, MinOfNats
<1>5. ASSUME NEW i \in S
      PROVE  IF After(i) = {} THEN Later(i) = -1
             ELSE /\ Later(i) \in S /\ Later(i) > i
                  /\ \A j \in S : j > i => Later(i) <= j
  <2>1. After(i) \in SUBSET Nat
    BY <1>1
  <2>2. Later(i) = IF After(i) = {} THEN -1 ELSE Min(After(i))
    BY DEF power2_allocator_next_alloc
  <2>3. CASE After(i) # {}
    <3>1. Min(After(i)) \in After(i) /\ \A j \in After(i) : Min(After(i)) <= j
      <4> HIDE DEF After
      <4> QED BY <2>1, <2>3, MinOfNats
    <3> DEFINE m == Min(After(i))
    <3>2. m \in After(i) /\ (\A j \in After(i) : m <= j) /\ Later(i) = m
      BY <2>2, <2>3, <3>1
    <3> HIDE DEF m, Later
    <3> QED BY <2>3, <3>2
  <2> QED BY <2>2, <2>3
<1> HIDE DEF Later
\* A block that is not the first comes after the last one before it.
<1>6. ASSUME NEW j \in S, j # power2_allocator_first_alloc
      PROVE  \E i \in S : Later(i) = j
  <2> DEFINE B == {i \in S : i < j}
  <2>1. S # {} /\ power2_allocator_first_alloc \in B
    BY <1>1, <1>4, <1>6
  <2>2. B \in SUBSET Nat /\ B # {} /\ j \in Nat /\ \A i \in B : i <= j
    BY <1>1, <2>1
  <2>3. Max(B) \in B /\ \A i \in B : i <= Max(B)
    <3> HIDE DEF B
    <3> QED BY <2>2, MaxOfNats
  <2>4. PICK m \in B : \A i \in B : i <= m
    BY <2>3
  <2>5. m \in S /\ m < j /\ j \in After(m) /\ m \in Nat
    BY <1>1
  <2>6. Later(m) \in S /\ Later(m) > m /\ Later(m) <= j /\ Later(m) \in Nat
    BY <1>1, <1>5, <2>5
  <2>7. Later(m) \notin B
    BY <2>4, <2>5, <2>6
  <2>8. Later(m) = j
    BY <2>2, <2>6, <2>7
  <2> QED BY <2>5, <2>8
<1>7. ASSUME NEW i \in S, Later(i) # -1 PROVE Later(i) \in S /\ Later(i) >= i + w[i]
  <2>1. Later(i) \in S /\ Later(i) > i
    BY <1>5, <1>7
  <2>2. i + w[i] <= Later(i) \/ Later(i) + w[Later(i)] <= i
    BY <1>1, <1>2, <2>1
  <2> QED BY <1>1, <2>1, <2>2
<1>8. ({power2_allocator_first_alloc} \cup {Later(i) : i \in S}) \ {-1} = S
  <2> DEFINE first == power2_allocator_first_alloc
             all == {first} \cup {Later(i) : i \in S}
  <2>1. first = -1 \/ first \in S
    BY <1>4
  <2> HIDE DEF first, S
  <2>2. ASSUME NEW x \in all, x # -1 PROVE x \in S
    BY <1>7, <2>1, <2>2
  <2>3. ASSUME NEW x \in S PROVE x \in all /\ x # -1
    BY <1>3, <1>6, <2>3 DEF first
  <2> QED BY <2>2, <2>3 DEF first
<1> QED BY <1>7, <1>8 DEF Later

(***************************************************************************)
(* The counts by size miss the blocks above max_size and no others.        *)
(***************************************************************************)
LEMMA CountsAre ==
    ASSUME PInv, live
    PROVE  LET large == {i \in DOMAIN inuse_list : inuse_list[i] > max_size}
           IN  power2_allocator_alloc_count = Cardinality(large)
                 + SumFunction([n \in 0..total_size |-> power2_allocator_alloc_count_by_size(n)])
<1> DEFINE w == inuse_list
           t == total_size
           S == DOMAIN inuse_list
           large == {i \in S : w[i] > max_size}
           F == [n \in 0..t |-> power2_allocator_alloc_count_by_size(n)]
           C == [n \in 0..t |-> {i \in S : w[i] = n /\ ~ (n > max_size)}]
<1>1. t \in Nat /\ BlocksOk(w, t) /\ max_size \in Nat
  BY SoundIs
<1>2. \A i \in S : i \in 0..t /\ w[i] \in Nat /\ w[i] \in 0..t
  BY <1>1 DEF BlocksOk
<1>3. IsFiniteSet(S)
  BY UsageIs
<1>4. Pieces(C, F, 0..t, t)
  <2>1. ASSUME NEW n \in 0..t PROVE C[n] \subseteq 0..t /\ F[n] = Cardinality(C[n])
    <3>1. F[n] = IF n > max_size THEN 0 ELSE Cardinality({i \in S : w[i] = n})
      BY DEF power2_allocator_alloc_count_by_size
    <3>2. CASE n > max_size
      <4>1. C[n] = {}
        BY <3>2
      <4> QED BY <3>1, <3>2, <4>1, FS_EmptySet
    <3>3. CASE ~ (n > max_size)
      <4>1. C[n] = {i \in S : w[i] = n}
        BY <3>3
      <4> QED BY <1>2, <3>1, <3>3, <4>1
    <3> QED BY <3>2, <3>3
  <2>2. \A n, m \in 0..t : n # m => C[n] \cap C[m] = {}
    OBVIOUS
  <2> HIDE DEF C, F
  <2> QED BY <2>1, <2>2 DEF Pieces
<1>5. UNION {C[n] : n \in 0..t} = S \ large
  <2>1. ASSUME NEW i \in S \ large PROVE \E n \in 0..t : i \in C[n]
    <3>1. i \in C[w[i]]
      BY <1>1, <1>2
    <3> QED BY <1>2, <3>1
  <2>2. ASSUME NEW n \in 0..t, NEW i \in C[n] PROVE i \in S \ large
    OBVIOUS
  <2> HIDE DEF C, large
  <2> QED BY <2>1, <2>2
<1>6. DOMAIN F = 0..t
  OBVIOUS
<1>7. S \cap large = large
  OBVIOUS
<1> HIDE DEF C, F
<1>8. SumFunctionOnSet(F, 0..t) = Cardinality(UNION {C[n] : n \in 0..t})
  <2>1. IsFiniteSet(0..t)
    BY <1>1, FS_Interval
  <2> QED BY <1>1, <1>4, <2>1, SumOfPieces
<1>9. SumFunction(F) = Cardinality(S \ large)
  BY <1>5, <1>6, <1>8 DEF SumFunction
<1> HIDE DEF large
<1>10. Cardinality(S \ large) = Cardinality(S) - Cardinality(large)
  BY <1>3, <1>7, FS_Difference
<1>11. Cardinality(S) \in Nat /\ Cardinality(large) \in Nat
  <2>1. large \in SUBSET S
    BY DEF large
  <2>2. IsFiniteSet(large)
    BY <1>3, <2>1, FS_Subset
  <2> QED BY <1>3, <2>2, FS_CardinalityType
<1>12. Cardinality(S) = Cardinality(large) + SumFunction(F)
  BY <1>9, <1>10, <1>11
<1> QED BY <1>12 DEF power2_allocator_alloc_count, large, F

(***************************************************************************)
(* Without an allocator there is nothing to add up.                        *)
(***************************************************************************)
LEMMA BlankAddsUp ==
    ASSUME PInv, ~live PROVE UsageAddsUp
<1>1. total_size = 0 /\ free_lists = {} /\ inuse_list = NoBlocks /\ max_size = 0
  BY DEF PInv, Blank
<1>2. DOMAIN inuse_list = {} /\ BlocksOk(inuse_list, 0)
  BY <1>1 DEF NoBlocks, BlocksOk
<1>3. ASSUME NEW F, NEW S, IsFiniteSet(S), \A x \in S : F[x] = 0
      PROVE  SumFunctionOnSet(F, S) = 0
  <2> DEFINE h == [s \in SUBSET S |-> 0]
  <2>1. h[{}] = 0 /\ h[S] = 0 /\ \A s \in SUBSET S : \A x \in s : h[s] = F[x] + h[s \ {x}]
    BY <1>3
  <2> HIDE DEF h
  <2> QED BY <1>3, <2>1, SumIs
<1>4. power2_allocator_usage = 0
  BY <1>2, <1>3, FS_EmptySet DEF power2_allocator_usage, SumFunction
<1>5. SumFunction([f \in free_lists |-> f.size]) = 0
  <2> DEFINE F == [f \in free_lists |-> f.size]
  <2>1. DOMAIN F = {}
    BY <1>1
  <2> HIDE DEF F
  <2>2. SumFunction(F) = 0
    BY <2>1, <1>3, FS_EmptySet DEF SumFunction
  <2> QED BY <2>2 DEF F
<1>6. SumFunction([n \in 0..total_size |-> power2_allocator_alloc_count_by_size(n)]) = 0
  <2> DEFINE F == [n \in 0..total_size |-> power2_allocator_alloc_count_by_size(n)]
  <2>1. DOMAIN F = 0..total_size /\ IsFiniteSet(0..total_size)
    <3>1. total_size \in Int
      BY <1>1
    <3> QED BY <3>1, FS_Interval
  <2>2. ASSUME NEW n \in 0..total_size PROVE F[n] = 0
    <3>1. {i \in DOMAIN inuse_list : inuse_list[i] = n} = {}
      BY <1>2
    <3> QED BY <3>1, FS_EmptySet DEF power2_allocator_alloc_count_by_size
  <2> HIDE DEF F
  <2>3. SumFunction(F) = 0
    BY <2>1, <2>2, <1>3 DEF SumFunction
  <2> QED BY <2>3 DEF F
<1>7. Cardinality({i \in DOMAIN inuse_list : inuse_list[i] > max_size}) = 0
  <2>1. {i \in DOMAIN inuse_list : inuse_list[i] > max_size} = {}
    BY <1>2
  <2> QED BY <2>1, FS_EmptySet
<1>8. power2_allocator_alloc_count = 0
  BY <1>2, FS_EmptySet DEF power2_allocator_alloc_count
<1>9. ({power2_allocator_first_alloc}
         \cup {power2_allocator_next_alloc(i) : i \in DOMAIN inuse_list}) \ {-1}
        = DOMAIN inuse_list
  BY <1>2, WalkIs
<1>10. power2_allocator_usage + SumFunction([f \in free_lists |-> f.size]) = total_size
  BY <1>1, <1>4, <1>5
<1>11. power2_allocator_alloc_count =
          Cardinality({i \in DOMAIN inuse_list : inuse_list[i] > max_size})
          + SumFunction([n \in 0..total_size |-> power2_allocator_alloc_count_by_size(n)])
  BY <1>6, <1>7, <1>8
<1> QED BY <1>2, <1>9, <1>10, <1>11 DEF UsageAddsUp

(***************************************************************************)
(* The sums and the walk of a client.                                      *)
(***************************************************************************)
LEMMA InvUsage == PInv => UsageAddsUp
<1> SUFFICES ASSUME PInv, live PROVE UsageAddsUp
  BY BlankAddsUp
<1>1. BlocksOk(inuse_list, total_size)
  BY SoundIs
<1>2. power2_allocator_usage + SumFunction([f \in free_lists |-> f.size]) = total_size
  BY UsageIs, FreeSizesAre, IndexesAddUp
<1>3. power2_allocator_alloc_count =
         Cardinality({i \in DOMAIN inuse_list : inuse_list[i] > max_size})
         + SumFunction([n \in 0..total_size |-> power2_allocator_alloc_count_by_size(n)])
  BY CountsAre
<1>4. /\ ({power2_allocator_first_alloc}
            \cup {power2_allocator_next_alloc(i) : i \in DOMAIN inuse_list}) \ {-1}
           = DOMAIN inuse_list
      /\ \A i \in DOMAIN inuse_list : LET j == power2_allocator_next_alloc(i)
                                      IN  j # -1 => j >= i + inuse_list[i]
  BY <1>1, WalkIs
<1> QED BY <1>2, <1>3, <1>4 DEF UsageAddsUp

-----------------------------------------------------------------------------
(***************************************************************************)
(* Every field keeps a value of its C type, and every entry names a list   *)
(* that there is.                                                          *)
(***************************************************************************)
THEOREM TypeCorrect == Spec => []TypeOK
BY Invariance, InvTyped, PTL

(***************************************************************************)
(* No bf_sys_assert of the operations ever fails: what release and reserve *)
(* work out from the neighbouring blocks is what the lists hold.           *)
(***************************************************************************)
THEOREM AssertsNeverFail == Spec => []NoAssertFails
<1>1. PInv => NoAssertFails
  BY DEF PInv, NoAssertFails
<1> QED BY <1>1, Invariance, PTL

(***************************************************************************)
(* power2_allocator_assert would pass after every operation.               *)
(***************************************************************************)
THEOREM ListsAlwaysConsistent == Spec => []ListsConsistent
BY Invariance, InvConsistent, PTL

(***************************************************************************)
(* power2_allocator_alloc turns down only what cannot be had, and returns  *)
(* an aligned run of free indexes otherwise.                               *)
(***************************************************************************)
THEOREM AllocAlwaysExact == Spec => []AllocExact
BY Invariance, InvAlloc, PTL

(***************************************************************************)
(* On ranges of at most half of the indexes of uint32_t, a row of blocks   *)
(* is refused only when there is none, however long it is, the lowest one  *)
(* is taken, and the scan for it ends.                                     *)
(***************************************************************************)
THEOREM AllocMultipleAlwaysExact == Spec => []AllocMultipleExact
BY Invariance, InvAllocMultiple, PTL

(***************************************************************************)
(* power2_allocator_reserve accepts exactly the free ranges.               *)
(***************************************************************************)
THEOREM ReserveAlwaysExact == Spec => []ReserveExact
BY Invariance, InvReserve, PTL

(***************************************************************************)
(* When nothing is allocated the lists are those create made, whatever was *)
(* allocated and released before and in whatever order.                    *)
(***************************************************************************)
THEOREM ReleasedAlwaysWhole == Spec => []ReleasedIsWhole
BY Invariance, InvWhole, PTL

(***************************************************************************)
(* The sizes in use and the sizes in the free lists add up to total_size,  *)
(* the walk by first_alloc and next_alloc comes by every block, and the    *)
(* counts by size add up to the number of blocks of up to max_size.        *)
(***************************************************************************)
THEOREM UsageAlwaysAddsUp == Spec => []UsageAddsUp
BY Invariance, InvUsage, PTL

(***************************************************************************)
(* The power-of-two allocator implements the abstract allocator.           *)
(***************************************************************************)
THEOREM Refinement == Spec => ImplementsBlockAllocator
<1>1. Init => Blocks!AInit
  BY DEF Init, Blocks!AInit, Blocks!NoBlocks, NoBlocks
<1>2. PInv /\ PInv' /\ [Next]_vars => [Blocks!ANext]_<<live, total_size, inuse_list>>
  BY StepSimulates
<1>3. [Blocks!ANext]_<<live, total_size, inuse_list>> => [Blocks!ANext]_(Blocks!avars)
  BY DEF Blocks!avars
<1> QED
  BY <1>1, <1>2, <1>3, Invariance, PTL DEF Spec, ImplementsBlockAllocator, Blocks!ASpec

(***************************************************************************)
(* What the abstract allocator promises holds of the implementation: no    *)
(* index is ever in two blocks that alloc, reserve and alloc_multiple have *)
(* handed out, and none of them reaches beyond total_size.                 *)
(***************************************************************************)
THEOREM BlocksExclusive == Spec => []Blocks!Exclusive
<1>1. PInv => Blocks!Exclusive
  <2> SUFFICES ASSUME PInv PROVE Blocks!Exclusive
    OBVIOUS
  <2>1. CASE ~live
    <3>1. DOMAIN inuse_list = {}
      BY <2>1 DEF PInv, Blank, NoBlocks
    <3> QED BY <3>1 DEF Blocks!Exclusive
  <2>2. CASE live
    <3>1. power2_allocator_assert
      BY <2>2, InvConsistent DEF ListsConsistent
    <3>2. \A i \in DOMAIN inuse_list : Span(i, inuse_list[i]) \subseteq 0..(total_size - 1)
      BY <3>1 DEF power2_allocator_assert, InUse
    <3> QED BY <3>1, <3>2 DEF power2_allocator_assert, Blocks!Exclusive, Blocks!Span, Span
  <2> QED BY <2>1, <2>2 DEF PInv
<1> QED BY <1>1, Invariance, PTL

=============================================================================
