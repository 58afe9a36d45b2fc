---------------------------- MODULE BitsetProofs ----------------------------
(***************************************************************************)
(* Proofs that the words of a bitset hold the bits the calls have written, *)
(* and that the searches and counts over the words are exact, for every    *)
(* size of a word, every width and any number of bitsets.                  *)
(***************************************************************************)
EXTENDS Bitset, FiniteSetTheorems, WellFoundedInduction, TLAPS

-----------------------------------------------------------------------------
(***************************************************************************)
(* Numbers                                                                 *)
(***************************************************************************)

(***************************************************************************)
(* A set of natural numbers that is not empty has a least element.  The    *)
(* inductions of the proofs are appeals to this fact, applied to the set   *)
(* of counterexamples.                                                     *)
(***************************************************************************)
LEMMA LeastNat ==
    ASSUME NEW S \in SUBSET Nat, S # {}
    PROVE  \E x \in S : \A y \in S : x <= y
<1> DEFINE R == OpToRel(<, Nat)
<1>1. \A x, y \in Nat : x < y => <<x, y>> \in R
  BY DEF OpToRel
<1>2. IsWellFoundedOn(R, Nat)
  BY NatLessThanWellFounded
<1> HIDE DEF R
<1>3. PICK x \in S : \A y \in S : ~ (<<y, x>> \in R)
  BY <1>2, WFMin
<1>4. ASSUME NEW y \in S PROVE x <= y
  <2>1. x \in Nat /\ y \in Nat
    OBVIOUS
  <2>2. ~ (y < x)
    BY <1>1, <1>3, <2>1
  <2> QED BY <2>1, <2>2
<1> QED BY <1>4

(***************************************************************************)
(* Min finds it.  The searches of the model are written with Min.          *)
(***************************************************************************)
LEMMA MinOfNats ==
    ASSUME NEW S \in SUBSET Nat, S # {}
    PROVE  Min(S) \in S /\ \A y \in S : Min(S) <= y
BY LeastNat DEF Min

(***************************************************************************)
(* Max finds the greatest element of a set of natural numbers that has an  *)
(* upper bound.                                                            *)
(***************************************************************************)
LEMMA MaxOfNats ==
    ASSUME NEW S \in SUBSET Nat, S # {}, NEW b \in Nat, \A y \in S : y <= b
    PROVE  Max(S) \in S /\ \A y \in S : y <= Max(S)
<1> DEFINE D == {b - y : y \in S}
<1>1. D \in SUBSET Nat /\ D # {}
  <2>1. \A y \in S : b - y \in Nat /\ b - y \in D
    OBVIOUS
  <2>2. PICK y \in S : TRUE
    OBVIOUS
  <2> QED BY <2>1, <2>2
<1>2. PICK d \in D : \A x \in D : d <= x
  BY <1>1, LeastNat
<1>3. PICK m \in S : d = b - m
  OBVIOUS
<1>4. ASSUME NEW y \in S PROVE m >= y
  <2>1. d <= b - y
    BY <1>2
  <2> QED BY <1>3, <2>1
<1>5. Max(S) \in S /\ \A y \in S : Max(S) >= y
  BY <1>4 DEF Max
<1> QED BY <1>5

(***************************************************************************)
(* A member of a set that bounds it from below is what Min finds.          *)
(***************************************************************************)
LEMMA MinIs ==
    ASSUME NEW S \in SUBSET Nat, NEW m \in S, \A y \in S : m <= y
    PROVE  Min(S) = m
<1>1. S # {} /\ m \in Nat
  OBVIOUS
<1>2. Min(S) \in S /\ Min(S) \in Nat /\ \A y \in S : Min(S) <= y
  BY <1>1, MinOfNats
<1>3. Min(S) <= m /\ m <= Min(S)
  BY <1>2
<1> QED BY <1>1, <1>2, <1>3

(***************************************************************************)
(* A function of finite sets that grows by F[x] with every element x is    *)
(* the sum of F over the set, whatever the order in which the elements     *)
(* are added up.  This is how sums are compared with cardinalities.        *)
(***************************************************************************)
LEMMA SumIs ==
    ASSUME NEW S, IsFiniteSet(S), NEW F, NEW h,
           h[{}] = 0,
           \A s \in SUBSET S : \A x \in s : h[s] = F[x] + h[s \ {x}]
    PROVE  SumFunctionOnSet(F, S) = h[S]
<1> DEFINE Body(g) == [s \in SUBSET S |->
                          IF s = {} THEN 0
                          ELSE LET x == CHOOSE x \in s : TRUE
                               IN  F[x] + g[s \ {x}]]
           g == CHOOSE g : g = Body(g)
           hs == [s \in SUBSET S |-> h[s]]
<1>1. SumFunctionOnSet(F, S) = g[S]
  BY DEF SumFunctionOnSet, FoldFunctionOnSet, MapThenFoldSet
<1>2. hs = Body(hs)
  <2>1. ASSUME NEW s \in SUBSET S, s # {}
        PROVE  h[s] = LET x == CHOOSE x \in s : TRUE IN F[x] + hs[s \ {x}]
    <3> DEFINE x == CHOOSE x \in s : TRUE
    <3>1. x \in s
      BY <2>1
    <3>2. hs[s \ {x}] = h[s \ {x}]
      OBVIOUS
    <3>3. h[s] = F[x] + h[s \ {x}]
      BY <3>1
    <3> QED BY <3>2, <3>3
  <2> QED BY <2>1
<1>3. g = Body(g)
  <2> HIDE DEF Body, hs
  <2> QED BY <1>2
<1>4. ASSUME NEW s \in SUBSET S 
      PROVE  g[s] = IF s = {} THEN 0
                    ELSE LET x == CHOOSE x \in s : TRUE IN F[x] + g[s \ {x}]
  <2> HIDE DEF g
  <2> QED BY <1>3
<1> HIDE DEF g
<1> DEFINE Bad == {n \in Nat : \E s \in SUBSET S : Cardinality(s) = n /\ g[s] # h[s]}
<1>5. Bad = {}
  <2> SUFFICES ASSUME Bad # {} PROVE FALSE
    OBVIOUS
  <2>1. PICK n \in Bad : \A m \in Bad : n <= m
    <3>1. Bad \in SUBSET Nat
      OBVIOUS
    <3> HIDE DEF Bad
    <3> QED BY <3>1, LeastNat
  <2>2. PICK s \in SUBSET S : Cardinality(s) = n /\ g[s] # h[s]
    OBVIOUS
  <2>3. IsFiniteSet(s)
    BY FS_Subset
  <2>4. CASE s = {}
    BY <1>4, <2>2, <2>4
  <2>5. CASE s # {}
    <3> DEFINE x == CHOOSE x \in s : TRUE
    <3>1. x \in s
      BY <2>5
    <3>2. g[s] = F[x] + g[s \ {x}]
      BY <1>4, <2>5
    <3> HIDE DEF x
    <3>3. h[s] = F[x] + h[s \ {x}]
      BY <3>1
    <3>4. Cardinality(s \ {x}) = n - 1 /\ Cardinality(s \ {x}) \in Nat
      BY <2>2, <2>3, <3>1, FS_RemoveElement, FS_CardinalityType
    <3>5. n - 1 \notin Bad
      BY <2>1
    <3>6. g[s \ {x}] = h[s \ {x}]
      BY <3>4, <3>5
    <3> QED BY <2>2, <3>2, <3>3, <3>6
  <2> QED BY <2>4, <2>5
<1>6. Cardinality(S) \in Nat
  BY FS_CardinalityType
<1> QED BY <1>1, <1>5, <1>6

(***************************************************************************)
(* A finite set of natural numbers has an upper bound.                     *)
(***************************************************************************)
LEMMA FiniteNatsBounded ==
    ASSUME NEW S \in SUBSET Nat, IsFiniteSet(S)
    PROVE  \E b \in Nat : \A y \in S : y <= b
<1> DEFINE Bounded(s) == \E b \in Nat : \A y \in s : y <= b
           Bad == {n \in Nat : \E s \in SUBSET S : Cardinality(s) = n /\ ~Bounded(s)}
<1>1. Bad = {}
  <2> SUFFICES ASSUME Bad # {} PROVE FALSE
    OBVIOUS
  <2>1. PICK n \in Bad : \A m \in Bad : n <= m
    <3>1. Bad \in SUBSET Nat
      OBVIOUS
    <3> HIDE DEF Bad
    <3> QED BY <3>1, LeastNat
  <2>2. PICK s \in SUBSET S : Cardinality(s) = n /\ ~Bounded(s)
    OBVIOUS
  <2>3. IsFiniteSet(s)
    BY FS_Subset
  <2>4. PICK x \in s : TRUE
    BY <2>2
  <2>5. Cardinality(s \ {x}) = n - 1 /\ Cardinality(s \ {x}) \in Nat
    BY <2>2, <2>3, <2>4, FS_RemoveElement, FS_CardinalityType
  <2>6. n - 1 \notin Bad
    <3>1. n \in Nat /\ ~ (n <= n - 1)
      OBVIOUS
    <3> HIDE DEF Bad
    <3> QED BY <2>1, <3>1
  <2>7. Bounded(s \ {x})
    BY <2>5, <2>6
  <2>8. PICK b \in Nat : \A y \in s \ {x} : y <= b
    BY <2>7
  <2>9. \A y \in s : y <= b + x
    BY <2>8, <2>4
  <2> QED BY <2>2, <2>4, <2>9
<1>2. Cardinality(S) \in Nat
  BY FS_CardinalityType
<1> QED BY <1>1, <1>2

-----------------------------------------------------------------------------
(***************************************************************************)
(* Positions and words                                                     *)
(***************************************************************************)

(***************************************************************************)
(* Every position has one place: a word and a bit of it.                   *)
(***************************************************************************)
LEMMA Place ==
    ASSUME NEW i \in Nat
    PROVE  /\ i \div W \in Nat /\ i % W \in Nat /\ i % W < W /\ i % W \in Ones
           /\ i = W * (i \div W) + (i % W)
BY WidthAssumption DEF Ones

(***************************************************************************)
(* And every word and bit is the place of one position.                    *)
(***************************************************************************)
LEMMA PlaceIs ==
    ASSUME NEW q \in Nat, NEW r \in Ones
    PROVE  /\ W * q \in Nat /\ W * q + r \in Nat
           /\ (W * q + r) \div W = q /\ (W * q + r) % W = r
<1> DEFINE i == W * q + r
           p == i \div W
           s == i % W
<1>1. W \in Nat /\ W > 0 /\ r \in Nat /\ r < W /\ W * q \in Nat /\ i \in Nat
  BY WidthAssumption DEF Ones
<1>2. p \in Nat /\ s \in Nat /\ s < W /\ i = W * p + s
  BY <1>1, Place
<1> HIDE DEF p, s
<1>3. ~ (p < q)
  <2> SUFFICES ASSUME p < q PROVE FALSE
    OBVIOUS
  <2>1. PICK d \in Nat : q = p + 1 + d
    <3>1. q - p - 1 \in Nat /\ q = p + 1 + (q - p - 1)
      BY <1>2
    <3> QED BY <3>1
  <2>2. W * q = W * p + W + W * d /\ W * d \in Nat /\ W * p \in Nat
    BY <1>1, <1>2, <2>1
  <2> QED BY <1>1, <1>2, <2>2
<1>4. ~ (q < p)
  <2> SUFFICES ASSUME q < p PROVE FALSE
    OBVIOUS
  <2>1. PICK d \in Nat : p = q + 1 + d
    <3>1. p - q - 1 \in Nat /\ p = q + 1 + (p - q - 1)
      BY <1>2
    <3> QED BY <3>1
  <2>2. W * p = W * q + W + W * d /\ W * d \in Nat /\ W * q \in Nat
    BY <1>1, <1>2, <2>1
  <2> QED BY <1>1, <1>2, <2>2
<1>5. p = q
  BY <1>2, <1>3, <1>4
<1>6. s = r
  BY <1>1, <1>2, <1>5
<1> QED BY <1>1, <1>5, <1>6 DEF p, s

(***************************************************************************)
(* The place of a position some bits further, within a word's length.      *)
(***************************************************************************)
LEMMA PlaceAfter ==
    ASSUME NEW i \in Nat, NEW k \in 0..W
    PROVE  LET m == i % W IN
           /\ m + k < W => (i + k) \div W = i \div W /\ (i + k) % W = m + k
           /\ m + k >= W => /\ (i + k) \div W = i \div W + 1
                            /\ (i + k) % W = m + k - W
<1> DEFINE m == i % W
           q == i \div W
<1>1. W \in Nat /\ W > 0
  BY WidthAssumption
<1>2. q \in Nat /\ m \in Nat /\ m < W /\ i = W * q + m /\ W * q \in Nat
  BY <1>1, Place
<1> HIDE DEF m, q
<1>3. ASSUME m + k < W
      PROVE  (i + k) \div W = q /\ (i + k) % W = m + k
  <2>1. m + k \in Ones
    BY <1>1, <1>2, <1>3 DEF Ones
  <2>2. i + k = W * q + (m + k)
    BY <1>1, <1>2
  <2> QED BY <1>2, <2>1, <2>2, PlaceIs
<1>4. ASSUME m + k >= W
      PROVE  (i + k) \div W = q + 1 /\ (i + k) % W = m + k - W
  <2>1. m + k - W \in Ones
    BY <1>1, <1>2, <1>4 DEF Ones
  <2>2. W * (q + 1) = W * q + W
    BY <1>1, <1>2
  <2>3. i + k = W * (q + 1) + (m + k - W)
    BY <1>1, <1>2, <2>2
  <2>4. q + 1 \in Nat
    BY <1>2
  <2> QED BY <2>1, <2>3, <2>4, PlaceIs
<1> QED BY <1>3, <1>4 DEF m, q

(***************************************************************************)
(* Order of places.                                                        *)
(***************************************************************************)
LEMMA PlaceOrder ==
    ASSUME NEW i \in Nat, NEW j \in Nat
    PROVE  /\ i <= j => i \div W <= j \div W
           /\ i \div W < j \div W => i < j
           /\ i \div W = j \div W => (i <= j <=> i % W <= j % W)
<1> DEFINE p == i \div W
           q == j \div W
           r == i % W
           s == j % W
<1>1. W \in Nat /\ W > 0
  BY WidthAssumption
<1>2. p \in Nat /\ r \in Nat /\ r < W /\ i = W * p + r /\ W * p \in Nat
  BY <1>1, Place
<1>3. q \in Nat /\ s \in Nat /\ s < W /\ j = W * q + s /\ W * q \in Nat
  BY <1>1, Place
<1> HIDE DEF p, q, r, s
<1>4. ASSUME NEW x \in Nat, NEW y \in Nat, x < y
      PROVE  W * x + W <= W * y
  <2>1. PICK d \in Nat : y = x + 1 + d
    <3>1. y - x - 1 \in Nat /\ y = x + 1 + (y - x - 1)
      BY <1>4
    <3> QED BY <3>1
  <2>2. W * y = W * x + W + W * d /\ W * d \in Nat /\ W * x \in Nat
    BY <1>1, <2>1
  <2> QED BY <1>1, <2>2
<1>5. p < q => i < j
  <2>1. p < q => W * p + W <= W * q
    BY <1>2, <1>3, <1>4
  <2> QED BY <1>1, <1>2, <1>3, <2>1
<1>6. q < p => j < i
  <2>1. q < p => W * q + W <= W * p
    BY <1>2, <1>3, <1>4
  <2> QED BY <1>1, <1>2, <1>3, <2>1
<1>7. p = q => (i <= j <=> r <= s)
  BY <1>1, <1>2, <1>3
<1>8. i <= j => p <= q
  BY <1>2, <1>3, <1>6
<1> QED BY <1>5, <1>7, <1>8 DEF p, q, r, s

(***************************************************************************)
(* The array has just the words that the width needs.                      *)
(***************************************************************************)
LEMMA ArraySize ==
    ASSUME NEW w \in Nat \ {0}
    PROVE  LET n == BF_BITSET_ARRAY_SIZE(w) IN
           /\ n \in Nat /\ n >= 1 /\ W * n \in Nat /\ w <= W * n
           /\ W * (n - 1) \in Nat /\ W * (n - 1) < w /\ W * n = W * (n - 1) + W
<1> DEFINE n == (w + W - 1) \div W
           r == (w + W - 1) % W
<1>1. W \in Nat /\ W > 0 /\ w + W - 1 \in Nat /\ w >= 1
  BY WidthAssumption
<1>2. n \in Nat /\ r \in Nat /\ r < W /\ w + W - 1 = W * n + r /\ W * n \in Nat
  BY <1>1, Place
<1> HIDE DEF n, r
<1>3. n # 0
  <2> SUFFICES ASSUME n = 0 PROVE FALSE
    OBVIOUS
  <2>1. W * n = 0
    BY <1>1
  <2> QED BY <1>1, <1>2, <2>1
<1>4. n >= 1 /\ n - 1 \in Nat
  BY <1>2, <1>3
<1>5. W * n = W * (n - 1) + W /\ W * (n - 1) \in Nat
  <2>1. PICK m \in Nat : n = m + 1
    <3>1. n = (n - 1) + 1
      BY <1>2
    <3> QED BY <1>4, <3>1
  <2>2. n - 1 = m
    BY <2>1
  <2>3. W * (m + 1) = W * m + W /\ W * m \in Nat
    BY <1>1
  <2> QED BY <2>1, <2>2, <2>3
<1>6. w <= W * n
  BY <1>1, <1>2
<1>7. W * (n - 1) < w
  BY <1>1, <1>2, <1>5
<1> QED BY <1>2, <1>4, <1>5, <1>6, <1>7 DEF n, BF_BITSET_ARRAY_SIZE

(***************************************************************************)
(* A position lies in the array just if it lies before its end.            *)
(***************************************************************************)
LEMMA InArray ==
    ASSUME NEW w \in Nat \ {0}, NEW i \in Nat
    PROVE  LET n == BF_BITSET_ARRAY_SIZE(w) IN
           /\ i < w => i \div W <= n - 1
           /\ i \div W < n - 1 => i < w
           /\ i \div W <= n - 1 <=> i < W * n
<1> DEFINE n == BF_BITSET_ARRAY_SIZE(w)
           q == i \div W
           r == i % W
<1>1. W \in Nat /\ W > 0
  BY WidthAssumption
<1>2. /\ n \in Nat /\ n >= 1 /\ W * n \in Nat /\ w <= W * n
      /\ W * (n - 1) \in Nat /\ W * (n - 1) < w /\ W * n = W * (n - 1) + W
  BY ArraySize
<1>3. q \in Nat /\ r \in Nat /\ r < W /\ i = W * q + r /\ W * q \in Nat
  BY <1>1, Place
<1> HIDE DEF n, q, r
<1>4. ASSUME NEW x \in Nat, NEW y \in Nat, x < y
      PROVE  W * x + W <= W * y
  <2>1. PICK d \in Nat : y = x + 1 + d
    <3>1. y - x - 1 \in Nat /\ y = x + 1 + (y - x - 1)
      BY <1>4
    <3> QED BY <3>1
  <2>2. W * y = W * x + W + W * d /\ W * d \in Nat /\ W * x \in Nat
    BY <1>1, <2>1
  <2> QED BY <1>1, <2>2
<1>5. q < n => i < W * n
  <2>1. q < n => W * q + W <= W * n
    BY <1>2, <1>3, <1>4
  <2> QED BY <1>1, <1>2, <1>3, <2>1
<1>6. q >= n => i >= W * n
  <2>1. n < q => W * n + W <= W * q
    BY <1>2, <1>3, <1>4
  <2>2. n = q => W * n = W * q
    OBVIOUS
  <2> QED BY <1>1, <1>2, <1>3, <2>1, <2>2
<1>7. q < n - 1 => i < w
  <2>1. n - 1 \in Nat
    BY <1>2
  <2>2. q < n - 1 => W * q + W <= W * (n - 1)
    BY <1>3, <1>4, <2>1
  <2> QED BY <1>1, <1>2, <1>3, <2>2
<1>8. q <= n - 1 <=> q < n
  BY <1>2, <1>3
<1> QED BY <1>2, <1>3, <1>5, <1>6, <1>7, <1>8 DEF n, q

(***************************************************************************)
(* The memory has room for the words of every width, and one more.         *)
(***************************************************************************)
LEMMA WordsThere ==
    /\ Max(Widths) \in Widths /\ Max(Widths) \in Nat
    /\ \A w \in Widths : w \in Nat \ {0} /\ w <= Max(Widths)
    /\ \A w \in Widths : \A i \in 0..BF_BITSET_ARRAY_SIZE(w) : i \in WordIndexes
    /\ \A i \in WordIndexes : i \in Nat
<1>1. Widths \in SUBSET Nat /\ Widths # {} /\ IsFiniteSet(Widths)
  BY WidthAssumption
<1>2. PICK b \in Nat : \A y \in Widths : y <= b
  BY <1>1, FiniteNatsBounded
<1>3. Max(Widths) \in Widths /\ \A w \in Widths : w <= Max(Widths)
  BY <1>1, <1>2, MaxOfNats
<1>4. \A w \in Widths : w \in Nat \ {0}
  BY WidthAssumption
<1>5. ASSUME NEW w \in Widths, NEW i \in 0..BF_BITSET_ARRAY_SIZE(w)
      PROVE  i \in WordIndexes
  <2> DEFINE m == Max(Widths)
             k == BF_BITSET_ARRAY_SIZE(w)
             n == BF_BITSET_ARRAY_SIZE(m)
  <2>1. m \in Nat \ {0} /\ w \in Nat \ {0} /\ w <= m
    BY <1>3, <1>4
  <2>2. k \in Nat /\ n \in Nat
    BY <2>1, ArraySize
  <2>3. k <= n
    <3>1. W \in Nat \ {0} /\ w + W - 1 \in Nat /\ m + W - 1 \in Nat
          /\ w + W - 1 <= m + W - 1
      BY <2>1, WidthAssumption
    <3> QED BY <3>1, PlaceOrder DEF BF_BITSET_ARRAY_SIZE
  <2> HIDE DEF k, n
  <2>4. i \in 0..n
    BY <2>2, <2>3 DEF k
  <2> QED BY <2>4 DEF n, WordIndexes
<1>6. \A i \in WordIndexes : i \in Nat
  <2>1. BF_BITSET_ARRAY_SIZE(Max(Widths)) \in Nat
    BY <1>3, <1>4, ArraySize
  <2> QED BY <2>1 DEF WordIndexes
<1> QED BY <1>3, <1>4, <1>5, <1>6

Words == [WordIndexes -> SUBSET Ones]

\* The position of bit r of word q.
At(q, r) == W * q + r

\* The bit at position i.
Bit(words, i) == i % W \in words[i \div W]

(***************************************************************************)
(* bf_bs_get_word returns the bits from bit_offset on, up to n_bits of     *)
(* them and none past the width, from one word or from two.                *)
(***************************************************************************)
LEMMA GetWordIs ==
    ASSUME NEW words \in Words, NEW w \in Widths, NEW bit_offset \in Nat,
           bit_offset < w, NEW n_bits \in 1..W
    PROVE  GetWord(words, w, bit_offset, n_bits) =
              {k \in LowBits(n_bits) : bit_offset + k < w /\ Bit(words, bit_offset + k)}
<1> DEFINE len   == LesserOf(w - bit_offset, n_bits)
           mod   == bit_offset % W
           at    == bit_offset \div W
           spill == mod + len - W
           first == ShiftRight(words[at], mod)
           second == ShiftLeft(words[at + 1], len - spill)
<1>1. W \in Nat /\ W > 0 /\ w \in Nat
  BY WidthAssumption
<1>2. at \in Nat /\ mod \in Nat /\ mod < W
  BY Place
<1>3. /\ len \in Nat /\ len > 0 /\ len <= W /\ spill \in Int
      /\ \A k \in Nat : k < len <=> k < n_bits /\ bit_offset + k < w
  BY <1>1, <1>2 DEF LesserOf
<1>4. at \in WordIndexes
  <2>1. w \in Nat \ {0} /\ BF_BITSET_ARRAY_SIZE(w) \in Nat
    BY WordsThere, ArraySize
  <2>2. at <= BF_BITSET_ARRAY_SIZE(w) - 1
    BY <2>1, InArray
  <2>3. at \in 0..BF_BITSET_ARRAY_SIZE(w)
    BY <1>2, <2>1, <2>2
  <2> QED BY <2>3, WordsThere
<1>5. spill > 0 => at + 1 \in WordIndexes
  <2>1. w \in Nat \ {0} /\ BF_BITSET_ARRAY_SIZE(w) \in Nat
    BY WordsThere, ArraySize
  <2>2. at <= BF_BITSET_ARRAY_SIZE(w) - 1
    BY <2>1, InArray
  <2>3. at + 1 \in 0..BF_BITSET_ARRAY_SIZE(w)
    BY <1>2, <2>1, <2>2
  <2> QED BY <2>3, WordsThere
<1>6. words[at] \subseteq Ones /\ (spill > 0 => words[at + 1] \subseteq Ones)
  BY <1>4, <1>5 DEF Words
<1>7. ASSUME NEW k \in Nat, k < len
      PROVE  k \in (IF mod # 0 /\ spill > 0 THEN first \cup second ELSE first)
                <=> Bit(words, bit_offset + k)
  <2>1. k \in 0..W /\ bit_offset + k \in Nat
    BY <1>1, <1>3, <1>7
  <2>2. k \in first <=> mod + k \in words[at]
    <3>1. k \in first <=> \E j \in words[at] : j >= mod /\ k = j - mod
      BY DEF ShiftRight
    <3>2. \A j \in words[at] : j \in Int
      BY <1>6 DEF Ones
    <3> HIDE DEF mod, at
    <3> QED BY <1>2, <1>7, <3>1, <3>2
  <2>3. CASE mod + k < W
    <3>1. (bit_offset + k) \div W = at /\ (bit_offset + k) % W = mod + k
      BY <2>1, <2>3, PlaceAfter
    <3>2. mod # 0 /\ spill > 0 => k \notin second
      <4>1. ASSUME spill > 0, k \in second PROVE k >= len - spill
        <5>1. PICK j \in words[at + 1] : k = j + (len - spill)
          BY <4>1 DEF ShiftLeft
        <5>2. j \in Nat
          BY <1>6, <4>1 DEF Ones
        <5> HIDE DEF spill, len, mod, at
        <5> QED BY <1>3, <5>1, <5>2
      <4> QED BY <1>1, <1>2, <1>3, <2>3, <4>1
    <3> QED BY <2>2, <3>1, <3>2 DEF Bit
  <2>4. CASE mod + k >= W
    <3>1. (bit_offset + k) \div W = at + 1 /\ (bit_offset + k) % W = mod + k - W
      BY <2>1, <2>4, PlaceAfter
    <3>2. mod # 0 /\ spill > 0 /\ len - spill = W - mod
      BY <1>1, <1>2, <1>3, <1>7, <2>4
    <3>3. mod + k \notin words[at]
      BY <1>1, <1>2, <1>6, <2>4 DEF Ones
    <3>4. k \in second <=> mod + k - W \in words[at + 1]
      <4>1. k \in second <=> \E j \in words[at + 1] : j + (W - mod) < W /\ k = j + (W - mod)
        BY <3>2 DEF ShiftLeft
      <4>2. \A j \in words[at + 1] : j \in Int
        BY <1>6, <3>2 DEF Ones
      <4>3. k < W
        BY <1>1, <1>3, <1>7
      <4> HIDE DEF mod, at
      <4> QED BY <1>1, <1>2, <4>1, <4>2, <4>3
    <3> QED BY <2>2, <3>1, <3>2, <3>3, <3>4 DEF Bit
  <2> QED BY <1>1, <1>2, <2>3, <2>4
<1>8. GetWord(words, w, bit_offset, n_bits) =
        (IF mod # 0 /\ spill > 0 THEN first \cup second ELSE first) \cap LowBits(len)
  BY DEF GetWord
<1>9. \A k : k \in LowBits(len) <=> k \in LowBits(n_bits) /\ bit_offset + k < w
  BY <1>3 DEF LowBits
<1>10. \A k \in LowBits(len) : k \in Nat /\ k < len
  BY <1>3 DEF LowBits
<1> HIDE DEF len, mod, spill, first, second
<1> QED BY <1>7, <1>8, <1>9, <1>10

(***************************************************************************)
(* bf_bs_set_word changes the bits from position on, up to size of them    *)
(* and none past the width, and no others.                                 *)
(***************************************************************************)
LEMMA SetWordIs ==
    ASSUME NEW words \in Words, NEW w \in Widths, NEW position \in Nat,
           position < w, NEW size \in 1..W, NEW val
    PROVE  LET new == SetWord(words, w, position, size, val) IN
           /\ new \in Words
           /\ \A i \in Nat : i \div W \in WordIndexes =>
                 (Bit(new, i) <=>
                    IF i >= position /\ i < position + size /\ i < w
                    THEN i - position \in val ELSE Bit(words, i))
<1> DEFINE len   == LesserOf(w - position, size)
           mod   == position % W
           at    == position \div W
           spill == mod + len - W
           v     == val \cap LowBits(len)
           old   == ShiftLeft(LowBits(len), mod)
           low   == ShiftLeft(v, mod)
           high  == ShiftRight(v, len - spill)
           first == [words EXCEPT ![at] = (@ \ old) \cup low]
           both  == [first EXCEPT ![at + 1] = (@ \ LowBits(spill)) \cup high]
           new   == IF spill > 0 THEN both ELSE first
<1>1. W \in Nat /\ W > 0 /\ w \in Nat
  BY WidthAssumption
<1>2. at \in Nat /\ mod \in Nat /\ mod < W
  BY Place
<1>3. /\ len \in Nat /\ len > 0 /\ len <= W /\ spill \in Int /\ spill < W
      /\ \A k \in Nat : k < len <=> k < size /\ position + k < w
  BY <1>1, <1>2 DEF LesserOf
<1>4. at \in WordIndexes /\ at + 1 \in WordIndexes
  <2>1. w \in Nat \ {0} /\ BF_BITSET_ARRAY_SIZE(w) \in Nat
    BY WordsThere, ArraySize
  <2>2. at <= BF_BITSET_ARRAY_SIZE(w) - 1
    BY <2>1, InArray
  <2>3. at \in 0..BF_BITSET_ARRAY_SIZE(w) /\ at + 1 \in 0..BF_BITSET_ARRAY_SIZE(w)
    BY <1>2, <2>1, <2>2
  <2> QED BY <2>3, WordsThere
<1>5. SetWord(words, w, position, size, val) = new
  BY DEF SetWord
<1>6. words \in [WordIndexes -> SUBSET Ones]
  BY DEF Words
\* What the two words are.
<1>7. \A k \in Nat : k < len => (k \in v <=> k \in val)
  BY <1>3 DEF LowBits
<1>8. \A k \in v : k \in Nat /\ k < len
  BY <1>3 DEF LowBits
<1>9. \A j \in Nat : j < W => (j \in old <=> j >= mod /\ j - mod < len)
  <2> SUFFICES ASSUME NEW j \in Nat, j < W
               PROVE  j \in old <=> j >= mod /\ j - mod < len
    OBVIOUS
  <2>1. j \in old <=> \E k \in LowBits(len) : k + mod < W /\ j = k + mod
    BY DEF ShiftLeft
  <2>2. \A k : k \in LowBits(len) <=> k \in Nat /\ k < len
    BY <1>3 DEF LowBits
  <2> HIDE DEF mod, len
  <2>3. j \in old => j >= mod /\ j - mod < len
    BY <1>2, <1>3, <2>1, <2>2
  <2>4. ASSUME j >= mod, j - mod < len PROVE j \in old
    <3>1. j - mod \in LowBits(len) /\ (j - mod) + mod < W /\ j = (j - mod) + mod
      BY <1>2, <1>3, <2>2, <2>4
    <3> QED BY <2>1, <3>1
  <2> QED BY <2>3, <2>4
<1>10. \A j \in Nat : j < W => (j \in low <=> j >= mod /\ j - mod \in v)
  <2> SUFFICES ASSUME NEW j \in Nat, j < W
               PROVE  j \in low <=> j >= mod /\ j - mod \in v
    OBVIOUS
  <2>1. j \in low <=> \E k \in v : k + mod < W /\ j = k + mod
    BY DEF ShiftLeft
  <2> HIDE DEF mod, len, v
  <2>2. j \in low => j >= mod /\ j - mod \in v
    <3> SUFFICES ASSUME j \in low PROVE j >= mod /\ j - mod \in v
      OBVIOUS
    <3>1. PICK k \in v : k + mod < W /\ j = k + mod
      BY <2>1
    <3>2. k \in Nat
      BY <1>8
    <3>3. j >= mod /\ j - mod = k
      BY <1>2, <3>1, <3>2
    <3> QED BY <3>3
  <2>3. ASSUME j >= mod, j - mod \in v PROVE j \in low
    <3>1. (j - mod) + mod < W /\ j = (j - mod) + mod
      BY <1>2, <1>3, <2>3
    <3> QED BY <2>1, <2>3, <3>1
  <2> QED BY <2>2, <2>3
<1>11. low \subseteq Ones
  <2> SUFFICES ASSUME NEW j \in low PROVE j \in Ones
    OBVIOUS
  <2>1. PICK k \in v : k + mod < W /\ j = k + mod
    BY DEF ShiftLeft
  <2>2. k \in Nat
    BY <1>8
  <2> HIDE DEF mod, len, v
  <2> QED BY <1>1, <1>2, <2>1, <2>2 DEF Ones
<1>12. ASSUME spill > 0
       PROVE  /\ high \subseteq Ones
              /\ \A j \in Nat : j \in high <=> j + (W - mod) \in v
  <2>1. len - spill = W - mod
    BY <1>1, <1>2, <1>3
  <2>2. \A j : j \in high <=> \E k \in v : k >= W - mod /\ j = k - (W - mod)
    BY <2>1 DEF ShiftRight
  <2> HIDE DEF mod, len, v, spill
  <2>3. ASSUME NEW j \in high PROVE j \in Nat /\ j < W /\ j + (W - mod) \in v
    <3>1. PICK k \in v : k >= W - mod /\ j = k - (W - mod)
      BY <2>2
    <3>2. k \in Nat /\ k < len
      BY <1>8
    <3>3. j \in Nat /\ j < W /\ j + (W - mod) = k
      BY <1>1, <1>2, <1>3, <3>1, <3>2
    <3> QED BY <3>3
  <2>4. ASSUME NEW j \in Nat, j + (W - mod) \in v PROVE j \in high
    <3>1. j + (W - mod) >= W - mod /\ j = (j + (W - mod)) - (W - mod)
      BY <1>1, <1>2
    <3> QED BY <2>2, <2>4, <3>1
  <2>5. high \subseteq Ones
    BY <1>1, <2>3 DEF Ones
  <2> QED BY <2>3, <2>4, <2>5
<1> HIDE DEF old, low, high
<1>13. first \in [WordIndexes -> SUBSET Ones]
  <2>1. (words[at] \ old) \cup low \in SUBSET Ones
    BY <1>4, <1>6, <1>11
  <2> QED BY <1>4, <1>6, <2>1
<1>14. spill > 0 => both \in [WordIndexes -> SUBSET Ones]
  <2> HIDE DEF first
  <2>1. spill > 0 => (first[at + 1] \ LowBits(spill)) \cup high \in SUBSET Ones
    BY <1>4, <1>12, <1>13
  <2> QED BY <1>4, <1>13, <2>1
<1>15. new \in Words
  BY <1>13, <1>14 DEF Words
<1>16. first[at] = (words[at] \ old) \cup low
       /\ \A q \in WordIndexes : q # at => first[q] = words[q]
  BY <1>4, <1>6
<1>17. both[at + 1] = (first[at + 1] \ LowBits(spill)) \cup high
       /\ \A q \in WordIndexes : q # at + 1 => both[q] = first[q]
  <2> HIDE DEF first
  <2> QED BY <1>4, <1>13
<1>18. at + 1 # at
  BY <1>2
\* The three places a position can be at.
<1>19. ASSUME NEW i \in Nat, i \div W \in WordIndexes
       PROVE  Bit(new, i) <=>
                IF i >= position /\ i < position + size /\ i < w
                THEN i - position \in val ELSE Bit(words, i)
  <2> DEFINE q == i \div W
             r == i % W
             in == i >= position /\ i < position + size /\ i < w
  <2>1. q \in Nat /\ r \in Nat /\ r < W
    BY Place
  <2>2. Bit(new, i) <=> r \in new[q]
    BY DEF Bit
  <2>3. Bit(words, i) <=> r \in words[q]
    BY DEF Bit
  <2>4. in <=> i >= position /\ i - position < len
    <3>1. i >= position => i - position \in Nat /\ position + (i - position) = i
      OBVIOUS
    <3>2. i >= position => (i - position < len <=> i - position < size /\ i < w)
      BY <1>3, <3>1
    <3> HIDE DEF len
    <3> QED BY <1>1, <1>3, <3>2
  <2>5. W * q \in Nat /\ W * at \in Nat /\ i = W * q + r /\ position = W * at + mod
    BY <1>1, <2>1, <1>2, Place
  <2>6. in => (i - position \in val <=> i - position \in v)
    <3>1. in => i - position \in Nat /\ i - position < len
      BY <2>4
    <3> QED BY <1>7, <3>1
  <2>7. CASE q = at
    <3>1. i - position = r - mod /\ (i >= position <=> r >= mod)
      BY <1>1, <1>2, <2>1, <2>5, <2>7
    <3>2. new[q] = (words[at] \ old) \cup low
      BY <1>4, <1>16, <1>17, <1>18, <2>7
    <3>3. r \in old <=> in
      BY <1>9, <2>1, <2>4, <3>1
    <3>4. r \in low <=> r >= mod /\ i - position \in v
      BY <1>10, <2>1, <3>1
    <3>5. r \in low => in
      BY <1>8, <2>4, <3>1, <3>4
    <3> HIDE DEF new, in, q, r, v
    <3>6. in => r >= mod
      BY <2>4, <3>1
    <3> QED BY <2>2, <2>3, <2>6, <2>7, <3>2, <3>3, <3>4, <3>5, <3>6 DEF in
  <2>8. CASE q = at + 1
    <3>1. W * (at + 1) = W * at + W
      BY <1>1, <1>2
    <3>2. i - position = r + (W - mod) /\ i >= position
      <4>1. W * q = W * at + W
        BY <2>8, <3>1
      <4> HIDE DEF q, r, mod, at
      <4> QED BY <1>1, <1>2, <2>1, <2>5, <4>1
    <3>3. in <=> r < spill
      BY <1>1, <1>2, <1>3, <2>1, <2>4, <3>2
    <3>4. CASE spill > 0
      <4>1. new[q] = (words[q] \ LowBits(spill)) \cup high
        BY <1>4, <1>16, <1>17, <1>18, <2>8, <3>4
      <4>2. r \in LowBits(spill) <=> in
        BY <1>3, <2>1, <3>3 DEF LowBits
      <4>3. r \in high <=> i - position \in v
        BY <1>12, <2>1, <3>2, <3>4
      <4>4. r \in high => in
        BY <1>8, <2>4, <3>2, <4>3
      <4> HIDE DEF new, in, q, r, v
      <4> QED BY <2>2, <2>3, <2>6, <4>1, <4>2, <4>3, <4>4 DEF in
    <3>5. CASE ~ (spill > 0)
      <4>1. ~in
        BY <1>3, <2>1, <3>3, <3>5
      <4>2. new[q] = words[q]
        BY <1>4, <1>16, <1>18, <2>8, <3>5
      <4> HIDE DEF new, in, q, r
      <4> QED BY <2>2, <2>3, <4>1, <4>2 DEF in
    <3> QED BY <3>4, <3>5
  <2>9. CASE q # at /\ q # at + 1
    <3>1. new[q] = words[q]
      BY <1>16, <1>17, <1>19, <2>9
    <3>2. ~in
      <4> SUFFICES ASSUME in PROVE FALSE
        OBVIOUS
      <4>1. i - position \in 0..W /\ i = position + (i - position)
        BY <1>1, <1>3, <2>4
      <4>2. q = at \/ q = at + 1
        BY <1>1, <1>2, <4>1, PlaceAfter
      <4> QED BY <2>9, <4>2
    <3> HIDE DEF new, in, q, r
    <3> QED BY <2>2, <2>3, <3>1, <3>2 DEF in
  <2> QED BY <2>7, <2>8, <2>9
<1> HIDE DEF new
<1> QED BY <1>5, <1>15, <1>19

(***************************************************************************)
(* Words whose bits agree are the same.                                    *)
(***************************************************************************)
LEMMA SameWord ==
    ASSUME NEW u \in Words, NEW v \in Words, NEW q \in WordIndexes,
           \A r \in Ones : Bit(u, W * q + r) <=> Bit(v, W * q + r)
    PROVE  u[q] = v[q]
<1>1. u[q] \subseteq Ones /\ v[q] \subseteq Ones /\ q \in Nat
  BY WordsThere DEF Words
<1>2. \A r \in Ones : (Bit(u, W * q + r) <=> r \in u[q]) /\ (Bit(v, W * q + r) <=> r \in v[q])
  BY <1>1, PlaceIs DEF Bit
<1> QED BY <1>1, <1>2

(***************************************************************************)
(* A position below the width lies in a word of the array.                 *)
(***************************************************************************)
LEMMA InWords ==
    ASSUME NEW w \in Widths
    PROVE  LET n == BF_BITSET_ARRAY_SIZE(w) IN
           /\ n \in Nat /\ n >= 1 /\ n \in WordIndexes /\ n - 1 \in WordIndexes
           /\ \A i \in Nat : i < w =>
                 i \div W \in WordIndexes /\ i \div W \in Nat /\ i \div W < n
<1> DEFINE n == BF_BITSET_ARRAY_SIZE(w)
<1>1. w \in Nat \ {0} /\ n \in Nat /\ n >= 1
  BY WordsThere, ArraySize
<1>2. n \in 0..n /\ n - 1 \in 0..n
  BY <1>1
<1>3. ASSUME NEW i \in Nat, i < w
      PROVE  i \div W \in 0..n /\ i \div W \in Nat /\ i \div W < n
  <2>1. i \div W <= n - 1 /\ i \div W \in Nat
    BY <1>1, <1>3, InArray, Place
  <2> QED BY <1>1, <2>1
<1> QED BY <1>1, <1>2, <1>3, WordsThere

(***************************************************************************)
(* The width within the last word.                                         *)
(***************************************************************************)
LEMMA TopWord ==
    ASSUME NEW w \in Nat \ {0}
    PROVE  LET n == BF_BITSET_ARRAY_SIZE(w)
               d == w - W * (n - 1)
           IN  /\ d \in 1..W
               /\ d < W => w % W = d /\ w \div W = n - 1
               /\ d = W => w % W = 0 /\ w \div W = n
<1> DEFINE n == BF_BITSET_ARRAY_SIZE(w)
           d == w - W * (n - 1)
<1>1. W \in Nat /\ W > 0
  BY WidthAssumption
<1>2. /\ n \in Nat /\ n >= 1 /\ W * n \in Nat /\ w <= W * n
      /\ W * (n - 1) \in Nat /\ W * (n - 1) < w /\ W * n = W * (n - 1) + W
  BY ArraySize
<1> HIDE DEF n
<1>3. d \in 1..W /\ w = W * (n - 1) + d
  BY <1>1, <1>2
<1>4. d < W => w % W = d /\ w \div W = n - 1
  <2> SUFFICES ASSUME d < W PROVE w % W = d /\ w \div W = n - 1
    OBVIOUS
  <2> HIDE DEF d
  <2>1. d \in Ones /\ n - 1 \in Nat
    BY <1>1, <1>2, <1>3 DEF Ones
  <2> QED BY <1>3, <2>1, PlaceIs
<1>5. d = W => w % W = 0 /\ w \div W = n
  <2> SUFFICES ASSUME d = W PROVE w % W = 0 /\ w \div W = n
    OBVIOUS
  <2>1. 0 \in Ones /\ w = W * n + 0
    BY <1>1, <1>2, <1>3 DEF Ones
  <2> QED BY <1>2, <2>1, PlaceIs
<1> QED BY <1>3, <1>4, <1>5 DEF n

(***************************************************************************)
(* The mask of the last word keeps the positions below the width.          *)
(***************************************************************************)
LEMMA MaskIs ==
    ASSUME NEW b \in Names, width[b] \in Widths
    PROVE  /\ top_word_mask(b) \subseteq Ones
           /\ \A r \in Ones : r \in top_word_mask(b) <=>
                                W * (length(b) - 1) + r < width[b]
<1> DEFINE w == width[b]
           n == BF_BITSET_ARRAY_SIZE(w)
           d == w - W * (n - 1)
<1>1. W \in Nat /\ W > 0 /\ w \in Nat \ {0}
  <2>1. W \in Nat /\ W > 0
    BY WidthAssumption
  <2>2. w \in Nat \ {0}
    BY WordsThere
  <2> QED BY <2>1, <2>2
<1>2. /\ d \in 1..W
      /\ d < W => w % W = d
      /\ d = W => w % W = 0
  BY <1>1, TopWord
<1>3. W * (n - 1) \in Nat
  BY <1>1, ArraySize
<1> HIDE DEF n, w
<1>4. \A r \in Ones : W * (n - 1) + r < w <=> r < d
  BY <1>1, <1>3 DEF Ones
<1>5. top_word_mask(b) = IF w % W # 0 THEN LowBits(w % W) ELSE Ones
  BY DEF top_word_mask, w
<1>6. top_word_mask(b) = LowBits(d)
  <2> HIDE DEF d
  <2>1. CASE d < W
    BY <1>1, <1>2, <1>5, <2>1
  <2>2. CASE d = W
    BY <1>1, <1>2, <1>5, <2>2 DEF LowBits, Ones
  <2> QED BY <1>1, <1>2, <2>1, <2>2
<1>7. LowBits(d) \subseteq Ones /\ \A r \in Ones : r \in LowBits(d) <=> r < d
  <2> HIDE DEF d
  <2> QED BY <1>1, <1>2 DEF LowBits, Ones
<1>8. length(b) = n
  BY DEF length, n, w
<1> HIDE DEF d
<1> QED BY <1>4, <1>6, <1>7, <1>8 DEF w

-----------------------------------------------------------------------------
(***************************************************************************)
(* The inductive invariant                                                 *)
(***************************************************************************)

BInv ==
    /\ width \in [Names -> Widths]
    /\ bs \in [Names -> Words]
    /\ bits = [b \in Names |-> Bits(bs[b], width[b])]

\* What a call that makes new of the words of b leaves alone.
KeepsPastEnd(b, new) ==
    /\ \A i \in WordIndexes : i >= length(b) =>
          \/ new[i] = bs[b][i]
          \/ i = length(b) /\ width[b] % W = 0 /\ new[i] = {}
    /\ new[length(b) - 1] \subseteq bs[b][length(b) - 1] \cup top_word_mask(b)

\* PastEndKept for one step.
StepKeepsPastEnd == \A b \in Names : KeepsPastEnd(b, bs'[b])

(***************************************************************************)
(* If no bit at or past the width changes, nothing past the end does.      *)
(***************************************************************************)
LEMMA KeepsBitsPastWidth ==
    ASSUME BInv, NEW b \in Names, NEW new \in Words,
           \A i \in Nat : i >= width[b] /\ i \div W \in WordIndexes =>
              (Bit(new, i) <=> Bit(bs[b], i))
    PROVE  KeepsPastEnd(b, new)
<1> DEFINE w == width[b]
           n == length(b)
<1>1. w \in Widths /\ w \in Nat \ {0} /\ bs[b] \in Words
  BY WordsThere DEF BInv
<1>2. n \in Nat /\ n >= 1 /\ n - 1 \in WordIndexes
  BY <1>1, InWords DEF length
<1>3. W \in Nat /\ W > 0
  BY WidthAssumption
<1>4. ASSUME NEW q \in WordIndexes, q >= n
      PROVE  new[q] = bs[b][q]
  <2>1. ASSUME NEW r \in Ones
        PROVE  Bit(new, W * q + r) <=> Bit(bs[b], W * q + r)
    <3> DEFINE i == W * q + r
    <3>1. q \in Nat
      BY WordsThere
    <3>2. i \in Nat /\ i \div W = q
      BY <3>1, PlaceIs
    <3>3. ~ (i < w)
      BY <1>1, <1>2, <1>4, <3>1, <3>2, InArray DEF length
    <3> HIDE DEF i
    <3>4. i >= w
      BY <1>1, <3>2, <3>3
    <3> QED BY <3>2, <3>4 DEF i
  <2> QED BY <1>1, <2>1, SameWord
<1>5. new[n - 1] \subseteq bs[b][n - 1] \cup top_word_mask(b)
  <2> SUFFICES ASSUME NEW r \in new[n - 1], r \notin top_word_mask(b)
               PROVE  r \in bs[b][n - 1]
    OBVIOUS
  <2>1. r \in Ones
    BY <1>2 DEF Words
  <2> DEFINE i == W * (n - 1) + r
  <2>2. n - 1 \in Nat
    BY <1>2
  <2>3. i \in Nat /\ i \div W = n - 1 /\ i % W = r
    BY <2>1, <2>2, PlaceIs
  <2>4. ~ (i < w)
    BY <1>1, <2>1, MaskIs
  <2> HIDE DEF i
  <2>5. i >= w
    BY <1>1, <2>3, <2>4
  <2>6. Bit(new, i)
    BY <2>3 DEF Bit
  <2>7. Bit(bs[b], i)
    BY <1>2, <2>3, <2>5, <2>6
  <2> QED BY <2>3, <2>7 DEF Bit
<1> QED BY <1>4, <1>5 DEF KeepsPastEnd

(***************************************************************************)
(* A call that changes the words of one bitset and records what they hold. *)
(***************************************************************************)
LEMMA UpdateKeeps ==
    ASSUME BInv, NEW b \in Names, NEW new \in Words, KeepsPastEnd(b, new),
           bs' = [bs EXCEPT ![b] = new], UNCHANGED width,
           bits' = [bits EXCEPT ![b] = Bits(new, width[b])]
    PROVE  BInv' /\ StepKeepsPastEnd
<1>1. bs' \in [Names -> Words] /\ bs'[b] = new
      /\ \A c \in Names : c # b => bs'[c] = bs[c]
  BY DEF BInv
<1>2. width' = width
  OBVIOUS
<1>3. bits' = [c \in Names |-> Bits(bs'[c], width'[c])]
  <2>1. bits' = [c \in Names |-> IF c = b THEN Bits(new, width[b]) ELSE bits[c]]
    BY DEF BInv
  <2>2. \A c \in Names : bits[c] = Bits(bs[c], width[c])
    BY DEF BInv
  <2> QED BY <1>1, <1>2, <2>1, <2>2
<1>4. BInv'
  BY <1>1, <1>2, <1>3 DEF BInv
<1>5. ASSUME NEW c \in Names, c # b
      PROVE  KeepsPastEnd(c, bs'[c])
  BY <1>1, <1>5 DEF KeepsPastEnd
<1> QED BY <1>1, <1>4, <1>5 DEF StepKeepsPastEnd

(***************************************************************************)
(* Clearing the unused bits of the last word changes no bit of the set.    *)
(***************************************************************************)
LEMMA MaskedIs ==
    ASSUME BInv, NEW b \in Names
    PROVE  /\ Masked(b) \in Words
           /\ \A q \in WordIndexes : q # length(b) - 1 => Masked(b)[q] = bs[b][q]
           /\ Masked(b)[length(b) - 1] = bs[b][length(b) - 1] \cap top_word_mask(b)
           /\ \A i \in Nat : i < W * length(b) =>
                 (Bit(Masked(b), i) <=> i < width[b] /\ Bit(bs[b], i))
           /\ KeepsPastEnd(b, Masked(b))
           /\ Bits(Masked(b), width[b]) = Bits(bs[b], width[b])
<1> DEFINE w == width[b]
           n == length(b)
           new == Masked(b)
<1>1. w \in Widths /\ w \in Nat \ {0} /\ bs[b] \in Words
  BY WordsThere DEF BInv
<1>2. n \in Nat /\ n >= 1 /\ n - 1 \in WordIndexes
  BY <1>1, InWords DEF length
<1>3. new = [bs[b] EXCEPT ![n - 1] = @ \cap top_word_mask(b)]
  BY DEF Masked
<1> HIDE DEF new
<1>4. /\ new \in Words
      /\ \A q \in WordIndexes : q # n - 1 => new[q] = bs[b][q]
      /\ new[n - 1] = bs[b][n - 1] \cap top_word_mask(b)
  <2> HIDE DEF n
  <2> QED BY <1>1, <1>2, <1>3 DEF Words
<1>5. ASSUME NEW i \in Nat, i < W * n
      PROVE  Bit(new, i) <=> i < w /\ Bit(bs[b], i)
  <2> DEFINE q == i \div W
             r == i % W
  <2>1. q \in Nat /\ r \in Ones /\ i = W * q + r
    BY Place
  <2>2. q <= n - 1 /\ (q < n - 1 => i < w)
    BY <1>1, <1>5, InArray DEF length
  <2>3. q \in WordIndexes
    <3>1. q \in 0..n
      BY <1>2, <2>1, <2>2
    <3> QED BY <1>1, <3>1, WordsThere DEF length
  <2>4. (Bit(new, i) <=> r \in new[q]) /\ (Bit(bs[b], i) <=> r \in bs[b][q])
    BY DEF Bit
  <2> HIDE DEF q, r
  <2>5. CASE q = n - 1
    <3>1. r \in top_word_mask(b) <=> i < w
      BY <1>1, <2>1, <2>5, MaskIs
    <3> QED BY <1>4, <2>4, <2>5, <3>1
  <2>6. CASE q # n - 1
    <3>1. i < w
      BY <1>2, <2>1, <2>2, <2>6
    <3> QED BY <1>4, <2>3, <2>4, <2>6, <3>1
  <2> QED BY <2>5, <2>6
<1>6. KeepsPastEnd(b, new)
  <2>1. \A q \in WordIndexes : q >= n => q # n - 1
    BY <1>2, WordsThere
  <2> QED BY <1>4, <2>1 DEF KeepsPastEnd
<1>7. Bits(new, w) = Bits(bs[b], w)
  <2>1. W * n \in Nat /\ w <= W * n
    BY <1>1, ArraySize DEF length
  <2>2. \A i \in 0..(w - 1) : i \in Nat /\ i < W * n /\ i < w
    BY <1>1, <2>1
  <2>3. \A i \in 0..(w - 1) : Bit(new, i) <=> Bit(bs[b], i)
    BY <1>5, <2>2
  <2> HIDE DEF w
  <2> QED BY <2>3 DEF Bits, Bit
<1> QED BY <1>4, <1>5, <1>6, <1>7 DEF new

-----------------------------------------------------------------------------
(***************************************************************************)
(* One lemma per operation                                                 *)
(***************************************************************************)

(***************************************************************************)
(* bf_bs_init on a bitset that is in use keeps its words: the bits below   *)
(* the new width are what they say.                                        *)
(***************************************************************************)
LEMMA InitAgainKeeps ==
    ASSUME BInv, NEW b \in Names, NEW w \in Widths, InitAgain(b, w)
    PROVE  BInv' /\ StepKeepsPastEnd
<1>1. /\ bs' = bs
      /\ width' = [width EXCEPT ![b] = w]
      /\ bits' = [bits EXCEPT ![b] = Bits(bs[b], w)]
  BY DEF InitAgain
<1>2. width' \in [Names -> Widths] /\ width'[b] = w
      /\ \A c \in Names : c # b => width'[c] = width[c]
  BY <1>1 DEF BInv
<1>3. bits' = [c \in Names |-> Bits(bs'[c], width'[c])]
  <2>1. bits' = [c \in Names |-> IF c = b THEN Bits(bs[b], w) ELSE bits[c]]
    BY <1>1 DEF BInv
  <2>2. \A c \in Names : bits[c] = Bits(bs[c], width[c])
    BY DEF BInv
  <2> QED BY <1>1, <1>2, <2>1, <2>2
<1>4. BInv'
  BY <1>1, <1>2, <1>3 DEF BInv
<1> QED BY <1>1, <1>4 DEF StepKeepsPastEnd, KeepsPastEnd

(***************************************************************************)
(* bf_bs_set changes the one bit it names.                                 *)
(***************************************************************************)
LEMMA SetKeeps ==
    ASSUME BInv, NEW b \in Names, NEW position \in Nat, NEW val \in BOOLEAN,
           Set(b, position, val)
    PROVE  BInv' /\ StepKeepsPastEnd
<1> DEFINE w   == width[b]
           at  == position \div W
           tmp == {position % W}
           new == [bs[b] EXCEPT ![at] = IF val THEN @ \cup tmp ELSE @ \ tmp]
<1>1. w \in Widths /\ w \in Nat \ {0} /\ bs[b] \in Words /\ position < w
  BY WordsThere DEF BInv, Set
<1>2. at \in WordIndexes /\ position % W \in Ones
  BY <1>1, InWords, Place
<1>3. new \in Words
  BY <1>1, <1>2 DEF Words
<1>4. ASSUME NEW i \in Nat, i \div W \in WordIndexes
      PROVE  Bit(new, i) <=> IF i = position THEN val ELSE Bit(bs[b], i)
  <2> DEFINE q == i \div W
             r == i % W
  <2>1. (Bit(new, i) <=> r \in new[q]) /\ (Bit(bs[b], i) <=> r \in bs[b][q])
    BY DEF Bit
  <2>2. q = at /\ r = position % W => i = position
    BY Place
  <2>3. CASE q = at
    <3>1. new[q] = IF val THEN bs[b][q] \cup tmp ELSE bs[b][q] \ tmp
      BY <1>1, <1>2, <2>3 DEF Words
    <3>2. i = position <=> r \in tmp
      BY <2>2, <2>3
    <3> HIDE DEF q, r, tmp, new
    <3> QED BY <2>1, <3>1, <3>2
  <2>4. CASE q # at
    <3>1. new[q] = bs[b][q]
      BY <1>1, <1>2, <1>4, <2>4 DEF Words
    <3> QED BY <2>1, <2>4, <3>1
  <2> QED BY <2>3, <2>4
<1>5. bs' = [bs EXCEPT ![b] = new]
  <2>1. bs' = [bs EXCEPT ![b][at] = IF val THEN @ \cup tmp ELSE @ \ tmp]
    BY DEF Set
  <2> QED BY <2>1
<1> HIDE DEF new
<1>6. KeepsPastEnd(b, new)
  <2>1. \A i \in Nat : i >= w => i # position
    BY <1>1
  <2> QED BY <1>3, <1>4, <2>1, KeepsBitsPastWidth
<1>7. Bits(new, w) = IF val THEN bits[b] \cup {position} ELSE bits[b] \ {position}
  <2>1. bits[b] = Bits(bs[b], w)
    BY DEF BInv
  <2>2. \A i \in 0..(w - 1) : i \in Nat /\ i \div W \in WordIndexes
    BY <1>1, InWords
  <2>3. \A i \in 0..(w - 1) : Bit(new, i) <=> IF i = position THEN val ELSE Bit(bs[b], i)
    BY <1>4, <2>2
  <2>4. position \in 0..(w - 1)
    BY <1>1
  <2> HIDE DEF w
  <2> QED BY <2>1, <2>3, <2>4 DEF Bits, Bit
<1>8. /\ UNCHANGED width
      /\ bits' = [bits EXCEPT ![b] = Bits(new, width[b])]
  BY <1>7 DEF Set
<1> QED BY <1>3, <1>5, <1>6, <1>8, UpdateKeeps

(***************************************************************************)
(* bf_bs_set_all changes the bits below the width and no others.           *)
(***************************************************************************)
LEMMA SetAllKeeps ==
    ASSUME BInv, NEW b \in Names, NEW val \in BOOLEAN, SetAll(b, val)
    PROVE  BInv' /\ StepKeepsPastEnd
<1> DEFINE w   == width[b]
           n   == length(b)
           new == [i \in WordIndexes |->
                      IF i >= n THEN bs[b][i]
                      ELSE IF ~val THEN {}
                      ELSE IF i = n - 1 THEN top_word_mask(b) ELSE Ones]
<1>1. w \in Widths /\ w \in Nat \ {0} /\ bs[b] \in Words
  BY WordsThere DEF BInv
<1>2. n \in Nat /\ n >= 1 /\ n - 1 \in WordIndexes /\ ~ (n - 1 >= n)
  BY <1>1, InWords DEF length
<1>3. top_word_mask(b) \subseteq Ones
  BY <1>1, MaskIs
<1>4. new \in Words
  BY <1>1, <1>3 DEF Words
<1>5. bs' = [bs EXCEPT ![b] = new]
  BY DEF SetAll, BInv
<1>6. KeepsPastEnd(b, new)
  BY <1>2 DEF KeepsPastEnd
<1>7. ASSUME NEW i \in Nat, i < w
      PROVE  Bit(new, i) <=> val
  <2>1. i \div W \in WordIndexes /\ i \div W \in Nat /\ i \div W < n
    BY <1>1, <1>7, InWords DEF length
  <2>2. i % W \in Ones /\ i = W * (i \div W) + (i % W)
    BY Place
  <2>3. i \div W = n - 1 => i % W \in top_word_mask(b)
    BY <1>1, <1>7, <2>2, MaskIs
  <2>4. ~ (i \div W >= n)
    BY <1>2, <2>1
  <2> QED BY <2>1, <2>2, <2>3, <2>4 DEF Bit
<1>8. Bits(new, w) = IF val THEN 0..(w - 1) ELSE {}
  <2>1. \A i \in 0..(w - 1) : i \in Nat /\ i < w
    BY <1>1
  <2> HIDE DEF new, w
  <2> QED BY <1>7, <2>1 DEF Bits, Bit
<1> HIDE DEF new
<1>9. /\ UNCHANGED width
      /\ bits' = [bits EXCEPT ![b] = Bits(new, width[b])]
  BY <1>8 DEF SetAll
<1> QED BY <1>4, <1>5, <1>6, <1>9, UpdateKeeps

(***************************************************************************)
(* bf_bs_get_word reads, and bf_bs_set_word writes, the bits of the set    *)
(* that the words stand for.                                               *)
(***************************************************************************)
LEMMA GetWordBits ==
    ASSUME NEW words \in Words, NEW w \in Widths, NEW bit_offset \in Nat,
           bit_offset < w, NEW n_bits \in 1..W
    PROVE  GetWord(words, w, bit_offset, n_bits) =
              ReadBits(Bits(words, w), w, bit_offset, n_bits)
<1>1. w \in Nat /\ n_bits \in Nat
  BY WordsThere, WidthAssumption
<1>2. GetWord(words, w, bit_offset, n_bits) =
        {k \in LowBits(n_bits) : bit_offset + k < w /\ Bit(words, bit_offset + k)}
  BY GetWordIs
<1>3. ASSUME NEW k \in LowBits(n_bits), bit_offset + k < w
      PROVE  bit_offset + k \in Bits(words, w) <=> Bit(words, bit_offset + k)
  <2>1. bit_offset + k \in 0..(w - 1)
    BY <1>1, <1>3 DEF LowBits
  <2> QED BY <2>1 DEF Bits, Bit
<1> QED BY <1>2, <1>3 DEF ReadBits

LEMMA SetWordBits ==
    ASSUME NEW words \in Words, NEW w \in Widths, NEW position \in Nat,
           position < w, NEW size \in 1..W, NEW val
    PROVE  LET new == SetWord(words, w, position, size, val) IN
           /\ new \in Words
           /\ Bits(new, w) = WriteBits(Bits(words, w), w, position, size, val)
           /\ \A i \in Nat : i >= w /\ i \div W \in WordIndexes =>
                 (Bit(new, i) <=> Bit(words, i))
<1> DEFINE new == SetWord(words, w, position, size, val)
           window == {i \in 0..(w - 1) : i - position \in LowBits(size)}
<1>1. w \in Nat \ {0}
  BY WordsThere
<1>2. /\ new \in Words
      /\ \A i \in Nat : i \div W \in WordIndexes =>
            (Bit(new, i) <=>
               IF i >= position /\ i < position + size /\ i < w
               THEN i - position \in val ELSE Bit(words, i))
  BY SetWordIs
<1> HIDE DEF new
<1>3. \A i \in Nat : i >= w /\ i \div W \in WordIndexes => (Bit(new, i) <=> Bit(words, i))
  <2>1. \A i \in Nat : i >= w => ~ (i < w)
    BY <1>1
  <2> QED BY <1>2, <2>1
<1>4. Bits(new, w) = (Bits(words, w) \ window) \cup {i \in window : i - position \in val}
  <2>1. \A i \in 0..(w - 1) : i \in Nat /\ i < w /\ i \div W \in WordIndexes
    BY <1>1, InWords
  <2>2. \A i \in 0..(w - 1) : i \in window <=> i >= position /\ i < position + size
    BY <1>1, WidthAssumption DEF LowBits
  <2>3. \A i \in 0..(w - 1) : Bit(new, i) <=>
            IF i \in window THEN i - position \in val ELSE Bit(words, i)
    BY <1>2, <2>1, <2>2
  <2>4. \A i \in window : i \in 0..(w - 1)
    OBVIOUS
  <2> HIDE DEF window
  <2> QED BY <2>3, <2>4 DEF Bits, Bit
<1> QED BY <1>2, <1>3, <1>4 DEF WriteBits, new

(***************************************************************************)
(* bf_bs_set_word stores the bits of val that fit in the window.           *)
(***************************************************************************)
LEMMA SetWordAtKeeps ==
    ASSUME BInv, NEW b \in Names, NEW position \in Nat, NEW size \in 1..W,
           NEW val, SetWordAt(b, position, size, val)
    PROVE  BInv' /\ StepKeepsPastEnd
<1> DEFINE w   == width[b]
           new == SetWord(bs[b], w, position, size, val)
<1>1. w \in Widths /\ bs[b] \in Words /\ position < w /\ bits[b] = Bits(bs[b], w)
  BY DEF BInv, SetWordAt
<1>2. /\ new \in Words
      /\ Bits(new, w) = WriteBits(bits[b], w, position, size, val)
      /\ \A i \in Nat : i >= w /\ i \div W \in WordIndexes =>
            (Bit(new, i) <=> Bit(bs[b], i))
  BY <1>1, SetWordBits
<1>3. bs' = [bs EXCEPT ![b] = new]
  BY DEF SetWordAt, BInv
<1> HIDE DEF new
<1>4. KeepsPastEnd(b, new)
  BY <1>2, KeepsBitsPastWidth
<1>5. /\ UNCHANGED width
      /\ bits' = [bits EXCEPT ![b] = Bits(new, width[b])]
  BY <1>2 DEF SetWordAt
<1> QED BY <1>2, <1>3, <1>4, <1>5, UpdateKeeps

(***************************************************************************)
(* A query clears what the top word holds past the width, and nothing      *)
(* else.                                                                   *)
(***************************************************************************)
LEMMA QueryKeeps ==
    ASSUME BInv, NEW b \in Names, Query(b)
    PROVE  BInv' /\ StepKeepsPastEnd
<1>1. /\ Masked(b) \in Words /\ KeepsPastEnd(b, Masked(b))
      /\ Bits(Masked(b), width[b]) = Bits(bs[b], width[b])
  BY MaskedIs
<1>2. bs' = [bs EXCEPT ![b] = Masked(b)] /\ bits' = bits /\ UNCHANGED width
  BY DEF Query
<1>3. bits' = [bits EXCEPT ![b] = Bits(Masked(b), width[b])]
  BY <1>1, <1>2 DEF BInv
<1> QED BY <1>1, <1>2, <1>3, UpdateKeeps

(***************************************************************************)
(* A comparison clears what the top words of both sides hold past the      *)
(* width, and nothing else.                                                *)
(***************************************************************************)
LEMMA EqualKeeps ==
    ASSUME BInv, NEW x \in Names, NEW y \in Names, Equal(x, y)
    PROVE  BInv' /\ StepKeepsPastEnd
<1>1. \A b \in Names : /\ Masked(b) \in Words /\ KeepsPastEnd(b, Masked(b))
                        /\ Bits(Masked(b), width[b]) = Bits(bs[b], width[b])
  BY MaskedIs
<1>2. bs' = [bs EXCEPT ![x] = Masked(x), ![y] = Masked(y)]
      /\ bits' = bits /\ width' = width
  BY DEF Equal
<1>3. /\ bs' \in [Names -> Words]
      /\ \A b \in Names : bs'[b] = IF b = x \/ b = y THEN Masked(b) ELSE bs[b]
  BY <1>1, <1>2 DEF BInv
<1>4. bits' = [b \in Names |-> Bits(bs'[b], width'[b])]
  BY <1>1, <1>2, <1>3 DEF BInv
<1>5. BInv'
  BY <1>2, <1>3, <1>4 DEF BInv
<1>6. ASSUME NEW b \in Names
      PROVE  KeepsPastEnd(b, bs'[b])
  <2>1. CASE b = x \/ b = y
    BY <1>1, <1>3, <2>1
  <2>2. CASE ~ (b = x \/ b = y)
    BY <1>3, <2>2 DEF KeepsPastEnd
  <2> QED BY <2>1, <2>2
<1> QED BY <1>5, <1>6 DEF StepKeepsPastEnd

(***************************************************************************)
(* bf_bs_copy makes the bits below the width those of the source.          *)
(***************************************************************************)
LEMMA CopyKeeps ==
    ASSUME BInv, NEW dst \in Names, NEW src \in Names, Copy(dst, src)
    PROVE  BInv' /\ StepKeepsPastEnd
<1> DEFINE w     == width[dst]
           n     == length(dst)
           whole == w \div W
           new   == [i \in WordIndexes |->
                       IF i < whole THEN bs[src][i]
                       ELSE IF i = whole THEN bs[src][i] \cap LowBits(w % W)
                       ELSE bs[dst][i]]
           d     == w - W * (n - 1)
<1>1. w \in Widths /\ w \in Nat \ {0} /\ bs[src] \in Words /\ bs[dst] \in Words
      /\ width[src] = w
  BY WordsThere DEF BInv, Copy
<1>2. n \in Nat /\ n >= 1 /\ n \in WordIndexes /\ n - 1 \in WordIndexes
  BY <1>1, InWords DEF length
<1>3. /\ d \in 1..W
      /\ d < W => w % W = d /\ whole = n - 1
      /\ d = W => w % W = 0 /\ whole = n
  BY <1>1, TopWord DEF length
<1>4. W \in Nat /\ W > 0 /\ W * (n - 1) \in Nat
  <2>1. W \in Nat /\ W > 0
    BY WidthAssumption
  <2>2. W * (n - 1) \in Nat
    BY <1>1, ArraySize DEF length
  <2> QED BY <2>1, <2>2
<1>5. new \in Words
  BY <1>1 DEF Words
<1>6. bs' = [bs EXCEPT ![dst] = new]
  BY <1>1 DEF Copy, BInv
<1>7. ASSUME NEW r \in Ones
      PROVE  r \in top_word_mask(dst) <=> r < d
  <2>1. r \in top_word_mask(dst) <=> W * (n - 1) + r < w
    BY <1>1, MaskIs
  <2> QED BY <1>1, <1>4, <2>1 DEF Ones
<1>8. KeepsPastEnd(dst, new)
  <2>1. CASE d < W
    <3>1. \A i \in WordIndexes : i >= n => new[i] = bs[dst][i]
      BY <1>2, <1>3, <2>1, WordsThere
    <3>2. new[n - 1] = bs[src][n - 1] \cap LowBits(d)
      BY <1>2, <1>3, <2>1
    <3>3. new[n - 1] \subseteq top_word_mask(dst)
      <4>1. ASSUME NEW r \in new[n - 1] PROVE r \in top_word_mask(dst)
        <5> HIDE DEF new, d
        <5>1. r \in Ones
          BY <1>2, <1>5 DEF Words
        <5>2. r \in LowBits(d)
          BY <3>2
        <5>3. r < d
          BY <1>3, <1>4, <5>1, <5>2 DEF LowBits, Ones
        <5> QED BY <1>7, <5>1, <5>3
      <4> QED BY <4>1
    <3> QED BY <3>1, <3>3 DEF KeepsPastEnd
  <2>2. CASE d = W
    <3>1. \A i \in WordIndexes : i >= n => i = n \/ new[i] = bs[dst][i]
      BY <1>2, <1>3, <2>2, WordsThere
    <3>2. w % W = 0 /\ new[n] = {}
      <4>1. LowBits(0) = {}
        BY DEF LowBits
      <4>2. w % W = 0 /\ whole = n
        BY <1>3, <2>2
      <4>3. new[n] = bs[src][n] \cap LowBits(0)
        BY <1>2, <4>2
      <4> QED BY <4>1, <4>2, <4>3
    <3>3. new[n - 1] \subseteq top_word_mask(dst)
      <4>1. \A r \in Ones : r \in top_word_mask(dst)
        BY <1>4, <1>7, <2>2 DEF Ones
      <4> HIDE DEF new
      <4> QED BY <1>2, <1>5, <4>1 DEF Words
    <3> HIDE DEF new
    <3> QED BY <3>1, <3>2, <3>3 DEF KeepsPastEnd
  <2> QED BY <1>3, <1>4, <2>1, <2>2
<1>9. ASSUME NEW i \in Nat, i < w
      PROVE  Bit(new, i) <=> Bit(bs[src], i)
  <2> DEFINE q == i \div W
             r == i % W
  <2>1. q \in WordIndexes /\ q \in Nat /\ q < n
    BY <1>1, <1>9, InWords DEF length
  <2>2. r \in Ones /\ i = W * q + r
    BY Place
  <2>3. (Bit(new, i) <=> r \in new[q]) /\ (Bit(bs[src], i) <=> r \in bs[src][q])
    BY DEF Bit
  <2> HIDE DEF q, r
  <2>4. CASE q < whole
    BY <2>1, <2>3, <2>4
  <2>5. CASE ~ (q < whole)
    <3>1. q = n - 1 /\ whole = n - 1 /\ d < W /\ w % W = d
      <4> HIDE DEF whole, d, n
      <4> QED BY <1>2, <1>3, <1>4, <2>1, <2>5
    <3>2. r < d
      BY <1>1, <1>4, <1>9, <2>2, <3>1 DEF Ones
    <3>3. r \in LowBits(w % W)
      <4> HIDE DEF d
      <4> QED BY <1>3, <1>4, <2>2, <3>1, <3>2 DEF LowBits, Ones
    <3>4. new[q] = bs[src][q] \cap LowBits(w % W)
      BY <2>1, <2>5, <3>1
    <3> QED BY <2>3, <3>3, <3>4
  <2> QED BY <2>4, <2>5
<1> HIDE DEF new
<1>10. Bits(new, w) = bits[src]
  <2>1. \A i \in 0..(w - 1) : i \in Nat /\ i < w
    BY <1>1
  <2>2. bits[src] = Bits(bs[src], w)
    BY <1>1 DEF BInv
  <2> HIDE DEF w
  <2> QED BY <1>9, <2>1, <2>2 DEF Bits, Bit
<1>11. /\ UNCHANGED width
       /\ bits' = [bits EXCEPT ![dst] = Bits(new, width[dst])]
  BY <1>10 DEF Copy
<1> QED BY <1>5, <1>6, <1>8, <1>11, UpdateKeeps

\* The words from which a piece is read, when those of dst have become now.
ReadFrom(dst, src, now) == IF src = dst THEN now ELSE bs[src]

\* What one piece makes of the words of dst.
Piece(dst, dst_offset, src, src_offset, n_bits, i, now) ==
    IF PieceOk(dst, dst_offset, src, src_offset, n_bits, i)
    THEN SetWord(now, width[dst], dst_offset + i * W, PieceSize(src, i, n_bits),
                 GetWord(ReadFrom(dst, src, now), width[src], src_offset + i * W,
                         PieceSize(src, i, n_bits)))
    ELSE now

\* What one piece makes of the set of dst.
SetPiece(dst, dst_offset, src, src_offset, n_bits, i, now) ==
    IF PieceOk(dst, dst_offset, src, src_offset, n_bits, i)
    THEN WriteBits(now, width[dst], dst_offset + i * W, PieceSize(src, i, n_bits),
                   ReadBits(IF src = dst THEN now ELSE bits[src], width[src],
                            src_offset + i * W, PieceSize(src, i, n_bits)))
    ELSE now

(***************************************************************************)
(* The loop of bf_bs_copy_range, piece by piece.                           *)
(***************************************************************************)
LEMMA PiecesRecursion ==
    ASSUME NEW dst, NEW dst_offset, NEW src, NEW src_offset, NEW n_bits,
           width[src] \div W \in Nat
    PROVE  LET f == CopyPieces(dst, dst_offset, src, src_offset, n_bits) IN
           \A i \in Pieces(src) :
              f[i] = Piece(dst, dst_offset, src, src_offset, n_bits, i,
                           IF i = 0 THEN bs[dst] ELSE f[i - 1])
<1> DEFINE whole == width[src] \div W
           zero == bs[dst]
           F(i, now) == Piece(dst, dst_offset, src, src_offset, n_bits, i, now)
           loop == CHOOSE f : f = [i \in 0..whole |->
                                     F(i, IF i = 0 THEN zero ELSE f[i - 1])]
<1>1. CopyPieces(dst, dst_offset, src, src_offset, n_bits) = loop
  BY DEF CopyPieces, Pieces, Piece, ReadFrom
<1>2. 0..whole = Pieces(src) /\ whole \in Nat
  BY DEF Pieces
<1> HIDE DEF F, whole
<1> DEFINE Body(n, f) == [i \in 0..n |-> F(i, IF i = 0 THEN zero ELSE f[i - 1])]
           UpTo(n, f) == f = Body(n, f)
           Bad == {n \in Nat : ~ \E f : UpTo(n, f)}
<1>3. ASSUME Bad # {} PROVE FALSE
  <2>1. PICK n \in Bad : \A m \in Bad : n <= m
    BY <1>3, LeastNat
  <2>2. n # 0
    <3> DEFINE f == [i \in 0..0 |-> F(i, zero)]
    <3>1. UpTo(0, f)
      OBVIOUS
    <3> HIDE DEF UpTo, f
    <3> QED BY <3>1
  <2>3. n - 1 \in Nat /\ n - 1 \notin Bad /\ n \in Nat /\ n >= 1
    <3> HIDE DEF UpTo
    <3>1. n \in Nat
      BY <2>1
    <3>2. n - 1 \in Nat /\ ~(n <= n - 1)
      BY <2>2, <3>1
    <3> QED BY <2>1, <2>2, <3>1, <3>2
  <2>4. PICK f : UpTo(n - 1, f)
    <3> HIDE DEF UpTo
    <3> QED BY <2>3
  <2> DEFINE g == Body(n, f)
             h == Body(n, g)
  <2>5. ASSUME NEW i \in 0..(n - 1) PROVE g[i] = f[i]
    <3>1. i \in 0..n
      BY <2>3
    <3>2. f[i] = F(i, IF i = 0 THEN zero ELSE f[i - 1])
      BY <2>4
    <3> QED BY <3>1, <3>2
  <2>6. ASSUME NEW i \in 0..n PROVE g[i] = h[i]
    <3>1. i # 0 => i - 1 \in 0..(n - 1)
      BY <2>3
    <3>2. i # 0 => g[i - 1] = f[i - 1]
      BY <2>5, <3>1
    <3>3. g[i] = F(i, IF i = 0 THEN zero ELSE f[i - 1])
      OBVIOUS
    <3> HIDE DEF g
    <3>4. h[i] = F(i, IF i = 0 THEN zero ELSE g[i - 1])
      OBVIOUS
    <3>5. (IF i = 0 THEN zero ELSE f[i - 1]) = (IF i = 0 THEN zero ELSE g[i - 1])
      BY <3>2
    <3> QED BY <3>3, <3>4, <3>5
  <2>7. UpTo(n, g)
    BY <2>6
  <2> HIDE DEF UpTo, g
  <2> QED BY <2>1, <2>7
<1>4. \E f : UpTo(whole, f)
  <2> HIDE DEF UpTo
  <2> QED BY <1>2, <1>3
<1>5. UpTo(whole, loop)
  BY <1>4
<1>6. \A i \in 0..whole : loop[i] = F(i, IF i = 0 THEN zero ELSE loop[i - 1])
  <2> HIDE DEF loop
  <2> QED BY <1>5
<1> HIDE DEF loop
<1> QED BY <1>1, <1>2, <1>6 DEF F

(***************************************************************************)
(* A piece makes of the set what it makes of the words, and changes no bit *)
(* at or past the width.                                                   *)
(***************************************************************************)
LEMMA PieceIs ==
    ASSUME BInv, NEW dst \in Names, NEW src \in Names,
           NEW dst_offset \in Nat, NEW src_offset \in Nat, NEW n_bits \in Nat,
           NEW i \in Pieces(src), NEW now \in Words
    PROVE  LET new == Piece(dst, dst_offset, src, src_offset, n_bits, i, now) IN
           /\ new \in Words
           /\ Bits(new, width[dst]) =
                 SetPiece(dst, dst_offset, src, src_offset, n_bits, i,
                          Bits(now, width[dst]))
           /\ \A p \in Nat : p >= width[dst] /\ p \div W \in WordIndexes =>
                 (Bit(new, p) <=> Bit(now, p))
<1> DEFINE S == width[src]
           D == width[dst]
           size == PieceSize(src, i, n_bits)
           from == ReadFrom(dst, src, now)
           read == IF src = dst THEN Bits(now, D) ELSE bits[src]
           x == src_offset + i * W
           y == dst_offset + i * W
           new == Piece(dst, dst_offset, src, src_offset, n_bits, i, now)
<1>1. S \in Widths /\ D \in Widths /\ S \in Nat /\ bs[src] \in Words
      /\ bits[src] = Bits(bs[src], S)
  BY WordsThere DEF BInv
<1>2. CASE ~PieceOk(dst, dst_offset, src, src_offset, n_bits, i)
  BY <1>2 DEF Piece, SetPiece
<1>3. CASE PieceOk(dst, dst_offset, src, src_offset, n_bits, i)
  <2>1. x < S /\ y < D /\ size > 0
    BY <1>3 DEF PieceOk
  <2>2. x \in Nat /\ y \in Nat
    <3>1. S \div W \in Nat
      BY <1>1, Place
    <3>2. i \in Nat
      BY <3>1 DEF Pieces
    <3>3. i * W \in Nat
      BY <3>2, WidthAssumption
    <3> QED BY <3>3
  <2>3. size \in 1..W
    <3>1. W \in Nat /\ W > 0
      BY WidthAssumption
    <3>2. n_bits % W \in Nat /\ n_bits % W < W
      BY Place
    <3>3. size = W \/ size = n_bits % W
      BY DEF PieceSize
    <3> QED BY <2>1, <3>1, <3>2, <3>3
  <2>4. from \in Words /\ read = Bits(from, S)
    BY <1>1 DEF ReadFrom
  <2> DEFINE val == GetWord(from, S, x, size)
  <2>5. val = ReadBits(read, S, x, size)
    <3> HIDE DEF from, read, x, size, S
    <3> QED BY <1>1, <2>1, <2>2, <2>3, <2>4, GetWordBits
  <2>6. new = SetWord(now, D, y, size, val)
    BY <1>3 DEF Piece
  <2>7. SetPiece(dst, dst_offset, src, src_offset, n_bits, i, Bits(now, D)) =
          WriteBits(Bits(now, D), D, y, size, ReadBits(read, S, x, size))
    BY <1>3 DEF SetPiece
  <2>8. /\ new \in Words
        /\ Bits(new, D) = WriteBits(Bits(now, D), D, y, size, val)
        /\ \A p \in Nat : p >= D /\ p \div W \in WordIndexes =>
              (Bit(new, p) <=> Bit(now, p))
    <3> HIDE DEF new, val, y, size, D
    <3> QED BY <1>1, <2>1, <2>2, <2>3, <2>6, SetWordBits
  <2> HIDE DEF new, val, read, x, y, size
  <2> QED BY <2>5, <2>7, <2>8 DEF new
<1> QED BY <1>2, <1>3

(***************************************************************************)
(* After every piece the words are words, and no bit at or past the width  *)
(* has changed.                                                            *)
(***************************************************************************)
LEMMA CopyPiecesIs ==
    ASSUME BInv, NEW dst \in Names, NEW src \in Names,
           NEW dst_offset \in Nat, NEW src_offset \in Nat, NEW n_bits \in Nat,
           NEW i \in Pieces(src)
    PROVE  LET f == CopyPieces(dst, dst_offset, src, src_offset, n_bits) IN
           /\ f[i] \in Words
           /\ \A p \in Nat : p >= width[dst] /\ p \div W \in WordIndexes =>
                 (Bit(f[i], p) <=> Bit(bs[dst], p))
<1> DEFINE f == CopyPieces(dst, dst_offset, src, src_offset, n_bits)
           Good(j) == /\ f[j] \in Words
                      /\ \A p \in Nat : p >= width[dst] /\ p \div W \in WordIndexes =>
                            (Bit(f[j], p) <=> Bit(bs[dst], p))
           Bad == {j \in Pieces(src) : ~Good(j)}
           Before(j) == IF j = 0 THEN bs[dst] ELSE f[j - 1]
<1>1. width[src] \div W \in Nat /\ bs[dst] \in Words
  <2>1. width[src] \in Nat
    BY WordsThere DEF BInv
  <2> QED BY <2>1, Place DEF BInv
<1>2. \A j \in Pieces(src) : j \in Nat /\ (j # 0 => j - 1 \in Pieces(src))
  BY <1>1 DEF Pieces
<1>3. \A j \in Pieces(src) :
         f[j] = Piece(dst, dst_offset, src, src_offset, n_bits, j, Before(j))
  BY <1>1, PiecesRecursion
<1> HIDE DEF f
<1>4. Bad = {}
  <2> SUFFICES ASSUME Bad # {} PROVE FALSE
    OBVIOUS
  <2>1. Bad \in SUBSET Nat
    BY <1>2
  <2> HIDE DEF Good
  <2>2. PICK j \in Bad : \A k \in Bad : j <= k
    BY <2>1, LeastNat
  <2>3. j \in Pieces(src) /\ j \in Nat /\ ~Good(j) /\ (j # 0 => j - 1 \in Pieces(src))
    BY <1>2
  <2>4. j # 0 => Good(j - 1)
    <3>1. ~ (j <= j - 1)
      BY <2>3
    <3> QED BY <2>2, <2>3, <3>1
  <2>5. /\ Before(j) \in Words
        /\ \A p \in Nat : p >= width[dst] /\ p \div W \in WordIndexes =>
              (Bit(Before(j), p) <=> Bit(bs[dst], p))
    BY <1>1, <2>4 DEF Good
  <2> HIDE DEF Before
  <2>6. /\ f[j] \in Words
        /\ \A p \in Nat : p >= width[dst] /\ p \div W \in WordIndexes =>
              (Bit(f[j], p) <=> Bit(Before(j), p))
    BY <1>3, <2>3, <2>5, PieceIs
  <2> QED BY <2>3, <2>5, <2>6 DEF Good
<1>5. Good(i)
  <2> HIDE DEF Good
  <2> QED BY <1>4
<1> QED BY <1>5 DEF f

(***************************************************************************)
(* The reads and writes of bf_bs_copy_range make of the set what they make *)
(* of the words.                                                           *)
(***************************************************************************)
LEMMA CopiedBitsAre ==
    ASSUME BInv, NEW dst \in Names, NEW src \in Names,
           NEW dst_offset \in Nat, NEW src_offset \in Nat, NEW n_bits \in Nat,
           NEW i \in Pieces(src)
    PROVE  CopiedBits(dst, dst_offset, src, src_offset, n_bits)[i] =
             Bits(CopyPieces(dst, dst_offset, src, src_offset, n_bits)[i], width[dst])
<1> DEFINE f == CopyPieces(dst, dst_offset, src, src_offset, n_bits)
           D == width[dst]
           zero == bits[dst]
           F(j, now) == SetPiece(dst, dst_offset, src, src_offset, n_bits, j, now)
           Body(h) == [j \in Pieces(src) |-> F(j, IF j = 0 THEN zero ELSE h[j - 1])]
           loop == CHOOSE h : h = Body(h)
           g == [j \in Pieces(src) |-> Bits(f[j], D)]
<1>1. CopiedBits(dst, dst_offset, src, src_offset, n_bits) = loop
  BY DEF CopiedBits, SetPiece
<1>2. width[src] \div W \in Nat /\ bs[dst] \in Words /\ zero = Bits(bs[dst], D)
  <2>1. width[src] \in Nat
    BY WordsThere DEF BInv
  <2> QED BY <2>1, Place DEF BInv
<1>3. \A j \in Pieces(src) : j \in Nat /\ (j # 0 => j - 1 \in Pieces(src))
  BY <1>2 DEF Pieces
<1>4. ASSUME NEW j \in Pieces(src)
      PROVE  g[j] = F(j, IF j = 0 THEN zero ELSE g[j - 1])
  <2> DEFINE before == IF j = 0 THEN bs[dst] ELSE f[j - 1]
  <2>1. f[j] = Piece(dst, dst_offset, src, src_offset, n_bits, j, before)
    BY <1>2, PiecesRecursion
  <2>2. before \in Words
    BY <1>2, <1>3, CopyPiecesIs
  <2>3. (IF j = 0 THEN zero ELSE g[j - 1]) = Bits(before, D)
    BY <1>2, <1>3
  <2> HIDE DEF before
  <2>4. Bits(f[j], D) = F(j, Bits(before, D))
    BY <2>1, <2>2, PieceIs
  <2>5. g[j] = Bits(f[j], D)
    OBVIOUS
  <2> HIDE DEF g, F
  <2> QED BY <2>3, <2>4, <2>5
<1> HIDE DEF f, F, zero
<1>5. g = Body(g)
  <2>1. \A j \in Pieces(src) : g[j] = Body(g)[j]
    <3> HIDE DEF g
    <3> QED BY <1>4
  <2> QED BY <2>1
<1>6. loop = Body(loop)
  <2> HIDE DEF g, Body
  <2> QED BY <1>5
<1> HIDE DEF loop
<1>7. \A j \in Pieces(src) : loop[j] = F(j, IF j = 0 THEN zero ELSE loop[j - 1])
  BY <1>6
<1> DEFINE Bad == {j \in Pieces(src) : loop[j] # g[j]}
<1> HIDE DEF g
<1>8. Bad = {}
  <2> SUFFICES ASSUME Bad # {} PROVE FALSE
    OBVIOUS
  <2>1. Bad \in SUBSET Nat
    BY <1>3
  <2>2. PICK j \in Bad : \A k \in Bad : j <= k
    BY <2>1, LeastNat
  <2>3. j \in Pieces(src) /\ j \in Nat /\ (j # 0 => j - 1 \in Pieces(src))
    BY <1>3
  <2>4. j # 0 => loop[j - 1] = g[j - 1]
    <3>1. ~ (j <= j - 1)
      BY <2>3
    <3> QED BY <2>2, <2>3, <3>1
  <2>5. loop[j] = g[j]
    BY <1>4, <1>7, <2>3, <2>4
  <2> QED BY <2>5
<1>9. loop[i] = g[i]
  BY <1>8
<1> QED BY <1>1, <1>9 DEF g, f

(***************************************************************************)
(* bf_bs_copy_range, whatever the range, also within one bitset and when   *)
(* an assertion stops it halfway.                                          *)
(***************************************************************************)
LEMMA CopyRangeKeeps ==
    ASSUME BInv, NEW dst \in Names, NEW src \in Names,
           NEW dst_offset \in Nat, NEW src_offset \in Nat, NEW n_bits \in Nat,
           CopyRange(dst, dst_offset, src, src_offset, n_bits)
    PROVE  BInv' /\ StepKeepsPastEnd
<1> DEFINE last == width[src] \div W
           new == CopyPieces(dst, dst_offset, src, src_offset, n_bits)[last]
           set == CopiedBits(dst, dst_offset, src, src_offset, n_bits)[last]
<1>1. last \in Pieces(src)
  <2>1. width[src] \in Nat
    BY WordsThere DEF BInv
  <2>2. last \in Nat
    BY <2>1, Place
  <2> QED BY <2>2 DEF Pieces
<1>2. /\ new \in Words
      /\ \A p \in Nat : p >= width[dst] /\ p \div W \in WordIndexes =>
            (Bit(new, p) <=> Bit(bs[dst], p))
  BY <1>1, CopyPiecesIs
<1>3. set = Bits(new, width[dst])
  BY <1>1, CopiedBitsAre
<1>4. /\ bs' = [bs EXCEPT ![dst] = new] /\ UNCHANGED width
      /\ bits' = [bits EXCEPT ![dst] = set]
  BY DEF CopyRange
<1> HIDE DEF new, set
<1>5. KeepsPastEnd(dst, new)
  BY <1>2, KeepsBitsPastWidth
<1> QED BY <1>2, <1>3, <1>4, <1>5, UpdateKeeps

(***************************************************************************)
(* Every step keeps the invariant and what lies past the end.              *)
(***************************************************************************)
LEMMA StepKeeps ==
    ASSUME BInv, Next
    PROVE  BInv' /\ StepKeepsPastEnd
<1>1. Max(Widths) \in Nat /\ Positions \subseteq Nat
  BY WordsThere DEF Positions
<1>2. ASSUME NEW b \in Names,
             \/ \E w \in Widths : InitAgain(b, w)
             \/ \E position \in Positions, val \in BOOLEAN : Set(b, position, val)
             \/ \E val \in BOOLEAN : SetAll(b, val)
             \/ \E position \in Positions, size \in 1..W :
                   \E val \in Values : SetWordAt(b, position, size, val)
             \/ Query(b)
      PROVE  BInv' /\ StepKeepsPastEnd
  BY <1>1, <1>2, InitAgainKeeps, SetKeeps, SetAllKeeps, SetWordAtKeeps, QueryKeeps
<1>3. ASSUME NEW x \in Names, NEW y \in Names,
             \/ Equal(x, y)
             \/ Copy(x, y)
             \/ \E dst_offset, src_offset \in Positions, n_bits \in 0..Max(Widths) :
                   CopyRange(x, dst_offset, y, src_offset, n_bits)
      PROVE  BInv' /\ StepKeepsPastEnd
  <2>1. 0..Max(Widths) \subseteq Nat
    BY <1>1
  <2> QED BY <1>1, <1>3, <2>1, EqualKeeps, CopyKeeps, CopyRangeKeeps
<1> QED BY <1>2, <1>3 DEF Next

-----------------------------------------------------------------------------
(***************************************************************************)
(* The searches                                                            *)
(***************************************************************************)

(***************************************************************************)
(* The search returns the lowest bit of the words from position on if that *)
(* is below the width, and -1 otherwise.                                   *)
(***************************************************************************)
LEMMA FindIs ==
    ASSUME BInv, NEW b \in Names, NEW words \in Words, NEW position \in Nat
    PROVE  LET all == {p \in position..(W * length(b) - 1) : Bit(words, p)} IN
           /\ position >= width[b] => Find(b, words, position) = -1
           /\ position < width[b] /\ all = {} => Find(b, words, position) = -1
           /\ \A m \in all : position < width[b] /\ m < width[b] /\ (\A p \in all : m <= p)
                               => Find(b, words, position) = m
<1> DEFINE w     == width[b]
           n     == length(b)
           all   == {p \in position..(W * n - 1) : Bit(words, p)}
           i     == position \div W
           shift == position % W
           last  == n - 1
           sr    == ShiftRight(words[i], shift)
           x     == builtin_ffs(sr)
           later == {j \in (i + 1)..last : words[j] # {}}
           found == W * Min(later) + builtin_ffs(words[Min(later)]) - 1
<1>1. Find(b, words, position) =
        IF position >= w THEN -1
        ELSE IF x # 0 THEN W * i + x - 1 + shift
        ELSE IF later = {} THEN -1
        ELSE IF Min(later) = last /\ found >= w THEN -1
        ELSE found
  BY DEF Find
<1>2. w \in Widths /\ w \in Nat \ {0} /\ W \in Nat /\ W > 0
  <2>1. w \in Widths
    BY DEF BInv
  <2>2. w \in Nat \ {0}
    BY <2>1, WordsThere
  <2>3. W \in Nat /\ W > 0
    BY WidthAssumption
  <2> QED BY <2>1, <2>2, <2>3
<1>3. n \in Nat /\ n >= 1 /\ W * n \in Nat /\ \A j \in 0..last : j \in WordIndexes
  <2>1. n \in Nat /\ n >= 1 /\ W * n \in Nat
    BY <1>2, ArraySize DEF length
  <2>2. \A j \in 0..n : j \in WordIndexes
    BY <1>2, WordsThere DEF length
  <2>3. \A j \in 0..last : j \in 0..n
    BY <2>1
  <2> QED BY <2>1, <2>2, <2>3
<1>4. i \in Nat /\ shift \in Nat /\ shift < W /\ W * i \in Nat /\ position = W * i + shift
  BY <1>2, Place
<1> SUFFICES ASSUME position < w
             PROVE  /\ all = {} => Find(b, words, position) = -1
                    /\ \A m \in all : m < w /\ (\A p \in all : m <= p)
                                        => Find(b, words, position) = m
  BY <1>1, <1>2
<1>5. i <= last
  BY <1>2, InArray DEF length
\* What is at or after position, by its place.
<1>6. ASSUME NEW j \in i..last, NEW r \in words[j], j = i => r >= shift
      PROVE  /\ W * j + r \in all /\ r \in Nat /\ r < W /\ W * j \in Nat
             /\ (W * j + r) \div W = j /\ (W * j + r) % W = r
  <2>1. j \in Nat /\ j \in 0..last
    BY <1>3, <1>4
  <2>2. r \in Ones
    BY <1>3, <2>1 DEF Words
  <2>3. /\ W * j \in Nat /\ W * j + r \in Nat
        /\ (W * j + r) \div W = j /\ (W * j + r) % W = r
    BY <2>1, <2>2, PlaceIs
  <2>4. W * j + r < W * n
    BY <1>2, <1>3, <2>1, <2>3, InArray DEF length
  <2>5. r \in Nat /\ r < W
    BY <1>2, <2>2 DEF Ones
  <2>6. W * j + r >= position
    <3>1. CASE j = i
      BY <1>4, <1>6, <2>3, <2>5, <3>1
    <3>2. CASE j # i
      <4>1. position \div W < (W * j + r) \div W
        BY <1>3, <1>4, <2>1, <2>3, <3>2
      <4>2. position < W * j + r
        BY <2>3, <4>1, PlaceOrder
      <4> QED BY <2>3, <4>2
    <3> QED BY <3>1, <3>2
  <2>7. Bit(words, W * j + r)
    BY <2>3 DEF Bit
  <2> QED BY <1>3, <2>3, <2>4, <2>5, <2>6, <2>7
<1>7. ASSUME NEW p \in all
      PROVE  /\ p \in Nat /\ p % W \in words[p \div W] /\ p = W * (p \div W) + (p % W)
             /\ p \div W \in Nat /\ p % W \in Nat /\ p \div W \in i..last
             /\ (p \div W = i => p % W >= shift)
  <2>1. p \in Nat /\ p >= position /\ p < W * n
    BY <1>3
  <2>2. p \div W \in Nat /\ p % W \in Nat /\ p = W * (p \div W) + (p % W)
    BY <2>1, Place
  <2>3. i <= p \div W /\ (p \div W = i => p % W >= shift)
    <3>1. i <= p \div W
      BY <2>1, PlaceOrder
    <3>2. p \div W = i => (position <= p <=> shift <= p % W)
      BY <2>1, PlaceOrder
    <3> QED BY <1>4, <2>1, <2>2, <3>1, <3>2
  <2>4. p \div W <= last
    BY <1>2, <2>1, InArray DEF length
  <2>5. Bit(words, p)
    OBVIOUS
  <2>6. p \div W \in i..last
    BY <1>3, <1>4, <2>2, <2>3, <2>4
  <2> QED BY <2>1, <2>2, <2>3, <2>5, <2>6 DEF Bit
<1>8. ASSUME NEW k
      PROVE  k \in sr <=> k \in Nat /\ shift + k \in words[i]
  <2>1. k \in sr <=> \E j \in words[i] : j >= shift /\ k = j - shift
    BY DEF ShiftRight
  <2>2. i \in 0..last
    BY <1>3, <1>4, <1>5
  <2>3. \A j \in words[i] : j \in Nat
    BY <1>2, <1>3, <2>2 DEF Words, Ones
  <2> HIDE DEF sr, i, shift
  <2>4. ASSUME NEW j \in words[i], j >= shift, k = j - shift
        PROVE  k \in Nat /\ shift + k = j
    BY <1>4, <2>3, <2>4
  <2>5. k \in Nat => shift + k >= shift /\ k = (shift + k) - shift
    BY <1>4
  <2> QED BY <2>1, <2>4, <2>5
<1> HIDE DEF all, i, shift, sr, w, n
\* Nothing there.
<1>9. ASSUME all = {}
      PROVE  Find(b, words, position) = -1
  <2>1. sr = {}
    <3> SUFFICES ASSUME NEW k \in sr PROVE FALSE
      OBVIOUS
    <3>1. k \in Nat /\ shift + k \in words[i] /\ shift + k >= shift
      BY <1>4, <1>8
    <3>2. i \in i..last
      BY <1>3, <1>4, <1>5
    <3> QED BY <1>6, <1>9, <3>1, <3>2
  <2>2. later = {}
    <3> SUFFICES ASSUME NEW j \in later PROVE FALSE
      OBVIOUS
    <3>1. j \in i..last /\ j # i
      BY <1>3, <1>4
    <3>2. PICK r \in words[j] : TRUE
      OBVIOUS
    <3> HIDE DEF later
    <3> QED BY <1>6, <1>9, <3>1, <3>2
  <2>3. x = 0
    BY <2>1 DEF builtin_ffs
  <2>4. ~ (position >= w)
    BY <1>2
  <2> HIDE DEF later, x, found
  <2> QED BY <1>1, <2>2, <2>3, <2>4
\* The least one there.
<1>10. ASSUME NEW m \in all, m < w, \A p \in all : m <= p
       PROVE  Find(b, words, position) = m
  <2> DEFINE q == m \div W
             r == m % W
  <2>1. /\ m \in Nat /\ r \in words[q] /\ m = W * q + r
        /\ q \in Nat /\ r \in Nat /\ q \in i..last
        /\ (q = i => r >= shift)
    BY <1>7
  <2>2. ~ (position >= w)
    BY <1>2
  <2> HIDE DEF q, r
  <2>3. CASE q = i
    <3> DEFINE k == r - shift
    <3>1. k \in Nat /\ shift + k = r
      BY <1>4, <2>1, <2>3
    <3>2. k \in sr
      BY <1>8, <2>1, <2>3, <3>1
    <3>3. ASSUME NEW l \in sr PROVE k <= l
      <4>1. l \in Nat /\ shift + l \in words[i] /\ shift + l >= shift
        BY <1>4, <1>8
      <4>2. i \in i..last
        BY <1>3, <1>4, <1>5
      <4>3. W * i + (shift + l) \in all
        BY <1>6, <4>1, <4>2
      <4>4. m <= W * i + (shift + l)
        BY <1>10, <4>3
      <4> QED BY <1>4, <2>1, <2>3, <3>1, <4>1, <4>4
    <3>4. sr \in SUBSET Nat
      BY <1>8
    <3> HIDE DEF k
    <3>5. Min(sr) = k
      BY <3>2, <3>3, <3>4, MinIs
    <3>6. x = k + 1 /\ x # 0
      BY <3>1, <3>2, <3>5 DEF builtin_ffs
    <3>7. W * i + x - 1 + shift = m
      BY <1>4, <2>1, <2>3, <3>1, <3>6
    <3> HIDE DEF x, later, found
    <3> QED BY <1>1, <2>2, <3>6, <3>7
  <2>4. CASE q # i
    <3>1. q \in later
      BY <1>3, <1>4, <2>1, <2>4
    <3>2. sr = {}
      <4> SUFFICES ASSUME NEW l \in sr PROVE FALSE
        OBVIOUS
      <4>1. l \in Nat /\ shift + l \in words[i] /\ shift + l >= shift
        BY <1>4, <1>8
      <4>2. i \in i..last
        BY <1>3, <1>4, <1>5
      <4> DEFINE p == W * i + (shift + l)
      <4>3. p \in all /\ p \div W = i
        BY <1>6, <4>1, <4>2
      <4>4. p \in Nat /\ m <= p
        BY <1>4, <1>10, <4>1, <4>3
      <4>5. q <= i
        BY <2>1, <4>3, <4>4, PlaceOrder DEF q
      <4> QED BY <1>3, <1>4, <2>1, <2>4, <4>5
    <3>3. ASSUME NEW j \in later PROVE q <= j
      <4>1. j \in i..last /\ j # i /\ j \in Nat
        BY <1>3, <1>4
      <4>2. PICK s \in words[j] : TRUE
        OBVIOUS
      <4> DEFINE p == W * j + s
      <4> HIDE DEF later
      <4>3. p \in all /\ p \div W = j /\ s \in Nat /\ W * j \in Nat
        BY <1>6, <4>1, <4>2
      <4>4. p \in Nat /\ m <= p
        BY <1>10, <4>3
      <4> QED BY <2>1, <4>3, <4>4, PlaceOrder DEF q
    <3>4. later \in SUBSET Nat
      BY <1>3, <1>4
    <3> HIDE DEF later
    <3>5. Min(later) = q
      BY <3>1, <3>3, <3>4, MinIs
    <3>6. ASSUME NEW s \in words[q] PROVE s \in Nat /\ r <= s
      <4>1. W * q + s \in all /\ s \in Nat /\ W * q \in Nat
        BY <1>6, <2>1, <2>4
      <4>2. m <= W * q + s
        BY <1>10, <4>1
      <4> QED BY <2>1, <4>1, <4>2
    <3>7. words[q] \in SUBSET Nat
      BY <3>6
    <3>8. Min(words[q]) = r
      BY <2>1, <3>6, <3>7, MinIs
    <3>9. builtin_ffs(words[q]) = r + 1
      BY <2>1, <3>8 DEF builtin_ffs
    <3>10. found = m
      <4>1. W * q \in Nat
        BY <1>2, <2>1
      <4>2. found = W * q + (r + 1) - 1
        BY <3>5, <3>9
      <4> HIDE DEF found
      <4> QED BY <2>1, <4>1, <4>2
    <3>11. x = 0
      BY <3>2 DEF builtin_ffs
    <3>12. later # {} /\ ~ (m >= w)
      BY <1>2, <1>10, <2>1, <3>1
    <3> HIDE DEF found, x
    <3> QED BY <1>1, <2>2, <3>10, <3>11, <3>12
  <2> QED BY <2>3, <2>4
<1> QED BY <1>9, <1>10

(***************************************************************************)
(* The facts about one bitset that the queries rest on.                    *)
(***************************************************************************)
LEMMA BitsetIs ==
    ASSUME BInv, NEW b \in Names
    PROVE  /\ width[b] \in Widths /\ width[b] \in Nat \ {0} /\ bs[b] \in Words
           /\ length(b) \in Nat /\ length(b) >= 1
           /\ W * length(b) \in Nat /\ width[b] <= W * length(b)
           /\ \A q \in 0..(length(b) - 1) : q \in WordIndexes /\ q \in Nat
           /\ bits[b] = Bits(bs[b], width[b])
           /\ \A p : p \in bits[b] <=> p \in Nat /\ p < width[b] /\ Bit(bs[b], p)
<1>1. width[b] \in Widths /\ bs[b] \in Words /\ bits[b] = Bits(bs[b], width[b])
  BY DEF BInv
<1>2. width[b] \in Nat \ {0}
  BY <1>1, WordsThere
<1>3. /\ length(b) \in Nat /\ length(b) >= 1
      /\ W * length(b) \in Nat /\ width[b] <= W * length(b)
  BY <1>2, ArraySize DEF length
<1>4. \A q \in 0..(length(b) - 1) : q \in 0..length(b) /\ q \in Nat
  BY <1>3
<1>5. \A q \in 0..(length(b) - 1) : q \in WordIndexes /\ q \in Nat
  BY <1>1, <1>4, WordsThere DEF length
<1>6. \A p : p \in bits[b] <=> p \in Nat /\ p < width[b] /\ Bit(bs[b], p)
  <2>1. \A p : p \in 0..(width[b] - 1) <=> p \in Nat /\ p < width[b]
    BY <1>2
  <2> QED BY <1>1, <2>1 DEF Bits, Bit
<1> QED BY <1>1, <1>2, <1>3, <1>5, <1>6

(***************************************************************************)
(* A word of the array, after masking, holds what belongs to the set.      *)
(***************************************************************************)
LEMMA MaskedWord ==
    ASSUME BInv, NEW b \in Names, NEW q \in 0..(length(b) - 1)
    PROVE  /\ Masked(b)[q] \subseteq Ones
           /\ \A r \in Ones : /\ At(q, r) \in Nat
                              /\ At(q, r) \div W = q /\ At(q, r) % W = r
                              /\ r \in Masked(b)[q] <=> At(q, r) \in bits[b]
<1>1. /\ q \in WordIndexes /\ q \in Nat /\ length(b) \in Nat
      /\ \A p : p \in bits[b] <=> p \in Nat /\ p < width[b] /\ Bit(bs[b], p)
      /\ width[b] \in Nat \ {0}
  BY BitsetIs
<1>2. Masked(b) \in Words /\ \A i \in Nat : i < W * length(b) =>
                 (Bit(Masked(b), i) <=> i < width[b] /\ Bit(bs[b], i))
  BY MaskedIs
<1>3. Masked(b)[q] \subseteq Ones
  BY <1>1, <1>2 DEF Words
<1>4. ASSUME NEW r \in Ones
      PROVE  /\ At(q, r) \in Nat
             /\ At(q, r) \div W = q /\ At(q, r) % W = r
             /\ r \in Masked(b)[q] <=> At(q, r) \in bits[b]
  <2> DEFINE i == At(q, r)
  <2>1. i \in Nat /\ i \div W = q /\ i % W = r
    BY <1>1, PlaceIs DEF At
  <2>2. i < W * length(b)
    <3>1. q <= length(b) - 1
      BY <1>1
    <3> QED BY <1>1, <2>1, <3>1, InArray DEF length
  <2> HIDE DEF i
  <2>3. r \in Masked(b)[q] <=> Bit(Masked(b), i)
    BY <2>1 DEF Bit
  <2>4. r \in Masked(b)[q] <=> i \in bits[b]
    BY <1>1, <1>2, <2>1, <2>2, <2>3
  <2> QED BY <2>1, <2>4 DEF i
<1> QED BY <1>3, <1>4

(***************************************************************************)
(* The searches are exact whenever the invariant holds.                    *)
(***************************************************************************)
LEMMA InvSearches == BInv => SearchesExact
<1> SUFFICES ASSUME BInv, NEW b \in Names, NEW position \in -1..(width[b] - 1)
             PROVE  LET after == (position + 1)..(width[b] - 1)
                        set   == after \cap bits[b]
                        clear == after \ bits[b]
                    IN  /\ bf_bs_first_set(b, position) = Least(set)
                        /\ clear # {} => bf_bs_first_clr(b, position) = Least(clear)
  BY DEF SearchesExact
<1> DEFINE w     == width[b]
           n     == length(b)
           start == position + 1
           after == start..(w - 1)
           set   == after \cap bits[b]
           clear == after \ bits[b]
           one   == Masked(b)
           zero  == [i \in WordIndexes |-> Ones \ Masked(b)[i]]
           All(words) == {p \in start..(W * n - 1) : Bit(words, p)}
<1>1. /\ w \in Widths /\ w \in Nat \ {0} /\ n \in Nat /\ n >= 1
      /\ W * n \in Nat /\ w <= W * n
      /\ \A p : p \in bits[b] <=> p \in Nat /\ p < w /\ Bit(bs[b], p)
      /\ \A q \in 0..(n - 1) : q \in WordIndexes /\ q \in Nat
  BY BitsetIs
<1>2. start \in Nat /\ start <= w
  BY <1>1
<1>3. one \in Words /\ \A p \in Nat : p < W * n => (Bit(one, p) <=> p \in bits[b])
  BY <1>1, MaskedIs
<1>4. /\ zero \in Words
      /\ \A p \in Nat : p < W * n => (Bit(zero, p) <=> p \notin bits[b])
  <2>1. zero \in Words
    BY DEF Words
  <2>2. ASSUME NEW p \in Nat, p < W * n
        PROVE  Bit(zero, p) <=> ~ Bit(one, p)
    <3>1. p \div W \in Nat /\ p % W \in Ones
      BY Place
    <3>2. p \div W <= n - 1
      BY <1>1, <2>2, InArray DEF length
    <3>3. p \div W \in 0..(n - 1)
      BY <1>1, <3>1, <3>2
    <3>4. p \div W \in WordIndexes
      BY <1>1, <3>3
    <3>5. zero[p \div W] = Ones \ one[p \div W]
      BY <3>4
    <3> HIDE DEF zero, one
    <3> QED BY <3>1, <3>5 DEF Bit
  <2> QED BY <1>3, <2>1, <2>2
<1>5. /\ bf_bs_first_set(b, position) = Find(b, one, start)
      /\ bf_bs_first_clr(b, position) = Find(b, zero, start)
  BY DEF bf_bs_first_set, bf_bs_first_clr
<1> HIDE DEF one, zero
<1>6. ASSUME NEW words \in Words
      PROVE  /\ start >= w => Find(b, words, start) = -1
             /\ start < w /\ All(words) = {} => Find(b, words, start) = -1
             /\ \A m \in All(words) :
                    start < w /\ m < w /\ (\A p \in All(words) : m <= p)
                    => Find(b, words, start) = m
  BY <1>2, FindIs
<1>7. bf_bs_first_set(b, position) = Least(set)
  <2>1. All(one) = set
    <3>1. \A p : p \in All(one) <=> p \in Nat /\ p >= start /\ p < W * n /\ p \in bits[b]
      BY <1>1, <1>2, <1>3
    <3>2. \A p : p \in set <=> p \in Nat /\ p >= start /\ p < w /\ p \in bits[b]
      BY <1>1, <1>2
    <3> HIDE DEF All, set, w, n, start
    <3>3. \A p \in Nat : p < w => p < W * n
      BY <1>1
    <3> QED BY <1>1, <3>1, <3>2, <3>3
  <2>2. CASE set = {}
    <3>1. Find(b, one, start) = -1
      <4> HIDE DEF All, set, w, start
      <4>1. start >= w \/ start < w
        BY <1>1, <1>2
      <4> QED BY <1>3, <1>6, <2>1, <2>2, <4>1
    <3> QED BY <1>5, <2>2, <3>1 DEF Least
  <2>3. CASE set # {}
    <3>1. set \in SUBSET Nat /\ \A p \in set : p < w /\ start <= p
      BY <1>1, <1>2
    <3> HIDE DEF All, set, w, start
    <3>2. Min(set) \in set /\ \A p \in set : Min(set) <= p
      BY <2>3, <3>1, MinOfNats
    <3>3. start < w /\ Min(set) < w
      <4>1. Min(set) \in Nat /\ Min(set) < w /\ start <= Min(set)
        BY <3>1, <3>2
      <4> QED BY <1>1, <1>2, <4>1
    <3>4. Find(b, one, start) = Min(set)
      BY <1>3, <1>6, <2>1, <3>2, <3>3
    <3> QED BY <1>5, <2>3, <3>4 DEF Least
  <2> QED BY <2>2, <2>3
<1>8. ASSUME clear # {}
      PROVE  bf_bs_first_clr(b, position) = Least(clear)
  <2>1. clear \in SUBSET Nat /\ \A p \in clear : p < w /\ start <= p /\ p \notin bits[b]
    BY <1>1, <1>2
  <2>2. Min(clear) \in clear /\ \A p \in clear : Min(clear) <= p
    <3> HIDE DEF clear
    <3> QED BY <1>8, <2>1, MinOfNats
  <2> DEFINE m == Min(clear)
  <2>3. m \in Nat /\ m < w /\ start <= m /\ m \notin bits[b] /\ m < W * n
    <3>1. m \in Nat /\ m < w /\ start <= m /\ m \notin bits[b]
      BY <2>1, <2>2
    <3> HIDE DEF m
    <3> QED BY <1>1, <3>1
  <2>4. m \in All(zero)
    <3> HIDE DEF m
    <3>1. m \in start..(W * n - 1) /\ Bit(zero, m)
      BY <1>1, <1>2, <1>4, <2>3
    <3> QED BY <3>1
  <2>5. ASSUME NEW p \in All(zero) PROVE m <= p
    <3>1. p \in Nat /\ p >= start /\ p < W * n /\ Bit(zero, p)
      BY <1>1, <1>2
    <3>2. p \notin bits[b]
      BY <1>4, <3>1
    <3>3. CASE p < w
      <4>1. p \in clear
        BY <1>1, <1>2, <3>1, <3>2, <3>3
      <4> QED BY <2>2, <4>1
    <3>4. CASE ~ (p < w)
      <4> HIDE DEF m
      <4> QED BY <1>1, <2>3, <3>1, <3>4
    <3> QED BY <3>3, <3>4
  <2>6. start < w
    <3> HIDE DEF m
    <3> QED BY <1>1, <1>2, <2>3
  <2>7. Find(b, zero, start) = m
    <3> HIDE DEF m, All
    <3> QED BY <1>4, <1>6, <2>3, <2>4, <2>5, <2>6
  <2> QED BY <1>5, <1>8, <2>7 DEF Least
<1> QED BY <1>7, <1>8

(***************************************************************************)
(* bf_bs_pop_count counts the bits word by word: their sum is the number   *)
(* of the bits.                                                            *)
(***************************************************************************)
LEMMA CountIs ==
    ASSUME BInv, NEW b \in Names
    PROVE  bf_bs_pop_count(b) = Cardinality(bits[b])
<1> DEFINE w == width[b]
           n == length(b)
           S == 0..(n - 1)
           F == [i \in WordIndexes |-> Cardinality(Masked(b)[i])]
           In(s) == {p \in bits[b] : p \div W \in s}
           h == [s \in SUBSET S |-> Cardinality(In(s))]
<1>1. /\ w \in Widths /\ w \in Nat \ {0} /\ n \in Nat /\ n >= 1
      /\ \A p : p \in bits[b] <=> p \in Nat /\ p < w /\ Bit(bs[b], p)
      /\ \A q \in 0..(n - 1) : q \in WordIndexes /\ q \in Nat
  BY BitsetIs
<1>2. IsFiniteSet(bits[b])
  <2>1. 0 \in Int /\ w - 1 \in Int
    BY <1>1
  <2>2. IsFiniteSet(0..(w - 1))
    BY <2>1, FS_Interval
  <2>3. bits[b] \in SUBSET (0..(w - 1))
    BY <1>1
  <2> QED BY <2>2, <2>3, FS_Subset
<1>3. ASSUME NEW s PROVE IsFiniteSet(In(s))
  <2>1. In(s) \in SUBSET bits[b]
    OBVIOUS
  <2> HIDE DEF In
  <2> QED BY <1>2, <2>1, FS_Subset
<1>4. ASSUME NEW x \in S
      PROVE  F[x] = Cardinality(In({x}))
  <2>1. /\ Masked(b)[x] \subseteq Ones
        /\ \A r \in Ones : /\ At(x, r) \in Nat
                           /\ At(x, r) \div W = x /\ At(x, r) % W = r
                           /\ r \in Masked(b)[x] <=> At(x, r) \in bits[b]
    BY MaskedWord
  <2> DEFINE word == Masked(b)[x]
             g == [r \in word |-> At(x, r)]
  <2>2. ASSUME NEW r \in word PROVE At(x, r) \in In({x}) /\ At(x, r) % W = r
    <3>1. r \in Ones
      BY <2>1
    <3>2. At(x, r) \in bits[b] /\ At(x, r) \div W = x /\ At(x, r) % W = r
      BY <2>1, <3>1
    <3> QED BY <3>2
  <2>3. \A p \in In({x}) : p % W \in word /\ At(x, p % W) = p
    <3> SUFFICES ASSUME NEW p \in In({x}) PROVE p % W \in word /\ At(x, p % W) = p
      OBVIOUS
    <3>1. p \in Nat /\ p \div W = x /\ p \in bits[b]
      BY <1>1
    <3>2. p % W \in Ones /\ p = At(x, p % W)
      BY <3>1, Place DEF At
    <3> QED BY <2>1, <3>1, <3>2
  <2> HIDE DEF word, In
  <2>4. g \in Bijection(word, In({x}))
    <3>1. g \in [word -> In({x})]
      BY <2>2
    <3>2. ASSUME NEW r1 \in word, NEW r2 \in word, g[r1] = g[r2] PROVE r1 = r2
      <4>1. At(x, r1) % W = r1 /\ At(x, r2) % W = r2
        BY <2>2
      <4>2. At(x, r1) = At(x, r2)
        BY <3>2
      <4> QED BY <4>1, <4>2
    <3>3. \A p \in In({x}) : \E r \in word : g[r] = p
      BY <2>3
    <3>4. DOMAIN g = word
      OBVIOUS
    <3> HIDE DEF g
    <3>5. IsInjective(g)
      BY <3>2, <3>4 DEF IsInjective
    <3> QED BY <3>1, <3>3, <3>5 DEF Bijection, Injection, Surjection
  <2>5. IsFiniteSet(word)
    <3>1. W - 1 \in Int
      BY WidthAssumption
    <3>2. IsFiniteSet(Ones)
      BY <3>1, FS_Interval DEF Ones
    <3>3. word \in SUBSET Ones
      BY <2>1 DEF word
    <3> QED BY <3>2, <3>3, FS_Subset
  <2>6. ExistsBijection(word, In({x}))
    BY <2>4 DEF ExistsBijection
  <2>7. Cardinality(In({x})) = Cardinality(word)
    BY <2>5, <2>6, FS_Bijection
  <2>8. F[x] = Cardinality(word)
    BY <1>1 DEF word
  <2> QED BY <2>7, <2>8
<1>5. ASSUME NEW s \in SUBSET S, NEW x \in s
      PROVE  h[s] = F[x] + h[s \ {x}]
  <2>1. In(s) = In({x}) \cup In(s \ {x}) /\ In({x}) \cap In(s \ {x}) = {}
    OBVIOUS
  <2>2. h[s] = Cardinality(In(s)) /\ h[s \ {x}] = Cardinality(In(s \ {x}))
    OBVIOUS
  <2>3. x \in S
    OBVIOUS
  <2>4. F[x] = Cardinality(In({x}))
    BY <1>4, <2>3
  <2>5. IsFiniteSet(In({x})) /\ IsFiniteSet(In(s \ {x}))
    BY <1>3
  <2> HIDE DEF In, h, F
  <2>6. Cardinality(In(s)) = Cardinality(In({x})) + Cardinality(In(s \ {x}))
                             - Cardinality({})
    BY <2>1, <2>5, FS_Union
  <2>7. Cardinality({}) = 0 /\ Cardinality(In({x})) \in Nat /\ Cardinality(In(s \ {x})) \in Nat
    BY <2>5, FS_EmptySet, FS_CardinalityType
  <2> QED BY <2>2, <2>4, <2>6, <2>7
<1>6. h[{}] = 0
  <2>1. In({}) = {}
    OBVIOUS
  <2>2. h[{}] = Cardinality(In({}))
    OBVIOUS
  <2> HIDE DEF h, In
  <2> QED BY <2>1, <2>2, FS_EmptySet
<1>7. IsFiniteSet(S)
  <2>1. n - 1 \in Int
    BY <1>1
  <2> QED BY <2>1, FS_Interval
<1>8. In(S) = bits[b]
  <2>1. ASSUME NEW p \in bits[b] PROVE p \div W \in S
    <3>1. p \in Nat /\ p < w
      BY <1>1
    <3>2. p \div W \in Nat /\ p \div W < n
      BY <1>1, <3>1, InWords DEF length
    <3> QED BY <1>1, <3>2
  <2> QED BY <2>1
<1>9. h[S] = Cardinality(bits[b])
  BY <1>8
<1>10. bf_bs_pop_count(b) = SumFunctionOnSet(F, S)
  BY DEF bf_bs_pop_count
<1> HIDE DEF F, h, S
<1> QED BY <1>5, <1>6, <1>7, <1>9, <1>10, SumIs

(***************************************************************************)
(* The other queries look at every word of the array.                      *)
(***************************************************************************)
LEMMA AllClearIs ==
    ASSUME BInv, NEW b \in Names
    PROVE  bf_bs_all_0s(b) <=> bits[b] = {}
<1> DEFINE n == length(b)
<1>1. /\ width[b] \in Widths /\ n \in Nat
      /\ \A p : p \in bits[b] <=> p \in Nat /\ p < width[b] /\ Bit(bs[b], p)
  BY BitsetIs
<1>2. ASSUME NEW q \in 0..(n - 1), NEW r \in Masked(b)[q] PROVE bits[b] # {}
  BY MaskedWord
<1>3. ASSUME NEW p \in bits[b]
      PROVE  p \div W \in 0..(n - 1) /\ p % W \in Masked(b)[p \div W]
  <2>1. p \in Nat /\ p < width[b]
    BY <1>1
  <2>2. p \div W \in Nat /\ p \div W < n
    BY <1>1, <2>1, InWords DEF length
  <2>3. p \div W \in 0..(n - 1)
    BY <1>1, <2>2
  <2>4. p % W \in Ones /\ p = At(p \div W, p % W)
    BY <2>1, Place DEF At
  <2>5. p % W \in Masked(b)[p \div W] <=> At(p \div W, p % W) \in bits[b]
    BY <2>3, <2>4, MaskedWord
  <2> QED BY <2>3, <2>4, <2>5
<1> QED BY <1>2, <1>3 DEF bf_bs_all_0s

(***************************************************************************)
(* bf_bs_all_1s, when the unused bits are clear.                           *)
(***************************************************************************)
LEMMA AllSetIs ==
    ASSUME BInv, NEW b \in Names, UnusedClear(b)
    PROVE  bf_bs_all_1s(b) <=> bits[b] = 0..(width[b] - 1)
<1> DEFINE w == width[b]
           n == length(b)
<1>1. /\ w \in Widths /\ w \in Nat \ {0} /\ n \in Nat /\ n >= 1
      /\ \A p : p \in bits[b] <=> p \in Nat /\ p < w /\ Bit(bs[b], p)
      /\ bs[b] = Masked(b)
  BY BitsetIs DEF UnusedClear
<1>2. \A q \in 0..(n - 1) :
        /\ bs[b][q] \subseteq Ones
        /\ \A r \in Ones : /\ At(q, r) \in Nat
                           /\ At(q, r) \div W = q /\ At(q, r) % W = r
                           /\ r \in bs[b][q] <=> At(q, r) \in bits[b]
  BY <1>1, MaskedWord
<1>3. /\ top_word_mask(b) \subseteq Ones
      /\ \A r \in Ones : r \in top_word_mask(b) <=> At(n - 1, r) < w
  BY <1>1, MaskIs DEF At
<1>4. bs[b][n - 1] \subseteq top_word_mask(b)
  <2>1. Masked(b)[n - 1] = bs[b][n - 1] \cap top_word_mask(b)
    BY MaskedIs
  <2> QED BY <1>1, <2>1
<1>5. ASSUME bf_bs_all_1s(b) PROVE bits[b] = 0..(w - 1)
  <2>1. ASSUME NEW p \in Nat, p < w PROVE p \in bits[b]
    <3> DEFINE q == p \div W
               r == p % W
    <3>1. q \in Nat /\ q < n /\ r \in Ones /\ p = At(q, r)
      BY <1>1, <2>1, InWords, Place DEF length, At
    <3>2. q \in 0..(n - 1) /\ (q # n - 1 => q \in 0..(n - 2))
      BY <1>1, <3>1
    <3> HIDE DEF q, r, w
    <3>3. CASE q = n - 1
      <4>1. r \in bs[b][q]
        BY <1>3, <1>5, <2>1, <3>1, <3>3 DEF bf_bs_all_1s
      <4> QED BY <1>2, <3>1, <3>2, <4>1
    <3>4. CASE q # n - 1
      <4>1. bs[b][q] = Ones
        BY <1>5, <3>2, <3>4 DEF bf_bs_all_1s
      <4> QED BY <1>2, <3>1, <3>2, <4>1
    <3> QED BY <3>3, <3>4
  <2>2. \A p : p \in 0..(w - 1) <=> p \in Nat /\ p < w
    BY <1>1
  <2> HIDE DEF w
  <2> QED BY <1>1, <2>1, <2>2
<1>6. ASSUME bits[b] = 0..(w - 1) PROVE bf_bs_all_1s(b)
  <2>1. ASSUME NEW q \in 0..(n - 2) PROVE bs[b][q] = Ones
    <3>1. q \in 0..(n - 1) /\ q < n - 1
      BY <1>1
    <3>2. ASSUME NEW r \in Ones PROVE r \in bs[b][q]
      <4> DEFINE i == At(q, r)
      <4>1. i \in Nat /\ i \div W = q
        BY <1>2, <3>1
      <4>2. i < w
        BY <1>1, <3>1, <4>1, InArray DEF length
      <4> HIDE DEF i
      <4>3. i \in bits[b]
        BY <1>1, <1>6, <4>1, <4>2
      <4> QED BY <1>2, <3>1, <4>3 DEF i
    <3> QED BY <1>2, <3>1, <3>2
  <2>2. bs[b][n - 1] = top_word_mask(b)
    <3>1. n - 1 \in 0..(n - 1)
      BY <1>1
    <3>2. ASSUME NEW r \in top_word_mask(b) PROVE r \in bs[b][n - 1]
      <4>1. r \in Ones
        BY <1>3
      <4> DEFINE i == At(n - 1, r)
      <4>2. i \in Nat /\ i < w
        BY <1>2, <1>3, <3>1, <4>1
      <4> HIDE DEF i
      <4>3. i \in bits[b]
        BY <1>1, <1>6, <4>2
      <4> QED BY <1>2, <3>1, <4>1, <4>3 DEF i
    <3> QED BY <1>4, <3>2
  <2> QED BY <2>1, <2>2 DEF bf_bs_all_1s
<1> QED BY <1>5, <1>6

(***************************************************************************)
(* bf_bs_equal compares the words of the two bitsets as bf_bs_get_word     *)
(* returns them.                                                           *)
(***************************************************************************)
LEMMA EqualIs ==
    ASSUME BInv, NEW b \in Names, NEW c \in Names
    PROVE  bf_bs_equal(b, c) <=> width[b] = width[c] /\ bits[b] = bits[c]
<1> SUFFICES ASSUME width[b] = width[c]
             PROVE  bf_bs_equal(b, c) <=> bits[b] = bits[c]
  BY DEF bf_bs_equal
<1> DEFINE w == width[b]
           n == length(b)
           Word(x, i) == GetWord(Masked(x), w, i * W, W)
<1>1. /\ w \in Widths /\ w \in Nat \ {0} /\ n \in Nat /\ n >= 1 /\ w <= W * n
      /\ W * n \in Nat /\ n = length(c) /\ W \in Nat /\ W > 0 /\ W * (n - 1) < w
      /\ W * (n - 1) \in Nat
  <2>1. /\ w \in Widths /\ w \in Nat \ {0} /\ n \in Nat /\ n >= 1 /\ w <= W * n
        /\ W * n \in Nat
    BY BitsetIs
  <2>2. n = length(c)
    BY DEF length
  <2>3. W * (n - 1) < w /\ W * (n - 1) \in Nat
    BY <2>1, ArraySize DEF length
  <2>4. W \in Nat /\ W > 0
    BY WidthAssumption
  <2> QED BY <2>1, <2>2, <2>3, <2>4
<1>2. ASSUME NEW x \in {b, c}, NEW i \in 0..(n - 1), NEW k \in Ones
      PROVE  k \in Word(x, i) <=> W * i + k \in bits[x]
  <2>1. x \in Names /\ width[x] = w /\ length(x) = n
    BY <1>1
  <2>2. i \in Nat /\ i * W = W * i /\ W * i \in Nat /\ k \in Nat /\ k < W
    BY <1>1 DEF Ones
  <2>3. W * i < w
    <3>1. 0 \in Ones /\ W * i + 0 = W * i
      BY <1>1, <2>2 DEF Ones
    <3>2. (W * i) \div W = i
      BY <2>2, <3>1, PlaceIs
    <3>3. CASE i < n - 1
      BY <1>1, <2>2, <3>2, <3>3, InArray DEF length
    <3>4. CASE i = n - 1
      BY <1>1, <3>4
    <3> QED BY <1>1, <3>3, <3>4
  <2>4. Masked(x) \in Words
    BY <2>1, MaskedIs
  <2>5. W \in 1..W
    BY <1>1
  <2>6. Word(x, i) = {j \in LowBits(W) : W * i + j < w /\ Bit(Masked(x), W * i + j)}
    BY <1>1, <2>2, <2>3, <2>4, <2>5, GetWordIs
  <2>7. k \in LowBits(W)
    BY DEF LowBits, Ones
  <2>8. k \in Masked(x)[i] <=> W * i + k \in bits[x]
    BY <2>1, MaskedWord DEF At
  <2>9. Bit(Masked(x), W * i + k) <=> k \in Masked(x)[i]
    BY <2>2, PlaceIs DEF Bit
  <2>10. W * i + k \in bits[x] => W * i + k < w
    BY <2>1, BitsetIs
  <2> HIDE DEF Word
  <2> QED BY <2>6, <2>7, <2>8, <2>9, <2>10
<1>3. ASSUME NEW x \in {b, c}, NEW i \in 0..(n - 1)
      PROVE  Word(x, i) \subseteq Ones
  <2>1. Word(x, i) \subseteq LowBits(LesserOf(w - i * W, W))
    BY DEF GetWord
  <2>2. LowBits(LesserOf(w - i * W, W)) \subseteq Ones
    <3>1. i * W \in Int
      BY <1>1
    <3> DEFINE y == i * W
    <3> HIDE DEF y
    <3>2. y \in Int
      BY <3>1 DEF y
    <3>3. LowBits(LesserOf(w - y, W)) \subseteq Ones
      BY <1>1, <3>2 DEF LowBits, LesserOf, Ones
    <3> QED BY <3>3 DEF y
  <2> QED BY <2>1, <2>2
<1>4. bf_bs_equal(b, c) <=> \A i \in 0..(n - 1) : Word(b, i) = Word(c, i)
  BY DEF bf_bs_equal
<1>5. ASSUME NEW x \in {b, c}, NEW p \in bits[x]
      PROVE  p \div W \in 0..(n - 1) /\ p % W \in Ones /\ p = W * (p \div W) + (p % W)
  <2>1. p \in Nat /\ p < w
    BY BitsetIs
  <2>2. p \div W \in Nat /\ p \div W < n
    BY <1>1, <2>1, InWords DEF length
  <2> QED BY <1>1, <2>1, <2>2, Place
<1>6. bf_bs_equal(b, c) => bits[b] = bits[c]
  <2> HIDE DEF Word, n
  <2> SUFFICES ASSUME bf_bs_equal(b, c), NEW p PROVE p \in bits[b] <=> p \in bits[c]
    OBVIOUS
  <2>1. ASSUME NEW x \in {b, c}, NEW y \in {b, c}, p \in bits[x] PROVE p \in bits[y]
    <3>1. p \div W \in 0..(n - 1) /\ p % W \in Ones /\ p = W * (p \div W) + (p % W)
      BY <1>5, <2>1
    <3>2. p % W \in Word(x, p \div W)
      BY <1>2, <2>1, <3>1
    <3>3. Word(x, p \div W) = Word(y, p \div W)
      BY <1>4, <3>1
    <3> QED BY <1>2, <3>1, <3>2, <3>3
  <2> QED BY <2>1
<1>7. bits[b] = bits[c] => bf_bs_equal(b, c)
  <2> HIDE DEF Word, n
  <2> SUFFICES ASSUME bits[b] = bits[c], NEW i \in 0..(n - 1)
               PROVE  Word(b, i) = Word(c, i)
    BY <1>4
  <2>1. \A k \in Ones : k \in Word(b, i) <=> k \in Word(c, i)
    BY <1>2
  <2> QED BY <1>3, <2>1
<1> QED BY <1>6, <1>7

(***************************************************************************)
(* The counts and comparisons are exact whenever the invariant holds.      *)
(***************************************************************************)
LEMMA InvCounts == BInv => CountsExact
BY CountIs, AllClearIs, AllSetIs, EqualIs DEF CountsExact

-----------------------------------------------------------------------------
(***************************************************************************)
(* Theorems                                                                *)
(***************************************************************************)

(***************************************************************************)
(* The invariant: in every reachable state the words are words, and what   *)
(* they hold below the width is what the calls have made of the bitset.    *)
(***************************************************************************)
THEOREM Invariance == Spec => []BInv
<1>1. Init => BInv
  <2> SUFFICES ASSUME Init PROVE BInv
    OBVIOUS
  <2>1. bs \in [Names -> Words] /\ \A b \in Names : bs[b] = [i \in WordIndexes |-> {}]
    BY DEF Init, Words
  <2>2. ASSUME NEW b \in Names PROVE Bits(bs[b], width[b]) = {}
    <3>1. width[b] \in Widths
      BY DEF Init
    <3>2. width[b] \in Nat \ {0}
      BY <3>1, WordsThere
    <3>3. \A i \in 0..(width[b] - 1) : i \div W \in WordIndexes
      BY <3>1, <3>2, InWords
    <3> QED BY <2>1, <3>3 DEF Bits
  <2>3. bits = [b \in Names |-> Bits(bs[b], width[b])]
    BY <2>2 DEF Init
  <2> QED BY <2>1, <2>3 DEF Init, BInv
<1>2. BInv /\ [Next]_vars => BInv'
  <2>1. ASSUME BInv, UNCHANGED vars PROVE BInv'
    BY <2>1 DEF BInv, vars
  <2> QED BY <2>1, StepKeeps
<1> QED BY <1>1, <1>2, PTL DEF Spec

(***************************************************************************)
(* After any sequence of calls of bitset.c the words hold just the bits    *)
(* that the calls wrote, where bf_bs_copy_range counts as the reads and    *)
(* writes it consists of, whatever range it was given.                     *)
(***************************************************************************)
THEOREM AlwaysHoldsBits == Spec => []HoldsBits
<1>1. BInv => HoldsBits
  <2> SUFFICES ASSUME BInv PROVE HoldsBits
    OBVIOUS
  <2>1. ASSUME NEW b \in Names
        PROVE  /\ Bits(bs[b], width[b]) = bits[b]
               /\ \A i \in 0..(width[b] - 1) : bf_bs_get(b, i) <=> i \in bits[b]
    BY DEF BInv, Bits, bf_bs_get
  <2> QED BY <2>1 DEF BInv, HoldsBits
<1> QED BY <1>1, Invariance, PTL

(***************************************************************************)
(* bf_bs_first_set always finds the first set bit after position, which is *)
(* not itself looked at; bf_bs_first_clr the first clear one, if any.      *)
(***************************************************************************)
THEOREM SearchesAlwaysExact == Spec => []SearchesExact
BY Invariance, InvSearches, PTL

(***************************************************************************)
(* bf_bs_pop_count, bf_bs_all_0s and bf_bs_equal always answer for the set *)
(* and not for what the memory holds besides; bf_bs_all_1s does when the   *)
(* unused bits of the last word are clear.                                 *)
(***************************************************************************)
THEOREM CountsAlwaysExact == Spec => []CountsExact
BY Invariance, InvCounts, PTL

(***************************************************************************)
(* No call writes past the end of the array, except that bf_bs_copy may    *)
(* clear the word after it, and none sets an unused bit.                   *)
(***************************************************************************)
THEOREM PastEndAlwaysKept == Spec => PastEndKept
<1>1. BInv /\ [Next]_vars => [StepKeepsPastEnd]_vars
  BY StepKeeps
<1>2. Spec => [][StepKeepsPastEnd]_vars
  BY <1>1, Invariance, PTL DEF Spec
<1> QED BY <1>2 DEF PastEndKept, StepKeepsPastEnd, KeepsPastEnd
=============================================================================
