---------------------------- MODULE DListProofs ----------------------------
(***************************************************************************)
(* Proofs about DList, for every set of elements and every set of lists:   *)
(* the macros of bf_list.h keep the pointers of every list spelling, in    *)
(* both directions, what has been put into it.                             *)
(*                                                                         *)
(* One lemma per macro says what it does to a single chain of elements;    *)
(* the invariant then follows because no element is in two places.         *)
(***************************************************************************)
EXTENDS DList, Integers, SequenceTheorems, TLAPS

Pointers == [Elements -> Elements \cup {NULL}]

\* No element occurs twice in a sequence.
Distinct(s) == \A i, j \in 1..Len(s) : s[i] = s[j] => i = j

\* The pointers nx and pv, from h on, spell the sequence s: nx leads from each
\* element to its successor and pv back, nx from the last one to NULL, and pv
\* from the first to the last.
Spells(s, h, nx, pv) ==
    /\ Len(s) = 0 => h = NULL
    /\ Len(s) > 0 => h = s[1] /\ nx[s[Len(s)]] = NULL /\ pv[s[1]] = s[Len(s)]
    /\ \A i \in 1..(Len(s) - 1) : nx[s[i]] = s[i + 1] /\ pv[s[i + 1]] = s[i]

\* Two pairs of pointers agree on every element that is not in S.
AgreeOutside(S, nx, pv, nx2, pv2) ==
    \A x \in Elements \ S : nx2[x] = nx[x] /\ pv2[x] = pv[x]

Typed ==
    /\ head \in [Lists -> Elements \cup {NULL}]
    /\ n \in Pointers /\ p \in Pointers
    /\ list \in [Lists -> Seq(Elements)]

\* An element is in one list at most, and there in one place.
OnePlace ==
    /\ \A l \in Lists : Distinct(list[l])
    /\ \A l, m \in Lists : l # m => Members(list[l]) \cap Members(list[m]) = {}

AllSpelt == \A l \in Lists : Spells(list[l], head[l], n, p)

\* An element that is in no list has no pointers.
Unlinked == \A e \in Elements \ Listed : n[e] = NULL /\ p[e] = NULL

DInv == Typed /\ OnePlace /\ AllSpelt /\ Unlinked

-----------------------------------------------------------------------------
(***************************************************************************)
(* Sequences                                                               *)
(***************************************************************************)

(***************************************************************************)
(* The members of a sequence of elements are elements.                     *)
(***************************************************************************)
LEMMA SeqFacts ==
    ASSUME NEW s \in Seq(Elements)
    PROVE  /\ Len(s) \in Nat
           /\ Len(s) = 0 \/ Len(s) = 1 \/ Len(s) > 1
           /\ \A i \in 1..Len(s) : s[i] \in Elements /\ s[i] \in Members(s)
           /\ \A e \in Members(s) : \E i \in 1..Len(s) : e = s[i]
           /\ Members(s) \subseteq Elements
           /\ s = <<>> <=> Len(s) = 0
<1>1. Len(s) \in Nat
  BY LenProperties
<1>2. \A i \in 1..Len(s) : s[i] \in Elements
  BY ElementOfSeq
<1>3. s = <<>> <=> Len(s) = 0
  BY <1>1, EmptySeq
<1>4. \A m \in Nat : m = 0 \/ m = 1 \/ m > 1
  OBVIOUS
<1>5. Len(s) = 0 \/ Len(s) = 1 \/ Len(s) > 1
  BY <1>1, <1>4
<1> QED BY <1>1, <1>2, <1>3, <1>5 DEF Members

(***************************************************************************)
(* A list of one element.                                                  *)
(***************************************************************************)
LEMMA Singleton ==
    ASSUME NEW e \in Elements
    PROVE  /\ <<e>> \in Seq(Elements) /\ Len(<<e>>) = 1 /\ <<e>>[1] = e
           /\ Distinct(<<e>>)
           /\ Members(<<e>>) = {e}
BY DEF Distinct, Members

(***************************************************************************)
(* Two sequences one after the other, when they share no element.          *)
(***************************************************************************)
LEMMA Concatenated ==
    ASSUME NEW a \in Seq(Elements), NEW b \in Seq(Elements),
           Distinct(a), Distinct(b), Members(a) \cap Members(b) = {}
    PROVE  /\ a \o b \in Seq(Elements)
           /\ Len(a \o b) = Len(a) + Len(b)
           /\ \A i \in 1..Len(a) : (a \o b)[i] = a[i]
           /\ \A i \in 1..Len(b) : (a \o b)[Len(a) + i] = b[i]
           /\ Distinct(a \o b)
           /\ Members(a \o b) = Members(a) \cup Members(b)
<1> DEFINE t == a \o b
<1>1. Len(a) \in Nat /\ Len(b) \in Nat
  BY SeqFacts
<1>2. /\ t \in Seq(Elements)
      /\ Len(t) = Len(a) + Len(b)
      /\ \A i \in 1..(Len(a) + Len(b)) :
           t[i] = IF i <= Len(a) THEN a[i] ELSE b[i - Len(a)]
  BY ConcatProperties
<1> HIDE DEF t
<1>3. ASSUME NEW i \in 1..Len(a) PROVE i \in 1..Len(t) /\ t[i] = a[i]
  BY <1>1, <1>2
<1>4. ASSUME NEW i \in 1..Len(b)
      PROVE  Len(a) + i \in 1..Len(t) /\ t[Len(a) + i] = b[i]
  <2>1. /\ Len(a) + i \in 1..(Len(a) + Len(b))
        /\ ~(Len(a) + i <= Len(a)) /\ (Len(a) + i) - Len(a) = i
    BY <1>1
  <2> QED BY <1>2, <2>1
<1>5. ASSUME NEW i \in 1..Len(t)
      PROVE  \/ i \in 1..Len(a) /\ t[i] = a[i]
             \/ \E j \in 1..Len(b) : i = Len(a) + j /\ t[i] = b[j]
  <2>1. CASE i <= Len(a)
    BY <1>1, <1>2, <2>1
  <2>2. CASE ~(i <= Len(a))
    <3>1. i - Len(a) \in 1..Len(b) /\ i = Len(a) + (i - Len(a))
      BY <1>1, <1>2, <2>2
    <3> QED BY <1>2, <2>2, <3>1
  <2> QED BY <2>1, <2>2
<1>6. \A i \in 1..Len(a), j \in 1..Len(b) : a[i] # b[j]
  BY DEF Members
<1>7. Distinct(t)
  <2> SUFFICES ASSUME NEW i \in 1..Len(t), NEW j \in 1..Len(t), t[i] = t[j]
               PROVE  i = j
    BY DEF Distinct
  <2>1. CASE i \in 1..Len(a) /\ t[i] = a[i]
    <3>1. ~ \E k \in 1..Len(b) : t[j] = b[k]
      BY <1>6, <2>1
    <3> QED BY <1>5, <2>1, <3>1 DEF Distinct
  <2>2. CASE \E k \in 1..Len(b) : i = Len(a) + k /\ t[i] = b[k]
    <3>1. ~ (j \in 1..Len(a) /\ t[j] = a[j])
      BY <1>6, <2>2
    <3>2. \E k \in 1..Len(b) : j = Len(a) + k /\ t[j] = b[k]
      BY <1>5, <3>1
    <3> QED BY <2>2, <3>2 DEF Distinct
  <2> QED BY <1>5, <2>1, <2>2
<1>8. Members(t) = Members(a) \cup Members(b)
  <2>1. ASSUME NEW i \in 1..Len(t) PROVE t[i] \in Members(a) \cup Members(b)
    BY <1>5 DEF Members
  <2>2. \A i \in 1..Len(a) : a[i] \in Members(t)
    BY <1>3 DEF Members
  <2>3. \A i \in 1..Len(b) : b[i] \in Members(t)
    BY <1>4 DEF Members
  <2> QED BY <2>1, <2>2, <2>3 DEF Members
<1> QED BY <1>2, <1>3, <1>4, <1>7, <1>8 DEF t

(***************************************************************************)
(* Without(s, e), when e is at place k of s and nowhere else.              *)
(***************************************************************************)
LEMMA Removed ==
    ASSUME NEW s \in Seq(Elements), NEW k \in 1..Len(s), Distinct(s)
    PROVE  /\ Without(s, s[k]) \in Seq(Elements)
           /\ Len(Without(s, s[k])) = Len(s) - 1
           /\ \A i \in 1..(k - 1) : Without(s, s[k])[i] = s[i]
           /\ \A i \in k..(Len(s) - 1) : Without(s, s[k])[i] = s[i + 1]
           /\ Distinct(Without(s, s[k]))
           /\ Members(Without(s, s[k])) = Members(s) \ {s[k]}
<1> DEFINE a == SubSeq(s, 1, k - 1)
           b == SubSeq(s, k + 1, Len(s))
<1>1. Len(s) \in Nat /\ \A i \in 1..Len(s) : s[i] \in Elements
  BY SeqFacts
<1>2. k = CHOOSE i \in 1..Len(s) : s[i] = s[k]
  BY DEF Distinct
<1>3. Without(s, s[k]) = a \o b
  BY <1>2 DEF Without
<1>4. /\ a \in Seq(Elements) /\ Len(a) = k - 1
      /\ \A i \in 1..(k - 1) : a[i] = s[i]
  <2>1. \A i \in 1..(k - 1) : s[i] \in Elements
    BY <1>1
  <2>2. /\ a \in Seq(Elements)
        /\ Len(a) = IF 1 <= k - 1 THEN (k - 1) - 1 + 1 ELSE 0
        /\ \A i \in 1..((k - 1) - 1 + 1) : a[i] = s[1 + i - 1]
    BY <1>1, <2>1, SubSeqProperties
  <2> HIDE DEF a
  <2> QED BY <1>1, <2>2
<1>5. /\ b \in Seq(Elements) /\ Len(b) = Len(s) - k
      /\ \A i \in 1..(Len(s) - k) : b[i] = s[k + i]
  <2>1. \A i \in (k + 1)..Len(s) : s[i] \in Elements
    BY <1>1
  <2>2. /\ b \in Seq(Elements)
        /\ Len(b) = IF k + 1 <= Len(s) THEN Len(s) - (k + 1) + 1 ELSE 0
        /\ \A i \in 1..(Len(s) - (k + 1) + 1) : b[i] = s[(k + 1) + i - 1]
    BY <1>1, <2>1, SubSeqProperties
  <2> HIDE DEF b
  <2> QED BY <1>1, <2>2
<1> HIDE DEF a, b
<1>6. /\ a \o b \in Seq(Elements)
      /\ Len(a \o b) = Len(a) + Len(b)
      /\ \A i \in 1..(Len(a) + Len(b)) :
           (a \o b)[i] = IF i <= Len(a) THEN a[i] ELSE b[i - Len(a)]
  BY <1>4, <1>5, ConcatProperties
<1>7. ASSUME NEW i \in 1..(k - 1) PROVE (a \o b)[i] = s[i]
  BY <1>1, <1>4, <1>5, <1>6
<1>8. ASSUME NEW i \in k..(Len(s) - 1) PROVE (a \o b)[i] = s[i + 1]
  <2>1. i \in 1..(Len(a) + Len(b)) /\ ~(i <= Len(a)) /\ i - Len(a) = i - k + 1
    BY <1>1, <1>4, <1>5
  <2>2. i - k + 1 \in 1..(Len(s) - k) /\ k + (i - k + 1) = i + 1
    BY <1>1
  <2> QED BY <1>5, <1>6, <2>1, <2>2
<1> DEFINE t == Without(s, s[k])
<1>9. /\ t \in Seq(Elements) /\ Len(t) = Len(s) - 1
      /\ \A i \in 1..(k - 1) : t[i] = s[i]
      /\ \A i \in k..(Len(s) - 1) : t[i] = s[i + 1]
  <2>1. Len(a) + Len(b) = Len(s) - 1
    BY <1>1, <1>4, <1>5
  <2> QED BY <1>3, <1>6, <1>7, <1>8, <2>1
<1> HIDE DEF t
<1>10. ASSUME NEW i \in 1..Len(t)
       PROVE  \E j \in 1..Len(s) : j # k /\ t[i] = s[j] /\ i = IF j < k THEN j ELSE j - 1
  <2>1. CASE i < k
    <3>1. i \in 1..Len(s) /\ i \in 1..(k - 1) /\ i # k
      BY <1>1, <2>1
    <3> QED BY <1>9, <2>1, <3>1
  <2>2. CASE ~(i < k)
    <3>1. /\ i \in k..(Len(s) - 1) /\ i + 1 \in 1..Len(s) /\ i + 1 # k
          /\ ~(i + 1 < k) /\ i = (i + 1) - 1
      BY <1>1, <1>9, <2>2
    <3> QED BY <1>9, <3>1
  <2> QED BY <2>1, <2>2
<1>11. Distinct(t)
  <2> SUFFICES ASSUME NEW i \in 1..Len(t), NEW j \in 1..Len(t), t[i] = t[j]
               PROVE  i = j
    BY DEF Distinct
  <2>1. PICK i1 \in 1..Len(s) : t[i] = s[i1] /\ i = IF i1 < k THEN i1 ELSE i1 - 1
    BY <1>10
  <2>2. PICK j1 \in 1..Len(s) : t[j] = s[j1] /\ j = IF j1 < k THEN j1 ELSE j1 - 1
    BY <1>10
  <2>3. i1 = j1
    BY <2>1, <2>2 DEF Distinct
  <2> QED BY <2>1, <2>2, <2>3
<1>12. Members(t) = Members(s) \ {s[k]}
  <2>1. ASSUME NEW i \in 1..Len(t) PROVE t[i] \in Members(s) \ {s[k]}
    <3>1. PICK j \in 1..Len(s) : j # k /\ t[i] = s[j]
      BY <1>10
    <3> QED BY <3>1 DEF Distinct, Members
  <2>2. ASSUME NEW j \in 1..Len(s), j # k PROVE s[j] \in Members(t)
    <3>1. CASE j < k
      <4>1. j \in 1..(k - 1) /\ j \in 1..Len(t)
        BY <1>1, <1>9, <3>1
      <4> QED BY <1>9, <4>1 DEF Members
    <3>2. CASE ~(j < k)
      <4>1. /\ j - 1 \in k..(Len(s) - 1) /\ j - 1 \in 1..Len(t)
            /\ (j - 1) + 1 = j
        BY <1>1, <1>9, <2>2, <3>2
      <4>2. t[j - 1] = s[j]
        BY <1>9, <4>1
      <4> QED BY <4>1, <4>2 DEF Members
    <3> QED BY <3>1, <3>2
  <2>3. ASSUME NEW x \in Members(s), x # s[k] PROVE x \in Members(t)
    <3>1. PICK j \in 1..Len(s) : x = s[j]
      BY DEF Members
    <3> QED BY <2>2, <2>3, <3>1
  <2> QED BY <2>1, <2>3 DEF Members
<1> QED BY <1>9, <1>11, <1>12 DEF t

-----------------------------------------------------------------------------
(***************************************************************************)
(* One chain of elements                                                   *)
(***************************************************************************)

(***************************************************************************)
(* Pointers that change outside a chain do not disturb it.                 *)
(***************************************************************************)
LEMMA Frame ==
    ASSUME NEW s \in Seq(Elements), NEW h,
           NEW nx, NEW pv, NEW nx2, NEW pv2,
           Spells(s, h, nx, pv),
           \A e \in Members(s) : nx2[e] = nx[e] /\ pv2[e] = pv[e]
    PROVE  Spells(s, h, nx2, pv2)
<1>1. Len(s) \in Nat /\ \A i \in 1..Len(s) : s[i] \in Members(s)
  BY SeqFacts
<1>2. ASSUME Len(s) > 0
      PROVE  h = s[1] /\ nx2[s[Len(s)]] = NULL /\ pv2[s[1]] = s[Len(s)]
  <2>1. s[1] \in Members(s) /\ s[Len(s)] \in Members(s)
    BY <1>1, <1>2
  <2> QED BY <1>2, <2>1 DEF Spells
<1>3. ASSUME NEW i \in 1..(Len(s) - 1)
      PROVE  nx2[s[i]] = s[i + 1] /\ pv2[s[i + 1]] = s[i]
  <2>1. s[i] \in Members(s) /\ s[i + 1] \in Members(s)
    BY <1>1
  <2> QED BY <2>1 DEF Spells
<1> QED BY <1>2, <1>3 DEF Spells

(***************************************************************************)
(* An element that points to itself, and to no next one, is a chain.       *)
(***************************************************************************)
LEMMA Alone ==
    ASSUME NEW e \in Elements, NEW nx, NEW pv, nx[e] = NULL, pv[e] = e
    PROVE  Spells(<<e>>, e, nx, pv)
<1>1. Len(<<e>>) = 1 /\ <<e>>[1] = e /\ 1..(1 - 1) = {}
  BY Singleton
<1> QED BY <1>1 DEF Spells

(***************************************************************************)
(* Two chains become one when the last element of the first, which its     *)
(* head points to, is linked to the head of the second, and each head gets *)
(* the pointer of the other.  BF_LIST_DLL_CAT does so, and so, for a new   *)
(* element that is a chain of its own, do the other insertions.            *)
(***************************************************************************)
LEMMA Joined ==
    ASSUME NEW a \in Seq(Elements), NEW b \in Seq(Elements),
           NEW g, NEW h, NEW nx \in Pointers, NEW pv \in Pointers,
           Distinct(a), Distinct(b), Members(a) \cap Members(b) = {},
           Len(a) > 0, Len(b) > 0,
           Spells(a, g, nx, pv), Spells(b, h, nx, pv)
    PROVE  LET nx2 == [nx EXCEPT ![pv[g]] = h]
               pv2 == [pv EXCEPT ![g] = pv[h], ![h] = pv[g]]
           IN  /\ Spells(a \o b, g, nx2, pv2)
               /\ nx2 \in Pointers /\ pv2 \in Pointers
               /\ AgreeOutside(Members(a) \cup Members(b), nx, pv, nx2, pv2)
<1> DEFINE nx2 == [nx EXCEPT ![pv[g]] = h]
           pv2 == [pv EXCEPT ![g] = pv[h], ![h] = pv[g]]
           t == a \o b
<1>1. /\ Len(a) \in Nat /\ Len(b) \in Nat
      /\ \A i \in 1..Len(a) : a[i] \in Elements /\ a[i] \in Members(a)
      /\ \A i \in 1..Len(b) : b[i] \in Elements /\ b[i] \in Members(b)
  BY SeqFacts
<1>2. /\ Len(t) = Len(a) + Len(b)
      /\ \A i \in 1..Len(a) : t[i] = a[i]
      /\ \A i \in 1..Len(b) : t[Len(a) + i] = b[i]
  BY Concatenated
<1> HIDE DEF t
<1>3. /\ 1 \in 1..Len(a) /\ Len(a) \in 1..Len(a)
      /\ 1 \in 1..Len(b) /\ Len(b) \in 1..Len(b)
  BY <1>1
<1>4. /\ g = a[1] /\ pv[g] = a[Len(a)] /\ nx[a[Len(a)]] = NULL
      /\ h = b[1] /\ pv[h] = b[Len(b)] /\ nx[b[Len(b)]] = NULL
  BY DEF Spells
<1>5. /\ g \in Elements /\ pv[g] \in Elements
      /\ h \in Elements /\ pv[h] \in Elements /\ g # h
  BY <1>1, <1>3, <1>4
<1>6. nx2 \in Pointers /\ pv2 \in Pointers
  BY <1>5 DEF Pointers
<1>7. /\ nx2[pv[g]] = h /\ pv2[g] = pv[h] /\ pv2[h] = pv[g]
      /\ \A x \in Elements \ {pv[g]} : nx2[x] = nx[x]
      /\ \A x \in Elements \ {g, h} : pv2[x] = pv[x]
  BY <1>5 DEF Pointers
<1> HIDE DEF nx2, pv2
<1>8. AgreeOutside(Members(a) \cup Members(b), nx, pv, nx2, pv2)
  <2>1. g \in Members(a) /\ pv[g] \in Members(a) /\ h \in Members(b)
    BY <1>1, <1>3, <1>4
  <2> QED BY <1>7, <2>1 DEF AgreeOutside
<1>9. /\ Len(t) > 0 /\ t[1] = g
      /\ t[Len(t)] = b[Len(b)]
  BY <1>1, <1>2, <1>3, <1>4
<1>10. nx2[t[Len(t)]] = NULL /\ pv2[t[1]] = t[Len(t)]
  <2>1. b[Len(b)] \in Elements \ {a[Len(a)]}
    BY <1>1, <1>3
  <2> QED BY <1>4, <1>7, <1>9, <2>1
<1>11. ASSUME NEW i \in 1..(Len(t) - 1)
       PROVE  nx2[t[i]] = t[i + 1] /\ pv2[t[i + 1]] = t[i]
  <2>1. CASE i < Len(a)
    <3>1. i \in 1..(Len(a) - 1) /\ i \in 1..Len(a) /\ i + 1 \in 1..Len(a)
      BY <1>1, <2>1
    <3>2. t[i] = a[i] /\ t[i + 1] = a[i + 1]
      BY <1>2, <3>1
    <3>3. nx[a[i]] = a[i + 1] /\ pv[a[i + 1]] = a[i]
      BY <3>1 DEF Spells
    <3>4. a[i] # a[Len(a)] /\ a[i + 1] # a[1]
      <4>1. i # Len(a) /\ i + 1 # 1
        BY <1>1, <2>1
      <4> QED BY <1>3, <3>1, <4>1 DEF Distinct
    <3>5. a[i] \in Elements \ {pv[g]} /\ a[i + 1] \in Elements \ {g, h}
      BY <1>1, <1>3, <1>4, <3>1, <3>4
    <3> QED BY <1>7, <3>2, <3>3, <3>5
  <2>2. CASE i = Len(a)
    <3>1. t[i] = a[Len(a)] /\ t[i + 1] = b[1]
      BY <1>2, <1>3, <2>2
    <3> QED BY <1>4, <1>7, <3>1
  <2>3. CASE i > Len(a)
    <3>1. PICK j \in 1..(Len(b) - 1) : i = Len(a) + j
      <4>1. i - Len(a) \in 1..(Len(b) - 1) /\ i = Len(a) + (i - Len(a))
        BY <1>1, <1>2, <2>3
      <4> QED BY <4>1
    <3>2. j \in 1..Len(b) /\ j + 1 \in 1..Len(b) /\ i + 1 = Len(a) + (j + 1)
      BY <1>1, <3>1
    <3>3. t[i] = b[j] /\ t[i + 1] = b[j + 1]
      BY <1>2, <3>1, <3>2
    <3>4. nx[b[j]] = b[j + 1] /\ pv[b[j + 1]] = b[j]
      BY DEF Spells
    <3>5. b[j + 1] # b[1]
      <4>1. j + 1 # 1
        BY <1>1
      <4> QED BY <1>3, <3>2, <4>1 DEF Distinct
    <3>6. b[j] \in Elements \ {pv[g]} /\ b[j + 1] \in Elements \ {g, h}
      BY <1>1, <1>3, <1>4, <3>2, <3>5
    <3> QED BY <1>7, <3>3, <3>4, <3>6
  <2> QED BY <1>1, <2>1, <2>2, <2>3
<1>12. Spells(t, g, nx2, pv2)
  <2>1. Len(t) # 0
    BY <1>9
  <2> QED BY <1>9, <1>10, <1>11, <2>1 DEF Spells
<1> QED BY <1>6, <1>8, <1>12 DEF t, nx2, pv2

\* What BF_LIST_DLL_REM does to the head and the pointers.
Unlink(e, h, nx, pv, h2, nx2, pv2) ==
    \/ /\ pv[e] = e
       /\ nx2 = [nx EXCEPT ![e] = NULL]
       /\ pv2 = [pv EXCEPT ![e] = NULL]
       /\ h2 = NULL
    \/ /\ pv[e] # e /\ e = h
       /\ nx2 = [nx EXCEPT ![e] = NULL]
       /\ pv2 = [pv EXCEPT ![nx[e]] = pv[e], ![e] = NULL]
       /\ h2 = nx[e]
    \/ /\ pv[e] # e /\ e # h
       /\ nx2 = [nx EXCEPT ![pv[e]] = nx[e], ![e] = NULL]
       /\ pv2 = [pv EXCEPT ![IF nx[e] # NULL THEN nx[e] ELSE h] = pv[e],
                           ![e] = NULL]
       /\ h2 = h

(***************************************************************************)
(* BF_LIST_DLL_REM takes the only element, the head, or any other out of a *)
(* chain, and leaves it without pointers.                                  *)
(***************************************************************************)
LEMMA Detached ==
    ASSUME NEW s \in Seq(Elements), NEW e \in Members(s), NEW h,
           NEW nx \in Pointers, NEW pv \in Pointers,
           NEW h2, NEW nx2, NEW pv2,
           Distinct(s), Spells(s, h, nx, pv),
           Unlink(e, h, nx, pv, h2, nx2, pv2)
    PROVE  /\ Spells(Without(s, e), h2, nx2, pv2)
           /\ nx2 \in Pointers /\ pv2 \in Pointers
           /\ nx2[e] = NULL /\ pv2[e] = NULL
           /\ AgreeOutside(Members(s), nx, pv, nx2, pv2)
<1> DEFINE t == Without(s, e)
<1>0. PICK k \in 1..Len(s) : e = s[k]
  BY DEF Members
<1>1. /\ Len(s) \in Nat
      /\ \A i \in 1..Len(s) : s[i] \in Elements /\ s[i] \in Members(s) /\ s[i] # NULL
  BY SeqFacts, NullAssumption
<1>2. /\ Len(t) = Len(s) - 1
      /\ \A i \in 1..(k - 1) : t[i] = s[i]
      /\ \A i \in k..(Len(s) - 1) : t[i] = s[i + 1]
  BY <1>0, Removed
<1> HIDE DEF t
<1>3. 1 \in 1..Len(s) /\ Len(s) \in 1..Len(s) /\ Len(s) > 0
  BY <1>1
<1>4. h = s[1] /\ nx[s[Len(s)]] = NULL /\ pv[s[1]] = s[Len(s)]
  BY <1>3 DEF Spells
<1>5. e \in Elements /\ e \in Members(s)
  BY <1>0, <1>1
<1>6. CASE Len(s) = 1
  <2>1. e = h /\ pv[e] = e /\ k = 1
    BY <1>0, <1>4, <1>6
  <2>2. h2 = NULL /\ nx2 = [nx EXCEPT ![e] = NULL] /\ pv2 = [pv EXCEPT ![e] = NULL]
    BY <2>1 DEF Unlink
  <2>3. Len(t) = 0 /\ 1..(Len(t) - 1) = {}
    BY <1>2, <1>6
  <2>4. Spells(t, h2, nx2, pv2)
    BY <2>2, <2>3 DEF Spells
  <2>5. nx2 \in Pointers /\ pv2 \in Pointers
    BY <1>5, <2>2 DEF Pointers
  <2>6. \A x \in Elements \ {e} : nx2[x] = nx[x] /\ pv2[x] = pv[x]
    BY <2>2 DEF Pointers
  <2>7. nx2[e] = NULL /\ pv2[e] = NULL
    BY <1>5, <2>2 DEF Pointers
  <2> QED BY <1>5, <2>4, <2>5, <2>6, <2>7 DEF t, AgreeOutside
<1>7. CASE Len(s) > 1 /\ k = 1
  <2>1. /\ 1 \in 1..(Len(s) - 1) /\ 2 \in 1..Len(s) /\ 1 + 1 = 2
    BY <1>1, <1>7
  <2>2. e = h /\ nx[e] = s[2] /\ pv[e] = s[Len(s)]
    BY <1>0, <1>4, <1>7, <2>1 DEF Spells
  <2>3. s[2] # e /\ s[Len(s)] # e
    <3>1. Len(s) # 1 /\ 2 # 1
      BY <1>1, <1>7
    <3> QED BY <1>0, <1>3, <1>7, <2>1, <3>1 DEF Distinct
  <2>4. /\ nx2 = [nx EXCEPT ![e] = NULL]
        /\ pv2 = [pv EXCEPT ![s[2]] = s[Len(s)], ![e] = NULL]
        /\ h2 = s[2]
    BY <2>2, <2>3 DEF Unlink
  <2>5. s[2] \in Elements /\ s[Len(s)] \in Elements /\ s[2] \in Members(s)
    BY <1>1, <1>3, <2>1
  <2>6. /\ nx2 \in Pointers /\ pv2 \in Pointers
        /\ nx2[e] = NULL /\ pv2[e] = NULL /\ pv2[s[2]] = s[Len(s)]
        /\ \A x \in Elements \ {e} : nx2[x] = nx[x]
        /\ \A x \in Elements \ {e, s[2]} : pv2[x] = pv[x]
    BY <1>5, <2>3, <2>4, <2>5 DEF Pointers
  <2>7. Len(t) > 0 /\ t[1] = s[2] /\ t[Len(t)] = s[Len(s)]
    <3>1. 1 \in 1..(Len(s) - 1) /\ Len(s) - 1 \in 1..(Len(s) - 1) /\ (Len(s) - 1) + 1 = Len(s)
      BY <1>1, <1>7
    <3> QED BY <1>2, <1>7, <3>1
  <2>8. nx2[s[Len(s)]] = NULL
    BY <1>4, <2>3, <2>5, <2>6
  <2>9. ASSUME NEW i \in 1..(Len(t) - 1)
        PROVE  nx2[t[i]] = t[i + 1] /\ pv2[t[i + 1]] = t[i]
    <3>1. /\ i + 1 \in 1..(Len(s) - 1) /\ i + 1 \in 1..Len(s)
          /\ (i + 1) + 1 \in 1..Len(s) /\ i + 1 # 1 /\ (i + 1) + 1 \notin {1, 2}
          /\ i \in k..(Len(s) - 1) /\ i + 1 \in k..(Len(s) - 1)
      BY <1>1, <1>2, <1>7
    <3>2. t[i] = s[i + 1] /\ t[i + 1] = s[(i + 1) + 1]
      BY <1>2, <3>1
    <3>3. nx[s[i + 1]] = s[(i + 1) + 1] /\ pv[s[(i + 1) + 1]] = s[i + 1]
      BY <3>1 DEF Spells
    <3>4. s[i + 1] # e /\ s[(i + 1) + 1] # e /\ s[(i + 1) + 1] # s[2]
      BY <1>0, <1>3, <1>7, <2>1, <3>1 DEF Distinct
    <3>5. s[i + 1] \in Elements \ {e} /\ s[(i + 1) + 1] \in Elements \ {e, s[2]}
      BY <1>1, <3>1, <3>4
    <3> QED BY <2>6, <3>2, <3>3, <3>5
  <2>10. Spells(t, h2, nx2, pv2)
    <3>1. Len(t) # 0
      BY <2>7
    <3> QED BY <2>4, <2>6, <2>7, <2>8, <2>9, <3>1 DEF Spells
  <2> QED BY <1>5, <2>5, <2>6, <2>10 DEF t, AgreeOutside
<1>8. CASE k > 1
  <2> DEFINE d == s[k - 1]
  <2>1. k - 1 \in 1..(Len(s) - 1) /\ k - 1 \in 1..Len(s) /\ (k - 1) + 1 = k
    BY <1>1, <1>8
  <2>2. pv[e] = d /\ d \in Elements /\ d \in Members(s)
    BY <1>0, <1>1, <2>1 DEF Spells
  <2>3. d # e /\ h # e /\ h \in Elements /\ h \in Members(s)
    <3>1. k - 1 # k /\ 1 # k
      BY <1>8
    <3> QED BY <1>0, <1>1, <1>3, <1>4, <2>1, <3>1 DEF Distinct
  <2>4. t[1] = h /\ Len(t) > 0 /\ Len(t) # 0
    <3>1. 1 \in 1..(k - 1) /\ Len(s) > 1
      BY <1>1, <1>8
    <3> QED BY <1>1, <1>2, <1>4, <3>1
  <2>5. CASE k < Len(s)
    <3> DEFINE f == s[k + 1]
    <3>1. k \in 1..(Len(s) - 1) /\ k + 1 \in 1..Len(s)
      BY <1>1, <2>5
    <3>2. nx[e] = f /\ f \in Elements /\ f \in Members(s) /\ f # NULL
      BY <1>0, <1>1, <3>1 DEF Spells
    <3>3. f # e /\ f # h
      <4>1. k + 1 # k /\ k + 1 # 1
        BY <1>8
      <4> QED BY <1>0, <1>3, <1>4, <3>1, <4>1 DEF Distinct
    <3>4. /\ nx2 = [nx EXCEPT ![d] = f, ![e] = NULL]
          /\ pv2 = [pv EXCEPT ![f] = d, ![e] = NULL]
          /\ h2 = h
      BY <2>2, <2>3, <3>2 DEF Unlink
    <3> HIDE DEF d, f
    <3>5. /\ nx2 \in Pointers /\ pv2 \in Pointers
          /\ nx2[e] = NULL /\ pv2[e] = NULL /\ nx2[d] = f /\ pv2[f] = d
          /\ \A x \in Elements \ {d, e} : nx2[x] = nx[x]
          /\ \A x \in Elements \ {e, f} : pv2[x] = pv[x]
      BY <1>5, <2>2, <2>3, <3>2, <3>3, <3>4 DEF Pointers
    <3>6. t[Len(t)] = s[Len(s)]
      <4>1. Len(s) - 1 \in k..(Len(s) - 1) /\ (Len(s) - 1) + 1 = Len(s)
        BY <1>1, <2>5
      <4> QED BY <1>2, <4>1
    <3>7. nx2[s[Len(s)]] = NULL /\ pv2[h] = s[Len(s)]
      <4>1. s[Len(s)] # d /\ s[Len(s)] # e
        <5>1. Len(s) # k - 1 /\ Len(s) # k
          BY <1>1, <2>5
        <5> QED BY <1>0, <1>3, <2>1, <5>1 DEF Distinct, d
      <4>2. s[Len(s)] \in Elements \ {d, e} /\ h \in Elements \ {e, f}
        BY <1>1, <1>3, <2>3, <3>3, <4>1
      <4> QED BY <1>4, <3>5, <4>2
    <3>8. ASSUME NEW i \in 1..(Len(t) - 1)
          PROVE  nx2[t[i]] = t[i + 1] /\ pv2[t[i + 1]] = t[i]
      <4>1. CASE i < k - 1
        <5>1. /\ i \in 1..(k - 1) /\ i + 1 \in 1..(k - 1)
              /\ i \in 1..(Len(s) - 1) /\ i \in 1..Len(s) /\ i + 1 \in 1..Len(s)
              /\ i # k - 1 /\ i # k /\ i + 1 # k /\ i + 1 # k + 1
          BY <1>1, <4>1
        <5>2. t[i] = s[i] /\ t[i + 1] = s[i + 1]
          BY <1>2, <5>1
        <5>3. nx[s[i]] = s[i + 1] /\ pv[s[i + 1]] = s[i]
          BY <5>1 DEF Spells
        <5>4. s[i] \notin {d, e} /\ s[i + 1] \notin {e, f}
          BY <1>0, <2>1, <3>1, <5>1 DEF Distinct, d, f
        <5>5. s[i] \in Elements /\ s[i + 1] \in Elements
          BY <1>1, <5>1
        <5> QED BY <3>5, <5>2, <5>3, <5>4, <5>5
      <4>2. CASE i = k - 1
        <5>1. i \in 1..(k - 1) /\ i + 1 = k /\ k \in k..(Len(s) - 1)
          BY <1>1, <1>8, <2>5, <4>2
        <5>2. t[i] = d /\ t[i + 1] = f
          BY <1>2, <4>2, <5>1 DEF d, f
        <5> QED BY <3>5, <5>2
      <4>3. CASE i > k - 1
        <5>1. /\ i \in k..(Len(s) - 1) /\ i + 1 \in k..(Len(s) - 1)
              /\ i + 1 \in 1..(Len(s) - 1) /\ i + 1 \in 1..Len(s)
              /\ (i + 1) + 1 \in 1..Len(s)
              /\ i + 1 # k - 1 /\ i + 1 # k
              /\ (i + 1) + 1 # k /\ (i + 1) + 1 # k + 1
          BY <1>1, <1>2, <4>3
        <5>2. t[i] = s[i + 1] /\ t[i + 1] = s[(i + 1) + 1]
          BY <1>2, <5>1
        <5>3. nx[s[i + 1]] = s[(i + 1) + 1] /\ pv[s[(i + 1) + 1]] = s[i + 1]
          BY <5>1 DEF Spells
        <5>4. s[i + 1] \notin {d, e} /\ s[(i + 1) + 1] \notin {e, f}
          BY <1>0, <2>1, <3>1, <5>1 DEF Distinct, d, f
        <5>5. s[i + 1] \in Elements /\ s[(i + 1) + 1] \in Elements
          BY <1>1, <5>1
        <5> QED BY <3>5, <5>2, <5>3, <5>4, <5>5
      <4> QED BY <4>1, <4>2, <4>3
    <3>9. Spells(t, h2, nx2, pv2)
      BY <2>4, <3>4, <3>6, <3>7, <3>8 DEF Spells
    <3> QED BY <1>5, <2>2, <3>2, <3>5, <3>9 DEF t, AgreeOutside
  <2>6. CASE k = Len(s)
    <3>1. nx[e] = NULL
      BY <1>0, <1>4, <2>6
    <3>2. /\ nx2 = [nx EXCEPT ![d] = NULL, ![e] = NULL]
          /\ pv2 = [pv EXCEPT ![h] = d, ![e] = NULL]
          /\ h2 = h
      BY <2>2, <2>3, <3>1 DEF Unlink
    <3> HIDE DEF d
    <3>3. /\ nx2 \in Pointers /\ pv2 \in Pointers
          /\ nx2[e] = NULL /\ pv2[e] = NULL /\ nx2[d] = NULL /\ pv2[h] = d
          /\ \A x \in Elements \ {d, e} : nx2[x] = nx[x]
          /\ \A x \in Elements \ {e, h} : pv2[x] = pv[x]
      BY <1>5, <2>2, <2>3, <3>2 DEF Pointers
    <3>4. t[Len(t)] = d
      <4>1. Len(t) = k - 1 /\ k - 1 \in 1..(k - 1)
        BY <1>1, <1>2, <1>8, <2>6
      <4> QED BY <1>2, <4>1 DEF d
    <3>5. ASSUME NEW i \in 1..(Len(t) - 1)
          PROVE  nx2[t[i]] = t[i + 1] /\ pv2[t[i + 1]] = t[i]
      <4>1. /\ i \in 1..(k - 1) /\ i + 1 \in 1..(k - 1)
            /\ i \in 1..(Len(s) - 1) /\ i \in 1..Len(s) /\ i + 1 \in 1..Len(s)
            /\ i # k - 1 /\ i # k /\ i + 1 # k /\ i + 1 # 1
        BY <1>1, <1>2, <2>6
      <4>2. t[i] = s[i] /\ t[i + 1] = s[i + 1]
        BY <1>2, <4>1
      <4>3. nx[s[i]] = s[i + 1] /\ pv[s[i + 1]] = s[i]
        BY <4>1 DEF Spells
      <4>4. s[i] \notin {d, e} /\ s[i + 1] \notin {e, h}
        BY <1>0, <1>3, <1>4, <2>1, <4>1 DEF Distinct, d
      <4>5. s[i] \in Elements /\ s[i + 1] \in Elements
        BY <1>1, <4>1
      <4> QED BY <3>3, <4>2, <4>3, <4>4, <4>5
    <3>6. Spells(t, h2, nx2, pv2)
      BY <2>4, <3>2, <3>3, <3>4, <3>5 DEF Spells
    <3> QED BY <1>5, <2>2, <2>3, <3>3, <3>6 DEF t, AgreeOutside
  <2>7. k < Len(s) \/ k = Len(s)
    BY <1>1
  <2> QED BY <2>5, <2>6, <2>7
<1>9. Len(s) = 1 \/ (Len(s) > 1 /\ k = 1) \/ k > 1
  <2>1. k = 1 \/ k > 1
    BY <1>1
  <2>2. Len(s) = 1 \/ Len(s) > 1
    <3>1. Len(s) # 0
      BY <1>3
    <3> QED BY <3>1, SeqFacts
  <2> QED BY <2>1, <2>2
<1> QED BY <1>6, <1>7, <1>8, <1>9

-----------------------------------------------------------------------------
(***************************************************************************)
(* The macros                                                              *)
(***************************************************************************)

(***************************************************************************)
(* No list is in the way of an element that is in none.                    *)
(***************************************************************************)
LEMMA ListFacts ==
    ASSUME DInv, NEW l \in Lists
    PROVE  /\ list[l] \in Seq(Elements) /\ Distinct(list[l])
           /\ Spells(list[l], head[l], n, p)
           /\ Members(list[l]) \subseteq Elements
           /\ Members(list[l]) \subseteq Listed
           /\ n \in Pointers /\ p \in Pointers
           /\ head[l] = NULL <=> Len(list[l]) = 0
           /\ head[l] = NULL <=> list[l] = <<>>
           /\ Len(list[l]) \in Nat
           /\ Len(list[l]) = 0 => Members(list[l]) = {}
<1>1. /\ list[l] \in Seq(Elements) /\ Distinct(list[l])
      /\ Spells(list[l], head[l], n, p)
      /\ n \in Pointers /\ p \in Pointers
  BY DEF DInv, Typed, OnePlace, AllSpelt
<1>2. /\ Members(list[l]) \subseteq Elements
      /\ Len(list[l]) \in Nat
      /\ list[l] = <<>> <=> Len(list[l]) = 0
      /\ \A i \in 1..Len(list[l]) : list[l][i] # NULL
  BY <1>1, SeqFacts, NullAssumption
<1>3. head[l] = NULL <=> Len(list[l]) = 0
  <2>1. ASSUME Len(list[l]) # 0 PROVE head[l] # NULL
    <3>1. Len(list[l]) > 0 /\ 1 \in 1..Len(list[l])
      BY <1>2, <2>1
    <3> QED BY <1>1, <1>2, <3>1 DEF Spells
  <2> QED BY <1>1, <2>1 DEF Spells
<1>4. Members(list[l]) \subseteq Listed
  BY DEF Listed
<1>5. Len(list[l]) = 0 => Members(list[l]) = {}
  <2> SUFFICES ASSUME Len(list[l]) = 0 PROVE Members(list[l]) = {}
    OBVIOUS
  <2>1. 1..Len(list[l]) = {}
    BY <1>2
  <2> QED BY <2>1 DEF Members
<1> QED BY <1>1, <1>2, <1>3, <1>4, <1>5

(***************************************************************************)
(* A macro that turns the elements of one list into others, and leaves the *)
(* pointers of all other elements alone, keeps the invariant.              *)
(***************************************************************************)
LEMMA OneListChanges ==
    ASSUME DInv, NEW l \in Lists, NEW t \in Seq(Elements), NEW old, NEW new,
           list' = [list EXCEPT ![l] = t],
           \E h \in Elements \cup {NULL} : head' = [head EXCEPT ![l] = h],
           n' \in Pointers, p' \in Pointers,
           Distinct(t), Spells(t, head'[l], n', p'),
           new \subseteq Elements \ Listed, old \subseteq Members(list[l]),
           Members(t) = (Members(list[l]) \cup new) \ old,
           AgreeOutside(Members(list[l]) \cup new, n, p, n', p'),
           \A x \in old : n'[x] = NULL /\ p'[x] = NULL
    PROVE  DInv'
<1>1. /\ list'[l] = t /\ \A m \in Lists \ {l} : list'[m] = list[m] /\ head'[m] = head[m]
      /\ Typed'
  BY DEF DInv, Typed
<1>2. ASSUME NEW m \in Lists \ {l}
      PROVE  /\ Members(list[m]) \cap (Members(list[l]) \cup new) = {}
             /\ Members(list[m]) \subseteq Elements
  BY ListFacts DEF DInv, OnePlace
<1>3. OnePlace'
  <2>1. \A m \in Lists : Distinct(list'[m])
    BY <1>1 DEF DInv, OnePlace
  <2>2. \A m \in Lists \ {l} : Members(list'[m]) \cap Members(list'[l]) = {}
    BY <1>1, <1>2
  <2>3. \A m, k \in Lists \ {l} : m # k => Members(list'[m]) \cap Members(list'[k]) = {}
    BY <1>1 DEF DInv, OnePlace
  <2> QED BY <2>1, <2>2, <2>3 DEF OnePlace
<1>4. AllSpelt'
  <2> SUFFICES ASSUME NEW m \in Lists, m # l
               PROVE  Spells(list'[m], head'[m], n', p')
    BY <1>1 DEF AllSpelt
  <2>1. list[m] \in Seq(Elements) /\ Spells(list[m], head[m], n, p)
    BY ListFacts
  <2>2. \A x \in Members(list[m]) : n'[x] = n[x] /\ p'[x] = p[x]
    BY <1>2 DEF AgreeOutside
  <2>3. Spells(list[m], head[m], n', p')
    BY <2>1, <2>2, Frame
  <2> QED BY <1>1, <2>3
<1>5. Unlinked'
  <2> SUFFICES ASSUME NEW x \in Elements, x \notin Listed'
               PROVE  n'[x] = NULL /\ p'[x] = NULL
    BY DEF Unlinked
  <2>1. \A m \in Lists : x \notin Members(list'[m])
    BY DEF Listed
  <2>2. x \notin Members(t) /\ \A m \in Lists \ {l} : x \notin Members(list[m])
    BY <1>1, <2>1
  <2>3. CASE x \in old
    BY <2>3
  <2>4. CASE x \notin old
    <3>1. x \notin Members(list[l]) \cup new
      BY <2>2, <2>4
    <3>2. x \notin Listed
      BY <2>2, <3>1 DEF Listed
    <3> QED BY <3>1, <3>2 DEF DInv, Unlinked, AgreeOutside
  <2> QED BY <2>3, <2>4
<1> QED BY <1>1, <1>3, <1>4, <1>5 DEF DInv

(***************************************************************************)
(* A new element is first made a chain of its own: head[l] and the chain   *)
(* of l are as before, and the element can be joined to it.                *)
(***************************************************************************)
LEMMA Insertion ==
    ASSUME DInv, NEW l \in Lists, NEW e \in Elements, e \notin Listed,
           NEW nx, NEW pv, nx[e] = NULL, pv[e] = e,
           \A x \in Elements \ {e} : nx[x] = n[x] /\ pv[x] = p[x]
    PROVE  /\ e \notin Members(list[l])
           /\ Spells(<<e>>, e, nx, pv)
           /\ Spells(list[l], head[l], nx, pv)
<1>1. /\ list[l] \in Seq(Elements)
      /\ Spells(list[l], head[l], n, p) /\ Members(list[l]) \subseteq Elements
      /\ e \notin Members(list[l])
  BY ListFacts
<1>2. Spells(<<e>>, e, nx, pv)
  BY Alone
<1>3. \A x \in Members(list[l]) : nx[x] = n[x] /\ pv[x] = p[x]
  BY <1>1
<1>4. Spells(list[l], head[l], nx, pv)
  BY <1>1, <1>3, Frame
<1> QED BY <1>1, <1>2, <1>4

(***************************************************************************)
(* BF_LIST_DLL_PP keeps the invariant: the new element, alone, is joined   *)
(* with the list.                                                          *)
(***************************************************************************)
LEMMA PrependKeepsDInv ==
    ASSUME DInv, NEW l \in Lists, NEW e \in Elements, BF_LIST_DLL_PP(l, e)
    PROVE  DInv'
<1> DEFINE s == list[l]
           c == <<e>>
           t == c \o s
           h == head[l]
           nx == [n EXCEPT ![e] = NULL]
           pv == [p EXCEPT ![e] = e]
<1>1. /\ e \notin Listed /\ n' = [n EXCEPT ![e] = h]
      /\ p' = IF h = NULL THEN [p EXCEPT ![e] = e]
              ELSE [p EXCEPT ![e] = p[h], ![h] = e]
      /\ head' = [head EXCEPT ![l] = e] /\ list' = [list EXCEPT ![l] = t]
  BY DEF BF_LIST_DLL_PP
<1>2. /\ s \in Seq(Elements) /\ Distinct(s) /\ Len(s) \in Nat
      /\ h = NULL <=> Len(s) = 0
      /\ h = NULL <=> s = <<>>
      /\ Spells(s, h, n, p) /\ n \in Pointers /\ p \in Pointers
  BY ListFacts
<1>3. /\ nx \in Pointers /\ pv \in Pointers /\ nx[e] = NULL /\ pv[e] = e
      /\ \A x \in Elements \ {e} : nx[x] = n[x] /\ pv[x] = p[x]
  BY <1>2 DEF Pointers
<1>4. head'[l] = e
  BY <1>1 DEF DInv, Typed
<1>5. /\ h = NULL => n' = nx /\ p' = pv
      /\ h \in Elements \ {e} =>
           /\ n' = [nx EXCEPT ![pv[e]] = h]
           /\ p' = [pv EXCEPT ![e] = pv[h], ![h] = pv[e]]
  <2>1. ASSUME h \in Elements \ {e}
        PROVE  /\ n' = [nx EXCEPT ![pv[e]] = h]
               /\ p' = [pv EXCEPT ![e] = pv[h], ![h] = pv[e]]
    BY <1>1, <1>2, <1>3, <2>1, NullAssumption DEF Pointers
  <2> QED BY <1>1, <2>1
<1>6. /\ c \in Seq(Elements) /\ Len(c) > 0
      /\ Distinct(c) /\ Members(c) = {e}
  <2>1. Len(c) = 1
    BY Singleton
  <2> QED BY <2>1, Singleton
<1> HIDE DEF nx, pv, h
<1>7. /\ e \notin Members(s)
      /\ Spells(c, e, nx, pv) /\ Spells(s, h, nx, pv)
  BY <1>1, <1>3, Insertion DEF h
<1> HIDE DEF s, c
<1>8. Members(c) \cap Members(s) = {}
  BY <1>6, <1>7
<1>9. t \in Seq(Elements) /\ Distinct(t) /\ Members(t) = Members(s) \cup {e}
  BY <1>2, <1>6, <1>8, Concatenated
<1>10. /\ Spells(t, e, n', p') /\ n' \in Pointers /\ p' \in Pointers
       /\ AgreeOutside(Members(s) \cup {e}, n, p, n', p')
  <2>1. CASE Len(s) = 0
    <3>1. n' = nx /\ p' = pv
      BY <1>2, <1>5, <2>1
    <3>2. t = c
      BY <1>2, <1>6, <2>1, ConcatEmptySeq
    <3> QED BY <1>3, <1>7, <3>1, <3>2 DEF AgreeOutside
  <2>2. CASE Len(s) > 0
    <3>1. h \in Elements \ {e}
      <4>1. 1 \in 1..Len(s) /\ h = s[1]
        BY <1>2, <2>2 DEF Spells
      <4> QED BY <1>2, <1>7, <4>1, SeqFacts
    <3>2. /\ n' = [nx EXCEPT ![pv[e]] = h]
          /\ p' = [pv EXCEPT ![e] = pv[h], ![h] = pv[e]]
      BY <1>5, <3>1
    <3>3. /\ Spells(t, e, n', p') /\ n' \in Pointers /\ p' \in Pointers
          /\ AgreeOutside(Members(c) \cup Members(s), nx, pv, n', p')
      <4>1. /\ c \in Seq(Elements) /\ s \in Seq(Elements)
            /\ nx \in Pointers /\ pv \in Pointers
            /\ Distinct(c) /\ Distinct(s) /\ Members(c) \cap Members(s) = {}
            /\ Len(c) > 0 /\ Len(s) > 0
            /\ Spells(c, e, nx, pv) /\ Spells(s, h, nx, pv)
        BY <1>2, <1>3, <1>6, <1>7, <1>8, <2>2
      <4> DEFINE nx2 == [nx EXCEPT ![pv[e]] = h]
                 pv2 == [pv EXCEPT ![e] = pv[h], ![h] = pv[e]]
      <4>2. /\ Spells(c \o s, e, nx2, pv2)
            /\ nx2 \in Pointers /\ pv2 \in Pointers
            /\ AgreeOutside(Members(c) \cup Members(s), nx, pv, nx2, pv2)
        BY <4>1, Joined
      <4> QED BY <3>2, <4>2
    <3> QED BY <1>3, <1>6, <3>3 DEF AgreeOutside
  <2>3. Len(s) = 0 \/ Len(s) > 0
    BY <1>2, SeqFacts
  <2> QED BY <2>1, <2>2, <2>3
<1> DEFINE old == {}
           new == {e}
<1>11. /\ new \subseteq Elements \ Listed /\ old \subseteq Members(list[l])
       /\ Members(t) = (Members(list[l]) \cup new) \ old
       /\ AgreeOutside(Members(list[l]) \cup new, n, p, n', p')
       /\ \A x \in old : n'[x] = NULL /\ p'[x] = NULL
       /\ Spells(t, head'[l], n', p')
  BY <1>1, <1>4, <1>9, <1>10 DEF s
<1>12. \E g \in Elements \cup {NULL} : head' = [head EXCEPT ![l] = g]
  BY <1>1
<1> HIDE DEF old, new, t
<1> QED BY <1>1, <1>9, <1>10, <1>11, <1>12, OneListChanges

(***************************************************************************)
(* BF_LIST_DLL_AP keeps the invariant: the list is joined with the new     *)
(* element, alone.                                                         *)
(***************************************************************************)
LEMMA AppendKeepsDInv ==
    ASSUME DInv, NEW l \in Lists, NEW e \in Elements, BF_LIST_DLL_AP(l, e)
    PROVE  DInv'
<1> DEFINE s == list[l]
           c == <<e>>
           t == s \o c
           h == head[l]
           nx == [n EXCEPT ![e] = NULL]
           pv == [p EXCEPT ![e] = e]
<1>1. /\ e \notin Listed
      /\ h = NULL => n' = nx /\ p' = pv /\ head' = [head EXCEPT ![l] = e]
      /\ h # NULL => /\ n' = [n EXCEPT ![e] = NULL, ![p[h]] = e]
                     /\ p' = [p EXCEPT ![e] = p[h], ![h] = e]
                     /\ head' = head
      /\ list' = [list EXCEPT ![l] = Append(s, e)]
  BY DEF BF_LIST_DLL_AP
<1>2. /\ s \in Seq(Elements) /\ Distinct(s) /\ Len(s) \in Nat
      /\ h = NULL <=> Len(s) = 0
      /\ h = NULL <=> s = <<>>
      /\ Spells(s, h, n, p) /\ n \in Pointers /\ p \in Pointers
  BY ListFacts
<1>3. /\ nx \in Pointers /\ pv \in Pointers /\ nx[e] = NULL /\ pv[e] = e
      /\ \A x \in Elements \ {e} : nx[x] = n[x] /\ pv[x] = p[x]
  BY <1>2 DEF Pointers
<1>4. \E g \in Elements \cup {NULL} : head' = [head EXCEPT ![l] = g]
  <2>1. head = [head EXCEPT ![l] = h] /\ h \in Elements \cup {NULL}
    BY DEF DInv, Typed
  <2> QED BY <1>1, <2>1
<1>5. /\ h = NULL => n' = nx /\ p' = pv /\ head'[l] = e
      /\ h \in Elements \ {e} /\ p[h] \in Elements \ {e} =>
           /\ n' = [nx EXCEPT ![pv[h]] = e]
           /\ p' = [pv EXCEPT ![h] = pv[e], ![e] = pv[h]]
           /\ head'[l] = h
  <2>1. ASSUME h \in Elements \ {e}, p[h] \in Elements \ {e}
        PROVE  /\ n' = [nx EXCEPT ![pv[h]] = e]
               /\ p' = [pv EXCEPT ![h] = pv[e], ![e] = pv[h]]
               /\ head'[l] = h
    <3>1. /\ n' = [n EXCEPT ![e] = NULL, ![p[h]] = e]
          /\ p' = [p EXCEPT ![e] = p[h], ![h] = e]
          /\ head' = head
      BY <1>1, <2>1, NullAssumption
    <3>2. pv[h] = p[h] /\ pv[e] = e
      BY <1>3, <2>1
    <3>3. n' = [nx EXCEPT ![pv[h]] = e]
      BY <3>1, <3>2
    <3>4. p' = [pv EXCEPT ![h] = e, ![e] = p[h]]
      BY <1>2, <2>1, <3>1 DEF Pointers
    <3> QED BY <3>1, <3>2, <3>3, <3>4
  <2>2. h = NULL => head'[l] = e
    BY <1>1 DEF DInv, Typed
  <2> QED BY <1>1, <2>1, <2>2
<1>6. /\ c \in Seq(Elements) /\ Len(c) > 0
      /\ Distinct(c) /\ Members(c) = {e}
  <2>1. Len(c) = 1
    BY Singleton
  <2> QED BY <2>1, Singleton
<1> HIDE DEF nx, pv, h
<1>7. /\ e \notin Members(s)
      /\ Spells(c, e, nx, pv) /\ Spells(s, h, nx, pv)
  BY <1>1, <1>3, Insertion DEF h
<1> HIDE DEF s, c
<1>8. Members(c) \cap Members(s) = {}
  BY <1>6, <1>7
<1>9. /\ t \in Seq(Elements) /\ Distinct(t) /\ Members(t) = Members(s) \cup {e}
      /\ list' = [list EXCEPT ![l] = t]
  <2>1. t \in Seq(Elements) /\ Distinct(t) /\ Members(t) = Members(s) \cup {e}
    BY <1>2, <1>6, <1>8, Concatenated
  <2>2. Append(s, e) = t
    BY <1>2, AppendIsConcat DEF c
  <2> QED BY <1>1, <2>1, <2>2
<1>10. /\ Spells(t, head'[l], n', p') /\ n' \in Pointers /\ p' \in Pointers
       /\ AgreeOutside(Members(s) \cup {e}, n, p, n', p')
  <2>1. CASE Len(s) = 0
    <3>1. n' = nx /\ p' = pv /\ head'[l] = e
      BY <1>2, <1>5, <2>1
    <3>2. t = c
      BY <1>2, <1>6, <2>1, ConcatEmptySeq
    <3> QED BY <1>3, <1>7, <3>1, <3>2 DEF AgreeOutside
  <2>2. CASE Len(s) > 0
    <3>1. h \in Elements \ {e} /\ p[h] \in Elements \ {e}
      <4>1. /\ 1 \in 1..Len(s) /\ h = s[1]
            /\ Len(s) \in 1..Len(s) /\ p[h] = s[Len(s)]
        BY <1>2, <2>2 DEF Spells
      <4> QED BY <1>2, <1>7, <4>1, SeqFacts
    <3>2. /\ n' = [nx EXCEPT ![pv[h]] = e]
          /\ p' = [pv EXCEPT ![h] = pv[e], ![e] = pv[h]]
          /\ head'[l] = h
      BY <1>5, <3>1
    <3>3. /\ Spells(t, h, n', p') /\ n' \in Pointers /\ p' \in Pointers
          /\ AgreeOutside(Members(s) \cup Members(c), nx, pv, n', p')
      <4>1. /\ c \in Seq(Elements) /\ s \in Seq(Elements)
            /\ nx \in Pointers /\ pv \in Pointers
            /\ Distinct(c) /\ Distinct(s) /\ Members(s) \cap Members(c) = {}
            /\ Len(c) > 0 /\ Len(s) > 0
            /\ Spells(c, e, nx, pv) /\ Spells(s, h, nx, pv)
        BY <1>2, <1>3, <1>6, <1>7, <1>8, <2>2
      <4> DEFINE nx2 == [nx EXCEPT ![pv[h]] = e]
                 pv2 == [pv EXCEPT ![h] = pv[e], ![e] = pv[h]]
      <4>2. /\ Spells(s \o c, h, nx2, pv2)
            /\ nx2 \in Pointers /\ pv2 \in Pointers
            /\ AgreeOutside(Members(s) \cup Members(c), nx, pv, nx2, pv2)
        BY <4>1, Joined
      <4> QED BY <3>2, <4>2
    <3> QED BY <1>3, <1>6, <3>2, <3>3 DEF AgreeOutside
  <2>3. Len(s) = 0 \/ Len(s) > 0
    BY <1>2, SeqFacts
  <2> QED BY <2>1, <2>2, <2>3
<1> DEFINE old == {}
           new == {e}
<1>11. /\ new \subseteq Elements \ Listed /\ old \subseteq Members(list[l])
       /\ Members(t) = (Members(list[l]) \cup new) \ old
       /\ AgreeOutside(Members(list[l]) \cup new, n, p, n', p')
       /\ \A x \in old : n'[x] = NULL /\ p'[x] = NULL
  BY <1>1, <1>9, <1>10 DEF s
<1> HIDE DEF old, new, t
<1> QED BY <1>4, <1>9, <1>10, <1>11, OneListChanges

(***************************************************************************)
(* BF_LIST_DLL_REM keeps the invariant.                                    *)
(***************************************************************************)
LEMMA RemoveKeepsDInv ==
    ASSUME DInv, NEW l \in Lists, NEW e \in Elements, BF_LIST_DLL_REM(l, e)
    PROVE  DInv'
<1> DEFINE s == list[l]
           h == head[l]
           t == Without(s, e)
<1>1. e \in Members(s) /\ list' = [list EXCEPT ![l] = t]
  BY DEF BF_LIST_DLL_REM
<1>2. /\ s \in Seq(Elements) /\ Distinct(s)
      /\ Spells(s, h, n, p) /\ n \in Pointers /\ p \in Pointers
  BY ListFacts
<1>3. PICK k \in 1..Len(s) : e = s[k]
  BY <1>1 DEF Members
<1>4. Unlink(e, h, n, p, head'[l], n', p')
  BY DEF BF_LIST_DLL_REM, DInv, Typed, Unlink
<1>5. \E g \in Elements \cup {NULL} : head' = [head EXCEPT ![l] = g]
  <2>1. /\ head = [head EXCEPT ![l] = h] /\ h \in Elements \cup {NULL}
        /\ n[e] \in Elements \cup {NULL}
    BY DEF DInv, Typed, Pointers
  <2>2. \/ head' = [head EXCEPT ![l] = NULL]
        \/ head' = [head EXCEPT ![l] = n[e]]
        \/ head' = head
    BY DEF BF_LIST_DLL_REM
  <2> QED BY <2>1, <2>2
<1> HIDE DEF s, h, t
<1>6. t \in Seq(Elements) /\ Distinct(t) /\ Members(t) = Members(s) \ {e}
  BY <1>2, <1>3, Removed DEF t
<1>7. /\ Spells(t, head'[l], n', p') /\ n' \in Pointers /\ p' \in Pointers
      /\ n'[e] = NULL /\ p'[e] = NULL
      /\ AgreeOutside(Members(s), n, p, n', p')
  BY <1>1, <1>2, <1>4, Detached DEF t
<1> DEFINE old == {e}
           new == {}
<1>8. /\ new \subseteq Elements \ Listed /\ old \subseteq Members(list[l])
      /\ Members(t) = (Members(list[l]) \cup new) \ old
      /\ AgreeOutside(Members(list[l]) \cup new, n, p, n', p')
      /\ \A x \in old : n'[x] = NULL /\ p'[x] = NULL
  <2>1. Members(s) \cup new = Members(s)
    OBVIOUS
  <2> QED BY <1>1, <1>6, <1>7, <2>1 DEF s
<1> HIDE DEF old, new
<1> QED BY <1>1, <1>5, <1>6, <1>7, <1>8, OneListChanges

(***************************************************************************)
(* BF_LIST_DLL_CAT keeps the invariant.                                    *)
(***************************************************************************)
LEMMA ConcatKeepsDInv ==
    ASSUME DInv, NEW f \in Lists, NEW s \in Lists, BF_LIST_DLL_CAT(f, s)
    PROVE  DInv'
<1> DEFINE a == list[f]
           b == list[s]
           t == a \o b
           g == head[f]
           h == head[s]
           nx2 == [n EXCEPT ![p[g]] = h]
           pv2 == [p EXCEPT ![g] = p[h], ![h] = p[g]]
<1>1. f # s /\ list' = [list EXCEPT ![f] = t, ![s] = <<>>]
  BY DEF BF_LIST_DLL_CAT
<1>2. /\ a \in Seq(Elements) /\ Distinct(a) /\ Len(a) \in Nat
      /\ g = NULL <=> Len(a) = 0
      /\ g = NULL <=> a = <<>>
      /\ b \in Seq(Elements) /\ Distinct(b) /\ Len(b) \in Nat
      /\ h = NULL <=> Len(b) = 0
      /\ h = NULL <=> b = <<>>
      /\ Spells(a, g, n, p) /\ Spells(b, h, n, p)
      /\ n \in Pointers /\ p \in Pointers
  BY ListFacts
<1>3. Members(a) \cap Members(b) = {} /\ g \in Elements \cup {NULL} /\ h \in Elements \cup {NULL}
  BY <1>1 DEF DInv, OnePlace, Typed
<1>4. /\ list'[f] = t /\ list'[s] = <<>> /\ \A m \in Lists \ {f, s} : list'[m] = list[m]
      /\ list' \in [Lists -> Seq(Elements)]
      /\ t \in Seq(Elements) /\ Distinct(t) /\ Members(t) = Members(a) \cup Members(b)
  <2>1. t \in Seq(Elements) /\ Distinct(t) /\ Members(t) = Members(a) \cup Members(b)
    BY <1>2, <1>3, Concatenated
  <2> HIDE DEF t
  <2>2. <<>> \in Seq(Elements)
    BY EmptySeq
  <2> QED BY <1>1, <2>1, <2>2 DEF DInv, Typed
<1>5. \/ /\ h # NULL /\ g # NULL /\ n' = nx2 /\ p' = pv2
         /\ head' = [head EXCEPT ![s] = NULL]
      \/ /\ h # NULL /\ g = NULL /\ n' = n /\ p' = p
         /\ head' = [head EXCEPT ![f] = h, ![s] = NULL]
      \/ h = NULL /\ n' = n /\ p' = p /\ head' = head
  BY DEF BF_LIST_DLL_CAT, pointers
<1>6. /\ head' \in [Lists -> Elements \cup {NULL}]
      /\ \A m \in Lists \ {f, s} : head'[m] = head[m]
      /\ head'[s] = NULL
      /\ head'[f] = IF g # NULL THEN g ELSE h
  BY <1>1, <1>3, <1>5 DEF DInv, Typed
<1>7. /\ Spells(t, head'[f], n', p') /\ n' \in Pointers /\ p' \in Pointers
      /\ AgreeOutside(Members(a) \cup Members(b), n, p, n', p')
  <2> HIDE DEF a, b, g, h
  <2>1. CASE h # NULL /\ g # NULL
    <3>1. Len(a) > 0 /\ Len(b) > 0
      BY <1>2, <2>1, SeqFacts
    <3>2. /\ Spells(a \o b, g, nx2, pv2) /\ nx2 \in Pointers /\ pv2 \in Pointers
          /\ AgreeOutside(Members(a) \cup Members(b), n, p, nx2, pv2)
      BY <1>2, <1>3, <3>1, Joined
    <3> HIDE DEF nx2, pv2
    <3> QED BY <1>5, <1>6, <2>1, <3>2
  <2>2. CASE h # NULL /\ g = NULL
    <3>1. t = b
      BY <1>2, <2>2, ConcatEmptySeq
    <3> QED BY <1>2, <1>5, <1>6, <2>2, <3>1 DEF AgreeOutside
  <2>3. CASE h = NULL
    <3>1. t = a
      BY <1>2, <2>3, ConcatEmptySeq
    <3>2. head'[f] = g
      BY <1>6, <2>3
    <3> QED BY <1>2, <1>5, <2>3, <3>1, <3>2 DEF AgreeOutside
  <2> QED BY <2>1, <2>2, <2>3
<1> HIDE DEF t
<1>8. Typed'
  BY <1>4, <1>6, <1>7 DEF Typed
<1>9. Len(<<>>) = 0 /\ 1..0 = {} /\ Distinct(<<>>) /\ Members(<<>>) = {}
  <2>1. Len(<<>>) = 0 /\ 1..0 = {}
    BY EmptySeq
  <2> QED BY <2>1 DEF Distinct, Members
<1>10. OnePlace'
  <2>1. \A m \in Lists : Distinct(list'[m])
    BY <1>4, <1>9 DEF DInv, OnePlace
  <2>2. \A m \in Lists \ {f, s} :
          Members(list'[m]) \cap Members(list'[f]) = {}
    BY <1>4 DEF DInv, OnePlace
  <2>3. \A m \in Lists : Members(list'[m]) \cap Members(list'[s]) = {}
    BY <1>4, <1>9
  <2>4. \A m, k \in Lists \ {f, s} : m # k => Members(list'[m]) \cap Members(list'[k]) = {}
    BY <1>4 DEF DInv, OnePlace
  <2> QED BY <2>1, <2>2, <2>3, <2>4 DEF OnePlace
<1>11. AllSpelt'
  <2>1. Spells(list'[s], head'[s], n', p')
    BY <1>4, <1>6, <1>9 DEF Spells
  <2>2. ASSUME NEW m \in Lists, m # f, m # s
        PROVE  Spells(list'[m], head'[m], n', p')
    <3>1. /\ list[m] \in Seq(Elements) /\ Spells(list[m], head[m], n, p)
          /\ Members(list[m]) \subseteq Elements
      BY ListFacts
    <3>2. Members(list[m]) \cap (Members(a) \cup Members(b)) = {}
      BY <2>2 DEF DInv, OnePlace
    <3>3. \A x \in Members(list[m]) : n'[x] = n[x] /\ p'[x] = p[x]
      BY <1>7, <3>1, <3>2 DEF AgreeOutside
    <3>4. Spells(list[m], head[m], n', p')
      BY <3>1, <3>3, Frame
    <3> QED BY <1>4, <1>6, <2>2, <3>4
  <2> QED BY <1>4, <1>7, <2>1, <2>2 DEF AllSpelt
<1>12. Unlinked'
  <2> SUFFICES ASSUME NEW x \in Elements, x \notin Listed'
               PROVE  n'[x] = NULL /\ p'[x] = NULL
    BY DEF Unlinked
  <2>1. \A m \in Lists : x \notin Members(list'[m])
    BY DEF Listed
  <2>2. /\ x \notin Members(a) \cup Members(b)
        /\ \A m \in Lists \ {f, s} : x \notin Members(list[m])
    BY <1>4, <2>1
  <2>3. x \notin Listed
    BY <2>2 DEF Listed
  <2> QED BY <1>7, <2>2, <2>3 DEF AgreeOutside, DInv, Unlinked
<1> QED BY <1>8, <1>10, <1>11, <1>12 DEF DInv

-----------------------------------------------------------------------------
(***************************************************************************)
(* The invariant, and what follows from it                                 *)
(***************************************************************************)

(***************************************************************************)
(* The invariant holds in every reachable state.                           *)
(***************************************************************************)
THEOREM Invariance == Spec => []DInv
<1>1. Init => DInv
  <2> SUFFICES ASSUME Init PROVE DInv
    OBVIOUS
  <2>1. <<>> \in Seq(Elements) /\ Len(<<>>) = 0 /\ 1..0 = {}
    BY EmptySeq
  <2>2. \A l \in Lists : list[l] = <<>> /\ head[l] = NULL
    BY DEF Init
  <2>3. Typed
    BY <2>1 DEF Init, Typed, Pointers
  <2>4. OnePlace
    <3>1. \A l \in Lists : Distinct(list[l]) /\ Members(list[l]) = {}
      BY <2>1, <2>2 DEF Distinct, Members
    <3> QED BY <3>1 DEF OnePlace
  <2>5. AllSpelt
    <3>1. Spells(<<>>, NULL, n, p)
      BY <2>1 DEF Spells
    <3> QED BY <2>2, <3>1 DEF AllSpelt
  <2>6. Unlinked
    BY DEF Init, Unlinked
  <2> QED BY <2>3, <2>4, <2>5, <2>6 DEF DInv
<1>2. DInv /\ [Next]_vars => DInv'
  <2> SUFFICES ASSUME DInv, [Next]_vars PROVE DInv'
    OBVIOUS
  <2>1. CASE Next
    BY <2>1, PrependKeepsDInv, AppendKeepsDInv, RemoveKeepsDInv, ConcatKeepsDInv
       DEF Next
  <2>2. CASE UNCHANGED vars
    BY <2>2 DEF vars, pointers, DInv, Typed, OnePlace, AllSpelt, Unlinked, Listed
  <2> QED BY <2>1, <2>2
<1> QED BY <1>1, <1>2, PTL DEF Spec

(***************************************************************************)
(* From the head, the next pointers always lead through the elements of    *)
(* the list in the order in which the macros put them, and end in NULL.    *)
(***************************************************************************)
THEOREM ForwardAlways == Spec => []Forward
<1>1. DInv => Forward
  <2> SUFFICES ASSUME DInv, NEW l \in Lists
               PROVE  /\ head[l] = IF list[l] = <<>> THEN NULL ELSE list[l][1]
                      /\ \A i \in 1..Len(list[l]) :
                           n[list[l][i]] = IF i = Len(list[l]) THEN NULL
                                           ELSE list[l][i + 1]
    BY DEF Forward
  <2> DEFINE s == list[l]
  <2>1. /\ s \in Seq(Elements) /\ Spells(s, head[l], n, p) /\ Len(s) \in Nat
        /\ s = <<>> <=> Len(s) = 0
    BY ListFacts
  <2> HIDE DEF s
  <2>2. head[l] = IF s = <<>> THEN NULL ELSE s[1]
    BY <2>1, SeqFacts DEF Spells
  <2>3. ASSUME NEW i \in 1..Len(s)
        PROVE  n[s[i]] = IF i = Len(s) THEN NULL ELSE s[i + 1]
    <3>1. Len(s) > 0 /\ (i # Len(s) => i \in 1..(Len(s) - 1))
      BY <2>1
    <3> QED BY <2>1, <3>1 DEF Spells
  <2> QED BY <2>2, <2>3 DEF s
<1> QED BY <1>1, Invariance, PTL

(***************************************************************************)
(* The prev pointers always lead back, and the head's prev, which is what  *)
(* BF_LIST_DLL_LAST returns, is the last element.                          *)
(***************************************************************************)
THEOREM BackwardAlways == Spec => []Backward
<1>1. DInv => Backward
  <2> SUFFICES ASSUME DInv, NEW l \in Lists
               PROVE  /\ BF_LIST_DLL_LAST(l) = IF list[l] = <<>> THEN NULL
                                               ELSE list[l][Len(list[l])]
                      /\ \A i \in 2..Len(list[l]) : p[list[l][i]] = list[l][i - 1]
    BY DEF Backward
  <2> DEFINE s == list[l]
             h == head[l]
  <2>1. /\ s \in Seq(Elements) /\ Spells(s, h, n, p) /\ Len(s) \in Nat
        /\ s = <<>> <=> Len(s) = 0
        /\ h = NULL <=> Len(s) = 0
        /\ BF_LIST_DLL_LAST(l) = IF h # NULL THEN p[h] ELSE NULL
    BY ListFacts DEF BF_LIST_DLL_LAST
  <2> HIDE DEF s, h
  <2>2. BF_LIST_DLL_LAST(l) = IF s = <<>> THEN NULL ELSE s[Len(s)]
    <3>1. ASSUME Len(s) # 0 PROVE p[h] = s[Len(s)]
      <4>1. Len(s) > 0
        BY <2>1, <3>1, SeqFacts
      <4> QED BY <2>1, <4>1 DEF Spells
    <3> QED BY <2>1, <3>1
  <2>3. ASSUME NEW i \in 2..Len(s) PROVE p[s[i]] = s[i - 1]
    <3>1. i - 1 \in 1..(Len(s) - 1) /\ (i - 1) + 1 = i
      BY <2>1
    <3>2. p[s[(i - 1) + 1]] = s[i - 1]
      BY <2>1, <3>1 DEF Spells
    <3> QED BY <3>1, <3>2
  <2> QED BY <2>2, <2>3 DEF s
<1> QED BY <1>1, Invariance, PTL

(***************************************************************************)
(* An element always has pointers just while some list holds it.           *)
(***************************************************************************)
THEOREM LinkedAlways == Spec => []LinkedWhileListed
<1>1. DInv => LinkedWhileListed
  <2> SUFFICES ASSUME DInv, NEW e \in Elements, e \in Listed PROVE p[e] # NULL
    BY DEF DInv, Unlinked, LinkedWhileListed
  <2>1. PICK l \in Lists : e \in Members(list[l])
    BY DEF Listed
  <2> DEFINE s == list[l]
  <2>2. /\ s \in Seq(Elements) /\ Spells(s, head[l], n, p) /\ Len(s) \in Nat
    BY ListFacts
  <2> HIDE DEF s
  <2>3. \A i \in 1..Len(s) : s[i] # NULL
    BY <2>2, SeqFacts, NullAssumption
  <2>4. PICK i \in 1..Len(s) : e = s[i]
    BY <2>1 DEF Members, s
  <2>5. CASE i = 1
    <3>1. Len(s) > 0 /\ Len(s) \in 1..Len(s)
      BY <2>2, <2>5
    <3>2. p[s[1]] = s[Len(s)]
      BY <2>2, <3>1 DEF Spells
    <3> QED BY <2>3, <2>4, <2>5, <3>1, <3>2
  <2>6. CASE i # 1
    <3>1. i - 1 \in 1..(Len(s) - 1) /\ (i - 1) + 1 = i /\ i - 1 \in 1..Len(s)
      BY <2>2, <2>6
    <3>2. p[s[(i - 1) + 1]] = s[i - 1]
      BY <2>2, <3>1 DEF Spells
    <3> QED BY <2>3, <2>4, <3>1, <3>2
  <2> QED BY <2>5, <2>6
<1> QED BY <1>1, Invariance, PTL
=============================================================================
