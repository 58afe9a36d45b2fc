-------------------------- MODULE HashTableProofs --------------------------
(***************************************************************************)
(* Proofs about HashTable, for every set of objects, keys, seeds and node  *)
(* addresses and every hash function.                                      *)
(***************************************************************************)
EXTENDS HashTable, Integers, FiniteSetTheorems, SequenceTheorems,
        WellFoundedInduction, TLAPS

-----------------------------------------------------------------------------
(***************************************************************************)
(* Numbers                                                                 *)
(***************************************************************************)

(***************************************************************************)
(* A set of natural numbers that is not empty has a least element.         *)
(***************************************************************************)
LEMMA LeastNat ==
    ASSUME NEW S \in SUBSET Nat, S # {}
    PROVE  \E x \in S : \A y \in S : x <= y
<1> DEFINE R == OpToRel(<, Nat)
<1>1. \A x, y \in Nat : x < y => <<x, y>> \in R
  BY DEF OpToRel
<1>2. IsWellFoundedOn(R, Nat)
  BY NatLessThanWellFounded
<1> HIDE DEF R
<1>3. PICK x \in S : \A y \in S : ~ (<<y, x>> \in R)
  BY <1>2, WFMin
<1>4. ASSUME NEW y \in S PROVE x <= y
  <2>1. x \in Nat /\ y \in Nat
    OBVIOUS
  <2>2. ~ (y < x)
    BY <1>1, <1>3, <2>1
  <2> QED BY <2>1, <2>2
<1> QED BY <1>4

(***************************************************************************)
(* Min finds it.  The searches of the model are written with Min.          *)
(***************************************************************************)
LEMMA MinOfNats ==
    ASSUME NEW S \in SUBSET Nat, S # {}
    PROVE  Min(S) \in S /\ \A y \in S : Min(S) <= y
BY LeastNat DEF Min

-----------------------------------------------------------------------------
Entry == [node : Nodes, hash : Nat]

Typed ==
    /\ phtbl \in {"none", "live", "deleting", "freed"}
    /\ free_fn \in BOOLEAN /\ seed \in Seeds
    /\ hashlin \in Seq(Entry) /\ deleting \in Seq(Entry)
    /\ order \in Seq(Objects)
    /\ data \in [DOMAIN data -> Objects]
    /\ owner \in [Objects -> {"client", "table", "freed"}]
    /\ phtbl \in {"none", "freed"} => hashlin = <<>>

\* The nodes d that are allocated are those of the entries e, each in one.
Held(e, d) ==
    /\ DOMAIN d = {e[i].node : i \in 1..Len(e)}
    /\ \A i, j \in 1..Len(e) : e[i].node = e[j].node => i = j

\* The objects behind the nodes d are those that w says are the table's, and
\* each is behind one node.
Owns(d, w) ==
    /\ \A o \in Objects : w[o] = "table" <=> \E m \in DOMAIN d : d[m] = o
    /\ \A l, m \in DOMAIN d : d[l] = d[m] => l = m

\* The entries e have the objects q in the same order, and the hashes of their
\* keys under seed s.
InOrder(e, d, q, s) ==
    /\ Len(q) = Len(e)
    /\ \A i \in 1..Len(e) :
          q[i] = d[e[i].node] /\ e[i].hash = XXH32[s][KeyOf[q[i]]]

Entries == IF phtbl = "deleting" THEN deleting ELSE hashlin

HInv ==
    /\ Typed
    /\ Held(Entries, data)
    /\ Owns(data, owner)
    /\ phtbl # "deleting" => InOrder(hashlin, data, order, seed)

-----------------------------------------------------------------------------
(***************************************************************************)
(* Entries, nodes and owners                                               *)
(***************************************************************************)

(***************************************************************************)
(* The place in the old sequence of what is at j when place i is gone.     *)
(***************************************************************************)
Before(i, j) == IF j < i THEN j ELSE j + 1

\* e2 is e without its entry at i.
Shorter(e, i, e2) ==
    /\ Len(e2) = Len(e) - 1
    /\ \A j \in 1..Len(e2) : e2[j] = e[Before(i, j)]

(***************************************************************************)
(* RemoveAt, as tommy_hashlin_remove takes an entry out.                   *)
(***************************************************************************)
LEMMA RemoveAtShorter ==
    ASSUME NEW S, NEW e \in Seq(S), NEW i \in 1..Len(e)
    PROVE  RemoveAt(e, i) \in Seq(S) /\ Shorter(e, i, RemoveAt(e, i))
<1> DEFINE a == SubSeq(e, 1, i - 1)
           b == SubSeq(e, i + 1, Len(e))
<1>0. Len(e) \in Nat /\ i \in Nat
  OBVIOUS
<1>1. a \in Seq(S) /\ Len(a) = i - 1 /\ \A j \in 1..(i - 1) : a[j] = e[j]
  BY <1>0
<1>2. /\ b \in Seq(S) /\ Len(b) = Len(e) - i
      /\ \A j \in 1..(Len(e) - i) : b[j] = e[i + j]
  BY <1>0
<1> HIDE DEF a, b
<1>3. /\ a \o b \in Seq(S) /\ Len(a \o b) = Len(e) - 1
      /\ \A j \in 1..(Len(e) - 1) :
            (a \o b)[j] = IF j <= i - 1 THEN a[j] ELSE b[j - (i - 1)]
  <2>1. /\ a \o b \in Seq(S) /\ Len(a \o b) = Len(a) + Len(b)
        /\ \A j \in 1..(Len(a) + Len(b)) :
              (a \o b)[j] = IF j <= Len(a) THEN a[j] ELSE b[j - Len(a)]
    BY <1>1, <1>2, ConcatProperties
  <2>2. Len(a) + Len(b) = Len(e) - 1
    BY <1>0, <1>1, <1>2
  <2> QED BY <1>1, <2>1, <2>2
<1>4. ASSUME NEW j \in 1..(Len(e) - 1) PROVE (a \o b)[j] = e[Before(i, j)]
  <2>1. CASE j < i
    BY <1>0, <1>1, <1>3, <2>1 DEF Before
  <2>2. CASE ~(j < i)
    <3>1. j - (i - 1) \in 1..(Len(e) - i) /\ i + (j - (i - 1)) = j + 1
      BY <1>0, <2>2
    <3>2. b[j - (i - 1)] = e[j + 1]
      BY <1>2, <3>1
    <3> QED BY <1>0, <1>3, <2>2, <3>2 DEF Before
  <2> QED BY <2>1, <2>2
<1> QED BY <1>3, <1>4 DEF RemoveAt, Shorter, a, b

(***************************************************************************)
(* Tail, as bf_hashtbl_delete goes on to the next node.                    *)
(***************************************************************************)
LEMMA TailShorter ==
    ASSUME NEW S, NEW e \in Seq(S), e # <<>>
    PROVE  /\ Tail(e) \in Seq(S) /\ Shorter(e, 1, Tail(e))
           /\ 1 \in 1..Len(e) /\ Head(e) = e[1]
BY DEF Shorter, Before

(***************************************************************************)
(* Places other than i are the places of the shorter sequence.             *)
(***************************************************************************)
LEMMA Places ==
    ASSUME NEW n \in Nat, NEW i \in 1..n
    PROVE  /\ \A j \in 1..(n - 1) : Before(i, j) \in 1..n /\ Before(i, j) # i
           /\ \A j, k \in 1..(n - 1) : Before(i, j) = Before(i, k) => j = k
           /\ \A k \in 1..n : k # i => \E j \in 1..(n - 1) : Before(i, j) = k
<1>1. ASSUME NEW k \in 1..n, k # i PROVE \E j \in 1..(n - 1) : Before(i, j) = k
  <2>1. CASE k < i
    <3>1. k \in 1..(n - 1) /\ Before(i, k) = k
      BY <2>1 DEF Before
    <3> QED BY <3>1
  <2>2. CASE k > i
    <3>1. k - 1 \in 1..(n - 1) /\ Before(i, k - 1) = k
      BY <2>2 DEF Before
    <3> QED BY <3>1
  <2> QED BY <1>1, <2>1, <2>2
<1> QED BY <1>1 DEF Before

(***************************************************************************)
(* When the entry at i goes and its node is freed, the other nodes are     *)
(* those of the other entries.                                             *)
(***************************************************************************)
LEMMA HeldWithout ==
    ASSUME NEW e \in Seq(Entry), NEW d, Held(e, d), NEW i \in 1..Len(e),
           NEW e2 \in Seq(Entry), Shorter(e, i, e2)
    PROVE  Held(e2, [m \in DOMAIN d \ {e[i].node} |-> d[m]])
<1> DEFINE n == Len(e)
<1>1. n \in Nat /\ Len(e2) = n - 1 /\ \A j \in 1..(n - 1) : e2[j] = e[Before(i, j)]
  BY DEF Shorter
<1>2. /\ \A j \in 1..(n - 1) : Before(i, j) \in 1..n /\ Before(i, j) # i
      /\ \A j, k \in 1..(n - 1) : Before(i, j) = Before(i, k) => j = k
      /\ \A k \in 1..n : k # i => \E j \in 1..(n - 1) : Before(i, j) = k
  BY <1>1, Places
<1>3. /\ DOMAIN d = {e[k].node : k \in 1..n}
      /\ \A k, l \in 1..n : e[k].node = e[l].node => k = l
  BY DEF Held
<1> HIDE DEF n
<1>4. DOMAIN d \ {e[i].node} = {e2[j].node : j \in 1..(n - 1)}
  <2>1. ASSUME NEW m \in DOMAIN d, m # e[i].node
        PROVE  \E j \in 1..(n - 1) : m = e2[j].node
    <3>1. PICK k \in 1..n : m = e[k].node
      BY <1>3
    <3>2. PICK j \in 1..(n - 1) : Before(i, j) = k
      BY <1>2, <2>1, <3>1
    <3> QED BY <1>1, <3>1, <3>2
  <2>2. ASSUME NEW j \in 1..(n - 1)
        PROVE  e2[j].node \in DOMAIN d /\ e2[j].node # e[i].node
    <3>1. e2[j].node = e[Before(i, j)].node
      BY <1>1
    <3>2. Before(i, j) \in 1..n /\ Before(i, j) # i /\ i \in 1..n
      BY <1>2 DEF n
    <3> QED BY <1>3, <3>1, <3>2
  <2> QED BY <2>1, <2>2
<1>5. ASSUME NEW j \in 1..(n - 1), NEW k \in 1..(n - 1), e2[j].node = e2[k].node
      PROVE  j = k
  <2>1. e[Before(i, j)].node = e[Before(i, k)].node
    BY <1>1, <1>5
  <2>2. Before(i, j) = Before(i, k)
    BY <1>2, <1>3, <2>1
  <2> QED BY <1>2, <2>2
<1> QED BY <1>1, <1>4, <1>5 DEF Held

(***************************************************************************)
(* When a node is freed and its object is no longer the table's, the other *)
(* nodes have the other objects of the table.                              *)
(***************************************************************************)
LEMMA OwnsWithout ==
    ASSUME NEW d, d \in [DOMAIN d -> Objects],
           NEW w \in [Objects -> {"client", "table", "freed"}],
           Owns(d, w), NEW node \in DOMAIN d, NEW x \in {"client", "freed"}
    PROVE  Owns([m \in DOMAIN d \ {node} |-> d[m]], [w EXCEPT ![d[node]] = x])
<1> DEFINE d2 == [m \in DOMAIN d \ {node} |-> d[m]]
           w2 == [w EXCEPT ![d[node]] = x]
<1>0. d[node] \in Objects
  OBVIOUS
<1>1. \A l, m \in DOMAIN d2 : d2[l] = d2[m] => l = m
  BY DEF Owns
<1>2. ASSUME NEW o \in Objects PROVE w2[o] = "table" <=> \E m \in DOMAIN d2 : d2[m] = o
  <2>1. CASE o = d[node]
    <3>1. w2[o] # "table"
      BY <1>0, <2>1
    <3>2. \A m \in DOMAIN d2 : d2[m] # o
      BY <2>1 DEF Owns
    <3> QED BY <3>1, <3>2
  <2>2. CASE o # d[node]
    <3>1. w2[o] = w[o]
      BY <1>0, <2>2
    <3>2. (\E m \in DOMAIN d : d[m] = o) <=> \E m \in DOMAIN d2 : d2[m] = o
      BY <2>2
    <3> QED BY <3>1, <3>2 DEF Owns
  <2> QED BY <2>1, <2>2
<1> QED BY <1>1, <1>2 DEF Owns

(***************************************************************************)
(* The entries that are left have the objects that are left, in order.     *)
(***************************************************************************)
LEMMA InOrderWithout ==
    ASSUME NEW e \in Seq(Entry), NEW d, NEW q \in Seq(Objects), NEW s,
           Held(e, d), InOrder(e, d, q, s), NEW i \in 1..Len(e),
           NEW e2 \in Seq(Entry), Shorter(e, i, e2),
           NEW q2 \in Seq(Objects), Shorter(q, i, q2)
    PROVE  InOrder(e2, [m \in DOMAIN d \ {e[i].node} |-> d[m]], q2, s)
<1> DEFINE n == Len(e)
           d2 == [m \in DOMAIN d \ {e[i].node} |-> d[m]]
<1>1. /\ n \in Nat /\ Len(e2) = n - 1 /\ Len(q) = n /\ Len(q2) = n - 1
      /\ \A j \in 1..(n - 1) : e2[j] = e[Before(i, j)] /\ q2[j] = q[Before(i, j)]
  BY DEF Shorter, InOrder
<1>2. \A j \in 1..(n - 1) : Before(i, j) \in 1..n
  BY <1>1, Places
<1>3. Held(e2, d2)
  BY HeldWithout
<1>4. ASSUME NEW j \in 1..(n - 1)
      PROVE  q2[j] = d2[e2[j].node] /\ e2[j].hash = XXH32[s][KeyOf[q2[j]]]
  <2>1. e2[j].node \in DOMAIN d2
    BY <1>1, <1>3 DEF Held
  <2>2. d2[e2[j].node] = d[e2[j].node]
    BY <2>1
  <2> QED BY <1>1, <1>2, <2>2 DEF InOrder
<1> QED BY <1>1, <1>4 DEF InOrder

-----------------------------------------------------------------------------
(***************************************************************************)
(* One lemma per operation                                                 *)
(***************************************************************************)

\* bf_hashtbl_insert.
LEMMA InsertStep ==
    ASSUME HInv, NEW o \in Objects, NEW node, Insert(o, node)
    PROVE  HInv'
<1> DEFINE entry == [node |-> node, hash |-> construct_hash(KeyOf[o])]
           n == Len(hashlin)
<1>1. /\ phtbl = "live" /\ owner[o] = "client" /\ node \in Nodes \ DOMAIN data
      /\ data' = [m \in DOMAIN data \cup {node} |-> IF m = node THEN o ELSE data[m]]
      /\ hashlin' = Append(hashlin, entry)
      /\ owner' = [owner EXCEPT ![o] = "table"] /\ order' = Append(order, o)
      /\ UNCHANGED <<phtbl, free_fn, seed, deleting>>
  BY DEF Insert, Ready, fields
<1>2. entry \in Entry
  BY <1>1, HashAssumption DEF HInv, Typed, Entry, construct_hash
<1>3. /\ n \in Nat /\ hashlin' \in Seq(Entry) /\ Len(hashlin') = n + 1
      /\ hashlin'[n + 1] = entry /\ \A i \in 1..n : hashlin'[i] = hashlin[i]
  BY <1>1, <1>2 DEF HInv, Typed
<1>4. /\ Len(order) = n /\ order' \in Seq(Objects) /\ Len(order') = n + 1
      /\ order'[n + 1] = o /\ \A i \in 1..n : order'[i] = order[i]
  BY <1>1 DEF HInv, Typed, InOrder
<1>5. /\ DOMAIN data' = DOMAIN data \cup {node} /\ data'[node] = o
      /\ \A m \in DOMAIN data : data'[m] = data[m] /\ m # node
      /\ data' \in [DOMAIN data' -> Objects]
  BY <1>1 DEF HInv, Typed
<1>6. /\ DOMAIN data = {hashlin[i].node : i \in 1..n}
      /\ \A i, j \in 1..n : hashlin[i].node = hashlin[j].node => i = j
      /\ \A i \in 1..n : /\ order[i] = data[hashlin[i].node]
                         /\ hashlin[i].hash = XXH32[seed][KeyOf[order[i]]]
  BY <1>1 DEF HInv, Held, InOrder, Entries
<1>7. entry.node = node /\ entry.hash = XXH32[seed][KeyOf[o]]
  BY DEF construct_hash
<1> HIDE DEF n, entry
<1>8. \A i \in 1..(n + 1) : i \in 1..n \/ i = n + 1
  BY <1>3
<1>9. n + 1 \in 1..(n + 1) /\ \A i \in 1..n : i \in 1..(n + 1)
  BY <1>3
<1>10. Held(hashlin', data')
  <2>1. DOMAIN data' = {hashlin'[i].node : i \in 1..(n + 1)}
    BY <1>3, <1>5, <1>6, <1>7, <1>8, <1>9
  <2>2. ASSUME NEW i \in 1..(n + 1), NEW j \in 1..(n + 1),
               hashlin'[i].node = hashlin'[j].node
        PROVE  i = j
    <3>1. \A k \in 1..n : hashlin'[k].node # node
      BY <1>3, <1>5, <1>6
    <3>2. hashlin'[n + 1].node = node
      BY <1>3, <1>7
    <3>3. CASE i \in 1..n /\ j \in 1..n
      BY <1>3, <1>6, <2>2, <3>3
    <3> QED BY <1>8, <2>2, <3>1, <3>2, <3>3
  <2> QED BY <1>3, <2>1, <2>2 DEF Held
<1>11. Owns(data', owner')
  <2>1. \A m \in DOMAIN data : data[m] # o
    BY <1>1 DEF HInv, Owns
  <2>2. \A l, m \in DOMAIN data' : data'[l] = data'[m] => l = m
    BY <1>5, <2>1 DEF HInv, Owns
  <2>3. ASSUME NEW x \in Objects
        PROVE  owner'[x] = "table" <=> \E m \in DOMAIN data' : data'[m] = x
    <3>1. CASE x = o
      <4>1. owner'[x] = "table"
        BY <1>1, <3>1 DEF HInv, Typed
      <4> QED BY <1>5, <3>1, <4>1
    <3>2. CASE x # o
      <4>1. owner'[x] = owner[x]
        BY <1>1, <3>2 DEF HInv, Typed
      <4>2. (\E m \in DOMAIN data' : data'[m] = x) <=> \E m \in DOMAIN data : data[m] = x
        BY <1>5, <3>2
      <4> QED BY <4>1, <4>2 DEF HInv, Owns
    <3> QED BY <3>1, <3>2
  <2> QED BY <2>2, <2>3 DEF Owns
<1>12. InOrder(hashlin', data', order', seed')
  <2>1. ASSUME NEW i \in 1..(n + 1)
        PROVE  /\ order'[i] = data'[hashlin'[i].node]
               /\ hashlin'[i].hash = XXH32[seed'][KeyOf[order'[i]]]
    <3>1. CASE i \in 1..n
      <4>1. hashlin'[i] = hashlin[i] /\ order'[i] = order[i] /\ seed' = seed
        BY <1>1, <1>3, <1>4, <3>1
      <4>2. data'[hashlin[i].node] = data[hashlin[i].node]
        BY <1>5, <1>6, <3>1
      <4> QED BY <1>6, <3>1, <4>1, <4>2
    <3>2. CASE i = n + 1
      BY <1>1, <1>3, <1>4, <1>5, <1>7, <3>2
    <3> QED BY <1>8, <3>1, <3>2
  <2> QED BY <1>3, <1>4, <2>1 DEF InOrder
<1>13. Typed'
  BY <1>1, <1>3, <1>4, <1>5 DEF HInv, Typed
<1> QED BY <1>1, <1>10, <1>11, <1>12, <1>13 DEF HInv, Entries

\* bf_hashtbl_get_remove.
LEMMA GetRemoveStep ==
    ASSUME HInv, NEW key \in Keys, GetRemove(key)
    PROVE  HInv'
<1> DEFINE found == Matches(key, construct_hash(key))
           i == Min(found)
           node == hashlin[i].node
           o == data[node]
           j == CHOOSE k \in 1..Len(order) : order[k] = o
           data2 == [m \in DOMAIN data \ {node} |-> data[m]]
<1>1. /\ phtbl = "live" /\ found # {}
      /\ hashlin' = RemoveAt(hashlin, i)
      /\ data' = data2
      /\ owner' = [owner EXCEPT ![o] = "client"]
      /\ order' = RemoveAt(order, j)
      /\ UNCHANGED <<phtbl, free_fn, seed, deleting>>
  BY DEF GetRemove, Ready, fields, Without
<1>2. i \in 1..Len(hashlin)
  <2>1. found \in SUBSET (1..Len(hashlin)) /\ found \in SUBSET Nat
    BY DEF Matches, HInv, Typed
  <2>2. i \in found
    BY <1>1, <2>1, MinOfNats
  <2> QED BY <2>1, <2>2
<1>3. /\ hashlin \in Seq(Entry) /\ order \in Seq(Objects)
      /\ data \in [DOMAIN data -> Objects]
      /\ owner \in [Objects -> {"client", "table", "freed"}]
      /\ Held(hashlin, data) /\ Owns(data, owner)
      /\ InOrder(hashlin, data, order, seed)
  BY <1>1 DEF HInv, Typed, Entries
<1> HIDE DEF i
<1>4. node \in DOMAIN data /\ o \in Objects
  BY <1>2, <1>3 DEF Held
<1>5. j = i
  <2>1. i \in 1..Len(order) /\ order[i] = o
    BY <1>2, <1>3 DEF InOrder
  <2>2. ASSUME NEW k \in 1..Len(order), order[k] = o PROVE k = i
    <3>1. k \in 1..Len(hashlin) /\ data[hashlin[k].node] = o
      BY <1>3, <2>2 DEF InOrder
    <3>2. hashlin[k].node \in DOMAIN data
      BY <1>3, <3>1 DEF Held
    <3>3. hashlin[k].node = node
      BY <1>3, <1>4, <3>1, <3>2 DEF Owns
    <3> QED BY <1>2, <1>3, <3>1, <3>3 DEF Held
  <2> QED BY <2>1, <2>2
<1>6. hashlin' \in Seq(Entry) /\ Shorter(hashlin, i, hashlin')
  BY <1>1, <1>2, <1>3, RemoveAtShorter
<1>7. order' \in Seq(Objects) /\ Shorter(order, i, order')
  <2>1. i \in 1..Len(order)
    BY <1>2, <1>3 DEF InOrder
  <2> QED BY <1>1, <1>3, <1>5, <2>1, RemoveAtShorter
<1>8. Held(hashlin', data')
  BY <1>1, <1>2, <1>3, <1>6, HeldWithout
<1>9. Owns(data', owner')
  <2>1. "client" \in {"client", "freed"}
    OBVIOUS
  <2> HIDE DEF node
  <2>2. Owns(data2, [owner EXCEPT ![data[node]] = "client"])
    BY <1>3, <1>4, <2>1, OwnsWithout
  <2> QED BY <1>1, <2>2
<1>10. InOrder(hashlin', data', order', seed')
  <2>1. InOrder(hashlin', data2, order', seed)
    BY <1>2, <1>3, <1>6, <1>7, InOrderWithout
  <2> QED BY <1>1, <2>1
<1>11. Typed'
  <2>1. data' \in [DOMAIN data' -> Objects]
    BY <1>1, <1>3
  <2>2. owner' \in [Objects -> {"client", "table", "freed"}]
    BY <1>1, <1>3
  <2> QED BY <1>1, <1>6, <1>7, <2>1, <2>2 DEF HInv, Typed
<1> QED BY <1>1, <1>8, <1>9, <1>10, <1>11 DEF HInv, Entries

\* bf_hashtbl_delete, at one node.
LEMMA DeleteNodeStep ==
    ASSUME HInv, DeleteNode
    PROVE  HInv'
<1> DEFINE node == deleting[1].node
           x == IF free_fn THEN "freed" ELSE "client"
           data2 == [m \in DOMAIN data \ {node} |-> data[m]]
<1>1. /\ deleting \in Seq(Entry) /\ deleting # <<>>
      /\ data \in [DOMAIN data -> Objects]
      /\ owner \in [Objects -> {"client", "table", "freed"}]
      /\ phtbl = "deleting" /\ Held(deleting, data) /\ Owns(data, owner)
  BY DEF HInv, Typed, Entries, DeleteNode
<1>2. /\ Tail(deleting) \in Seq(Entry) /\ Shorter(deleting, 1, Tail(deleting))
      /\ 1 \in 1..Len(deleting) /\ Head(deleting) = deleting[1]
  BY <1>1, TailShorter
<1>3. /\ data' = data2 /\ owner' = [owner EXCEPT ![data[node]] = x]
      /\ deleting' = Tail(deleting)
      /\ UNCHANGED <<phtbl, free_fn, seed, hashlin, order>>
  BY <1>2 DEF DeleteNode, fields
<1>4. Held(Tail(deleting), data2)
  BY <1>1, <1>2, HeldWithout
<1>5. Owns(data2, [owner EXCEPT ![data[node]] = x])
  <2>1. node \in DOMAIN data
    BY <1>1, <1>2 DEF Held
  <2>2. x \in {"client", "freed"}
    OBVIOUS
  <2> HIDE DEF node, x
  <2> QED BY <1>1, <2>1, <2>2, OwnsWithout
<1>6. Typed'
  <2>1. data' \in [DOMAIN data' -> Objects]
    BY <1>1, <1>3
  <2>2. owner' \in [Objects -> {"client", "table", "freed"}]
    BY <1>1, <1>3
  <2> QED BY <1>1, <1>2, <1>3, <2>1, <2>2 DEF HInv, Typed
<1> QED BY <1>1, <1>3, <1>4, <1>5, <1>6 DEF HInv, Entries

\* The other operations.
LEMMA OtherSteps ==
    ASSUME HInv,
           \/ \E has_free_fn \in BOOLEAN, s \in Seeds : InitTable(has_free_fn, s)
           \/ Delete \/ DeleteEnd
           \/ \E o \in Objects : Allocate(o)
           \/ UNCHANGED vars
    PROVE  HInv'
<1>1. CASE \E has_free_fn \in BOOLEAN, s \in Seeds : InitTable(has_free_fn, s)
  <2>1. /\ phtbl \in {"none", "freed"} /\ phtbl' = "live"
        /\ free_fn' \in BOOLEAN /\ seed' \in Seeds /\ hashlin' = <<>>
        /\ UNCHANGED <<data, deleting, owner, order>>
    BY <1>1 DEF InitTable
  <2>2. hashlin = <<>>
    BY <2>1 DEF HInv, Typed
  <2>3. Len(order) = 0
    BY <2>1, <2>2 DEF HInv, InOrder
  <2>4. InOrder(hashlin', data', order', seed')
    BY <2>1, <2>3 DEF InOrder
  <2>5. Typed'
    BY <2>1, <2>2 DEF HInv, Typed
  <2> QED BY <2>1, <2>2, <2>4, <2>5 DEF HInv, Entries
<1>2. CASE Delete
  BY <1>2 DEF HInv, Typed, Entries, Delete, Ready
<1>3. CASE DeleteEnd
  <2>1. /\ phtbl = "deleting" /\ deleting = <<>> /\ phtbl' = "freed"
        /\ hashlin' = <<>> /\ order' = <<>>
        /\ UNCHANGED <<free_fn, seed, data, deleting, owner>>
    BY <1>3 DEF DeleteEnd
  <2>2. InOrder(hashlin', data', order', seed')
    BY <2>1 DEF InOrder
  <2>3. Typed'
    BY <2>1 DEF HInv, Typed
  <2> QED BY <2>1, <2>2, <2>3 DEF HInv, Entries
<1>4. ASSUME NEW o \in Objects, Allocate(o) PROVE HInv'
  <2>1. /\ owner[o] = "freed" /\ owner' = [owner EXCEPT ![o] = "client"]
        /\ UNCHANGED <<phtbl, free_fn, seed, hashlin, data, deleting, order>>
    BY <1>4 DEF Allocate, fields
  <2>2. owner' \in [Objects -> {"client", "table", "freed"}]
    BY <2>1 DEF HInv, Typed
  <2>3. \A x \in Objects : owner'[x] = "table" <=> owner[x] = "table"
    BY <2>1 DEF HInv, Typed
  <2>4. Owns(data', owner')
    BY <2>1, <2>3 DEF HInv, Owns
  <2>5. Typed'
    BY <2>1, <2>2 DEF HInv, Typed
  <2> QED BY <2>1, <2>4, <2>5 DEF HInv, Entries
<1>5. CASE UNCHANGED vars
  BY <1>5 DEF vars, fields, HInv, Typed, Entries
<1> QED BY <1>1, <1>2, <1>3, <1>4, <1>5

(***************************************************************************)
(* Every state of every behaviour satisfies the inductive invariant.       *)
(***************************************************************************)
THEOREM Invariance == Spec => []HInv
<1>1. Init => HInv
  <2> SUFFICES ASSUME Init PROVE HInv
    OBVIOUS
  <2>1. DOMAIN data = {} /\ Len(hashlin) = 0 /\ Len(order) = 0
    BY DEF Init
  <2>2. Typed
    <3>1. data \in [DOMAIN data -> Objects]
      BY <2>1 DEF Init
    <3>2. hashlin \in Seq(Entry) /\ deleting \in Seq(Entry) /\ order \in Seq(Objects)
      BY DEF Init
    <3> QED BY <3>1, <3>2 DEF Init, Typed
  <2>3. Held(hashlin, data) /\ Owns(data, owner) /\ InOrder(hashlin, data, order, seed)
    BY <2>1 DEF Init, Held, Owns, InOrder
  <2> QED BY <2>2, <2>3 DEF Init, HInv, Entries
<1>2. HInv /\ [Next]_vars => HInv'
  BY InsertStep, GetRemoveStep, DeleteNodeStep, OtherSteps DEF Next
<1> QED BY <1>1, <1>2, PTL DEF Spec

(***************************************************************************)
(* No node leaks, and bf_hashtbl_delete frees each object of the table     *)
(* once and no other, for every history of calls.                          *)
(***************************************************************************)
THEOREM EachAlwaysFreedOnce == Spec => []EachFreedOnce
<1>1. ASSUME HInv PROVE EachFreedOnce
  <2> DEFINE e == Entries
             n == Len(e)
             nodes == {e[i].node : i \in 1..n}
             f == [i \in 1..n |-> e[i].node]
  <2>1. e \in Seq(Entry) /\ n \in Nat
    BY <1>1 DEF HInv, Typed, Entries
  <2>2. DOMAIN data = nodes /\ \A i, j \in 1..n : e[i].node = e[j].node => i = j
    BY <1>1 DEF HInv, Held
  <2>3. Cardinality(nodes) = n
    <3>1. f \in Bijection(1..n, nodes)
      BY <2>2 DEF Bijection, Injection, Surjection, IsInjective
    <3>2. IsFiniteSet(1..n) /\ Cardinality(1..n) = n
      BY <2>1, FS_Interval
    <3> HIDE DEF n, nodes, f
    <3>3. ExistsBijection(1..n, nodes)
      BY <3>1 DEF ExistsBijection
    <3> QED BY <3>2, <3>3, FS_Bijection
  <2>4. {data[m] : m \in DOMAIN data} = {o \in Objects : owner[o] = "table"}
    BY <1>1 DEF HInv, Typed, Owns
  <2>5. \A l, m \in DOMAIN data : data[l] = data[m] => l = m
    BY <1>1 DEF HInv, Owns
  <2> QED BY <2>2, <2>3, <2>4, <2>5 DEF EachFreedOnce, Entries
<1> QED BY Invariance, <1>1, PTL

(***************************************************************************)
(* bf_hashtbl_search finds the object with the key that came first, and    *)
(* only NULL when there is none, whichever keys have one hash; and         *)
(* bf_hashtbl_foreach_fn visits the objects of the table and no others.    *)
(***************************************************************************)
THEOREM SearchAlwaysFindsOldest == Spec => []SearchFindsOldest
<1>1. ASSUME HInv PROVE SearchFindsOldest
  <2> SUFFICES ASSUME phtbl = "live" PROVE SearchFindsOldest
    BY DEF SearchFindsOldest
  <2>1. /\ DOMAIN data = {hashlin[i].node : i \in 1..Len(hashlin)}
        /\ data \in [DOMAIN data -> Objects]
        /\ Len(order) = Len(hashlin) /\ Len(hashlin) \in Nat
        /\ \A i \in 1..Len(hashlin) : /\ order[i] = data[hashlin[i].node]
                                      /\ hashlin[i].hash = XXH32[seed][KeyOf[order[i]]]
    BY <1>1 DEF HInv, Typed, Held, InOrder, Entries
  <2>2. Visited = {o \in Objects : owner[o] = "table"}
    BY <1>1, <2>1 DEF Visited, HInv, Owns
  <2>3. ASSUME NEW key \in Keys
        PROVE  LET same == {i \in 1..Len(order) : KeyOf[order[i]] = key}
               IN  bf_hashtbl_search(key) =
                       IF same = {} THEN NULL ELSE order[Min(same)]
    <3> DEFINE same == {i \in 1..Len(order) : KeyOf[order[i]] = key}
    <3>1. Matches(key, construct_hash(key)) = same
      BY <2>1 DEF Matches, construct_hash
    <3>2. same # {} => Min(same) \in 1..Len(hashlin)
      <4>1. same \in SUBSET Nat /\ same \in SUBSET (1..Len(hashlin))
        BY <2>1
      <4> QED BY <4>1, MinOfNats
    <3> HIDE DEF same
    <3>3. bf_hashtbl_search(key) = IF same = {} THEN NULL ELSE order[Min(same)]
      BY <2>1, <3>1, <3>2 DEF bf_hashtbl_search
    <3> QED BY <3>3 DEF same
  <2> QED BY <2>2, <2>3 DEF SearchFindsOldest
<1> QED BY Invariance, <1>1, PTL
=============================================================================
