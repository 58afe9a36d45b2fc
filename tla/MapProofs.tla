----------------------------- MODULE MapProofs -----------------------------
(***************************************************************************)
(* Proofs about Map, for every set of keys and of data: what clients know  *)
(* of their data from the status of each call is right, and a walk through *)
(* the map misses no key that stays in it.                                 *)
(***************************************************************************)
EXTENDS Map, WellFoundedInduction, TLAPS

-----------------------------------------------------------------------------
(***************************************************************************)
(* Numbers                                                                 *)
(***************************************************************************)

(***************************************************************************)
(* A set of natural numbers that is not empty has a least element.         *)
(***************************************************************************)
LEMMA LeastNat ==
    ASSUME NEW S \in SUBSET Nat, S # {}
    PROVE  \E x \in S : \A y \in S : x <= y
<1> DEFINE R == OpToRel(<, Nat)
<1>1. \A x, y \in Nat : x < y => <<x, y>> \in R
  BY DEF OpToRel
<1>2. IsWellFoundedOn(R, Nat)
  BY NatLessThanWellFounded
<1> HIDE DEF R
<1>3. PICK x \in S : \A y \in S : ~ (<<y, x>> \in R)
  BY <1>2, WFMin
<1>4. ASSUME NEW y \in S PROVE x <= y
  <2>1. x \in Nat /\ y \in Nat
    OBVIOUS
  <2>2. ~ (y < x)
    BY <1>1, <1>3, <2>1
  <2> QED BY <2>1, <2>2
<1> QED BY <1>4

(***************************************************************************)
(* Min finds it.  The searches of the model are written with Min.          *)
(***************************************************************************)
LEMMA MinOfNats ==
    ASSUME NEW S \in SUBSET Nat, S # {}
    PROVE  Min(S) \in S /\ \A y \in S : Min(S) <= y
BY LeastNat DEF Min

-----------------------------------------------------------------------------
MapTyped ==
    /\ map \in [DOMAIN map -> Data \cup {NULL}]
    /\ DOMAIN map \subseteq Keys
    /\ key \in Nat

\* The keys that have data.
Full == {k \in DOMAIN map : map[k] # NULL}

\* The data under them is what the clients have lent, each under one key.
Lent ==
    /\ \A k \in Full : map[k] \in lent
    /\ \A d \in lent : \E k \in Full : map[k] = d
    /\ \A j, k \in Full : map[j] = map[k] => j = k

\* A key that is due is still there, which is why a walk that finds no key
\* after its own has seen every key that is due.
DueThere == due \subseteq DOMAIN map

\* What a call that did not return BF_MAP_OK has put into *data is the map's.
OutLent == sts # "BF_MAP_OK" => out \in lent \cup {NULL}

MInv == MapTyped /\ Lent /\ DueThere /\ WalkMissesNothing /\ OutLent

(***************************************************************************)
(* The Judy searches from a key find the least key there is.               *)
(***************************************************************************)
LEMMA Searches ==
    ASSUME MapTyped, NEW k \in Nat
    PROVE  /\ KeysFrom(0) = DOMAIN map
           /\ KeysFrom(0) # {} => /\ Min(KeysFrom(0)) \in DOMAIN map
                                  /\ \A j \in DOMAIN map : Min(KeysFrom(0)) <= j
           /\ KeysAfter(k) # {} => /\ Min(KeysAfter(k)) \in DOMAIN map
                                   /\ Min(KeysAfter(k)) > k
                                   /\ \A j \in DOMAIN map :
                                        j > k => Min(KeysAfter(k)) <= j
           /\ KeysAfter(k) = {} => \A j \in DOMAIN map : j <= k
           /\ DOMAIN map \in SUBSET Nat
<1>1. DOMAIN map \in SUBSET Nat
  BY KeyAssumption DEF MapTyped
<1>2. KeysFrom(0) = DOMAIN map
  BY <1>1 DEF KeysFrom
<1>3. KeysFrom(0) # {} => /\ Min(KeysFrom(0)) \in DOMAIN map
                          /\ \A j \in DOMAIN map : Min(KeysFrom(0)) <= j
  BY <1>1, <1>2, MinOfNats
<1>4. ASSUME KeysAfter(k) # {}
      PROVE  /\ Min(KeysAfter(k)) \in DOMAIN map
             /\ Min(KeysAfter(k)) > k
             /\ \A j \in DOMAIN map : j > k => Min(KeysAfter(k)) <= j
  <2>1. KeysAfter(k) \in SUBSET Nat
    BY <1>1 DEF KeysAfter
  <2>2. /\ Min(KeysAfter(k)) \in KeysAfter(k)
        /\ \A j \in KeysAfter(k) : Min(KeysAfter(k)) <= j
    BY <1>4, <2>1, MinOfNats
  <2> QED BY <2>2 DEF KeysAfter
<1>5. KeysAfter(k) = {} => \A j \in DOMAIN map : j <= k
  BY <1>1 DEF KeysAfter
<1> QED BY <1>1, <1>2, <1>3, <1>4, <1>5

(***************************************************************************)
(* bf_map_add                                                              *)
(***************************************************************************)
LEMMA AddKeepsMInv ==
    ASSUME MInv, NEW k \in Keys, NEW data \in Data \cup {NULL}, Add(k, data)
    PROVE  MInv'
<1>1. UNCHANGED <<key, walk, due, seen>> /\ data \notin lent /\ out' = NULL
  BY DEF Add, walker
<1>2. CASE UNCHANGED <<map, lent>>
  BY <1>1, <1>2 DEF MInv, MapTyped, Lent, Full, DueThere, WalkMissesNothing, OutLent
<1>3. CASE /\ k \in DOMAIN map => map[k] = NULL
           /\ map' = With(map, k, data)
           /\ lent' = lent \cup ({data} \ {NULL})
  <2>1. /\ DOMAIN map' = DOMAIN map \cup {k} /\ map'[k] = data
        /\ \A j \in DOMAIN map \ {k} : map'[j] = map[j]
        /\ map' = [j \in DOMAIN map' |-> map'[j]]
    BY <1>3 DEF With
  <2>2. MapTyped'
    BY <1>1, <2>1 DEF MInv, MapTyped
  <2>3. /\ \A j \in Full : j # k /\ j \in Full' /\ map'[j] = map[j]
        /\ \A j \in Full' : j \in Full \/ j = k
        /\ k \in Full' <=> data # NULL
    BY <1>3, <2>1 DEF Full
  <2>4. Lent'
    <3>1. \A j \in Full' : map'[j] \in lent'
      BY <1>3, <2>1, <2>3 DEF MInv, Lent, Full
    <3>2. \A d \in lent' : \E j \in Full' : map'[j] = d
      BY <1>3, <2>1, <2>3 DEF MInv, Lent
    <3>3. \A i, j \in Full' : map'[i] = map'[j] => i = j
      BY <1>1, <2>1, <2>3 DEF MInv, Lent
    <3> QED BY <3>1, <3>2, <3>3 DEF Lent
  <2>5. DueThere'
    BY <1>1, <2>1 DEF MInv, DueThere
  <2>6. WalkMissesNothing' /\ OutLent'
    BY <1>1 DEF MInv, WalkMissesNothing, OutLent
  <2> QED BY <2>2, <2>4, <2>5, <2>6 DEF MInv
<1> QED BY <1>2, <1>3 DEF Add

(***************************************************************************)
(* bf_map_rmv, with which bf_map_get_rmv and bf_map_get_first_rmv end when *)
(* they have assigned the data of the key.                                 *)
(***************************************************************************)
LEMMA RmvKeepsMInv ==
    ASSUME MInv, NEW k, Removal(k), out' = NULL \/ (k \in DOMAIN map /\ out' = map[k])
    PROVE  MInv'
<1>1. UNCHANGED <<key, walk, seen>>
  BY DEF Removal
<1>0. OutLent'
  <2>1. CASE out' = NULL
    BY <2>1 DEF OutLent
  <2>2. CASE k \in DOMAIN map /\ out' = map[k]
    <3>1. map[k] \in lent \cup {NULL}
      BY <2>2 DEF MInv, Lent, Full
    <3>2. sts' = "BF_MAP_OK" \/ lent' = lent
      BY DEF Removal
    <3> QED BY <2>2, <3>1, <3>2 DEF OutLent
  <2> QED BY <2>1, <2>2
<1>2. CASE UNCHANGED <<map, due, lent>>
  BY <1>0, <1>1, <1>2 DEF MInv, MapTyped, Lent, Full, DueThere, WalkMissesNothing
<1>3. CASE /\ k \in DOMAIN map /\ map' = Without(map, k)
           /\ due' = due \ {k} /\ lent' = lent \ {map[k]}
  <2>1. /\ DOMAIN map' = DOMAIN map \ {k}
        /\ \A j \in DOMAIN map \ {k} : map'[j] = map[j]
        /\ map' = [j \in DOMAIN map' |-> map'[j]]
    BY <1>3 DEF Without
  <2>2. MapTyped'
    BY <1>1, <2>1 DEF MInv, MapTyped
  <2>3. /\ \A j \in Full' : j \in Full /\ j # k /\ map'[j] = map[j]
        /\ \A j \in Full \ {k} : j \in Full'
    BY <2>1 DEF Full
  <2>4. \A j \in Full : map[j] = map[k] => j = k
    <3>1. CASE k \in Full
      BY <3>1 DEF MInv, Lent
    <3>2. CASE k \notin Full
      BY <1>3, <3>2 DEF Full
    <3> QED BY <3>1, <3>2
  <2>5. Lent'
    <3>1. \A j \in Full' : map'[j] \in lent'
      BY <1>3, <2>3, <2>4 DEF MInv, Lent
    <3>2. \A d \in lent' : \E j \in Full' : map'[j] = d
      BY <1>3, <2>3 DEF MInv, Lent
    <3>3. \A i, j \in Full' : map'[i] = map'[j] => i = j
      BY <2>3 DEF MInv, Lent
    <3> QED BY <3>1, <3>2, <3>3 DEF Lent
  <2>6. DueThere'
    BY <1>3, <2>1 DEF MInv, DueThere
  <2>7. WalkMissesNothing'
    BY <1>1, <1>3 DEF MInv, WalkMissesNothing
  <2> QED BY <1>0, <2>2, <2>5, <2>6, <2>7 DEF MInv
<1> QED BY <1>2, <1>3 DEF Removal

(***************************************************************************)
(* The two steps of a walk: the key moves from one key of the map to the   *)
(* next one, so that every key that is due and not above it has been seen. *)
(***************************************************************************)
LEMMA WalkKeepsMInv ==
    ASSUME MInv, GetFirst \/ GetNext
    PROVE  MInv'
<1>1. UNCHANGED <<map, lent>>
  BY DEF GetFirst, GetNext
<1>2. MapTyped /\ DueThere /\ WalkMissesNothing /\ key \in Nat
  BY DEF MInv, MapTyped
<1>3. Lent' /\ OutLent'
  <2>1. Lent'
    BY <1>1 DEF MInv, Lent, Full
  <2>2. OutLent'
    BY DEF GetFirst, GetNext, OutLent
  <2> QED BY <2>1, <2>2
<1>4. CASE GetFirst
  <2>1. /\ KeysFrom(0) = DOMAIN map /\ due' = DOMAIN map /\ DOMAIN map \in SUBSET Nat
    BY <1>2, <1>4, Searches DEF GetFirst
  <2>2. CASE KeysFrom(0) = {}
    <3>1. walk' = "over" /\ due' = {} /\ key' = key
      BY <1>4, <2>1, <2>2 DEF GetFirst
    <3> QED BY <1>1, <1>2, <1>3, <3>1 DEF MInv, MapTyped, DueThere, WalkMissesNothing
  <2>3. CASE KeysFrom(0) # {}
    <3>1. walk' = "on" /\ key' = Min(KeysFrom(0)) /\ seen' = {key'}
      BY <1>4, <2>3 DEF GetFirst
    <3>2. key' \in DOMAIN map /\ \A j \in DOMAIN map : key' <= j
      BY <1>2, <2>3, <3>1, Searches
    <3>3. \A j \in due' : j <= key' => j = key'
      BY <2>1, <3>2
    <3>4. MapTyped' /\ DueThere'
      BY <1>1, <1>2, <2>1, <3>2 DEF MapTyped, DueThere
    <3> QED BY <1>3, <3>1, <3>3, <3>4 DEF MInv, WalkMissesNothing
  <2> QED BY <2>2, <2>3
<1>5. CASE GetNext
  <2>1. walk = "on" /\ due' = due
    BY <1>5 DEF GetNext
  <2>2. \A j \in due : j <= key => j \in seen
    BY <1>2, <2>1 DEF WalkMissesNothing
  <2>3. CASE KeysAfter(key) = {}
    <3>1. walk' = "over" /\ key' = key /\ seen' = seen
      BY <1>5, <2>3 DEF GetNext
    <3>2. \A j \in due : j <= key
      BY <1>2, <2>3, Searches DEF DueThere
    <3> QED BY <1>1, <1>2, <1>3, <2>1, <2>2, <3>1, <3>2
            DEF MInv, MapTyped, DueThere, WalkMissesNothing
  <2>4. CASE KeysAfter(key) # {}
    <3>1. key' = Min(KeysAfter(key)) /\ seen' = seen \cup {key'} /\ walk' = walk
      BY <1>5, <2>4 DEF GetNext
    <3>2. /\ key' \in DOMAIN map /\ key' > key
          /\ \A j \in DOMAIN map : j > key => key' <= j
          /\ DOMAIN map \in SUBSET Nat
      BY <1>2, <2>4, <3>1, Searches
    <3>3. ASSUME NEW j \in due', j <= key' PROVE j \in seen'
      <4>1. j \in DOMAIN map /\ j \in Nat /\ key' \in Nat
        BY <1>2, <2>1, <3>2 DEF DueThere
      <4>2. CASE j <= key
        BY <2>1, <2>2, <3>1, <4>2
      <4>3. CASE ~(j <= key)
        BY <1>2, <3>1, <3>2, <3>3, <4>1, <4>3
      <4> QED BY <4>2, <4>3
    <3>4. MapTyped' /\ DueThere'
      BY <1>1, <1>2, <2>1, <3>2 DEF MapTyped, DueThere
    <3> QED BY <1>3, <2>1, <3>1, <3>3, <3>4 DEF MInv, WalkMissesNothing
  <2> QED BY <2>3, <2>4
<1> QED BY <1>4, <1>5

(***************************************************************************)
(* The invariant holds in every reachable state.                           *)
(***************************************************************************)
THEOREM Invariance == Spec => []MInv
<1>1. Init => MInv
  <2> SUFFICES ASSUME Init PROVE MInv
    OBVIOUS
  <2>1. DOMAIN map = {} /\ map = [j \in {} |-> map[j]]
    BY DEF Init
  <2>2. MapTyped
    BY <2>1 DEF Init, MapTyped
  <2> QED BY <2>1, <2>2 DEF Init, MInv, Lent, Full, DueThere, WalkMissesNothing, OutLent
<1>2. MInv /\ [Next]_vars => MInv'
  <2> SUFFICES ASSUME MInv, [Next]_vars PROVE MInv'
    OBVIOUS
  <2>1. ASSUME NEW k \in Keys, NEW data \in Data \cup {NULL}, Add(k, data) PROVE MInv'
    BY <2>1, AddKeepsMInv
  <2>2. ASSUME NEW k \in Keys, Rmv(k) PROVE MInv'
    <3>1. Removal(k)
      BY <2>2 DEF Rmv
    <3>2. out' = NULL \/ (k \in DOMAIN map /\ out' = map[k])
      BY <2>2 DEF Rmv
    <3> QED BY <3>1, <3>2, RmvKeepsMInv
  <2>3. ASSUME UNCHANGED <<map, walker, lent>>, out' = NULL \/ UNCHANGED <<sts, out>>
        PROVE  MInv'
    BY <2>3 DEF walker, MInv, MapTyped, Lent, Full, DueThere, WalkMissesNothing, OutLent
  <2>4. ASSUME NEW k \in Keys, GetRmv(k) PROVE MInv'
    BY <2>3, <2>4, RmvKeepsMInv DEF GetRmv, NotFound
  <2>5. CASE GetFirstRmv
    <3>1. CASE KeysFrom(0) # {}
      <4>1. Min(KeysFrom(0)) \in DOMAIN map
        BY <3>1, Searches DEF MInv
      <4> QED BY <2>5, <3>1, <4>1, RmvKeepsMInv DEF GetFirstRmv
    <3>2. CASE KeysFrom(0) = {}
      BY <2>3, <2>5, <3>2 DEF GetFirstRmv, NotFound
    <3> QED BY <3>1, <3>2
  <2>6. CASE Destroy
    <3>1. DOMAIN map' = {} /\ map' = [j \in {} |-> map'[j]]
      BY <2>6 DEF Destroy
    <3>2. MapTyped'
      BY <2>6, <3>1 DEF Destroy, MInv, MapTyped
    <3> QED BY <2>6, <3>1, <3>2
            DEF Destroy, MInv, Lent, Full, DueThere, WalkMissesNothing, OutLent
  <2>7. CASE GetFirst \/ GetNext
    BY <2>7, WalkKeepsMInv
  <2>8. CASE UNCHANGED vars
    BY <2>3, <2>8 DEF vars
  <2> QED BY <2>1, <2>2, <2>4, <2>5, <2>6, <2>7, <2>8 DEF Next
<1> QED BY <1>1, <1>2, PTL DEF Spec

(***************************************************************************)
(* Clients that go by the status of each call always know where their data *)
(* is, data that a failing removal has returned included, and bf_map_count *)
(* counts the keys that bf_map_get finds, in 32 bits.                      *)
(***************************************************************************)
THEOREM DataAlwaysAccounted == Spec => []DataAccounted
<1>1. MInv => DataAccounted
  <2> SUFFICES ASSUME MInv PROVE DataAccounted
    OBVIOUS
  <2> DEFINE present == {k \in Keys : bf_map_get(k) # "BF_MAP_NO_KEY"}
             full    == {k \in present : bf_map_get(k) # NULL}
  <2>1. \A k \in DOMAIN map : bf_map_get(k) = map[k] /\ map[k] # "BF_MAP_NO_KEY"
    BY KeyAssumption DEF bf_map_get, MInv, MapTyped
  <2>2. present = DOMAIN map
    BY <2>1 DEF bf_map_get, MInv, MapTyped
  <2>3. full = Full /\ \A k \in Full : bf_map_get(k) = map[k]
    BY <2>1, <2>2 DEF Full
  <2> HIDE DEF present, full
  <2>4. {bf_map_get(k) : k \in full} = lent
    BY <2>3 DEF MInv, Lent
  <2>5. \A j, k \in full : bf_map_get(j) = bf_map_get(k) => j = k
    BY <2>3 DEF MInv, Lent
  <2>6. bf_map_count = Cardinality(present) % UINT32
    BY <2>2 DEF bf_map_count
  <2>7. sts # "BF_MAP_OK" => out \in lent \cup {NULL}
    BY DEF MInv, OutLent
  <2> QED BY <2>4, <2>5, <2>6, <2>7 DEF DataAccounted, present, full
<1> QED BY <1>1, Invariance, PTL

(***************************************************************************)
(* A walk never misses a key that stays in the map while it lasts.         *)
(***************************************************************************)
THEOREM WalkNeverMisses == Spec => []WalkMissesNothing
<1>1. MInv => WalkMissesNothing
  BY DEF MInv
<1> QED BY <1>1, Invariance, PTL
=============================================================================
