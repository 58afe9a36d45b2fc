-------------------------------- MODULE Map --------------------------------
(***************************************************************************)
(* The map of src/map/map.c: a JudyL array from keys to data pointers,     *)
(* modelled as a partial function.                                         *)
(*                                                                         *)
(* Each function is one action that leaves its status in sts.  One client  *)
(* walks through the map with bf_map_get_first and bf_map_get_next, while  *)
(* other calls add and remove keys between its steps.  JLI and JLD may run *)
(* out of memory.                                                          *)
(***************************************************************************)
EXTENDS Integers, FiniteSetsExt

CONSTANTS Keys, Data, NULL,
          UINT32        \* bf_map_count counts modulo this

\* "BF_MAP_NO_KEY" stands for a status; no pointer is mistaken for it.
ASSUME KeyAssumption ==
    /\ Keys \subseteq Nat /\ UINT32 \in Nat \ {0}
    /\ NULL \notin Data
    /\ "BF_MAP_NO_KEY" \notin Data \cup {NULL}

VARIABLES map,          \* the JudyL array
          sts,          \* the status the last call returned
          out,          \* what it has assigned to *data; NULL if nothing
          key,          \* the key variable of the client that walks
          walk,         \* how far its walk is
          due,          \* history: keys in the map ever since the walk began
          seen,         \* history: keys the walk has come by
          lent          \* history: data the map has, as far as clients know

walker == <<key, walk, due, seen>>
vars == <<map, sts, out, walker, lent>>

Sts == {"BF_MAP_OK", "BF_MAP_ERR", "BF_MAP_NO_KEY", "BF_MAP_KEY_EXISTS"}

Without(f, k) == [j \in DOMAIN f \ {k} |-> f[j]]
With(f, k, v) == [j \in DOMAIN f \cup {k} |-> IF j = k THEN v ELSE f[j]]

-----------------------------------------------------------------------------
(***************************************************************************)
(* JudyL, by what the macros map.c uses return                             *)
(***************************************************************************)

\* JLF looks at the keys from k on, JLN at those after k; both find the least.
KeysFrom(k)  == {j \in DOMAIN map : j >= k}
KeysAfter(k) == {j \in DOMAIN map : j > k}

-----------------------------------------------------------------------------
Init ==
    /\ map = <<>> /\ sts = "BF_MAP_OK" /\ out = NULL /\ lent = {}
    /\ key = 0 /\ walk = "none" /\ due = {} /\ seen = {}

\* Mutant of Add: the data is stored before the old value is tested.
Add_Overwrites(k, data) ==
    /\ data \notin lent
    /\ map' = With(map, k, data)
    /\ IF k \in DOMAIN map /\ map[k] # NULL
       THEN sts' = "BF_MAP_KEY_EXISTS" /\ UNCHANGED lent
       ELSE sts' = "BF_MAP_OK" /\ lent' = lent \cup ({data} \ {NULL})
    /\ out' = NULL /\ UNCHANGED walker

\* bf_map_add.  A key whose data is NULL counts as absent.  Clients add data
\* that is theirs.
Add(k, data) ==
    /\ data \notin lent
    /\ \/ /\ k \notin DOMAIN map
          /\ sts' = "BF_MAP_ERR" /\ UNCHANGED <<map, lent>>
       \/ /\ k \in DOMAIN map /\ map[k] # NULL
          /\ sts' = "BF_MAP_KEY_EXISTS" /\ UNCHANGED <<map, lent>>
       \/ /\ k \in DOMAIN map => map[k] = NULL
          /\ map' = With(map, k, data) /\ sts' = "BF_MAP_OK"
          /\ lent' = lent \cup ({data} \ {NULL})
    /\ out' = NULL /\ UNCHANGED walker

\* bf_map_rmv, but for *data.  The data is a client's again once the status
\* is BF_MAP_OK.
Removal(k) ==
    /\ \/ /\ k \notin DOMAIN map
          /\ sts' = "BF_MAP_NO_KEY" /\ UNCHANGED <<map, due, lent>>
       \/ /\ k \in DOMAIN map
          /\ sts' = "BF_MAP_ERR" /\ UNCHANGED <<map, due, lent>>
       \/ /\ k \in DOMAIN map
          /\ map' = Without(map, k) /\ sts' = "BF_MAP_OK"
          /\ due' = due \ {k} /\ lent' = lent \ {map[k]}
    /\ UNCHANGED <<key, walk, seen>>

Rmv(k) == Removal(k) /\ out' = NULL

\* A lookup that finds nothing assigns nothing.
NotFound == sts' = "BF_MAP_NO_KEY" /\ out' = NULL /\ UNCHANGED <<map, walker, lent>>

\* bf_map_get_rmv: *data is assigned first, whatever becomes of the removal.
GetRmv(k) ==
    IF k \in DOMAIN map THEN out' = map[k] /\ Removal(k) ELSE NotFound

\* bf_map_get_first_rmv, with a key variable of its own.
GetFirstRmv ==
    IF KeysFrom(0) # {}
    THEN LET k == Min(KeysFrom(0)) IN out' = map[k] /\ Removal(k)
    ELSE NotFound

\* bf_map_destroy.
Destroy ==
    /\ map' = <<>> /\ out' = NULL /\ due' = {} /\ lent' = {}
    /\ UNCHANGED <<sts, key, walk, seen>>

-----------------------------------------------------------------------------
(***************************************************************************)
(* The walk                                                                *)
(***************************************************************************)

\* bf_map_get_first
GetFirst ==
    /\ walk' = IF KeysFrom(0) = {} THEN "over" ELSE "on"
    /\ IF KeysFrom(0) = {}
       THEN sts' = "BF_MAP_NO_KEY" /\ out' = NULL /\ UNCHANGED key
       ELSE sts' = "BF_MAP_OK" /\ key' = Min(KeysFrom(0)) /\ out' = map[key']
    /\ due' = DOMAIN map
    /\ seen' = IF KeysFrom(0) = {} THEN {} ELSE {key'}
    /\ UNCHANGED <<map, lent>>

\* Mutant of GetNext: the key is advanced once more before the search.
GetNext_Skips ==
    /\ walk = "on"
    /\ IF KeysAfter(key + 1) = {}
       THEN /\ sts' = "BF_MAP_NO_KEY" /\ out' = NULL /\ walk' = "over"
            /\ UNCHANGED <<key, seen>>
       ELSE /\ sts' = "BF_MAP_OK" /\ key' = Min(KeysAfter(key + 1)) /\ out' = map[key']
            /\ seen' = seen \cup {key'} /\ UNCHANGED walk
    /\ UNCHANGED <<map, due, lent>>

\* Mutant of GetNext: *key is not assigned.
GetNext_KeepsKey ==
    /\ walk = "on"
    /\ IF KeysAfter(key) = {}
       THEN /\ sts' = "BF_MAP_NO_KEY" /\ out' = NULL /\ walk' = "over"
            /\ UNCHANGED <<key, seen>>
       ELSE /\ sts' = "BF_MAP_OK" /\ out' = map[Min(KeysAfter(key))]
            /\ seen' = seen \cup {Min(KeysAfter(key))} /\ UNCHANGED <<key, walk>>
    /\ UNCHANGED <<map, due, lent>>

\* bf_map_get_next
GetNext ==
    /\ walk = "on"
    /\ IF KeysAfter(key) = {}
       THEN /\ sts' = "BF_MAP_NO_KEY" /\ out' = NULL /\ walk' = "over"
            /\ UNCHANGED <<key, seen>>
       ELSE /\ sts' = "BF_MAP_OK" /\ key' = Min(KeysAfter(key)) /\ out' = map[key']
            /\ seen' = seen \cup {key'} /\ UNCHANGED walk
    /\ UNCHANGED <<map, due, lent>>

Next ==
    \/ \E k \in Keys, data \in Data \cup {NULL} : Add(k, data)
    \/ \E k \in Keys : Rmv(k) \/ GetRmv(k)
    \/ GetFirstRmv \/ Destroy
    \/ walk # "on" /\ GetFirst
    \/ GetNext

\* The client that walks goes on until it is told BF_MAP_NO_KEY.
Spec == Init /\ [][Next]_vars /\ WF_vars(GetNext)

bf_map_get(k) == IF k \in DOMAIN map THEN map[k] ELSE "BF_MAP_NO_KEY"
bf_map_count == Cardinality(DOMAIN map) % UINT32

-----------------------------------------------------------------------------
(***************************************************************************)
(* Properties                                                              *)
(***************************************************************************)

(***************************************************************************)
(* Clients that go by the status of each call know where their data is:    *)
(* the map has what an add that returned BF_MAP_OK gave it and no removal  *)
(* that returned BF_MAP_OK has given back, each under one key.  It holds   *)
(* for adds on a key that exists or has NULL data.  Data that a call       *)
(* returns with another status is still the map's: the removal in          *)
(* bf_map_get_rmv may fail after *data has been assigned.  The count is    *)
(* the number of keys that bf_map_get finds, in 32 bits.                   *)
(***************************************************************************)
DataAccounted ==
    LET present == {k \in Keys : bf_map_get(k) # "BF_MAP_NO_KEY"}
        full    == {k \in present : bf_map_get(k) # NULL}
    IN  /\ {bf_map_get(k) : k \in full} = lent
        /\ \A j, k \in full : bf_map_get(j) = bf_map_get(k) => j = k
        /\ sts # "BF_MAP_OK" => out \in lent \cup {NULL}
        /\ bf_map_count = Cardinality(present) % UINT32

(***************************************************************************)
(* A walk by bf_map_get_first and bf_map_get_next comes by every key that  *)
(* stays in the map while it lasts, whatever is added and removed          *)
(* meanwhile, the key the walk stands on included.                         *)
(***************************************************************************)
WalkMissesNothing ==
    /\ walk = "on" => {k \in due : k <= key} \subseteq seen
    /\ walk = "over" => due \subseteq seen

(***************************************************************************)
(* A walk ends, also if keys are added all the time: bf_map_get_next moves *)
(* the client's key upwards each time.                                     *)
(***************************************************************************)
WalkEnds == walk = "on" ~> walk = "over"
=============================================================================
