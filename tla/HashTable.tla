----------------------------- MODULE HashTable -----------------------------
(***************************************************************************)
(* The hash table of src/hashtbl/hashtbl.c.  Each insertion allocates a    *)
(* node that points to the client's object and puts it into a              *)
(* tommy_hashlin, modelled as the sequence of its entries in the order of  *)
(* their insertion.                                                        *)
(*                                                                         *)
(* bf_hashtbl_delete goes one node per step, as it calls the client's free *)
(* function for each; every other function is one step.                    *)
(***************************************************************************)
EXTENDS Naturals, SequencesExt

CONSTANTS Objects, Keys, NULL,
          KeyOf,        \* the key in each object, which cmp_fn looks at
          Seeds,
          XXH32,        \* the hash of each key, for each seed
          Nodes         \* addresses for bf_hashtbl_node_t

ASSUME HashAssumption ==
    /\ KeyOf \in [Objects -> Keys]
    /\ \A seed \in Seeds, key \in Keys : XXH32[seed][key] \in Nat
    /\ NULL \notin Objects

VARIABLES phtbl,            \* whether field phtbl points to a tommy_hashlin
          free_fn, seed,    \* the fields of these names; is there a free_fn
          hashlin,          \* the entries of the tommy_hashlin
          data,             \* the nodes that are allocated, and their objects
          deleting,         \* the entries bf_hashtbl_delete has to visit yet
          owner,            \* history: whose each object is
          order             \* history: objects by their time of insertion

fields == <<phtbl, free_fn, seed>>
vars == <<fields, hashlin, data, deleting, owner, order>>

construct_hash(key) == XXH32[seed][key]

\* tommy_hashlin_search and tommy_hashlin_remove look for the first entry
\* with the hash whose object compares equal.
Matches(key, hash) ==
    {i \in 1..Len(hashlin) : /\ hashlin[i].hash = hash
                             /\ KeyOf[data[hashlin[i].node]] = key}

\* order without object o.
Without(o) == RemoveAt(order, CHOOSE i \in 1..Len(order) : order[i] = o)

-----------------------------------------------------------------------------
Init ==
    /\ phtbl = "none" /\ free_fn = FALSE /\ seed \in Seeds
    /\ hashlin = <<>> /\ data = <<>> /\ deleting = <<>>
    /\ owner = [o \in Objects |-> "client"] /\ order = <<>>

Ready == phtbl = "live"

\* bf_hashtbl_init, on a table that is not in use.
InitTable(has_free_fn, s) ==
    /\ phtbl \in {"none", "freed"}
    /\ phtbl' = "live" /\ free_fn' = has_free_fn /\ seed' = s
    /\ hashlin' = <<>>
    /\ UNCHANGED <<data, deleting, owner, order>>

\* Mutant of Insert: the hash is taken before the seed is set.
Insert_NoSeed(o, node) ==
    /\ Ready /\ owner[o] = "client" /\ node \in Nodes \ DOMAIN data
    /\ data' = [m \in DOMAIN data \cup {node} |-> IF m = node THEN o ELSE data[m]]
    /\ hashlin' = Append(hashlin, [node |-> node, hash |-> 0])
    /\ owner' = [owner EXCEPT ![o] = "table"] /\ order' = Append(order, o)
    /\ UNCHANGED <<fields, deleting>>

\* bf_hashtbl_insert.  When no node can be allocated it returns
\* BF_HASHTBL_ERR and changes nothing.  A client inserts an object that is
\* its own, under the key in it, and other objects may have the same key.
Insert(o, node) ==
    /\ Ready /\ owner[o] = "client" /\ node \in Nodes \ DOMAIN data
    /\ data' = [m \in DOMAIN data \cup {node} |-> IF m = node THEN o ELSE data[m]]
    /\ hashlin' = Append(hashlin, [node |-> node, hash |-> construct_hash(KeyOf[o])])
    /\ owner' = [owner EXCEPT ![o] = "table"] /\ order' = Append(order, o)
    /\ UNCHANGED <<fields, deleting>>

\* Mutant of GetRemove: the node is not freed.
GetRemove_KeepsNode(key) ==
    LET found == Matches(key, construct_hash(key)) IN
    /\ Ready /\ found # {}
    /\ LET i == Min(found)
           o == data[hashlin[i].node]
       IN  /\ hashlin' = RemoveAt(hashlin, i)
           /\ owner' = [owner EXCEPT ![o] = "client"]
           /\ order' = Without(o)
    /\ UNCHANGED <<fields, data, deleting>>

\* bf_hashtbl_get_remove, which returns NULL when nothing is found.
GetRemove(key) ==
    LET found == Matches(key, construct_hash(key)) IN
    /\ Ready /\ found # {}
    /\ LET i    == Min(found)
           node == hashlin[i].node
           o    == data[node]
       IN  /\ hashlin' = RemoveAt(hashlin, i)
           /\ data' = [m \in DOMAIN data \ {node} |-> data[m]]
           /\ owner' = [owner EXCEPT ![o] = "client"]
           /\ order' = Without(o)
    /\ UNCHANGED <<fields, deleting>>

-----------------------------------------------------------------------------
(***************************************************************************)
(* bf_hashtbl_delete                                                       *)
(***************************************************************************)

Delete ==
    /\ Ready
    /\ phtbl' = "deleting" /\ deleting' = hashlin
    /\ UNCHANGED <<free_fn, seed, hashlin, data, owner, order>>

\* bf_htbl_foreach_free_fn on the next node; tommy_hashlin_foreach_arg has
\* read the pointer to the one after it.  Without a free function the object
\* is left to the client.
DeleteNode ==
    /\ phtbl = "deleting" /\ deleting # <<>>
    /\ LET node == Head(deleting).node
       IN  /\ owner' = [owner EXCEPT ![data[node]] =
                            IF free_fn THEN "freed" ELSE "client"]
           /\ data' = [m \in DOMAIN data \ {node} |-> data[m]]
    /\ deleting' = Tail(deleting)
    /\ UNCHANGED <<fields, hashlin, order>>

\* tommy_hashlin_done, and the end.  The field phtbl is left dangling.
DeleteEnd ==
    /\ phtbl = "deleting" /\ deleting = <<>>
    /\ phtbl' = "freed" /\ hashlin' = <<>> /\ order' = <<>>
    /\ UNCHANGED <<free_fn, seed, data, deleting, owner>>

\* A client allocates an object anew.
Allocate(o) ==
    /\ owner[o] = "freed" /\ phtbl # "deleting"
    /\ owner' = [owner EXCEPT ![o] = "client"]
    /\ UNCHANGED <<fields, hashlin, data, deleting, order>>

\* Which address a new node gets does not matter.
Next ==
    \/ \E has_free_fn \in BOOLEAN, s \in Seeds : InitTable(has_free_fn, s)
    \/ \E o \in Objects : Insert(o, CHOOSE node \in Nodes : node \notin DOMAIN data)
    \/ \E key \in Keys : GetRemove(key)
    \/ Delete \/ DeleteNode \/ DeleteEnd
    \/ \E o \in Objects : Allocate(o)

Spec == Init /\ [][Next]_vars

bf_hashtbl_search(key) ==
    LET found == Matches(key, construct_hash(key))
    IN  IF found = {} THEN NULL ELSE data[hashlin[Min(found)].node]

\* The objects bf_hashtbl_foreach_fn passes to the function, which reads them
\* through bf_hashtbl_get_cmp_data.
Visited == {data[hashlin[i].node] : i \in 1..Len(hashlin)}

-----------------------------------------------------------------------------
(***************************************************************************)
(* Properties                                                              *)
(***************************************************************************)

(***************************************************************************)
(* Every node that is allocated is in the table, or waits to be freed      *)
(* while the table is deleted, and none is there twice; the objects behind *)
(* them are just the ones the table owns, each once.  So no node leaks, and*)
(* bf_hashtbl_delete frees no object twice and none that was removed.      *)
(***************************************************************************)
EachFreedOnce ==
    LET entries == IF phtbl = "deleting" THEN deleting ELSE hashlin
        nodes   == {entries[i].node : i \in 1..Len(entries)}
    IN  /\ DOMAIN data = nodes /\ Cardinality(nodes) = Len(entries)
        /\ {data[m] : m \in nodes} = {o \in Objects : owner[o] = "table"}
        /\ \A l, m \in nodes : data[l] = data[m] => l = m

(***************************************************************************)
(* bf_hashtbl_search finds, among the objects with the key, the one that   *)
(* has been in the table longest, whatever other keys share its hash, and  *)
(* NULL just when there is none; and bf_hashtbl_foreach_fn visits all.     *)
(***************************************************************************)
SearchFindsOldest ==
    phtbl = "live" =>
        /\ \A key \in Keys :
              LET same == {i \in 1..Len(order) : KeyOf[order[i]] = key}
              IN  bf_hashtbl_search(key) =
                      IF same = {} THEN NULL ELSE order[Min(same)]
        /\ Visited = {o \in Objects : owner[o] = "table"}
=============================================================================
