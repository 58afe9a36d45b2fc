-------------------------------- MODULE Rbt --------------------------------
(***************************************************************************)
(* The red-black tree of src/rbt/rbt.c, at the level of its nodes and      *)
(* pointers.  A call of bf_insert_rbt_entry or bf_remove_rbt_entry runs    *)
(* one balancing step at a time: one call of the recursive repair after an *)
(* insertion, one round of the loop after a removal.                       *)
(*                                                                         *)
(* The tree never compares addresses other than to NULL and to the head,   *)
(* so what an address is does not matter: between two calls a node's       *)
(* address is the key it holds.  A removal moves keys between nodes; the   *)
(* nodes get their names back when it returns.                             *)
(***************************************************************************)
EXTENDS Integers, FiniteSetsExt

CONSTANTS Keys, NULL

ASSUME KeysAssumption == Keys \subseteq Nat /\ NULL \notin Keys

VARIABLES rbt,              \* [head, node]: *rbt_head and the nodes' memory
          pc,               \* "idle", or the loop that is running
          cur,              \* the node that loop is at
          key,              \* key of the insertion repair
          res_node,         \* the node a removal takes out
          keys              \* the keys that were inserted and not removed

vars == <<rbt, pc, cur, key, res_node, keys>>

Opposite(d) == IF d = "left" THEN "right" ELSE "left"

IsRed(s, n) == n # NULL /\ s.node[n].color = "RED"

\* Mutant of Rotate: the child that changes sides keeps its parent.
Rotate_StaleParent(s, n, d) ==
    LET o  == Opposite(d)
        up == s.node[n].parent
        c  == s.node[n][o]
        turned == [s.node EXCEPT
                     ![c] = [@ EXCEPT ![d] = n, !.parent = up,
                                      !.color = s.node[n].color],
                     ![n] = [@ EXCEPT ![o] = s.node[c][d], !.parent = c,
                                      !.color = s.node[c].color]]
        side   == IF s.node[up].key < s.node[c].key THEN "right" ELSE "left"
    IN  [head |-> IF n = s.head THEN c ELSE s.head,
         node |-> IF up = NULL THEN turned ELSE [turned EXCEPT ![up][side] = c]]

\* bf_left_rotate_rbt_node and bf_right_rotate_rbt_node: n goes down on side
\* d, its other child c comes up, the two exchange colors.  The grandparent's
\* pointer to change is found by comparing keys.
Rotate(s, n, d) ==
    LET o  == Opposite(d)
        up == s.node[n].parent
        c  == s.node[n][o]
        g  == s.node[c][d]
        turned == [s.node EXCEPT
                     ![c] = [@ EXCEPT ![d] = n, !.parent = up,
                                      !.color = s.node[n].color],
                     ![n] = [@ EXCEPT ![o] = g, !.parent = c,
                                      !.color = s.node[c].color]]
        below  == IF g = NULL THEN turned ELSE [turned EXCEPT ![g].parent = n]
        side   == IF s.node[up].key < s.node[c].key THEN "right" ELSE "left"
    IN  [head |-> IF n = s.head THEN c ELSE s.head,
         node |-> IF up = NULL THEN below ELSE [below EXCEPT ![up][side] = c]]

\* bf_get_rbt_node_direction, for a node that has a parent.
Direction(s, n) ==
    LET p == s.node[n].parent
        r == s.node[p].right
    IN  IF \/ s.node[p].key < s.node[n].key
           \/ r # NULL /\ s.node[r].key = s.node[n].key
        THEN "right" ELSE "left"

\* bf_get_neighbor_rbt_node.  A left child with its parent's key is known by
\* the pointer alone.
Neighbor(s, n) ==
    LET p == s.node[n].parent
        l == s.node[p].left
    IN  IF p = NULL THEN NULL
        ELSE IF Direction(s, n) = "right" THEN l
        ELSE IF \/ l # NULL /\ s.node[l].key = s.node[n].key
                \/ s.node[p].key > s.node[n].key
             THEN s.node[p].right
             ELSE NULL

Paint(s, S, c) ==
    [s EXCEPT !.node = [n \in DOMAIN s.node |->
        IF n \in S THEN [s.node[n] EXCEPT !.color = c] ELSE s.node[n]]]

\* The last node on the way down from n towards k.
Descend(s, n, k) ==
    LET down[m \in DOMAIN s.node] ==
            LET d == IF s.node[m].key < k THEN "right" ELSE "left"
            IN  IF s.node[m].key = k \/ s.node[m][d] = NULL THEN m
                ELSE down[s.node[m][d]]
    IN  down[n]

\* The last node on the way down from n that keeps to side d.
Outermost(s, n, d) ==
    LET down[m \in DOMAIN s.node] ==
            IF s.node[m][d] = NULL THEN m ELSE down[s.node[m][d]]
    IN  down[n]

-----------------------------------------------------------------------------
(***************************************************************************)
(* Insertion                                                               *)
(***************************************************************************)
Init ==
    /\ rbt = [head |-> NULL, node |-> [n \in {} |-> NULL]]
    /\ pc = "idle" /\ cur = NULL /\ key = NULL /\ res_node = NULL
    /\ keys = {}

\* Mutant of Return: res_node still points at the node that was freed.
Return_Dangling ==
    pc' = "idle" /\ cur' = NULL /\ key' = NULL /\ UNCHANGED res_node

\* The locals are gone.
Return == pc' = "idle" /\ cur' = NULL /\ key' = NULL /\ res_node' = NULL

\* bf_create_rbt_node.  The data is the client's: it stores, through the
\* pointer it gets back, something that belongs to the key.
NewNode(k, color, parent) ==
    [key |-> k, color |-> color, left |-> NULL, right |-> NULL,
     parent |-> parent, data |-> k]

Added(s, n, rec) ==
    [m \in DOMAIN s.node \cup {n} |-> IF m = n THEN rec ELSE s.node[m]]

\* bf_insert_rbt_entry in an empty tree.
InsertFirst(k) ==
    /\ pc = "idle" /\ rbt.head = NULL
    /\ rbt' = [head |-> k, node |-> Added(rbt, k, NewNode(k, "BLACK", NULL))]
    /\ keys' = keys \cup {k}
    /\ Return

\* bf_insert_rbt_entry below the node the descent ends at; a key that is
\* there already changes nothing.
Insert(k) ==
    /\ pc = "idle" /\ rbt.head # NULL
    /\ LET p == Descend(rbt, rbt.head, k)
           d == IF rbt.node[p].key < k THEN "right" ELSE "left"
       IN  /\ rbt.node[p].key # k
           /\ rbt' = [rbt EXCEPT !.node =
                         Added([rbt EXCEPT !.node[p][d] = k], k, NewNode(k, "RED", p))]
           /\ cur' = p
    /\ pc' = "insert" /\ key' = k
    /\ keys' = keys \cup {k}
    /\ UNCHANGED res_node

\* bf_balance_rbt_post_insertion, one case of it each.
InsertBalanced ==
    /\ pc = "insert" /\ ~IsRed(rbt, cur)
    /\ Return
    /\ UNCHANGED <<rbt, keys>>

\* bf_color_fix_rbt_nodes, which goes on two levels up unless it is at the top.
InsertRecolor ==
    /\ pc = "insert" /\ IsRed(rbt, cur) /\ IsRed(rbt, Neighbor(rbt, cur))
    /\ LET p       == rbt.node[cur].parent
           up      == rbt.node[p].parent
           sibling == IF rbt.node[p].key < rbt.node[cur].key
                      THEN rbt.node[p].left ELSE rbt.node[p].right
           fixed   == Paint(rbt, {cur, sibling}, "BLACK")
       IN  \/ /\ up = NULL
              /\ rbt' = Paint(fixed, {p}, "BLACK")
              /\ Return
           \/ /\ up # NULL
              /\ rbt' = Paint(fixed, {p}, "RED")
              /\ cur' = up /\ key' = rbt.node[cur].key
              /\ UNCHANGED <<pc, res_node>>
    /\ UNCHANGED keys

\* bf_perform_rotation: the sides of cur and of the node below it are found
\* by comparing keys.
InsertRotate ==
    /\ pc = "insert" /\ IsRed(rbt, cur) /\ ~IsRed(rbt, Neighbor(rbt, cur))
    /\ LET g     == rbt.node[cur].parent
           side  == IF rbt.node[g].key < rbt.node[cur].key THEN "right" ELSE "left"
           below == IF rbt.node[cur].key < key THEN "right" ELSE "left"
           outer == IF side = below THEN rbt ELSE Rotate(rbt, cur, side)
       IN  rbt' = Rotate(outer, g, Opposite(side))
    /\ Return
    /\ UNCHANGED keys

-----------------------------------------------------------------------------
(***************************************************************************)
(* Removal                                                                 *)
(***************************************************************************)

\* Mutant of Replacement: the right child is taken for the successor.
Replacement_Child(s, n) ==
    IF s.node[n].right # NULL THEN s.node[n].right
                              ELSE Outermost(s, s.node[n].left, "right")

\* The node whose key bf_bst_node_deletion moves into n: the successor, the
\* predecessor when there is none.
Replacement(s, n) ==
    IF s.node[n].right # NULL THEN Outermost(s, s.node[n].right, "left")
                              ELSE Outermost(s, s.node[n].left, "right")

IsLeaf(s, n) == s.node[n].left = NULL /\ s.node[n].right = NULL

\* The nodes bf_bst_node_deletion visits from n on; the last one is a leaf.
Replaced(s, n) ==
    LET chain[m \in DOMAIN s.node] ==
            IF IsLeaf(s, m) THEN {m} ELSE {m} \cup chain[Replacement(s, m)]
    IN  chain[n]

\* Mutant of Remove: the data stays behind when the key moves.
Remove_KeyOnly(k) ==
    /\ pc = "idle" /\ rbt.head # NULL
    /\ LET n     == Descend(rbt, rbt.head, k)
           chain == Replaced(rbt, n)
           leaf  == CHOOSE m \in chain : IsLeaf(rbt, m)
       IN  /\ rbt.node[n].key = k
           /\ rbt' = [rbt EXCEPT !.node = [m \in DOMAIN rbt.node |->
                         IF m \in chain \ {leaf}
                         THEN [rbt.node[m] EXCEPT !.key =
                                  rbt.node[Replacement(rbt, m)].key]
                         ELSE rbt.node[m]]]
           /\ res_node' = leaf /\ cur' = leaf
           /\ pc' = IF IsRed(rbt, leaf) THEN "unlink" ELSE "delete"
    /\ keys' = keys \ {k}
    /\ UNCHANGED key

\* bf_remove_rbt_entry up to the balancing: keys and data have moved up along
\* the chain, and the leaf at its end is the node to take out.
Remove(k) ==
    /\ pc = "idle" /\ rbt.head # NULL
    /\ LET n     == Descend(rbt, rbt.head, k)
           chain == Replaced(rbt, n)
           leaf  == CHOOSE m \in chain : IsLeaf(rbt, m)
           from(m) == rbt.node[Replacement(rbt, m)]
       IN  /\ rbt.node[n].key = k
           /\ rbt' = [rbt EXCEPT !.node = [m \in DOMAIN rbt.node |->
                         IF m \in chain \ {leaf}
                         THEN [rbt.node[m] EXCEPT !.key = from(m).key,
                                                  !.data = from(m).data]
                         ELSE rbt.node[m]]]
           /\ res_node' = leaf /\ cur' = leaf
           /\ pc' = IF IsRed(rbt, leaf) THEN "unlink" ELSE "delete"
    /\ keys' = keys \ {k}
    /\ UNCHANGED key

\* The end of bf_balance_rbt_post_deletion.
Balanced(s) ==
    /\ rbt' = Paint(s, {s.head}, "BLACK")
    /\ pc' = "unlink"
    /\ UNCHANGED <<cur, key, res_node, keys>>

GoOn(s, n) ==
    /\ rbt' = s /\ cur' = n
    /\ UNCHANGED <<pc, key, res_node, keys>>

\* The rounds of the loop of bf_balance_rbt_post_deletion.
DeleteAtTop ==
    /\ pc = "delete" /\ rbt.node[cur].parent = NULL
    /\ Balanced(rbt)

\* The neighbor is NULL, or black without a red child.
DeleteRecolor ==
    /\ pc = "delete" /\ rbt.node[cur].parent # NULL
    /\ LET p == rbt.node[cur].parent
           w == Neighbor(rbt, cur)
           fixed == Paint(rbt, {w}, "RED")
       IN  /\ ~IsRed(rbt, w)
           /\ w = NULL \/ \A d \in {"left", "right"} : ~IsRed(rbt, rbt.node[w][d])
           /\ \/ IsRed(rbt, p) /\ Balanced(Paint(fixed, {p}, "BLACK"))
              \/ ~IsRed(rbt, p) /\ GoOn(fixed, p)

\* Mutant of DeleteRotateFar: the child on the far side stays red.
DeleteRotateFar_NoPaint ==
    /\ pc = "delete" /\ rbt.node[cur].parent # NULL
    /\ LET w == Neighbor(rbt, cur)
           d == Direction(rbt, cur)
       IN  /\ w # NULL /\ ~IsRed(rbt, w)
           /\ IsRed(rbt, rbt.node[w][Opposite(d)])
           /\ Balanced(Rotate(rbt, rbt.node[cur].parent, d))

\* The neighbor is black and its child on the far side is red.
DeleteRotateFar ==
    /\ pc = "delete" /\ rbt.node[cur].parent # NULL
    /\ LET w == Neighbor(rbt, cur)
           d == Direction(rbt, cur)
           turned == Rotate(rbt, rbt.node[cur].parent, d)
       IN  /\ w # NULL /\ ~IsRed(rbt, w)
           /\ IsRed(rbt, rbt.node[w][Opposite(d)])
           /\ Balanced(Paint(turned, {turned.node[w][Opposite(d)]}, "BLACK"))

\* Mutant of DeleteRotateNear: nothing is rotated.
DeleteRotateNear_Idle ==
    /\ pc = "delete" /\ rbt.node[cur].parent # NULL
    /\ LET w == Neighbor(rbt, cur)
           d == Direction(rbt, cur)
       IN  /\ w # NULL /\ ~IsRed(rbt, w)
           /\ IsRed(rbt, rbt.node[w][d]) /\ ~IsRed(rbt, rbt.node[w][Opposite(d)])
           /\ GoOn(rbt, cur)

\* The neighbor is black and only its child on the near side is red.
DeleteRotateNear ==
    /\ pc = "delete" /\ rbt.node[cur].parent # NULL
    /\ LET w == Neighbor(rbt, cur)
           d == Direction(rbt, cur)
       IN  /\ w # NULL /\ ~IsRed(rbt, w)
           /\ IsRed(rbt, rbt.node[w][d]) /\ ~IsRed(rbt, rbt.node[w][Opposite(d)])
           /\ GoOn(Rotate(rbt, w, Opposite(d)), cur)

\* The neighbor is red.
DeleteRotateRed ==
    /\ pc = "delete" /\ rbt.node[cur].parent # NULL
    /\ IsRed(rbt, Neighbor(rbt, cur))
    /\ GoOn(Rotate(rbt, rbt.node[cur].parent, Direction(rbt, cur)), cur)

\* A tree with every node named after the key it holds.
Named(s) ==
    LET name(n) == IF n = NULL THEN NULL ELSE s.node[n].key
    IN  [head |-> name(s.head),
         node |-> [k \in {name(n) : n \in DOMAIN s.node} |->
            LET n == CHOOSE m \in DOMAIN s.node : s.node[m].key = k
            IN  [s.node[n] EXCEPT !.left = name(@), !.right = name(@),
                                  !.parent = name(@)]]]

\* The end of bf_remove_rbt_entry: the leaf is unlinked and freed.
Unlink ==
    /\ pc = "unlink"
    /\ LET p == rbt.node[res_node].parent
           cut == IF p = NULL THEN [rbt EXCEPT !.head = NULL]
                  ELSE [rbt EXCEPT !.node[p][Direction(rbt, res_node)] = NULL]
       IN  rbt' = Named([cut EXCEPT !.node =
                   [n \in DOMAIN cut.node \ {res_node} |-> cut.node[n]]])
    /\ Return
    /\ UNCHANGED keys

Step ==
    \/ InsertBalanced \/ InsertRecolor \/ InsertRotate
    \/ DeleteAtTop \/ DeleteRecolor
    \/ DeleteRotateFar \/ DeleteRotateNear \/ DeleteRotateRed
    \/ Unlink

Next ==
    \/ \E k \in Keys : InsertFirst(k) \/ Insert(k) \/ Remove(k)
    \/ Step

\* A call that has been made keeps running.
Spec == Init /\ [][Next]_vars /\ WF_vars(Step)

-----------------------------------------------------------------------------
(***************************************************************************)
(* Lookups                                                                 *)
(***************************************************************************)

\* Mutant of Bound: a node with key k itself is passed over.
Bound_Strict(k, d) ==
    LET best[n \in DOMAIN rbt.node \cup {NULL}] ==
            IF n = NULL THEN NULL
            ELSE LET towards == IF rbt.node[n].key < k THEN "right" ELSE "left"
                     deeper  == best[rbt.node[n][towards]]
                 IN  IF deeper = NULL /\ towards = d THEN n ELSE deeper
    IN  best[rbt.head]

\* bf_get_lower_bound, bf_get_upper_bound: the last node on the way down that
\* the search left towards d, unless it meets k.
Bound(k, d) ==
    LET best[n \in DOMAIN rbt.node \cup {NULL}] ==
            IF n = NULL THEN NULL
            ELSE IF rbt.node[n].key = k THEN n
            ELSE LET towards == IF rbt.node[n].key < k THEN "right" ELSE "left"
                     deeper  == best[rbt.node[n][towards]]
                 IN  IF deeper = NULL /\ towards = d THEN n ELSE deeper
    IN  best[rbt.head]

bf_get_lower_bound(k) == Bound(k, "right")
bf_get_upper_bound(k) == Bound(k, "left")

bf_get_highest_key_node ==
    IF rbt.head = NULL THEN NULL ELSE Outermost(rbt, rbt.head, "right")
bf_get_lowest_key_node ==
    IF rbt.head = NULL THEN NULL ELSE Outermost(rbt, rbt.head, "left")

-----------------------------------------------------------------------------
(***************************************************************************)
(* Properties                                                              *)
(***************************************************************************)
Nodes == DOMAIN rbt.node
Pointers == Nodes \cup {NULL}
NodeType ==
    [key : Keys, color : {"RED", "BLACK"}, left : Pointers, right : Pointers,
     parent : Pointers, data : Keys]

(***************************************************************************)
(* Every pointer in the tree and in the locals is NULL or the address of a *)
(* node that is allocated.                                                 *)
(***************************************************************************)
TypeOK ==
    /\ rbt.head \in Pointers /\ Nodes \subseteq Keys
    /\ \A n \in Nodes : rbt.node[n] \in NodeType
    /\ pc \in {"idle", "insert", "delete", "unlink"}
    /\ cur \in Pointers /\ res_node \in Pointers
    /\ key \in Keys \cup {NULL}
    /\ keys \subseteq Keys

\* The nodes i levels below those in S, and all nodes below n.
Level(S, i) ==
    LET level[j \in Nat] ==
            IF j = 0 THEN S \ {NULL}
            ELSE (UNION {{rbt.node[n].left, rbt.node[n].right} :
                            n \in level[j - 1]}) \ {NULL}
    IN  level[i]

Under(n) == UNION {Level({n}, i) : i \in 0..Cardinality(Nodes)}

(***************************************************************************)
(* Between two calls every node is reached from the head, by one pointer,  *)
(* and its parent field names the node that pointer is in: no rotation     *)
(* hangs a subtree on the wrong side or leaves a parent behind.            *)
(***************************************************************************)
Linked ==
    pc = "idle" =>
        /\ Under(rbt.head) = Nodes
        /\ rbt.head # NULL => rbt.node[rbt.head].parent = NULL
        /\ \A n \in Nodes, d \in {"left", "right"} :
              LET c == rbt.node[n][d]
              IN  c # NULL => /\ rbt.node[c].parent = n
                              /\ c # rbt.node[n][Opposite(d)]

(***************************************************************************)
(* Between two calls every key in a left subtree is smaller and every key  *)
(* in a right subtree larger than the key above it, so a search finds it.  *)
(***************************************************************************)
Ordered ==
    pc = "idle" => \A n \in Nodes :
        /\ \A m \in Under(rbt.node[n].left) : rbt.node[m].key < rbt.node[n].key
        /\ \A m \in Under(rbt.node[n].right) : rbt.node[m].key > rbt.node[n].key

\* Black nodes from n up to the head.
BlackAbove(n) ==
    LET up[m \in Pointers] ==
            IF m = NULL THEN 0
            ELSE (IF IsRed(rbt, m) THEN 0 ELSE 1) + up[rbt.node[m].parent]
    IN  up[n]

(***************************************************************************)
(* Between two calls the tree is balanced: the head is black ("root node   *)
(* should be always black"), no red node has a red child, and every way    *)
(* down to a missing child passes the same number of black nodes.          *)
(***************************************************************************)
RedBlack ==
    pc = "idle" =>
        /\ ~IsRed(rbt, rbt.head)
        /\ \A n \in Nodes : IsRed(rbt, n) => ~IsRed(rbt, rbt.node[n].parent)
        /\ LET ends == {n \in Nodes : NULL \in {rbt.node[n].left, rbt.node[n].right}}
           IN  \A n, m \in ends : BlackAbove(n) = BlackAbove(m)

(***************************************************************************)
(* Between two calls the tree holds the keys that were inserted and not    *)
(* removed, each with the data that was stored for it, although a removal  *)
(* moves keys and data from node to node.                                  *)
(***************************************************************************)
HoldsKeys ==
    pc = "idle" =>
        /\ {rbt.node[n].key : n \in Under(rbt.head)} = keys
        /\ \A n \in Nodes : rbt.node[n].data = rbt.node[n].key

\* The member of S that is first by comparison with all others, or NULL.
KeyOrNull(S, pick(_)) == IF S = {} THEN NULL ELSE pick(S)

(***************************************************************************)
(* Between two calls bf_get_lower_bound finds the largest key that is not  *)
(* above k, bf_get_upper_bound the smallest that is not below, and the two *)
(* extreme keys are found at the ends of the tree.                         *)
(***************************************************************************)
LookupsFind ==
    pc = "idle" =>
        /\ \A k \in Keys :
              /\ bf_get_lower_bound(k) = KeyOrNull({j \in keys : j <= k}, Max)
              /\ bf_get_upper_bound(k) = KeyOrNull({j \in keys : j >= k}, Min)
        /\ bf_get_highest_key_node = KeyOrNull(keys, Max)
        /\ bf_get_lowest_key_node = KeyOrNull(keys, Min)

(***************************************************************************)
(* Every insertion and every removal returns: each round of the balancing  *)
(* loops has a case to take and they do not go round forever.              *)
(***************************************************************************)
CallReturns == pc # "idle" ~> pc = "idle"
=============================================================================
