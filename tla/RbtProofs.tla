----------------------------- MODULE RbtProofs ------------------------------
(***************************************************************************)
(* Proofs about Rbt, for every set of keys and every sequence of calls:    *)
(* the pointers form a tree, its keys are in order, the lookups find them, *)
(* and between two calls the tree is balanced.                             *)
(*                                                                         *)
(* What lies below a node and how many black nodes lie on a way down from  *)
(* it are recursive, and no induction over trees is at hand.  So the       *)
(* invariants say that there is a function D of the nodes, with the set of *)
(* nodes below each (Shape), and a function B with the number of black     *)
(* ones on every way down (Black); each satisfies the equations the        *)
(* recursion would.  A step of the tree then has to say only how D and B   *)
(* change: a rotation changes them at two nodes.                           *)
(*                                                                         *)
(* TreeInv is the invariant of the pointers and keys.  It holds in every   *)
(* step of a removal too, when the keys have moved up and the node to take *)
(* out repeats the key of another (Sorted, with res): this is what makes   *)
(* Direction, Neighbor and Rotate, which find their way by comparing keys, *)
(* take the right side.  BalInv is the invariant of the colors: during an  *)
(* insertion cur may be red with a red kid, during a removal one black     *)
(* node is missing on every way through cur.                               *)
(***************************************************************************)
EXTENDS Rbt, FiniteSetTheorems, WellFoundedInduction, TLAPS

-----------------------------------------------------------------------------
(***************************************************************************)
(* Numbers                                                                 *)
(***************************************************************************)

(***************************************************************************)
(* A set of natural numbers that is not empty has a least element.  The    *)
(* inductions of the proofs are appeals to this fact, applied to the set   *)
(* of counterexamples.                                                     *)
(***************************************************************************)
LEMMA LeastNat ==
    ASSUME NEW S \in SUBSET Nat, S # {}
    PROVE  \E x \in S : \A y \in S : x <= y
<1> DEFINE R == OpToRel(<, Nat)
<1>1. \A x, y \in Nat : x < y => <<x, y>> \in R
  BY DEF OpToRel
<1>2. IsWellFoundedOn(R, Nat)
  BY NatLessThanWellFounded
<1> HIDE DEF R
<1>3. PICK x \in S : \A y \in S : ~ (<<y, x>> \in R)
  BY <1>2, WFMin
<1>4. ASSUME NEW y \in S PROVE x <= y
  <2>1. x \in Nat /\ y \in Nat
    OBVIOUS
  <2>2. ~ (y < x)
    BY <1>1, <1>3, <2>1
  <2> QED BY <2>1, <2>2
<1> QED BY <1>4

(***************************************************************************)
(* Min finds it.                                                           *)
(***************************************************************************)
LEMMA MinOfNats ==
    ASSUME NEW S \in SUBSET Nat, S # {}
    PROVE  Min(S) \in S /\ \A y \in S : Min(S) <= y
BY LeastNat DEF Min

(***************************************************************************)
(* Max finds the greatest element of a set of natural numbers that has an  *)
(* upper bound.                                                            *)
(***************************************************************************)
LEMMA MaxOfNats ==
    ASSUME NEW S \in SUBSET Nat, S # {}, NEW b \in Nat, \A y \in S : y <= b
    PROVE  Max(S) \in S /\ \A y \in S : y <= Max(S)
<1> DEFINE D == {b - y : y \in S}
<1>1. D \in SUBSET Nat /\ D # {}
  <2>1. \A y \in S : b - y \in Nat /\ b - y \in D
    OBVIOUS
  <2>2. PICK y \in S : TRUE
    OBVIOUS
  <2> QED BY <2>1, <2>2
<1>2. PICK d \in D : \A x \in D : d <= x
  BY <1>1, LeastNat
<1>3. PICK m \in S : d = b - m
  OBVIOUS
<1>4. ASSUME NEW y \in S PROVE m >= y
  <2>1. d <= b - y
    BY <1>2
  <2> QED BY <1>3, <2>1
<1>5. Max(S) \in S /\ \A y \in S : Max(S) >= y
  BY <1>4 DEF Max
<1> QED BY <1>5

(***************************************************************************)
(* A member of a set that bounds it from below is what Min finds.          *)
(***************************************************************************)
LEMMA MinIs ==
    ASSUME NEW S \in SUBSET Nat, NEW m \in S, \A y \in S : m <= y
    PROVE  Min(S) = m
<1>1. S # {} /\ m \in Nat
  OBVIOUS
<1>2. Min(S) \in S /\ Min(S) \in Nat /\ \A y \in S : Min(S) <= y
  BY <1>1, MinOfNats
<1>3. Min(S) <= m /\ m <= Min(S)
  BY <1>2
<1> QED BY <1>1, <1>2, <1>3

(***************************************************************************)
(* A member of a set that bounds it from above is what Max finds.          *)
(***************************************************************************)
LEMMA MaxIs ==
    ASSUME NEW S \in SUBSET Nat, NEW m \in S, \A y \in S : y <= m
    PROVE  Max(S) = m
<1>1. S # {} /\ m \in Nat
  OBVIOUS
<1>2. Max(S) \in S /\ Max(S) \in Nat /\ \A y \in S : y <= Max(S)
  BY <1>1, MaxOfNats
<1>3. Max(S) <= m /\ m <= Max(S)
  BY <1>2
<1> QED BY <1>1, <1>2, <1>3

-----------------------------------------------------------------------------
(***************************************************************************)
(* Nodes and their fields                                                  *)
(***************************************************************************)

Dirs   == {"left", "right"}
Fields == {"key", "color", "left", "right", "parent", "data"}

\* A node whose pointers are in P.
NodeOf(P) ==
    [key : Keys, color : {"RED", "BLACK"}, left : P, right : P, parent : P, data : Keys]

\* The fields of a node.  The proofs see no records but these.
Field(r, f)  == r[f]
NodesOf(s)   == DOMAIN s.node
NodeAt(s, n) == s.node[n]
Kid(s, n, d) == Field(NodeAt(s, n), d)
Up(s, n)     == Field(NodeAt(s, n), "parent")
KeyOf(s, n)  == Field(NodeAt(s, n), "key")
Color(s, n)  == Field(NodeAt(s, n), "color")
DataOf(s, n) == Field(NodeAt(s, n), "data")

\* What may be stored in a field.
Fits(P, f, v) ==
    /\ f \in {"key", "data"} => v \in Keys
    /\ f = "color" => v \in {"RED", "BLACK"}
    /\ f \in {"left", "right", "parent"} => v \in P

Store(r, f, v) == [r EXCEPT ![f] = v]

\* The memory of a tree: finitely many nodes, each named by a key, and no
\* pointer that leads out of them.
Typed(s) ==
    /\ s = [head |-> s.head, node |-> s.node]
    /\ NodesOf(s) \subseteq Keys /\ IsFiniteSet(NodesOf(s))
    /\ s.node \in [NodesOf(s) -> NodeOf(NodesOf(s) \cup {NULL})]
    /\ s.head \in NodesOf(s) \cup {NULL}

(***************************************************************************)
(* The two sides.                                                          *)
(***************************************************************************)
LEMMA Sides ==
    /\ "left" \in Dirs /\ "right" \in Dirs /\ "left" # "right"
    /\ Opposite("left") = "right" /\ Opposite("right") = "left"
    /\ \A d \in Dirs : /\ d = "left" \/ d = "right"
                       /\ d \in Fields /\ d # "key" /\ d # "color" /\ d # "parent" /\ d # "data"
                       /\ Opposite(d) \in Dirs /\ Opposite(d) # d
                       /\ Opposite(Opposite(d)) = d
                       /\ \A e \in Dirs : e = d \/ e = Opposite(d)
    /\ {"key", "color", "parent", "data"} \subseteq Fields
BY DEF Dirs, Opposite, Fields

(***************************************************************************)
(* The fields of a node.                                                   *)
(***************************************************************************)
LEMMA FieldIs ==
    ASSUME NEW P, NEW r \in NodeOf(P), NEW f \in Fields
    PROVE  Fits(P, f, Field(r, f))
BY DEF NodeOf, Fits, Field, Fields

(***************************************************************************)
(* Storing a value in one field leaves a node and changes no other field.  *)
(***************************************************************************)
LEMMA StoreIs ==
    ASSUME NEW P, NEW r \in NodeOf(P), NEW f \in Fields, NEW v, Fits(P, f, v)
    PROVE  /\ Store(r, f, v) \in NodeOf(P)
           /\ \A e \in Fields : Field(Store(r, f, v), e) = IF e = f THEN v ELSE Field(r, e)
<1>1. DOMAIN r = Fields
  BY DEF NodeOf, Fields
<1>2. \A e \in Fields : Field(Store(r, f, v), e) = IF e = f THEN v ELSE Field(r, e)
  BY <1>1, Zenon DEF Field, Store
<1>3. CASE f = "key"
  <2>1. Store(r, f, v) = [r EXCEPT !.key = v]
    BY <1>3, Zenon DEF Store
  <2>2. [r EXCEPT !.key = v] \in NodeOf(P)
    BY <1>3, SMT DEF NodeOf, Fits
  <2> QED BY <1>2, <2>1, <2>2, Zenon
<1>4. CASE f = "data"
  <2>1. Store(r, f, v) = [r EXCEPT !.data = v]
    BY <1>4, Zenon DEF Store
  <2>2. [r EXCEPT !.data = v] \in NodeOf(P)
    BY <1>4, SMT DEF NodeOf, Fits
  <2> QED BY <1>2, <2>1, <2>2, Zenon
<1>5. CASE f = "color"
  <2>1. Store(r, f, v) = [r EXCEPT !.color = v]
    BY <1>5, Zenon DEF Store
  <2>2. [r EXCEPT !.color = v] \in NodeOf(P)
    BY <1>5, SMT DEF NodeOf, Fits
  <2> QED BY <1>2, <2>1, <2>2, Zenon
<1>6. CASE f = "left"
  <2>1. Store(r, f, v) = [r EXCEPT !.left = v]
    BY <1>6, Zenon DEF Store
  <2>2. [r EXCEPT !.left = v] \in NodeOf(P)
    BY <1>6, SMT DEF NodeOf, Fits
  <2> QED BY <1>2, <2>1, <2>2, Zenon
<1>7. CASE f = "right"
  <2>1. Store(r, f, v) = [r EXCEPT !.right = v]
    BY <1>7, Zenon DEF Store
  <2>2. [r EXCEPT !.right = v] \in NodeOf(P)
    BY <1>7, SMT DEF NodeOf, Fits
  <2> QED BY <1>2, <2>1, <2>2, Zenon
<1>8. CASE f = "parent"
  <2>1. Store(r, f, v) = [r EXCEPT !.parent = v]
    BY <1>8, Zenon DEF Store
  <2>2. [r EXCEPT !.parent = v] \in NodeOf(P)
    BY <1>8, SMT DEF NodeOf, Fits
  <2> QED BY <1>2, <2>1, <2>2, Zenon
<1>9. Store(r, f, v) \in NodeOf(P)
  BY <1>3, <1>4, <1>5, <1>6, <1>7, <1>8, Zenon DEF Fields
<1> QED BY <1>2, <1>9, Zenon

(***************************************************************************)
(* What the fields of an allocated node hold.                              *)
(***************************************************************************)
LEMMA NodeIs ==
    ASSUME NEW s, Typed(s)
    PROVE  /\ NULL \notin NodesOf(s)
           /\ \A n \in NodesOf(s) :
                 /\ NodeAt(s, n) \in NodeOf(NodesOf(s) \cup {NULL})
                 /\ n \in Nat
                 /\ KeyOf(s, n) \in Nat /\ KeyOf(s, n) \in Keys /\ DataOf(s, n) \in Keys
                 /\ Color(s, n) \in {"RED", "BLACK"}
                 /\ Up(s, n) \in NodesOf(s) \cup {NULL}
                 /\ \A d \in Dirs : Kid(s, n, d) \in NodesOf(s) \cup {NULL}
<1>1. NULL \notin NodesOf(s) /\ NodesOf(s) \subseteq Nat
  BY KeysAssumption DEF Typed
<1>2. ASSUME NEW n \in NodesOf(s)
      PROVE  NodeAt(s, n) \in NodeOf(NodesOf(s) \cup {NULL})
  BY DEF Typed, NodeAt
<1> DEFINE P == NodesOf(s) \cup {NULL}
<1> HIDE DEF P
<1>3. ASSUME NEW n \in NodesOf(s), NEW f \in Fields
      PROVE  Fits(P, f, Field(NodeAt(s, n), f))
  BY <1>2, FieldIs DEF P
<1>4. ASSUME NEW n \in NodesOf(s) 
      PROVE  /\ KeyOf(s, n) \in Keys /\ DataOf(s, n) \in Keys
             /\ Color(s, n) \in {"RED", "BLACK"} /\ Up(s, n) \in P
             /\ \A d \in Dirs : Kid(s, n, d) \in P
  BY <1>3 DEF Fits, Fields, Dirs, KeyOf, DataOf, Color, Up, Kid
<1> QED BY <1>1, <1>2, <1>4, KeysAssumption DEF P

-----------------------------------------------------------------------------
(***************************************************************************)
(* Induction and recursion on a rank                                       *)
(***************************************************************************)

(***************************************************************************)
(* A set that takes in every x whose predecessors by rank it holds, holds  *)
(* everything.                                                             *)
(***************************************************************************)
LEMMA RankInduction ==
    ASSUME NEW S, NEW rank \in [S -> Nat], NEW G,
           \A x \in S : (\A y \in S : rank[y] < rank[x] => y \in G) => x \in G
    PROVE  \A x \in S : x \in G
<1> SUFFICES ASSUME NEW z \in S, z \notin G PROVE FALSE
  OBVIOUS
<1> DEFINE Bad == {rank[x] : x \in S \ G}
<1>1. Bad \in SUBSET Nat /\ Bad # {}
  OBVIOUS
<1>2. PICK n \in Bad : \A m \in Bad : n <= m
  <2> HIDE DEF Bad
  <2> QED BY <1>1, LeastNat
<1>3. PICK x \in S \ G : n = rank[x]
  OBVIOUS
<1>4. ASSUME NEW y \in S, rank[y] < rank[x] PROVE y \in G
  <2>1. y \notin G => rank[x] <= rank[y]
    BY <1>2, <1>3
  <2>2. rank[x] \in Nat /\ rank[y] \in Nat
    OBVIOUS
  <2> QED BY <1>4, <2>1, <2>2
<1> QED BY <1>3, <1>4

\* One round of a loop that stops at Stop with base and otherwise goes to
\* next, where H makes of its result there the result here.
Round(S, Stop, base, next, H, f) ==
    [x \in S |-> IF x \in Stop THEN base[x] ELSE H[<<x, f[next[x]]>>]]

\* Every round but the last goes to an element of lower rank.
Ends(S, V, rank, b, Stop, base, next, H) ==
    /\ rank \in [S -> Nat] /\ b \in Nat /\ \A x \in S : rank[x] < b
    /\ base \in [S -> V] /\ H \in [S \X V -> V]
    /\ \A x \in S \ Stop : next[x] \in S /\ rank[next[x]] < rank[x]

(***************************************************************************)
(* A walk to elements of lower and lower rank defines a function.          *)
(***************************************************************************)
LEMMA Walk ==
    ASSUME NEW S, NEW V, NEW rank, NEW b, NEW Stop, NEW base, NEW next, NEW H,
           Ends(S, V, rank, b, Stop, base, next, H)
    PROVE  \E f \in [S -> V] : f = Round(S, Stop, base, next, H, f)
<1> USE DEF Ends
<1> DEFINE Upto(f, n) == \A x \in S : rank[x] < n => 
                            f[x] = IF x \in Stop THEN base[x] ELSE H[<<x, f[next[x]]>>]
           Bad == {n \in Nat : ~ \E f \in [S -> V] : Upto(f, n)}
<1>1. Upto(base, 0)
  OBVIOUS
<1>2. ASSUME NEW n \in Nat, NEW f \in [S -> V], Upto(f, n)
      PROVE  \E h \in [S -> V] : Upto(h, n + 1)
  <2> DEFINE h == Round(S, Stop, base, next, H, f)
  <2>1. h \in [S -> V]
    BY DEF Round
  <2>2. \A x \in S : h[x] = IF x \in Stop THEN base[x] ELSE H[<<x, f[next[x]]>>]
    BY DEF Round
  <2>3. \A x \in S : rank[x] < n => h[x] = f[x]
    BY <1>2, <2>2
  <2> HIDE DEF h
  <2>4. ASSUME NEW x \in S, rank[x] < n + 1
        PROVE  h[x] = IF x \in Stop THEN base[x] ELSE H[<<x, h[next[x]]>>]
    <3>1. CASE x \in Stop
      BY <2>2, <3>1
    <3>2. CASE x \notin Stop
      <4>1. next[x] \in S /\ rank[next[x]] < n
        <5>1. next[x] \in S /\ rank[next[x]] < rank[x]
          BY <3>2
        <5>2. rank[next[x]] \in Nat /\ rank[x] \in Nat
          BY <5>1
        <5> QED BY <5>1, <5>2, <2>4
      <4>2. h[next[x]] = f[next[x]]
        BY <4>1, <2>3
      <4> QED BY <4>2, <3>2, <2>2
    <3> QED BY <3>1, <3>2
  <2> QED BY <2>1, <2>4
<1>3. Bad = {}
  <2> SUFFICES ASSUME Bad # {} PROVE FALSE
    OBVIOUS
  <2>1. PICK n \in Bad : \A m \in Bad : n <= m
    <3>1. Bad \in SUBSET Nat
      OBVIOUS
    <3> HIDE DEF Bad
    <3> QED BY <3>1, LeastNat
  <2>2. n # 0
    BY <1>1
  <2>3. n - 1 \in Nat /\ n - 1 \notin Bad
    BY <2>1, <2>2
  <2>4. PICK f \in [S -> V] : Upto(f, n - 1)
    BY <2>3
  <2> HIDE DEF Upto
  <2>5. \E h \in [S -> V] : Upto(h, n - 1 + 1)
    BY <1>2, <2>3, <2>4
  <2>6. n - 1 + 1 = n
    OBVIOUS
  <2> QED BY <2>5, <2>6
<1>4. PICK f \in [S -> V] : Upto(f, b)
  BY <1>3
<1>5. \A x \in S : f[x] = IF x \in Stop THEN base[x] ELSE H[<<x, f[next[x]]>>]
  BY <1>4
<1>6. f = Round(S, Stop, base, next, H, f)
  BY <1>5 DEF Round
<1> QED BY <1>6

-----------------------------------------------------------------------------
(***************************************************************************)
(* Trees                                                                   *)
(***************************************************************************)
HeadOf(s) == s.head

(***************************************************************************)
(* The pointers form a tree.  D[n] is the set of the nodes below and at n; *)
(* it takes the place of a recursive definition of them.                   *)
(***************************************************************************)
Shape(s, D) ==
    /\ D \in [NodesOf(s) \cup {NULL} -> SUBSET NodesOf(s)]
    /\ D[NULL] = {} /\ D[HeadOf(s)] = NodesOf(s)
    /\ \A n \in NodesOf(s), d \in Dirs :
          /\ D[n] = {n} \cup D[Kid(s, n, d)] \cup D[Kid(s, n, Opposite(d))]
          /\ D[Kid(s, n, d)] \cap D[Kid(s, n, Opposite(d))] = {}
          /\ n \notin D[Kid(s, n, d)]
          /\ Kid(s, n, d) # NULL => Up(s, Kid(s, n, d)) = n
    /\ \A n \in NodesOf(s) :
          /\ Up(s, n) = NULL => n = HeadOf(s)
          /\ Up(s, n) # NULL => \E d \in Dirs : Kid(s, Up(s, n), d) = n
    /\ HeadOf(s) # NULL => Up(s, HeadOf(s)) = NULL

Size(D, n) == Cardinality(D[n])

(***************************************************************************)
(* Subtrees are finite and get smaller on the way down.                    *)
(***************************************************************************)
LEMMA Sizes ==
    ASSUME NEW s, NEW D, Typed(s), Shape(s, D)
    PROVE  /\ Cardinality(NodesOf(s)) \in Nat
           /\ \A n \in NodesOf(s) : /\ Size(D, n) \in Nat
                                    /\ Size(D, n) < Cardinality(NodesOf(s)) + 1
           /\ \A m, n \in NodesOf(s) :
                 D[m] \subseteq D[n] /\ n \notin D[m] => Size(D, m) < Size(D, n)
<1> DEFINE N == NodesOf(s)
<1>1. IsFiniteSet(N) /\ Cardinality(N) \in Nat
  BY FS_CardinalityType DEF Typed
<1>2. ASSUME NEW n \in N
      PROVE  /\ D[n] \in SUBSET N /\ n \in D[n] /\ IsFiniteSet(D[n])
             /\ Size(D, n) \in Nat /\ Size(D, n) <= Cardinality(N)
  <2>1. D[n] \in SUBSET N /\ n \in D[n]
    BY Sides DEF Shape
  <2> HIDE DEF N
  <2>2. IsFiniteSet(D[n]) /\ Cardinality(D[n]) <= Cardinality(N)
    BY <1>1, <2>1, FS_Subset
  <2>3. Cardinality(D[n]) \in Nat
    BY <2>2, FS_CardinalityType
  <2> QED BY <2>1, <2>2, <2>3 DEF Size
<1> HIDE DEF N
<1>3. ASSUME NEW m \in N, NEW n \in N, D[m] \subseteq D[n], n \notin D[m]
      PROVE  Size(D, m) < Size(D, n)
  <2>1. D[m] # D[n]
    BY <1>2, <1>3
  <2>2. Cardinality(D[m]) <= Cardinality(D[n]) /\ Cardinality(D[m]) # Cardinality(D[n])
    <3>1. D[m] \in SUBSET D[n]
      BY <1>3
    <3>2. IsFiniteSet(D[n])
      BY <1>2
    <3> QED BY <2>1, <3>1, <3>2, FS_Subset
  <2>3. Size(D, m) \in Nat /\ Size(D, n) \in Nat
    BY <1>2
  <2> QED BY <2>2, <2>3 DEF Size
<1> QED BY <1>1, <1>2, <1>3 DEF N

(***************************************************************************)
(* Induction from the leaves up.                                           *)
(***************************************************************************)
LEMMA TreeInduction ==
    ASSUME NEW s, NEW D, Typed(s), Shape(s, D), NEW G,
           \A n \in NodesOf(s) :
              (\A d \in Dirs : Kid(s, n, d) # NULL => Kid(s, n, d) \in G) => n \in G
    PROVE  \A n \in NodesOf(s) : n \in G
<1> DEFINE N == NodesOf(s)
           rank == [n \in N |-> Size(D, n)]
<1>1. rank \in [N -> Nat]
  BY Sizes
<1>2. \A n \in N, d \in Dirs :
         Kid(s, n, d) # NULL => Kid(s, n, d) \in N /\ rank[Kid(s, n, d)] < rank[n]
  <2> SUFFICES ASSUME NEW n \in N, NEW d \in Dirs, Kid(s, n, d) # NULL
               PROVE  Kid(s, n, d) \in N /\ rank[Kid(s, n, d)] < rank[n]
    OBVIOUS
  <2>1. Kid(s, n, d) \in N
    BY NodeIs
  <2>2. D[Kid(s, n, d)] \subseteq D[n] /\ n \notin D[Kid(s, n, d)]
    BY DEF Shape
  <2>3. Size(D, Kid(s, n, d)) < Size(D, n)
    BY <2>1, <2>2, Sizes
  <2> QED BY <2>1, <2>3
<1> HIDE DEF rank, N
<1>3. ASSUME NEW x \in N, \A y \in N : rank[y] < rank[x] => y \in G
      PROVE  x \in G
  BY <1>2, <1>3 DEF N
<1>4. \A x \in N : x \in G
  BY <1>1, <1>3, RankInduction
<1> QED BY <1>4 DEF N

(***************************************************************************)
(* Subtrees are nested or disjoint.                                        *)
(***************************************************************************)
LEMMA Nested ==
    ASSUME NEW s, NEW D, Typed(s), Shape(s, D)
    PROVE  /\ NULL \notin NodesOf(s)
           /\ \A b \in NodesOf(s) : D[b] \subseteq NodesOf(s) /\ b \in D[b]
           /\ \A b \in NodesOf(s) : \A a \in D[b] : D[a] \subseteq D[b]
           /\ \A b \in NodesOf(s) : \A a \in D[b] :
                 a # b => Up(s, a) \in D[b] /\ b \notin D[a]
           /\ \A a, b \in NodesOf(s) : D[a] \cap D[b] # {} => a \in D[b] \/ b \in D[a]
<1> DEFINE N == NodesOf(s)
<1>0. NULL \notin N /\ \A n \in N, d \in Dirs : Kid(s, n, d) \in N \cup {NULL}
  BY NodeIs
<1>1. \A b \in N : D[b] \subseteq N /\ b \in D[b]
  BY Sides DEF Shape
<1>9. \A b \in N : \A a \in D[b] :
         a = b \/ \E d \in Dirs : Kid(s, b, d) \in N /\ a \in D[Kid(s, b, d)]
  BY Sides, <1>0 DEF Shape
<1>8. \A b \in N, d \in Dirs : D[Kid(s, b, d)] \subseteq D[b] /\ b \notin D[Kid(s, b, d)]
  BY DEF Shape
<1>2. \A b \in N : \A a \in D[b] : D[a] \subseteq D[b]
  <2> DEFINE G == {b \in N : \A a \in D[b] : D[a] \subseteq D[b]}
  <2>1. ASSUME NEW n \in N, \A d \in Dirs : Kid(s, n, d) # NULL => Kid(s, n, d) \in G
        PROVE  n \in G
    BY <2>1, <1>0, <1>8, <1>9
  <2> HIDE DEF G
  <2>2. \A n \in N : n \in G
    BY <2>1, TreeInduction
  <2> QED BY <2>2 DEF G
<1>3. \A b \in N : \A a \in D[b] : a # b => b \notin D[a]
  BY <1>2, <1>8, <1>9
<1>4. \A b \in N : \A a \in D[b] : a # b => Up(s, a) \in D[b]
  <2> DEFINE G == {b \in N : \A a \in D[b] : a # b => Up(s, a) \in D[b]}
  <2>1. ASSUME NEW n \in N, \A d \in Dirs : Kid(s, n, d) # NULL => Kid(s, n, d) \in G
        PROVE  n \in G
    <3> SUFFICES ASSUME NEW a \in D[n], a # n PROVE Up(s, a) \in D[n]
      OBVIOUS
    <3>1. PICK d \in Dirs : Kid(s, n, d) \in N /\ a \in D[Kid(s, n, d)]
      BY <1>9
    <3>2. CASE a = Kid(s, n, d)
      BY <3>1, <3>2, <1>0, <1>1 DEF Shape
    <3>3. CASE a # Kid(s, n, d)
      BY <2>1, <3>1, <3>3, <1>0, <1>8
    <3> QED BY <3>2, <3>3
  <2> HIDE DEF G
  <2>2. \A n \in N : n \in G
    BY <2>1, TreeInduction
  <2> QED BY <2>2 DEF G
<1>5. ASSUME NEW b \in N
      PROVE  \A a \in N : D[a] \cap D[b] # {} => a \in D[b] \/ b \in D[a]
  <2> DEFINE G == {a \in N : D[a] \cap D[b] # {} => a \in D[b] \/ b \in D[a]}
  <2>1. ASSUME NEW n \in N, \A d \in Dirs : Kid(s, n, d) # NULL => Kid(s, n, d) \in G
        PROVE  n \in G
    <3> SUFFICES ASSUME NEW x \in D[n], x \in D[b] PROVE n \in D[b] \/ b \in D[n]
      OBVIOUS
    <3>1. CASE x = n
      BY <3>1
    <3>2. CASE x # n
      <4>1. PICK d \in Dirs : Kid(s, n, d) \in N /\ x \in D[Kid(s, n, d)]
        BY <1>9, <3>2
      <4>2. Kid(s, n, d) \in D[b] \/ b \in D[Kid(s, n, d)]
        BY <2>1, <4>1, <1>0
      <4>3. CASE b \in D[Kid(s, n, d)]
        BY <4>3, <1>8
      <4>4. CASE Kid(s, n, d) \in D[b]
        <5>1. CASE Kid(s, n, d) = b
          BY <5>1, <4>1, <1>1, <1>8
        <5>2. CASE Kid(s, n, d) # b
          <6>1. Up(s, Kid(s, n, d)) = n
            BY <4>1, <1>0 DEF Shape
          <6> QED BY <5>2, <6>1, <4>4, <1>4
        <5> QED BY <5>1, <5>2
      <4> QED BY <4>2, <4>3, <4>4
    <3> QED BY <3>1, <3>2
  <2> HIDE DEF G
  <2>2. \A n \in N : n \in G
    BY <2>1, TreeInduction
  <2> QED BY <2>2 DEF G
<1> QED BY <1>0, <1>1, <1>2, <1>3, <1>4, <1>5

-----------------------------------------------------------------------------
(***************************************************************************)
(* Rotations                                                               *)
(***************************************************************************)

\* t is s after a rotation of n to side d.
Turned(s, t, n, d, side, up, c, g) ==
    /\ NodesOf(t) = NodesOf(s)
    /\ HeadOf(t) = IF n = HeadOf(s) THEN c ELSE HeadOf(s)
    /\ \A m \in NodesOf(s) :
          /\ KeyOf(t, m) = KeyOf(s, m) /\ DataOf(t, m) = DataOf(s, m)
          /\ Color(t, m) = IF m = c THEN Color(s, n)
                           ELSE IF m = n THEN Color(s, c) ELSE Color(s, m)
          /\ Up(t, m) = IF m = c THEN up ELSE IF m = n THEN c
                        ELSE IF m = g THEN n ELSE Up(s, m)
          /\ \A e \in Dirs :
                Kid(t, m, e) = IF m = c /\ e = d THEN n
                               ELSE IF m = n /\ e = Opposite(d) THEN g
                               ELSE IF m = up /\ e = side THEN c ELSE Kid(s, m, e)

(***************************************************************************)
(* What a rotation does to each node.                                      *)
(***************************************************************************)
LEMMA RotateIs ==
    ASSUME NEW s, Typed(s), NEW n \in NodesOf(s), NEW d \in Dirs,
           NEW up, NEW c \in NodesOf(s), NEW g,
           up = Up(s, n), c = Kid(s, n, Opposite(d)), g = Kid(s, c, d),
           n # c, g # n, g # c, up # n, up # c, g # NULL => up # g,
           NEW side \in Dirs,
           up # NULL => side = IF KeyOf(s, up) < KeyOf(s, c) THEN "right" ELSE "left"
    PROVE  Typed(Rotate(s, n, d)) /\ Turned(s, Rotate(s, n, d), n, d, side, up, c, g)
<1> DEFINE N == NodesOf(s)
           P == N \cup {NULL}
           R == NodeOf(P)
           o == Opposite(d)
           rc == Store(Store(Store(NodeAt(s, c), d, n), "parent", up), "color", Color(s, n))
           rn == Store(Store(Store(NodeAt(s, n), o, g), "parent", c), "color", Color(s, c))
           turned == [m \in N |-> IF m = n THEN rn ELSE IF m = c THEN rc ELSE NodeAt(s, m)]
           below  == [m \in N |-> IF m = g THEN Store(turned[m], "parent", n) ELSE turned[m]]
           all    == [m \in N |-> IF m = up THEN Store(below[m], side, c) ELSE below[m]]
           t      == [head |-> IF n = s.head THEN c ELSE s.head, node |-> all]
<1>1. /\ o \in Dirs /\ o # d /\ c \in N /\ g \in P /\ up \in P
      /\ NULL \notin N /\ n \in P /\ c \in P
      /\ \A m \in N : NodeAt(s, m) \in R
  BY Sides, NodeIs
<1>2. Color(s, n) \in {"RED", "BLACK"} /\ Color(s, c) \in {"RED", "BLACK"}
  BY NodeIs
<1>a. \A x \in P, e \in Dirs : e \in Fields /\ Fits(P, e, x)
  <2> HIDE DEF P
  <2> QED BY DEF Fits, Dirs, Fields
<1>b. \A x \in P : "parent" \in Fields /\ Fits(P, "parent", x)
  <2> HIDE DEF P
  <2> QED BY DEF Fits, Fields
<1>c. \A x \in {"RED", "BLACK"} : "color" \in Fields /\ Fits(P, "color", x)
  <2> HIDE DEF P
  <2> QED BY DEF Fits, Fields
<1>3. ASSUME NEW r \in R, NEW e \in Fields, NEW x, Fits(P, e, x)
      PROVE  /\ Store(r, e, x) \in R
             /\ \A f \in Fields : Field(Store(r, e, x), f) = IF f = e THEN x ELSE Field(r, f)
  <2> HIDE DEF P
  <2> QED BY <1>3, StoreIs
<1>4. "parent" \in Fields /\ "color" \in Fields /\ \A e \in Dirs : e \in Fields
      /\ e # "parent" /\ e # "color" /\ e # "key" /\ e # "data"
  BY Sides
<1>5. "key" \in Fields /\ "data" \in Fields
  BY Sides
<1>6. /\ rc \in R
      /\ \A f \in Fields : Field(rc, f) = IF f = "color" THEN Color(s, n)
                                          ELSE IF f = "parent" THEN up
                                          ELSE IF f = d THEN n ELSE Field(NodeAt(s, c), f)
  <2> HIDE DEF R, P
  <2> DEFINE r1 == Store(NodeAt(s, c), d, n)
             r2 == Store(r1, "parent", up)
  <2>1. /\ r1 \in R
        /\ \A f \in Fields : Field(r1, f) = IF f = d THEN n ELSE Field(NodeAt(s, c), f)
    BY <1>1, <1>3, <1>a
  <2> HIDE DEF r1
  <2>2. /\ r2 \in R
        /\ \A f \in Fields : Field(r2, f) = IF f = "parent" THEN up ELSE Field(r1, f)
    BY <1>1, <1>3, <1>b, <2>1
  <2> HIDE DEF r2
  <2>3. rc = Store(r2, "color", Color(s, n))
    BY DEF r1, r2
  <2>4. /\ rc \in R
        /\ \A f \in Fields : Field(rc, f) = IF f = "color" THEN Color(s, n) ELSE Field(r2, f)
    BY <1>2, <1>3, <1>c, <2>2, <2>3
  <2> HIDE DEF rc
  <2> QED BY <2>1, <2>2, <2>4
<1>7. /\ rn \in R
      /\ \A f \in Fields : Field(rn, f) = IF f = "color" THEN Color(s, c)
                                          ELSE IF f = "parent" THEN c
                                          ELSE IF f = o THEN g ELSE Field(NodeAt(s, n), f)
  <2> HIDE DEF R, P, o
  <2> DEFINE r1 == Store(NodeAt(s, n), o, g)
             r2 == Store(r1, "parent", c)
  <2>1. /\ r1 \in R
        /\ \A f \in Fields : Field(r1, f) = IF f = o THEN g ELSE Field(NodeAt(s, n), f)
    BY <1>1, <1>3, <1>a
  <2> HIDE DEF r1
  <2>2. /\ r2 \in R
        /\ \A f \in Fields : Field(r2, f) = IF f = "parent" THEN c ELSE Field(r1, f)
    BY <1>1, <1>3, <1>b, <2>1
  <2> HIDE DEF r2
  <2>3. rn = Store(r2, "color", Color(s, c))
    BY DEF r1, r2
  <2>4. /\ rn \in R
        /\ \A f \in Fields : Field(rn, f) = IF f = "color" THEN Color(s, c) ELSE Field(r2, f)
    BY <1>2, <1>3, <1>c, <2>2, <2>3
  <2> HIDE DEF rn
  <2> QED BY <2>1, <2>2, <2>4
<1>0. Rotate(s, n, d) = t
  <2>1. DOMAIN s.node = N
    BY DEF NodesOf
  <2>2. up # NULL => side = IF s.node[up].key < s.node[c].key THEN "right" ELSE "left"
    BY Zenon DEF KeyOf, Field, NodeAt
  <2>3. up = s.node[n].parent /\ c = s.node[n][o] /\ g = s.node[c][d]
    BY Zenon DEF Up, Kid, Field, NodeAt
  <2> DEFINE turned0 == [s.node EXCEPT
                     ![c] = [@ EXCEPT ![d] = n, !.parent = up,
                                      !.color = s.node[n].color],
                     ![n] = [@ EXCEPT ![o] = g, !.parent = c,
                                      !.color = s.node[c].color]]
             below0 == IF g = NULL THEN turned0 ELSE [turned0 EXCEPT ![g].parent = n]
             all0   == IF up = NULL THEN below0 ELSE [below0 EXCEPT ![up][side] = c]
  <2>4. Rotate(s, n, d) = [head |-> IF n = s.head THEN c ELSE s.head, node |-> all0]
    BY <2>2, <2>3, Zenon DEF Rotate
  <2>5. turned0 = turned
    BY <2>1, <1>1, Zenon DEF Store, Color, Field, NodeAt
  <2>6. below0 = below
    <3>1. DOMAIN turned = N /\ turned = [m \in N |-> turned[m]]
      BY Zenon
    <3> HIDE DEF turned, turned0
    <3>2. CASE g = NULL
      <4>1. below0 = turned
        BY <2>5, <3>2
      <4>2. below = [m \in N |-> turned[m]]
        BY <3>2, <1>1
      <4> HIDE DEF below, below0
      <4> QED BY <4>1, <4>2, <3>1
    <3>3. CASE g # NULL
      <4>1. below0 = [turned EXCEPT ![g].parent = n]
        BY <2>5, <3>3, Zenon
      <4>2. [turned EXCEPT ![g].parent = n] = below
        BY <3>1, Zenon DEF Store
      <4> HIDE DEF below, below0
      <4> QED BY <4>1, <4>2
    <3> QED BY <3>2, <3>3
  <2>7. all0 = all
    <3>1. DOMAIN below = N /\ below = [m \in N |-> below[m]]
      BY Zenon
    <3> HIDE DEF below, below0
    <3>2. CASE up = NULL
      <4>1. all0 = below
        BY <2>6, <3>2
      <4>2. all = [m \in N |-> below[m]]
        BY <3>2, <1>1
      <4> HIDE DEF all, all0
      <4> QED BY <4>1, <4>2, <3>1
    <3>3. CASE up # NULL
      <4>1. all0 = [below EXCEPT ![up][side] = c]
        BY <2>6, <3>3, Zenon
      <4>2. [below EXCEPT ![up][side] = c] = all
        BY <3>1, Zenon DEF Store
      <4> HIDE DEF all, all0
      <4> QED BY <4>1, <4>2
    <3> QED BY <3>2, <3>3
  <2> QED BY <2>4, <2>7, Zenon
<1> HIDE DEF rn, rc, R, P, o
<1>8. \A m \in N : turned[m] = IF m = n THEN rn ELSE IF m = c THEN rc ELSE NodeAt(s, m)
  OBVIOUS
<1>9. \A m \in N : turned[m] \in R
  BY <1>1, <1>6, <1>7, <1>8
<1> HIDE DEF turned
<1>10. \A m \in N :
          /\ below[m] \in R
          /\ \A f \in Fields : Field(below[m], f)
                 = IF m = g /\ f = "parent" THEN n ELSE Field(turned[m], f)
  <2>1. \A m \in N : below[m] = IF m = g THEN Store(turned[m], "parent", n) ELSE turned[m]
    OBVIOUS
  <2> HIDE DEF below
  <2> QED BY <2>1, <1>1, <1>3, <1>b, <1>9
<1> HIDE DEF below
<1>11. \A m \in N :
          /\ all[m] \in R
          /\ \A f \in Fields : Field(all[m], f)
                 = IF m = up /\ f = side THEN c ELSE Field(below[m], f)
  <2>1. \A m \in N : all[m] = IF m = up THEN Store(below[m], side, c) ELSE below[m]
    OBVIOUS
  <2> HIDE DEF all
  <2> QED BY <2>1, <1>1, <1>3, <1>a, <1>10
<1>12. DOMAIN all = N /\ all \in [N -> R]
  BY <1>11
<1> HIDE DEF all
<1>13. t.node = all /\ t.head = (IF n = s.head THEN c ELSE s.head)
  OBVIOUS
<1>14. NodesOf(t) = N /\ \A m \in N : NodeAt(t, m) = all[m]
  BY <1>12, <1>13 DEF NodesOf, NodeAt
<1>15. Typed(t)
  <2>1. t = [head |-> t.head, node |-> t.node]
    OBVIOUS
  <2>2. t.head \in N \cup {NULL}
    BY <1>13, <1>1 DEF Typed
  <2>3. N \subseteq Keys /\ IsFiniteSet(N)
    BY DEF Typed
  <2> HIDE DEF t
  <2> QED BY <2>1, <2>2, <2>3, <1>12, <1>13, <1>14, Zenon DEF Typed, R, P
<1>16. HeadOf(t) = IF n = HeadOf(s) THEN c ELSE HeadOf(s)
  BY <1>13 DEF HeadOf
<1> HIDE DEF t
<1>17. ASSUME NEW m \in N
       PROVE  /\ KeyOf(t, m) = KeyOf(s, m) /\ DataOf(t, m) = DataOf(s, m)
              /\ Color(t, m) = IF m = c THEN Color(s, n)
                               ELSE IF m = n THEN Color(s, c) ELSE Color(s, m)
              /\ Up(t, m) = IF m = c THEN up ELSE IF m = n THEN c
                            ELSE IF m = g THEN n ELSE Up(s, m)
              /\ \A e \in Dirs :
                    Kid(t, m, e) = IF m = c /\ e = d THEN n
                                   ELSE IF m = n /\ e = Opposite(d) THEN g
                                   ELSE IF m = up /\ e = side THEN c ELSE Kid(s, m, e)
  <2>1. \A f \in Fields :
           Field(NodeAt(t, m), f) =
               IF m = up /\ f = side THEN c
               ELSE IF m = g /\ f = "parent" THEN n
               ELSE IF m = n THEN Field(rn, f)
               ELSE IF m = c THEN Field(rc, f) ELSE Field(NodeAt(s, m), f)
    BY <1>8, <1>10, <1>11, <1>14
  <2>2. /\ KeyOf(t, m) = KeyOf(s, m) /\ DataOf(t, m) = DataOf(s, m)
        /\ Color(t, m) = IF m = c THEN Color(s, n)
                         ELSE IF m = n THEN Color(s, c) ELSE Color(s, m)
    BY <2>1, <1>1, <1>4, <1>5, <1>6, <1>7 DEF KeyOf, DataOf, Color
  <2>3. Up(t, m) = IF m = c THEN up ELSE IF m = n THEN c
                   ELSE IF m = g THEN n ELSE Up(s, m)
    BY <2>1, <1>1, <1>4, <1>6, <1>7 DEF Up
  <2>4. ASSUME NEW e \in Dirs
        PROVE  Kid(t, m, e) = IF m = c /\ e = d THEN n
                              ELSE IF m = n /\ e = Opposite(d) THEN g
                              ELSE IF m = up /\ e = side THEN c ELSE Kid(s, m, e)
    BY <2>1, <1>1, <1>4, <1>6, <1>7 DEF Kid, o
  <2> QED BY <2>2, <2>3, <2>4
<1> QED BY <1>0, <1>14, <1>15, <1>16, <1>17 DEF Turned, N

\* The keys grow from left to right; only res may repeat a key above it.
Sorted(s, D, res) ==
    \A n \in NodesOf(s) :
        /\ \A m \in D[Kid(s, n, "left")] :
              KeyOf(s, m) < KeyOf(s, n) \/ (m = res /\ KeyOf(s, m) = KeyOf(s, n))
        /\ \A m \in D[Kid(s, n, "right")] :
              KeyOf(s, m) > KeyOf(s, n) \/ (m = res /\ KeyOf(s, m) = KeyOf(s, n))

(***************************************************************************)
(* A node hangs on one side of its parent.                                 *)
(***************************************************************************)
LEMMA Hangs ==
    ASSUME NEW s, NEW D, Typed(s), Shape(s, D), NEW n \in NodesOf(s), Up(s, n) # NULL
    PROVE  /\ Up(s, n) \in NodesOf(s) /\ Up(s, n) # n
           /\ n \in D[Up(s, n)] /\ Up(s, n) \notin D[n]
           /\ \E d \in Dirs : Kid(s, Up(s, n), d) = n
           /\ \A d \in Dirs : Kid(s, Up(s, n), d) = n =>
                 /\ Kid(s, Up(s, n), Opposite(d)) # n
                 /\ D[Kid(s, Up(s, n), Opposite(d))] \cap D[n] = {}
<1>1. Up(s, n) \in NodesOf(s) /\ n # NULL
  BY NodeIs
<1>2. PICK d \in Dirs : Kid(s, Up(s, n), d) = n
  BY DEF Shape
<1>3. n \in D[n]
  BY Nested
<1>4. n \in D[Up(s, n)] /\ Up(s, n) \notin D[n]
  BY <1>1, <1>2, <1>3 DEF Shape
<1>5. ASSUME NEW e \in Dirs, Kid(s, Up(s, n), e) = n
      PROVE  /\ Kid(s, Up(s, n), Opposite(e)) # n
             /\ D[Kid(s, Up(s, n), Opposite(e))] \cap D[n] = {}
  BY <1>1, <1>3, <1>5 DEF Shape
<1> QED BY <1>1, <1>2, <1>3, <1>4, <1>5

(***************************************************************************)
(* A kid's keys compare with its parent's.                                 *)
(***************************************************************************)
LEMMA KidKeys ==
    ASSUME NEW s, NEW D, Typed(s), Shape(s, D), NEW res, Sorted(s, D, res),
           NEW n \in NodesOf(s)
    PROVE  /\ \A m \in D[Kid(s, n, "left")] :
                 /\ m \in NodesOf(s) /\ KeyOf(s, m) <= KeyOf(s, n)
                 /\ m # res => KeyOf(s, m) < KeyOf(s, n)
           /\ \A m \in D[Kid(s, n, "right")] :
                 /\ m \in NodesOf(s) /\ KeyOf(s, m) >= KeyOf(s, n)
                 /\ m # res => KeyOf(s, m) > KeyOf(s, n)
<1>1. \A d \in Dirs : D[Kid(s, n, d)] \subseteq NodesOf(s)
  BY NodeIs DEF Shape
<1>2. \A m \in NodesOf(s) : KeyOf(s, m) \in Nat
  BY NodeIs
<1> QED BY <1>1, <1>2, Sides DEF Sorted

(***************************************************************************)
(* The nodes around a rotation are different ones.                         *)
(***************************************************************************)
LEMMA Pivot ==
    ASSUME NEW s, NEW D, Typed(s), Shape(s, D), NEW n \in NodesOf(s), NEW d \in Dirs,
           Kid(s, n, Opposite(d)) # NULL
    PROVE  LET c == Kid(s, n, Opposite(d))
               g == Kid(s, c, d)
               up == Up(s, n)
           IN  /\ c \in NodesOf(s) /\ g \in NodesOf(s) \cup {NULL}
               /\ up \in NodesOf(s) \cup {NULL}
               /\ n # c /\ g # n /\ g # c /\ up # n /\ up # c /\ (g # NULL => up # g)
               /\ Up(s, c) = n
<1> DEFINE c == Kid(s, n, Opposite(d))
           g == Kid(s, c, d)
           up == Up(s, n)
<1>0. Opposite(d) \in Dirs
  BY Sides
<1>1. c \in NodesOf(s) /\ up \in NodesOf(s) \cup {NULL} /\ NULL \notin NodesOf(s)
  BY <1>0, NodeIs
<1>2. g \in NodesOf(s) \cup {NULL}
  BY NodeIs, <1>1
<1>3. Up(s, c) = n /\ n \notin D[c] /\ c \in D[n] /\ c \in D[c]
  BY Sides, <1>1, Nested DEF Shape
<1>4. g # NULL => g \in D[c] /\ g # c /\ g \in D[n]
  <2>1. g # NULL => g \in D[g]
    BY <1>2, Nested
  <2>2. D[g] \subseteq D[c] /\ c \notin D[g] /\ D[c] \subseteq D[n]
    BY <1>1, Sides DEF Shape
  <2> QED BY <2>1, <2>2
<1>5. up # NULL => up \notin D[n]
  BY Hangs
<1>6. n \in D[n]
  BY Nested
<1> QED BY <1>1, <1>2, <1>3, <1>4, <1>5, <1>6

\* The subtrees after a rotation.
TurnedD(s, D, n, d) ==
    LET c == Kid(s, n, Opposite(d))
    IN  [m \in NodesOf(s) \cup {NULL} |->
            IF m = c THEN D[n]
            ELSE IF m = n THEN {n} \cup D[Kid(s, n, d)] \cup D[Kid(s, c, d)]
            ELSE D[m]]

(***************************************************************************)
(* A rotation leaves a tree.                                               *)
(***************************************************************************)
LEMMA TurnedShape ==
    ASSUME NEW s, NEW D, Typed(s), Shape(s, D), NEW n \in NodesOf(s), NEW d \in Dirs,
           NEW c, NEW g, NEW up, c = Kid(s, n, Opposite(d)), g = Kid(s, c, d),
           up = Up(s, n), c # NULL, NEW side \in Dirs,
           up # NULL => Kid(s, up, side) = n,
           NEW t, Typed(t), Turned(s, t, n, d, side, up, c, g)
    PROVE  LET E == TurnedD(s, D, n, d)
           IN  /\ Shape(t, E)
               /\ E[Kid(t, n, d)] = D[Kid(s, n, d)] /\ E[Kid(t, n, Opposite(d))] = D[g]
               /\ E[Kid(t, c, d)] = {n} \cup D[Kid(s, n, d)] \cup D[g]
               /\ E[Kid(t, c, Opposite(d))] = D[Kid(s, c, Opposite(d))]
               /\ \A m \in NodesOf(s), e \in Dirs :
                     m # n /\ m # c => E[Kid(t, m, e)] = D[Kid(s, m, e)]
<1> DEFINE N == NodesOf(s)
           o == Opposite(d)
           a == Kid(s, n, d)
           b == Kid(s, c, o)
           E == TurnedD(s, D, n, d)
<1>0. NULL \notin N
  BY NodeIs
<1>1. /\ c \in N /\ g \in N \cup {NULL} /\ up \in N \cup {NULL} /\ NULL \notin N
      /\ n # c /\ g # n /\ g # c /\ up # n /\ up # c /\ (g # NULL => up # g) /\ Up(s, c) = n
  BY <1>0, Pivot
<1>2. /\ o \in Dirs /\ o # d /\ Opposite(o) = d
      /\ \A e \in Dirs : e = d \/ e = o
  BY Sides
<1>3. a \in N \cup {NULL} /\ b \in N \cup {NULL}
  BY NodeIs, <1>1, <1>2
<1>4. /\ D[n] = {n} \cup D[a] \cup D[c] /\ D[a] \cap D[c] = {} /\ n \notin D[a] /\ n \notin D[c]
      /\ a # NULL => Up(s, a) = n
  BY <1>2 DEF Shape
<1>5. /\ D[c] = {c} \cup D[g] \cup D[b] /\ D[g] \cap D[b] = {} /\ c \notin D[g] /\ c \notin D[b]
      /\ g # NULL => Up(s, g) = c
      /\ b # NULL => Up(s, b) = c
  BY <1>1, <1>2 DEF Shape
<1>6. D[NULL] = {} /\ \A m \in N \cup {NULL} : D[m] \subseteq N
  BY DEF Shape
<1>7. \A m \in N \cup {NULL} : m # NULL => m \in D[m]
  BY Nested
<1>8. /\ a # n /\ a # c /\ b # n /\ b # c
      /\ (a # NULL => a # g /\ a # b /\ a # up) /\ (b # NULL => b # up /\ b # g)
  <2>1. a # n /\ a # c /\ b # n /\ b # c /\ (a # NULL => a # g /\ a # b) /\ (b # NULL => b # g)
    BY <1>1, <1>3, <1>4, <1>5, <1>7
  <2>2. up # NULL => up \notin D[n]
    BY Hangs
  <2>3. (a # NULL => a \in D[n]) /\ (b # NULL => b \in D[n])
    BY <1>3, <1>4, <1>5, <1>7
  <2> QED BY <2>1, <2>2, <2>3, <1>3
<1>9. /\ E \in [N \cup {NULL} -> SUBSET N]
      /\ E[c] = D[n] /\ E[n] = {n} \cup D[a] \cup D[g]
      /\ \A m \in N \cup {NULL} : m # n /\ m # c => E[m] = D[m]
  <2>1. \A m \in N \cup {NULL} : E[m] = IF m = c THEN D[n]
                                       ELSE IF m = n THEN {n} \cup D[a] \cup D[g] ELSE D[m]
    BY DEF TurnedD
  <2>2. E = [m \in N \cup {NULL} |-> E[m]]
    BY DEF TurnedD
  <2>3. ASSUME NEW m \in N \cup {NULL} PROVE E[m] \in SUBSET N
    <3> HIDE DEF E
    <3> QED BY <2>1, <1>1, <1>3, <1>6
  <2> HIDE DEF E
  <2> QED BY <2>1, <2>2, <2>3, <1>1
<1>10. /\ NodesOf(t) = N
       /\ HeadOf(t) = IF n = HeadOf(s) THEN c ELSE HeadOf(s)
       /\ \A m \in N : Up(t, m) = IF m = c THEN up ELSE IF m = n THEN c
                                  ELSE IF m = g THEN n ELSE Up(s, m)
       /\ \A m \in N, e \in Dirs :
             Kid(t, m, e) = IF m = c /\ e = d THEN n
                            ELSE IF m = n /\ e = o THEN g
                            ELSE IF m = up /\ e = side THEN c ELSE Kid(s, m, e)
  BY DEF Turned
<1> HIDE DEF E, o
<1>11. Kid(t, n, d) = a /\ Kid(t, n, o) = g /\ Kid(t, c, d) = n /\ Kid(t, c, o) = b
  BY <1>1, <1>2, <1>10
<1>12. E[a] = D[a] /\ E[b] = D[b] /\ E[g] = D[g] /\ E[NULL] = {}
  BY <1>1, <1>3, <1>6, <1>8, <1>9
<1>13. ASSUME NEW e \in Dirs
       PROVE  /\ E[n] = {n} \cup E[Kid(t, n, e)] \cup E[Kid(t, n, Opposite(e))]
              /\ E[Kid(t, n, e)] \cap E[Kid(t, n, Opposite(e))] = {}
              /\ n \notin E[Kid(t, n, e)]
              /\ Kid(t, n, e) # NULL => Up(t, Kid(t, n, e)) = n
  <2>1. n \notin D[g] /\ D[a] \cap D[g] = {}
    BY <1>4, <1>5
  <2>2. (a # NULL => Up(t, a) = n) /\ (g # NULL => Up(t, g) = n)
    BY <1>1, <1>3, <1>4, <1>8, <1>10
  <2> QED BY <2>1, <2>2, <1>2, <1>4, <1>9, <1>11, <1>12 DEF o
<1>14. ASSUME NEW e \in Dirs
       PROVE  /\ E[c] = {c} \cup E[Kid(t, c, e)] \cup E[Kid(t, c, Opposite(e))]
              /\ E[Kid(t, c, e)] \cap E[Kid(t, c, Opposite(e))] = {}
              /\ c \notin E[Kid(t, c, e)]
              /\ Kid(t, c, e) # NULL => Up(t, Kid(t, c, e)) = c
  <2>1. /\ D[n] = {c} \cup ({n} \cup D[a] \cup D[g]) \cup D[b]
        /\ ({n} \cup D[a] \cup D[g]) \cap D[b] = {}
        /\ c \notin {n} \cup D[a] \cup D[g] /\ c \notin D[b]
    BY <1>1, <1>4, <1>5
  <2>2. Up(t, n) = c /\ (b # NULL => Up(t, b) = c)
    BY <1>1, <1>3, <1>5, <1>8, <1>10
  <2>3. E[c] = D[n] /\ E[n] = {n} \cup D[a] \cup D[g] /\ E[b] = D[b]
    BY <1>9, <1>12
  <2>4. CASE e = d
    BY <2>1, <2>2, <2>3, <2>4, <1>11 DEF o
  <2>5. CASE e = o
    BY <2>1, <2>2, <2>3, <2>5, <1>2, <1>11
  <2> QED BY <2>4, <2>5, <1>2
<1>15. ASSUME NEW m \in N, m # n, m # c, NEW e \in Dirs
       PROVE  /\ E[Kid(t, m, e)] = D[Kid(s, m, e)]
              /\ Kid(t, m, e) # NULL => Up(t, Kid(t, m, e)) = m
  <2> DEFINE x == Kid(s, m, e)
  <2>1. x \in N \cup {NULL} /\ (x # NULL => Up(s, x) = m)
    BY NodeIs DEF Shape
  <2>2. CASE m = up /\ e = side
    <3>1. x = n /\ Kid(t, m, e) = c
      BY <2>2, <1>1, <1>10, <1>15
    <3>2. Up(t, c) = m
      BY <2>2, <1>1, <1>10
    <3> QED BY <3>1, <3>2, <1>9
  <2>3. CASE ~ (m = up /\ e = side)
    <3>1. Kid(t, m, e) = x
      BY <2>3, <1>10, <1>15
    <3>2. x # n
      <4>1. CASE up = NULL
        BY <4>1, <2>1, <1>1
      <4>2. CASE up # NULL /\ m # up
        BY <4>2, <2>1, <1>1
      <4>3. CASE up # NULL /\ m = up
        <5>1. e = Opposite(side)
          BY <2>3, <4>3, Sides
        <5>2. Kid(s, up, Opposite(side)) # n
          BY <4>3, Hangs
        <5> QED BY <4>3, <5>1, <5>2
      <4> QED BY <4>1, <4>2, <4>3
    <3>3. x # c /\ (x # NULL => x # g)
      BY <2>1, <1>1, <1>5, <1>15
    <3>4. x # NULL => Up(t, x) = m
      BY <2>1, <3>2, <3>3, <1>10
    <3>5. E[x] = D[x]
      BY <2>1, <3>2, <3>3, <1>9
    <3> QED BY <3>1, <3>4, <3>5
  <2> QED BY <2>2, <2>3
<1>16. ASSUME NEW m \in N, NEW e \in Dirs
       PROVE  /\ E[m] = {m} \cup E[Kid(t, m, e)] \cup E[Kid(t, m, Opposite(e))]
              /\ E[Kid(t, m, e)] \cap E[Kid(t, m, Opposite(e))] = {}
              /\ m \notin E[Kid(t, m, e)]
              /\ Kid(t, m, e) # NULL => Up(t, Kid(t, m, e)) = m
  <2>1. CASE m = n
    BY <2>1, <1>13
  <2>2. CASE m = c
    BY <2>2, <1>14
  <2>3. CASE m # n /\ m # c
    <3>1. Opposite(e) \in Dirs
      BY Sides
    <3>2. E[m] = D[m]
      BY <2>3, <1>9
    <3>3. /\ E[Kid(t, m, e)] = D[Kid(s, m, e)]
          /\ E[Kid(t, m, Opposite(e))] = D[Kid(s, m, Opposite(e))]
          /\ Kid(t, m, e) # NULL => Up(t, Kid(t, m, e)) = m
      BY <2>3, <3>1, <1>15
    <3>4. /\ D[m] = {m} \cup D[Kid(s, m, e)] \cup D[Kid(s, m, Opposite(e))]
          /\ D[Kid(s, m, e)] \cap D[Kid(s, m, Opposite(e))] = {}
          /\ m \notin D[Kid(s, m, e)]
      BY DEF Shape
    <3> QED BY <3>2, <3>3, <3>4
  <2> QED BY <2>1, <2>2, <2>3
<1>17. HeadOf(s) # NULL /\ (up = NULL <=> n = HeadOf(s))
  BY <1>6, <1>1 DEF Shape
<1>18. HeadOf(t) # NULL /\ Up(t, HeadOf(t)) = NULL /\ E[HeadOf(t)] = N
  <2>1. CASE n = HeadOf(s)
    BY <2>1, <1>1, <1>9, <1>10, <1>17 DEF Shape
  <2>2. CASE n # HeadOf(s)
    <3>1. HeadOf(s) \in N /\ Up(s, HeadOf(s)) = NULL /\ D[HeadOf(s)] = N
      BY <1>17, <1>1 DEF Shape, Typed, HeadOf
    <3>2. HeadOf(s) # c /\ HeadOf(s) # g
      BY <3>1, <1>1, <1>5
    <3> QED BY <2>2, <3>1, <3>2, <1>9, <1>10, <1>17
  <2> QED BY <2>1, <2>2
<1>19. ASSUME NEW m \in N
       PROVE  /\ Up(t, m) = NULL => m = HeadOf(t)
              /\ Up(t, m) # NULL => \E e \in Dirs : Kid(t, Up(t, m), e) = m
  <2>1. CASE m = c
    <3>1. Up(t, m) = up
      BY <2>1, <1>10
    <3>2. up # NULL => Kid(t, up, side) = c
      BY <1>1, <1>10
    <3> QED BY <2>1, <3>1, <3>2, <1>10, <1>17
  <2>2. CASE m = n
    BY <2>2, <1>1, <1>10, <1>11
  <2>3. CASE m = g
    BY <2>3, <1>1, <1>2, <1>10, <1>11
  <2>4. CASE m # c /\ m # n /\ m # g
    <3>1. Up(t, m) = Up(s, m)
      BY <2>4, <1>10
    <3>2. CASE Up(s, m) = NULL
      BY <3>1, <3>2, <2>4, <1>10 DEF Shape
    <3>3. CASE Up(s, m) # NULL
      <4>1. PICK e \in Dirs : Kid(s, Up(s, m), e) = m
        BY <3>3 DEF Shape
      <4>2. Up(s, m) \in N
        BY <3>3, NodeIs
      <4>3. ~ (Up(s, m) = c /\ e = d) /\ ~ (Up(s, m) = n /\ e = o)
        BY <4>1, <2>4, <1>2 DEF o
      <4>4. ~ (Up(s, m) = up /\ e = side)
        BY <4>1, <3>3, <2>4
      <4>5. Kid(t, Up(s, m), e) = m
        BY <4>1, <4>2, <4>3, <4>4, <1>10
      <4> QED BY <3>1, <3>3, <4>5
    <3> QED BY <3>2, <3>3
  <2> QED BY <2>1, <2>2, <2>3, <2>4
<1>20. Shape(t, E)
  BY <1>9, <1>10, <1>12, <1>16, <1>18, <1>19 DEF Shape
<1>21. /\ E[Kid(t, n, d)] = D[a] /\ E[Kid(t, n, o)] = D[g]
       /\ E[Kid(t, c, d)] = {n} \cup D[a] \cup D[g] /\ E[Kid(t, c, o)] = D[b]
  BY <1>9, <1>11, <1>12
<1> QED BY <1>15, <1>20, <1>21 DEF E, o

(***************************************************************************)
(* A rotation keeps the keys in order.                                     *)
(***************************************************************************)
LEMMA TurnedSorted ==
    ASSUME NEW s, NEW D, Typed(s), Shape(s, D), NEW n \in NodesOf(s), NEW d \in Dirs,
           NEW c, NEW g, NEW up, c = Kid(s, n, Opposite(d)), g = Kid(s, c, d),
           up = Up(s, n), c # NULL, NEW side \in Dirs,
           up # NULL => Kid(s, up, side) = n,
           NEW t, Typed(t), Turned(s, t, n, d, side, up, c, g),
           NEW res, Sorted(s, D, res), c # res
    PROVE  Sorted(t, TurnedD(s, D, n, d), res)
<1> DEFINE E == TurnedD(s, D, n, d)
           a == Kid(s, n, d)
           b == Kid(s, c, Opposite(d))
<1>1. /\ Shape(t, E)
      /\ E[Kid(t, n, d)] = D[a] /\ E[Kid(t, n, Opposite(d))] = D[g]
      /\ E[Kid(t, c, d)] = {n} \cup D[a] \cup D[g]
      /\ E[Kid(t, c, Opposite(d))] = D[b]
      /\ \A m \in NodesOf(s), e \in Dirs :
            m # n /\ m # c => E[Kid(t, m, e)] = D[Kid(s, m, e)]
  BY TurnedShape
<1>0. Opposite(d) \in Dirs
  BY Sides
<1>2. c \in NodesOf(s) /\ Opposite(d) \in Dirs
  BY <1>0, NodeIs
<1>3. D[g] \subseteq D[c] /\ c \in D[c]
  BY <1>2 DEF Shape
<1>4. /\ NodesOf(t) = NodesOf(s)
      /\ \A m \in NodesOf(s) : KeyOf(t, m) = KeyOf(s, m) /\ KeyOf(s, m) \in Nat
  BY NodeIs DEF Turned
<1>5. \A m \in D[a] \cup D[c] : m \in NodesOf(s)
  <2>1. a \in NodesOf(s) \cup {NULL}
    BY NodeIs
  <2> QED BY <2>1, <1>2 DEF Shape
<1> HIDE DEF E
<1>6. CASE d = "left"
  <2>1. Opposite(d) = "right"
    BY <1>6, Sides
  <2>2. /\ \A m \in D[a] : \/ KeyOf(s, m) < KeyOf(s, n)
                           \/ m = res /\ KeyOf(s, m) = KeyOf(s, n)
        /\ \A m \in D[c] : \/ KeyOf(s, m) > KeyOf(s, n)
                           \/ m = res /\ KeyOf(s, m) = KeyOf(s, n)
    BY <1>6, <2>1 DEF Sorted
  <2>3. /\ \A m \in D[g] : \/ KeyOf(s, m) < KeyOf(s, c)
                           \/ m = res /\ KeyOf(s, m) = KeyOf(s, c)
        /\ \A m \in D[b] : \/ KeyOf(s, m) > KeyOf(s, c)
                           \/ m = res /\ KeyOf(s, m) = KeyOf(s, c)
    BY <1>2, <1>6, <2>1 DEF Sorted
  <2>4. KeyOf(s, c) > KeyOf(s, n)
    BY <1>3, <2>2
  <2>5. \A m \in {n} \cup D[a] \cup D[g] : \/ KeyOf(s, m) < KeyOf(s, c)
                                           \/ m = res /\ KeyOf(s, m) = KeyOf(s, c)
    <3>1. KeyOf(s, n) \in Nat /\ KeyOf(s, c) \in Nat
      BY <1>2, <1>4
    <3>2. ASSUME NEW m \in D[a] PROVE KeyOf(s, m) < KeyOf(s, c)
      <4>1. KeyOf(s, m) \in Nat
        BY <1>4, <1>5
      <4> QED BY <4>1, <3>1, <2>2, <2>4
    <3>3. KeyOf(s, n) < KeyOf(s, c)
      BY <2>4, <3>1
    <3> HIDE DEF a
    <3> QED BY <2>3, <3>2, <3>3
  <2>6. ASSUME NEW m \in NodesOf(s)
        PROVE  /\ \A x \in E[Kid(t, m, "left")] : \/ KeyOf(s, x) < KeyOf(s, m)
                                                  \/ x = res /\ KeyOf(s, x) = KeyOf(s, m)
               /\ \A x \in E[Kid(t, m, "right")] : \/ KeyOf(s, x) > KeyOf(s, m)
                                                   \/ x = res /\ KeyOf(s, x) = KeyOf(s, m)
    <3>1. CASE m = n
      BY <3>1, <1>1, <1>3, <1>6, <2>1, <2>2
    <3>2. CASE m = c
      BY <3>2, <1>1, <1>6, <2>1, <2>3, <2>5
    <3>3. CASE m # n /\ m # c
      BY <3>3, <1>1, Sides DEF Sorted
    <3> QED BY <3>1, <3>2, <3>3
  <2>7. \A m \in NodesOf(s), e \in Dirs : E[Kid(t, m, e)] \subseteq NodesOf(s)
    BY <1>1, <1>4, NodeIs DEF Shape
  <2> QED BY <2>6, <2>7, <1>4, Sides DEF Sorted, E
<1>7. CASE d = "right"
  <2>1. Opposite(d) = "left"
    BY <1>7, Sides
  <2>2. /\ \A m \in D[a] : \/ KeyOf(s, m) > KeyOf(s, n)
                           \/ m = res /\ KeyOf(s, m) = KeyOf(s, n)
        /\ \A m \in D[c] : \/ KeyOf(s, m) < KeyOf(s, n)
                           \/ m = res /\ KeyOf(s, m) = KeyOf(s, n)
    BY <1>7, <2>1 DEF Sorted
  <2>3. /\ \A m \in D[g] : \/ KeyOf(s, m) > KeyOf(s, c)
                           \/ m = res /\ KeyOf(s, m) = KeyOf(s, c)
        /\ \A m \in D[b] : \/ KeyOf(s, m) < KeyOf(s, c)
                           \/ m = res /\ KeyOf(s, m) = KeyOf(s, c)
    BY <1>2, <1>7, <2>1 DEF Sorted
  <2>4. KeyOf(s, c) < KeyOf(s, n)
    BY <1>3, <2>2
  <2>5. \A m \in {n} \cup D[a] \cup D[g] : \/ KeyOf(s, m) > KeyOf(s, c)
                                           \/ m = res /\ KeyOf(s, m) = KeyOf(s, c)
    <3>1. KeyOf(s, n) \in Nat /\ KeyOf(s, c) \in Nat
      BY <1>2, <1>4
    <3>2. ASSUME NEW m \in D[a] PROVE KeyOf(s, m) > KeyOf(s, c)
      <4>1. KeyOf(s, m) \in Nat
        BY <1>4, <1>5
      <4> QED BY <4>1, <3>1, <2>2, <2>4
    <3>3. KeyOf(s, n) > KeyOf(s, c)
      BY <2>4, <3>1
    <3> HIDE DEF a
    <3> QED BY <2>3, <3>2, <3>3
  <2>6. ASSUME NEW m \in NodesOf(s)
        PROVE  /\ \A x \in E[Kid(t, m, "left")] : \/ KeyOf(s, x) < KeyOf(s, m)
                                                  \/ x = res /\ KeyOf(s, x) = KeyOf(s, m)
               /\ \A x \in E[Kid(t, m, "right")] : \/ KeyOf(s, x) > KeyOf(s, m)
                                                   \/ x = res /\ KeyOf(s, x) = KeyOf(s, m)
    <3>1. CASE m = n
      BY <3>1, <1>1, <1>3, <1>7, <2>1, <2>2
    <3>2. CASE m = c
      BY <3>2, <1>1, <1>7, <2>1, <2>3, <2>5
    <3>3. CASE m # n /\ m # c
      BY <3>3, <1>1, Sides DEF Sorted
    <3> QED BY <3>1, <3>2, <3>3
  <2>7. \A m \in NodesOf(s), e \in Dirs : E[Kid(t, m, e)] \subseteq NodesOf(s)
    BY <1>1, <1>4, NodeIs DEF Shape
  <2> QED BY <2>6, <2>7, <1>4, Sides DEF Sorted, E
<1> QED BY <1>6, <1>7, Sides

(***************************************************************************)
(* Rotate, with the pointer of the grandparent that it finds by keys: it   *)
(* is the one to n, unless the node that comes up is the one a removal     *)
(* takes out.                                                              *)
(***************************************************************************)
LEMMA RotateTree ==
    ASSUME NEW s, NEW D, Typed(s), Shape(s, D), NEW res, Sorted(s, D, res),
           NEW n \in NodesOf(s), NEW d \in Dirs,
           Kid(s, n, Opposite(d)) # NULL, Kid(s, n, Opposite(d)) # res
    PROVE  LET t  == Rotate(s, n, d)
               c  == Kid(s, n, Opposite(d))
               g  == Kid(s, c, d)
               up == Up(s, n)
           IN  /\ Typed(t)
               /\ Shape(t, TurnedD(s, D, n, d)) /\ Sorted(t, TurnedD(s, D, n, d), res)
               /\ \E side \in Dirs : /\ Turned(s, t, n, d, side, up, c, g)
                                     /\ up # NULL => Kid(s, up, side) = n
<1> DEFINE c  == Kid(s, n, Opposite(d))
           g  == Kid(s, c, d)
           up == Up(s, n)
           t  == Rotate(s, n, d)
<1>1. /\ c \in NodesOf(s) /\ g \in NodesOf(s) \cup {NULL} /\ up \in NodesOf(s) \cup {NULL}
      /\ n # c /\ g # n /\ g # c /\ up # n /\ up # c /\ (g # NULL => up # g) /\ Up(s, c) = n
  BY Pivot
<1>2. \E side \in Dirs : up # NULL =>
         /\ Kid(s, up, side) = n
         /\ side = IF KeyOf(s, up) < KeyOf(s, c) THEN "right" ELSE "left"
  <2>1. CASE up = NULL
    BY <2>1, Sides
  <2>2. CASE up # NULL
    <3>1. PICK e \in Dirs : Kid(s, up, e) = n
      BY <2>2, Hangs
    <3>2. c \in D[n]
      <4>1. c \in D[c] /\ Opposite(d) \in Dirs
        BY <1>1, Nested, Sides
      <4> QED BY <4>1 DEF Shape
    <3>3. up \in NodesOf(s) /\ KeyOf(s, up) \in Nat /\ KeyOf(s, c) \in Nat
      BY <1>1, <2>2, NodeIs
    <3>4. CASE e = "left"
      BY <3>1, <3>2, <3>3, <3>4, KidKeys
    <3>5. CASE e = "right"
      BY <3>1, <3>2, <3>3, <3>5, KidKeys
    <3> QED BY <3>1, <3>4, <3>5, Sides
  <2> QED BY <2>1, <2>2
<1> HIDE DEF c, g, up, t
<1>3. PICK side \in Dirs : up # NULL =>
         /\ Kid(s, up, side) = n
         /\ side = IF KeyOf(s, up) < KeyOf(s, c) THEN "right" ELSE "left"
  BY <1>2
<1>4. c = Kid(s, n, Opposite(d)) /\ g = Kid(s, c, d) /\ up = Up(s, n)
  BY DEF c, g, up
<1>5. Typed(t) /\ Turned(s, t, n, d, side, up, c, g)
  BY <1>1, <1>3, <1>4, RotateIs DEF t
<1>6. c # NULL /\ c # res
  BY DEF c
<1>7. Shape(t, TurnedD(s, D, n, d))
  BY <1>3, <1>4, <1>5, <1>6, TurnedShape
<1>8. Sorted(t, TurnedD(s, D, n, d), res)
  BY <1>3, <1>4, <1>5, <1>6, TurnedSorted
<1> QED BY <1>3, <1>5, <1>7, <1>8 DEF t, c, g, up

-----------------------------------------------------------------------------
(***************************************************************************)
(* Sides and neighbors, found by keys                                      *)
(***************************************************************************)

(***************************************************************************)
(* Direction finds the side a node hangs on, Neighbor the node on the      *)
(* other side, also while a removal has two nodes with the same key.       *)
(***************************************************************************)
LEMMA DirectionIs ==
    ASSUME NEW s, NEW D, Typed(s), Shape(s, D), NEW res, Sorted(s, D, res),
           NEW n \in NodesOf(s), Up(s, n) # NULL
    PROVE  /\ Direction(s, n) \in Dirs
           /\ Kid(s, Up(s, n), Direction(s, n)) = n
           /\ Neighbor(s, n) = Kid(s, Up(s, n), Opposite(Direction(s, n)))
<1> DEFINE p == Up(s, n)
           r == Kid(s, p, "right")
           l == Kid(s, p, "left")
<1>1. Direction(s, n) = IF KeyOf(s, p) < KeyOf(s, n) \/ (r # NULL /\ KeyOf(s, r) = KeyOf(s, n))
                        THEN "right" ELSE "left"
  BY Zenon DEF Direction, Up, Kid, KeyOf, Field, NodeAt
<1>2. Neighbor(s, n) =
          IF p = NULL THEN NULL
          ELSE IF Direction(s, n) = "right" THEN l
          ELSE IF \/ l # NULL /\ KeyOf(s, l) = KeyOf(s, n)
                  \/ KeyOf(s, p) > KeyOf(s, n)
               THEN r ELSE NULL
  BY Zenon DEF Neighbor, Up, Kid, KeyOf, Field, NodeAt
<1>3. p \in NodesOf(s) /\ p # NULL /\ n # NULL
  BY NodeIs
<1>4. \E d \in Dirs : Kid(s, p, d) = n
  BY Hangs
<1>5. r \in NodesOf(s) \cup {NULL} /\ l \in NodesOf(s) \cup {NULL}
  BY <1>3, NodeIs, Sides
<1>6. n \in D[n] /\ (r # NULL => r \in D[r])
  BY <1>5, Nested
<1>7. KeyOf(s, p) \in Nat /\ KeyOf(s, n) \in Nat /\ (r # NULL => KeyOf(s, r) \in Nat)
  BY <1>3, <1>5, NodeIs
<1>8. CASE n = r
  BY <1>1, <1>2, <1>3, <1>8, Sides
<1>9. CASE n = l /\ n # r
  <2>1. KeyOf(s, n) < KeyOf(s, p) \/ (n = res /\ KeyOf(s, n) = KeyOf(s, p))
    BY <1>3, <1>6, <1>9 DEF Sorted
  <2>2. r # NULL => KeyOf(s, r) > KeyOf(s, p) \/ (r = res /\ KeyOf(s, r) = KeyOf(s, p))
    BY <1>3, <1>6 DEF Sorted
  <2>3. Direction(s, n) = "left"
    BY <1>1, <1>7, <1>9, <2>1, <2>2
  <2> QED BY <1>2, <1>3, <1>9, <2>3, Sides
<1> QED BY <1>4, <1>8, <1>9, Sides

(***************************************************************************)
(* Painting changes the colors of the nodes in S and nothing else.         *)
(***************************************************************************)
LEMMA PaintIs ==
    ASSUME NEW s, Typed(s), NEW S, NEW c \in {"RED", "BLACK"}
    PROVE  LET t == Paint(s, S, c)
           IN  /\ Typed(t) /\ NodesOf(t) = NodesOf(s) /\ HeadOf(t) = HeadOf(s)
               /\ \A n \in NodesOf(s) :
                     /\ KeyOf(t, n) = KeyOf(s, n) /\ DataOf(t, n) = DataOf(s, n)
                     /\ Up(t, n) = Up(s, n)
                     /\ \A d \in Dirs : Kid(t, n, d) = Kid(s, n, d)
                     /\ Color(t, n) = IF n \in S THEN c ELSE Color(s, n)
<1> DEFINE N == NodesOf(s)
           R == NodeOf(N \cup {NULL})
           new == [n \in N |-> IF n \in S THEN Store(NodeAt(s, n), "color", c) ELSE NodeAt(s, n)]
           t == Paint(s, S, c)
<1>1. s = [head |-> s.head, node |-> s.node]
  BY DEF Typed
<1>2. t = [s EXCEPT !.node = new]
  BY Zenon DEF Paint, NodesOf, NodeAt, Store
<1> HIDE DEF new
<1>3. [s EXCEPT !.node = new] = [head |-> s.head, node |-> new]
  BY <1>1
<1>4. t.node = new /\ t.head = s.head /\ t = [head |-> t.head, node |-> t.node]
  <2> HIDE DEF t
  <2> QED BY <1>2, <1>3
<1>5. "color" \in Fields /\ \A P : Fits(P, "color", c)
  BY DEF Fields, Fits
<1>6. ASSUME NEW n \in N
      PROVE  /\ new[n] \in R
             /\ \A f \in Fields : Field(new[n], f) = IF n \in S /\ f = "color" THEN c
                                                     ELSE Field(NodeAt(s, n), f)
  <2>1. NodeAt(s, n) \in R
    BY NodeIs
  <2> HIDE DEF R
  <2>2. new[n] = IF n \in S THEN Store(NodeAt(s, n), "color", c) ELSE NodeAt(s, n)
    BY DEF new
  <2>3. /\ Store(NodeAt(s, n), "color", c) \in R
        /\ \A f \in Fields : Field(Store(NodeAt(s, n), "color", c), f)
                               = IF f = "color" THEN c ELSE Field(NodeAt(s, n), f)
    BY <2>1, <1>5, StoreIs DEF R
  <2> QED BY <2>1, <2>2, <2>3
<1>7. DOMAIN new = N /\ new \in [N -> R]
  <2>1. new = [n \in N |-> new[n]] /\ DOMAIN new = N
    BY DEF new
  <2> HIDE DEF R
  <2> QED BY <1>6, <2>1
<1> HIDE DEF t
<1>8. NodesOf(t) = N /\ (\A n \in N : NodeAt(t, n) = new[n]) /\ HeadOf(t) = HeadOf(s)
  BY <1>4, <1>7 DEF NodesOf, NodeAt, HeadOf
<1>9. Typed(t)
  <2>1. s.head \in N \cup {NULL} /\ N \subseteq Keys /\ IsFiniteSet(N)
    BY DEF Typed
  <2> QED BY <1>4, <1>7, <1>8, <2>1, Zenon DEF Typed
<1>10. ASSUME NEW n \in N
       PROVE  /\ KeyOf(t, n) = KeyOf(s, n) /\ DataOf(t, n) = DataOf(s, n)
              /\ Up(t, n) = Up(s, n)
              /\ \A d \in Dirs : Kid(t, n, d) = Kid(s, n, d)
              /\ Color(t, n) = IF n \in S THEN c ELSE Color(s, n)
  <2>1. \A f \in Fields : Field(NodeAt(t, n), f) = IF n \in S /\ f = "color" THEN c
                                                   ELSE Field(NodeAt(s, n), f)
    BY <1>6, <1>8
  <2>2. /\ "key" \in Fields /\ "data" \in Fields /\ "parent" \in Fields /\ "color" \in Fields
        /\ \A d \in Dirs : d \in Fields /\ d # "color"
    BY Sides
  <2> QED BY <2>1, <2>2 DEF KeyOf, DataOf, Up, Kid, Color
<1> QED BY <1>8, <1>9, <1>10 DEF t

(***************************************************************************)
(* A tree with the same pointers, whatever its keys and colors, has the    *)
(* same shape, and with the same keys the same order.                      *)
(***************************************************************************)
LEMMA SameShape ==
    ASSUME NEW s, NEW t, NEW D, Typed(s), Shape(s, D),
           NodesOf(t) = NodesOf(s), HeadOf(t) = HeadOf(s),
           \A n \in NodesOf(s) : /\ Up(t, n) = Up(s, n)
                                 /\ \A d \in Dirs : Kid(t, n, d) = Kid(s, n, d)
    PROVE  Shape(t, D)
<1>1. HeadOf(s) \in NodesOf(s) \cup {NULL}
  BY DEF Typed, HeadOf
<1>2. \A n \in NodesOf(s), d \in Dirs : Kid(s, n, d) \in NodesOf(s) \cup {NULL}
  BY NodeIs
<1>3. \A n \in NodesOf(s) : Up(s, n) \in NodesOf(s) \cup {NULL}
  BY NodeIs
<1>4. \A n \in NodesOf(s), d \in Dirs :
         /\ D[n] = {n} \cup D[Kid(t, n, d)] \cup D[Kid(t, n, Opposite(d))]
         /\ D[Kid(t, n, d)] \cap D[Kid(t, n, Opposite(d))] = {}
         /\ n \notin D[Kid(t, n, d)]
         /\ Kid(t, n, d) # NULL => Up(t, Kid(t, n, d)) = n
  BY <1>2, Sides DEF Shape
<1>5. \A n \in NodesOf(s) :
          /\ Up(t, n) = NULL => n = HeadOf(t)
          /\ Up(t, n) # NULL => \E d \in Dirs : Kid(t, Up(t, n), d) = n
  BY <1>3 DEF Shape
<1>6. HeadOf(t) # NULL => Up(t, HeadOf(t)) = NULL
  BY <1>1 DEF Shape
<1> QED BY <1>4, <1>5, <1>6 DEF Shape

(***************************************************************************)
(* And with the same keys it has the same order.                           *)
(***************************************************************************)
LEMMA SameTree ==
    ASSUME NEW s, NEW t, NEW D, NEW res, Typed(s), Shape(s, D), Sorted(s, D, res),
           NodesOf(t) = NodesOf(s), HeadOf(t) = HeadOf(s),
           \A n \in NodesOf(s) : /\ KeyOf(t, n) = KeyOf(s, n) /\ Up(t, n) = Up(s, n)
                                 /\ \A d \in Dirs : Kid(t, n, d) = Kid(s, n, d)
    PROVE  Shape(t, D) /\ Sorted(t, D, res)
<1>1. Shape(t, D)
  BY SameShape
<1>2. \A n \in NodesOf(s), d \in Dirs : D[Kid(s, n, d)] \subseteq NodesOf(s)
  BY NodeIs DEF Shape
<1>3. Sorted(t, D, res)
  BY <1>2, Sides DEF Sorted
<1> QED BY <1>1, <1>3

-----------------------------------------------------------------------------
(***************************************************************************)
(* Ways down the tree                                                      *)
(***************************************************************************)

\* Every round but the last goes to a node further down.
EndsBelow(s, D, V, Stop, base, next, H) ==
    /\ base \in [NodesOf(s) -> V] /\ H \in [NodesOf(s) \X V -> V]
    /\ \A x \in NodesOf(s) \ Stop : next[x] \in D[x] /\ next[x] # x

(***************************************************************************)
(* A loop that goes from a node to one below it defines a function.        *)
(***************************************************************************)
LEMMA WalkDown ==
    ASSUME NEW s, NEW D, Typed(s), Shape(s, D), NEW V, NEW Stop, NEW base, NEW next, NEW H,
           EndsBelow(s, D, V, Stop, base, next, H)
    PROVE  \E f \in [NodesOf(s) -> V] : f = Round(NodesOf(s), Stop, base, next, H, f)
<1> DEFINE N == NodesOf(s)
           rank == [n \in N |-> Size(D, n)]
           b == Cardinality(N) + 1
<1>1. rank \in [N -> Nat] /\ b \in Nat /\ \A x \in N : rank[x] < b
  BY Sizes
<1>2. ASSUME NEW x \in N \ Stop
      PROVE  next[x] \in N /\ rank[next[x]] < rank[x]
  <2>1. next[x] \in N /\ D[next[x]] \subseteq D[x] /\ x \notin D[next[x]]
    BY Nested DEF EndsBelow
  <2>2. Size(D, next[x]) < Size(D, x)
    BY <2>1, Sizes
  <2> QED BY <2>1, <2>2
<1> HIDE DEF N, rank, b
<1>3. base \in [N -> V] /\ H \in [N \X V -> V]
  BY DEF N, EndsBelow
<1>4. Ends(N, V, rank, b, Stop, base, next, H)
  BY <1>1, <1>2, <1>3 DEF Ends
<1>5. \E f \in [N -> V] : f = Round(N, Stop, base, next, H, f)
  BY <1>4, Walk
<1> QED BY <1>5 DEF N

\* Where the search for k goes from n.
Toward(s, n, k) == IF KeyOf(s, n) < k THEN "right" ELSE "left"

\* p is where the search for k from n ends.
Found(s, D, n, k, p) ==
    /\ p \in D[n]
    /\ KeyOf(s, p) = k \/ Kid(s, p, Toward(s, p, k)) = NULL
    /\ \A a \in D[n] : p \in D[a] /\ a # p =>
          KeyOf(s, a) # k /\ p \in D[Kid(s, a, Toward(s, a, k))]
    /\ \A x \in D[n] : KeyOf(s, x) = k => x \in D[p]

(***************************************************************************)
(* The search for k passes no node it should have gone below, and misses   *)
(* no node with k.                                                         *)
(***************************************************************************)
LEMMA DescendIs ==
    ASSUME NEW s, NEW D, Typed(s), Shape(s, D), Sorted(s, D, NULL), NEW k \in Nat,
           NEW n \in NodesOf(s)
    PROVE  Found(s, D, n, k, Descend(s, n, k))
<1> DEFINE N == NodesOf(s)
           F == CHOOSE down : down = [m \in DOMAIN s.node |->
                    LET d == IF s.node[m].key < k THEN "right" ELSE "left"
                    IN  IF s.node[m].key = k \/ s.node[m][d] = NULL THEN m
                        ELSE down[s.node[m][d]]]
           Stop == {m \in N : KeyOf(s, m) = k \/ Kid(s, m, Toward(s, m, k)) = NULL}
           base == [m \in N |-> m]
           next == [m \in N |-> Kid(s, m, Toward(s, m, k))]
           H    == [x \in N \X N |-> x[2]]
<1>1. Descend(s, n, k) = F[n]
  BY DEF Descend
<1>2. F = CHOOSE f : f = [m \in N |-> IF KeyOf(s, m) = k \/ Kid(s, m, Toward(s, m, k)) = NULL
                                      THEN m ELSE f[Kid(s, m, Toward(s, m, k))]]
  BY Zenon DEF NodesOf, KeyOf, Kid, Toward, Field, NodeAt
<1>3. \A m \in N : Toward(s, m, k) \in Dirs /\ Kid(s, m, Toward(s, m, k)) \in N \cup {NULL}
  BY NodeIs, Sides DEF Toward
<1>4. \E f \in [N -> N] : f = Round(N, Stop, base, next, H, f)
  <2>1. base \in [N -> N] /\ H \in [N \X N -> N]
    OBVIOUS
  <2>2. ASSUME NEW x \in N \ Stop PROVE next[x] \in D[x] /\ next[x] # x
    <3>1. next[x] = Kid(s, x, Toward(s, x, k)) /\ next[x] \in N
      BY <1>3
    <3>2. next[x] \in D[next[x]]
      BY <3>1, Nested
    <3> HIDE DEF next
    <3> QED BY <3>1, <3>2, <1>3 DEF Shape
  <2> HIDE DEF base, next, H, Stop
  <2>3. EndsBelow(s, D, N, Stop, base, next, H)
    BY <2>1, <2>2 DEF EndsBelow
  <2> QED BY <2>3, WalkDown
<1>5. PICK f \in [N -> N] : f = Round(N, Stop, base, next, H, f)
  BY <1>4
<1>6. ASSUME NEW h \in [N -> N]
      PROVE  Round(N, Stop, base, next, H, h) =
                 [m \in N |-> IF KeyOf(s, m) = k \/ Kid(s, m, Toward(s, m, k)) = NULL
                              THEN m ELSE h[Kid(s, m, Toward(s, m, k))]]
  <2>1. ASSUME NEW m \in N
        PROVE  (IF m \in Stop THEN base[m] ELSE H[<<m, h[next[m]]>>])
                 = IF KeyOf(s, m) = k \/ Kid(s, m, Toward(s, m, k)) = NULL
                   THEN m ELSE h[Kid(s, m, Toward(s, m, k))]
    <3>1. CASE m \in Stop
      BY <3>1
    <3>2. CASE m \notin Stop
      <4>1. next[m] = Kid(s, m, Toward(s, m, k)) /\ next[m] \in N
        BY <3>2, <1>3
      <4> HIDE DEF next
      <4>2. H[<<m, h[next[m]]>>] = h[next[m]]
        BY <4>1
      <4> QED BY <3>2, <4>1, <4>2
    <3> QED BY <3>1, <3>2
  <2> HIDE DEF Stop, base, next, H
  <2> QED BY <2>1 DEF Round
<1>7. F = [m \in N |-> IF KeyOf(s, m) = k \/ Kid(s, m, Toward(s, m, k)) = NULL
                       THEN m ELSE F[Kid(s, m, Toward(s, m, k))]]
  <2>1. f = [m \in N |-> IF KeyOf(s, m) = k \/ Kid(s, m, Toward(s, m, k)) = NULL
                         THEN m ELSE f[Kid(s, m, Toward(s, m, k))]]
    <3> HIDE DEF Stop, base, next, H
    <3> QED BY <1>5, <1>6
  <2> HIDE DEF F
  <2> QED BY <1>2, <2>1
<1> HIDE DEF F, Stop, base, next, H
<1>8. \A m \in N : F[m] = IF KeyOf(s, m) = k \/ Kid(s, m, Toward(s, m, k)) = NULL
                          THEN m ELSE F[Kid(s, m, Toward(s, m, k))]
  BY <1>7
<1> DEFINE G == {m \in N : Found(s, D, m, k, F[m])}
<1>9. ASSUME NEW m \in N, \A d \in Dirs : Kid(s, m, d) # NULL => Kid(s, m, d) \in G
      PROVE  m \in G
  <2> DEFINE d == Toward(s, m, k)
             x == Kid(s, m, d)
             y == Kid(s, m, Opposite(d))
  <2>1. CASE KeyOf(s, m) = k \/ x = NULL
    <3>1. F[m] = m
      BY <2>1, <1>8
    <3>2. m \in D[m] /\ \A a \in D[m] : ~ (m \in D[a] /\ a # m)
      BY Nested
    <3> QED BY <2>1, <3>1, <3>2 DEF Found
  <2>2. CASE KeyOf(s, m) # k /\ x # NULL
    <3>1. F[m] = F[x]
      BY <2>2, <1>8
    <3>2. d \in Dirs /\ x \in N /\ Found(s, D, x, k, F[x])
      BY <2>2, <1>3, <1>9
    <3> DEFINE p == F[x]
    <3>3. /\ D[m] = {m} \cup D[x] \cup D[y] /\ D[x] \cap D[y] = {} /\ m \notin D[x]
          /\ y \in N \cup {NULL}
      <4>1. Opposite(d) \in Dirs
        BY <3>2, Sides
      <4> QED BY <3>2, <4>1, NodeIs DEF Shape
    <3>4. \A a \in D[y] : D[a] \subseteq D[y]
      <4>1. CASE y = NULL
        BY <4>1 DEF Shape
      <4>2. CASE y # NULL
        BY <4>2, <3>3, Nested
      <4> QED BY <4>1, <4>2
    <3>5. \A z \in D[y] : KeyOf(s, z) # k
      <4>1. \A z \in N : KeyOf(s, z) \in Nat
        BY NodeIs
      <4>2. D[y] \subseteq N
        BY <3>3 DEF Shape
      <4>3. NULL \notin N
        BY NodeIs
      <4>4. CASE KeyOf(s, m) < k
        <5>1. y = Kid(s, m, "left")
          BY <4>4, Sides DEF Toward
        <5> HIDE DEF y
        <5> QED BY <4>1, <4>2, <4>3, <4>4, <5>1 DEF Sorted
      <4>5. CASE ~ (KeyOf(s, m) < k)
        <5>1. y = Kid(s, m, "right")
          BY <4>5, Sides DEF Toward
        <5> HIDE DEF y
        <5> QED BY <2>2, <4>1, <4>2, <4>3, <4>5, <5>1 DEF Sorted
      <4> QED BY <4>4, <4>5
    <3> HIDE DEF y, x, p
    <3>6. p \in D[x] /\ (KeyOf(s, p) = k \/ Kid(s, p, Toward(s, p, k)) = NULL)
      BY <3>2 DEF Found, p
    <3>7. ASSUME NEW a \in D[m], p \in D[a], a # p
          PROVE  KeyOf(s, a) # k /\ p \in D[Kid(s, a, Toward(s, a, k))]
      <4>1. CASE a = m
        BY <4>1, <2>2, <3>6 DEF x, d
      <4>2. CASE a \in D[x]
        BY <4>2, <3>2, <3>7 DEF Found, p
      <4>3. CASE a \in D[y]
        BY <4>3, <3>3, <3>4, <3>6, <3>7
      <4> QED BY <4>1, <4>2, <4>3, <3>3
    <3>8. ASSUME NEW z \in D[m], KeyOf(s, z) = k PROVE z \in D[p]
      <4>1. z \in D[x]
        BY <2>2, <3>3, <3>5, <3>8
      <4> QED BY <4>1, <3>2, <3>8 DEF Found, p
    <3>9. Found(s, D, m, k, p)
      BY <3>3, <3>6, <3>7, <3>8 DEF Found
    <3> QED BY <3>1, <3>9 DEF p
  <2> QED BY <2>1, <2>2
<1> HIDE DEF G
<1>10. \A m \in N : m \in G
  BY <1>9, TreeInduction
<1> QED BY <1>1, <1>10 DEF G

\* p is the outermost node below n on side d.
Extreme(s, D, n, d, p) ==
    /\ p \in D[n] /\ Kid(s, p, d) = NULL
    /\ \A x \in D[n] \ {p} : IF d = "left" THEN KeyOf(s, p) < KeyOf(s, x)
                                           ELSE KeyOf(s, p) > KeyOf(s, x)

(***************************************************************************)
(* The outermost node has the extreme key of its subtree.                  *)
(***************************************************************************)
LEMMA OutermostIs ==
    ASSUME NEW s, NEW D, Typed(s), Shape(s, D), Sorted(s, D, NULL), NEW d \in Dirs,
           NEW n \in NodesOf(s)
    PROVE  Extreme(s, D, n, d, Outermost(s, n, d))
<1> DEFINE N == NodesOf(s)
           F == CHOOSE down : down = [m \in DOMAIN s.node |->
                    IF s.node[m][d] = NULL THEN m ELSE down[s.node[m][d]]]
           Stop == {m \in N : Kid(s, m, d) = NULL}
           base == [m \in N |-> m]
           next == [m \in N |-> Kid(s, m, d)]
           H    == [x \in N \X N |-> x[2]]
<1>1. Outermost(s, n, d) = F[n]
  BY DEF Outermost
<1>2. F = CHOOSE f : f = [m \in N |-> IF Kid(s, m, d) = NULL THEN m ELSE f[Kid(s, m, d)]]
  BY Zenon DEF NodesOf, Kid, Field, NodeAt
<1>3. \A m \in N : Kid(s, m, d) \in N \cup {NULL}
  BY NodeIs
<1>4. \E f \in [N -> N] : f = Round(N, Stop, base, next, H, f)
  <2>1. base \in [N -> N] /\ H \in [N \X N -> N]
    OBVIOUS
  <2>2. ASSUME NEW x \in N \ Stop PROVE next[x] \in D[x] /\ next[x] # x
    <3>1. next[x] = Kid(s, x, d) /\ next[x] \in N
      BY <1>3
    <3>2. next[x] \in D[next[x]]
      BY <3>1, Nested
    <3> HIDE DEF next
    <3> QED BY <3>1, <3>2, <1>3 DEF Shape
  <2> HIDE DEF base, next, H, Stop
  <2>3. EndsBelow(s, D, N, Stop, base, next, H)
    BY <2>1, <2>2 DEF EndsBelow
  <2> QED BY <2>3, WalkDown
<1>5. PICK f \in [N -> N] : f = Round(N, Stop, base, next, H, f)
  BY <1>4
<1>6. ASSUME NEW h \in [N -> N]
      PROVE  Round(N, Stop, base, next, H, h) =
                 [m \in N |-> IF Kid(s, m, d) = NULL THEN m ELSE h[Kid(s, m, d)]]
  <2>1. ASSUME NEW m \in N
        PROVE  (IF m \in Stop THEN base[m] ELSE H[<<m, h[next[m]]>>])
                 = IF Kid(s, m, d) = NULL THEN m ELSE h[Kid(s, m, d)]
    <3>1. CASE m \in Stop
      BY <3>1
    <3>2. CASE m \notin Stop
      <4>1. next[m] = Kid(s, m, d) /\ next[m] \in N
        BY <3>2, <1>3
      <4> HIDE DEF next
      <4>2. H[<<m, h[next[m]]>>] = h[next[m]]
        BY <4>1
      <4> QED BY <3>2, <4>1, <4>2
    <3> QED BY <3>1, <3>2
  <2> HIDE DEF Stop, base, next, H
  <2> QED BY <2>1 DEF Round
<1>7. F = [m \in N |-> IF Kid(s, m, d) = NULL THEN m ELSE F[Kid(s, m, d)]]
  <2>1. f = [m \in N |-> IF Kid(s, m, d) = NULL THEN m ELSE f[Kid(s, m, d)]]
    <3> HIDE DEF Stop, base, next, H
    <3> QED BY <1>5, <1>6
  <2> HIDE DEF F
  <2> QED BY <1>2, <2>1
<1> HIDE DEF F, Stop, base, next, H
<1>8. \A m \in N : F[m] = IF Kid(s, m, d) = NULL THEN m ELSE F[Kid(s, m, d)]
  BY <1>7
<1> DEFINE G == {m \in N : Extreme(s, D, m, d, F[m])}
<1>9. ASSUME NEW m \in N, \A e \in Dirs : Kid(s, m, e) # NULL => Kid(s, m, e) \in G
      PROVE  m \in G
  <2> DEFINE x == Kid(s, m, d)
             y == Kid(s, m, Opposite(d))
  <2>1. /\ Opposite(d) \in Dirs /\ x \in N \cup {NULL} /\ y \in N \cup {NULL} /\ NULL \notin N
    BY Sides, NodeIs
  <2>2. D[m] = {m} \cup D[x] \cup D[y] /\ D[NULL] = {} /\ D[x] \subseteq N /\ D[y] \subseteq N
    BY <2>1 DEF Shape
  <2>3. \A z \in N : KeyOf(s, z) \in Nat
    BY NodeIs
  <2>4. /\ \A z \in D[x] : IF d = "left" THEN KeyOf(s, z) < KeyOf(s, m)
                                         ELSE KeyOf(s, z) > KeyOf(s, m)
        /\ \A z \in D[y] : IF d = "left" THEN KeyOf(s, m) < KeyOf(s, z)
                                         ELSE KeyOf(s, m) > KeyOf(s, z)
    <3>1. CASE d = "left"
      <4>1. x = Kid(s, m, "left") /\ y = Kid(s, m, "right")
        BY <3>1, Sides
      <4> HIDE DEF x, y
      <4> QED BY <3>1, <4>1, <2>1, <2>2, <2>3 DEF Sorted
    <3>2. CASE d = "right"
      <4>1. x = Kid(s, m, "right") /\ y = Kid(s, m, "left")
        BY <3>2, Sides
      <4> HIDE DEF x, y
      <4> QED BY <3>2, <4>1, <2>1, <2>2, <2>3 DEF Sorted
    <3> QED BY <3>1, <3>2, Sides
  <2>5. m \in D[m]
    BY Nested
  <2>6. CASE x = NULL
    <3>1. F[m] = m
      BY <2>6, <1>8
    <3> QED BY <2>2, <2>4, <2>5, <2>6, <3>1 DEF Extreme
  <2>7. CASE x # NULL
    <3> DEFINE p == F[x]
    <3>1. F[m] = p
      BY <2>7, <1>8
    <3>2. Extreme(s, D, x, d, p)
      BY <2>1, <2>7, <1>9
    <3> HIDE DEF x, y, p
    <3>3. p \in D[x] /\ p \in D[m] /\ Kid(s, p, d) = NULL /\ p \in N
      BY <3>2, <2>2 DEF Extreme
    <3>4. ASSUME NEW z \in D[m] \ {p}
          PROVE  IF d = "left" THEN KeyOf(s, p) < KeyOf(s, z) ELSE KeyOf(s, p) > KeyOf(s, z)
      <4>1. CASE z = m
        BY <4>1, <2>4, <3>3
      <4>2. CASE z \in D[x]
        BY <4>2, <3>2 DEF Extreme
      <4>3. CASE z \in D[y]
        <5>1. KeyOf(s, z) \in Nat /\ KeyOf(s, p) \in Nat /\ KeyOf(s, m) \in Nat
          BY <4>3, <2>2, <2>3, <3>3
        <5>2. CASE d = "left"
          <6>1. KeyOf(s, p) < KeyOf(s, m) /\ KeyOf(s, m) < KeyOf(s, z)
            BY <5>2, <4>3, <2>4, <3>3
          <6> QED BY <5>1, <5>2, <6>1
        <5>3. CASE d # "left"
          <6>1. KeyOf(s, p) > KeyOf(s, m) /\ KeyOf(s, m) > KeyOf(s, z)
            BY <5>3, <4>3, <2>4, <3>3
          <6> QED BY <5>1, <5>3, <6>1
        <5> QED BY <5>2, <5>3
      <4> QED BY <4>1, <4>2, <4>3, <2>2
    <3>5. Extreme(s, D, m, d, p)
      BY <3>3, <3>4 DEF Extreme
    <3> QED BY <3>1, <3>5
  <2> QED BY <2>6, <2>7
<1> HIDE DEF G
<1>10. \A m \in N : m \in G
  BY <1>9, TreeInduction
<1> QED BY <1>1, <1>10 DEF G

(***************************************************************************)
(* Induction over everything below a node.                                 *)
(***************************************************************************)
LEMMA BelowInduction ==
    ASSUME NEW s, NEW D, Typed(s), Shape(s, D), NEW G,
           \A n \in NodesOf(s) : (\A m \in D[n] : m # n => m \in G) => n \in G
    PROVE  \A n \in NodesOf(s) : n \in G
<1> DEFINE N == NodesOf(s)
           rank == [n \in N |-> Size(D, n)]
<1>1. rank \in [N -> Nat]
  BY Sizes
<1>2. ASSUME NEW n \in N, NEW m \in D[n], m # n
      PROVE  m \in N /\ rank[m] < rank[n]
  <2>1. m \in N /\ D[m] \subseteq D[n] /\ n \notin D[m]
    BY <1>2, Nested
  <2>2. Size(D, m) < Size(D, n)
    BY <2>1, Sizes
  <2> QED BY <2>1, <2>2
<1> HIDE DEF rank, N
<1>3. ASSUME NEW x \in N, \A y \in N : rank[y] < rank[x] => y \in G
      PROVE  x \in G
  BY <1>2, <1>3 DEF N
<1>4. \A x \in N : x \in G
  BY <1>1, <1>3, RankInduction
<1> QED BY <1>4 DEF N

NoKids(s, n) == Kid(s, n, "left") = NULL /\ Kid(s, n, "right") = NULL

(***************************************************************************)
(* The replacement of a node is next to it in the order of the keys.       *)
(***************************************************************************)
LEMMA ReplacementIs ==
    ASSUME NEW s, NEW D, Typed(s), Shape(s, D), Sorted(s, D, NULL),
           NEW n \in NodesOf(s), ~NoKids(s, n)
    PROVE  LET r == Replacement(s, n)
           IN  /\ r \in D[n] /\ r # n /\ r \in NodesOf(s)
               /\ IF Kid(s, n, "right") # NULL
                  THEN Extreme(s, D, Kid(s, n, "right"), "left", r)
                  ELSE Extreme(s, D, Kid(s, n, "left"), "right", r)
<1> DEFINE r == Replacement(s, n)
           x == Kid(s, n, "right")
           y == Kid(s, n, "left")
<1>1. r = IF x # NULL THEN Outermost(s, x, "left") ELSE Outermost(s, y, "right")
  BY Zenon DEF Replacement, Kid, Field, NodeAt
<1>2. x \in NodesOf(s) \cup {NULL} /\ y \in NodesOf(s) \cup {NULL}
  BY NodeIs, Sides
<1>3. /\ D[x] \subseteq D[n] /\ D[y] \subseteq D[n] /\ n \notin D[x] /\ n \notin D[y]
      /\ D[n] \subseteq NodesOf(s)
  BY Sides DEF Shape
<1> HIDE DEF r
<1>4. CASE x # NULL
  <2>1. Extreme(s, D, x, "left", r)
    BY <1>1, <1>2, <1>4, OutermostIs, Sides
  <2> QED BY <2>1, <1>3, <1>4 DEF Extreme, r
<1>5. CASE x = NULL
  <2>1. Extreme(s, D, y, "right", r)
    BY <1>1, <1>2, <1>5, OutermostIs, Sides DEF NoKids
  <2> QED BY <2>1, <1>3, <1>5 DEF Extreme, r
<1> QED BY <1>4, <1>5

\* C is the chain of replacements from n to a leaf.
Chain(s, D, n, C) ==
    /\ n \in C /\ C \subseteq D[n]
    /\ \E x \in C : NoKids(s, x) /\ \A y \in C : NoKids(s, y) => y = x
    /\ \A a \in C : ~NoKids(s, a) =>
          /\ Replacement(s, a) \in C
          /\ \A x \in C : x \in D[a] /\ x # a => x \in D[Replacement(s, a)]
    /\ \A x \in C : x # n => \E a \in C : ~NoKids(s, a) /\ Replacement(s, a) = x

(***************************************************************************)
(* The nodes a removal visits are such a chain.                            *)
(***************************************************************************)
LEMMA ReplacedIs ==
    ASSUME NEW s, NEW D, Typed(s), Shape(s, D), Sorted(s, D, NULL), NEW n \in NodesOf(s)
    PROVE  Chain(s, D, n, Replaced(s, n))
<1> DEFINE N == NodesOf(s)
           F == CHOOSE chain : chain = [m \in DOMAIN s.node |->
                    IF IsLeaf(s, m) THEN {m} ELSE {m} \cup chain[Replacement(s, m)]]
           Stop == {m \in N : NoKids(s, m)}
           base == [m \in N |-> {m}]
           next == [m \in N |-> Replacement(s, m)]
           H    == [x \in N \X SUBSET N |-> {x[1]} \cup x[2]]
<1>1. Replaced(s, n) = F[n]
  BY DEF Replaced
<1>2. F = CHOOSE f : f = [m \in N |-> IF NoKids(s, m) THEN {m} ELSE {m} \cup f[Replacement(s, m)]]
  BY Zenon DEF NodesOf, IsLeaf, NoKids, Kid, Field, NodeAt
<1>3. \A m \in N : ~NoKids(s, m) =>
         Replacement(s, m) \in D[m] /\ Replacement(s, m) # m /\ Replacement(s, m) \in N
  BY ReplacementIs
<1>4. \E f \in [N -> SUBSET N] : f = Round(N, Stop, base, next, H, f)
  <2>1. base \in [N -> SUBSET N] /\ H \in [N \X SUBSET N -> SUBSET N]
    OBVIOUS
  <2>2. ASSUME NEW x \in N \ Stop PROVE next[x] \in D[x] /\ next[x] # x
    BY <1>3
  <2> HIDE DEF base, next, H, Stop
  <2>3. EndsBelow(s, D, SUBSET N, Stop, base, next, H)
    BY <2>1, <2>2 DEF EndsBelow
  <2> QED BY <2>3, WalkDown
<1>5. PICK f \in [N -> SUBSET N] : f = Round(N, Stop, base, next, H, f)
  BY <1>4
<1>6. ASSUME NEW h \in [N -> SUBSET N]
      PROVE  Round(N, Stop, base, next, H, h) =
                 [m \in N |-> IF NoKids(s, m) THEN {m} ELSE {m} \cup h[Replacement(s, m)]]
  <2>1. ASSUME NEW m \in N
        PROVE  (IF m \in Stop THEN base[m] ELSE H[<<m, h[next[m]]>>])
                 = IF NoKids(s, m) THEN {m} ELSE {m} \cup h[Replacement(s, m)]
    <3>1. CASE m \in Stop
      BY <3>1
    <3>2. CASE m \notin Stop
      <4>1. next[m] = Replacement(s, m) /\ next[m] \in N
        BY <3>2, <1>3
      <4> HIDE DEF next
      <4>2. H[<<m, h[next[m]]>>] = {m} \cup h[next[m]]
        BY <4>1
      <4> QED BY <3>2, <4>1, <4>2
    <3> QED BY <3>1, <3>2
  <2> HIDE DEF Stop, base, next, H
  <2> QED BY <2>1 DEF Round
<1>7. F = [m \in N |-> IF NoKids(s, m) THEN {m} ELSE {m} \cup F[Replacement(s, m)]]
  <2>1. f = [m \in N |-> IF NoKids(s, m) THEN {m} ELSE {m} \cup f[Replacement(s, m)]]
    <3> HIDE DEF Stop, base, next, H
    <3> QED BY <1>5, <1>6
  <2> HIDE DEF F
  <2> QED BY <1>2, <2>1
<1> HIDE DEF F, Stop, base, next, H
<1>8. \A m \in N : F[m] = IF NoKids(s, m) THEN {m} ELSE {m} \cup F[Replacement(s, m)]
  BY <1>7
<1> DEFINE G == {m \in N : Chain(s, D, m, F[m])}
<1>9. ASSUME NEW m \in N, \A x \in D[m] : x # m => x \in G
      PROVE  m \in G
  <2>1. m \in D[m] /\ D[m] \subseteq N
    BY Nested
  <2>2. CASE NoKids(s, m)
    <3>1. F[m] = {m}
      BY <1>8, <2>2
    <3> QED BY <2>1, <2>2, <3>1 DEF Chain
  <2>3. CASE ~NoKids(s, m)
    <3> DEFINE r == Replacement(s, m)
               C == F[r]
    <3>1. r \in D[m] /\ r # m /\ r \in N /\ F[m] = {m} \cup C
      BY <1>3, <1>8, <2>3
    <3> HIDE DEF r
    <3>2. Chain(s, D, r, C)
      BY <1>9, <3>1
    <3>3. D[r] \subseteq D[m] /\ m \notin D[r] /\ \A a \in D[r] : D[a] \subseteq D[r]
      BY <3>1, Nested
    <3> HIDE DEF C, G
    <3>4. m \in {m} \cup C /\ {m} \cup C \subseteq D[m]
      BY <2>1, <3>2, <3>3 DEF Chain
    <3>5. \E x \in {m} \cup C : NoKids(s, x) /\ \A y \in {m} \cup C : NoKids(s, y) => y = x
      BY <2>3, <3>2 DEF Chain
    <3>6. ASSUME NEW a \in {m} \cup C, ~NoKids(s, a)
          PROVE  /\ Replacement(s, a) \in {m} \cup C
                 /\ \A x \in {m} \cup C : x \in D[a] /\ x # a => x \in D[Replacement(s, a)]
      <4>1. CASE a = m
        <5>1. Replacement(s, a) = r
          BY <4>1 DEF r
        <5>2. r \in C /\ C \subseteq D[r]
          BY <3>2 DEF Chain
        <5> QED BY <4>1, <5>1, <5>2
      <4>2. CASE a \in C
        <5>1. m \notin D[a]
          BY <4>2, <3>2, <3>3 DEF Chain
        <5> QED BY <4>2, <5>1, <3>2, <3>6 DEF Chain
      <4> QED BY <4>1, <4>2
    <3>7. ASSUME NEW x \in {m} \cup C, x # m
          PROVE  \E a \in {m} \cup C : ~NoKids(s, a) /\ Replacement(s, a) = x
      <4>1. CASE x = r
        BY <4>1, <2>3 DEF r
      <4>2. CASE x # r
        BY <4>2, <3>2, <3>7 DEF Chain
      <4> QED BY <4>1, <4>2
    <3>8. Chain(s, D, m, {m} \cup C)
      BY <3>4, <3>5, <3>6, <3>7 DEF Chain
    <3> QED BY <3>1, <3>8 DEF G
  <2> QED BY <2>2, <2>3
<1> HIDE DEF G
<1>10. \A m \in N : m \in G
  BY <1>9, BelowInduction
<1> QED BY <1>1, <1>10 DEF G

-----------------------------------------------------------------------------
(***************************************************************************)
(* Removals                                                                *)
(***************************************************************************)

(***************************************************************************)
(* No two nodes have the same key, but for the one to take out.            *)
(***************************************************************************)
LEMMA KeysDiffer ==
    ASSUME NEW s, NEW D, Typed(s), Shape(s, D), NEW res, Sorted(s, D, res)
    PROVE  \A x, y \in NodesOf(s) \ {res} : KeyOf(s, x) = KeyOf(s, y) => x = y
<1> DEFINE N == NodesOf(s)
           G == {n \in N : \A x, y \in D[n] \ {res} : KeyOf(s, x) = KeyOf(s, y) => x = y}
<1>1. ASSUME NEW n \in N, \A d \in Dirs : Kid(s, n, d) # NULL => Kid(s, n, d) \in G
      PROVE  n \in G
  <2> DEFINE l == Kid(s, n, "left")
             r == Kid(s, n, "right")
  <2>1. D[n] = {n} \cup D[l] \cup D[r] /\ D[NULL] = {}
    BY Sides DEF Shape
  <2>2. /\ \A x, y \in D[l] \ {res} : KeyOf(s, x) = KeyOf(s, y) => x = y
        /\ \A x, y \in D[r] \ {res} : KeyOf(s, x) = KeyOf(s, y) => x = y
    BY <2>1, <1>1, Sides
  <2>3. /\ \A x \in D[l] \ {res} : KeyOf(s, x) \in Nat /\ KeyOf(s, x) < KeyOf(s, n)
        /\ \A x \in D[r] \ {res} : KeyOf(s, x) \in Nat /\ KeyOf(s, x) > KeyOf(s, n)
    <3>1. \A x \in N : KeyOf(s, x) \in Nat
      BY NodeIs
    <3> QED BY <3>1, KidKeys
  <2>4. KeyOf(s, n) \in Nat
    BY NodeIs
  <2> HIDE DEF l, r
  <2>5. ASSUME NEW x \in D[n] \ {res}, NEW y \in D[n] \ {res}, KeyOf(s, x) = KeyOf(s, y)
        PROVE  x = y
    <3>1. CASE x = n
      BY <3>1, <2>1, <2>3, <2>4, <2>5
    <3>2. CASE y = n
      BY <3>2, <2>1, <2>3, <2>4, <2>5
    <3>3. CASE x # n /\ y # n
      BY <3>3, <2>1, <2>2, <2>3, <2>4, <2>5
    <3> QED BY <3>1, <3>2, <3>3
  <2> QED BY <2>5
<1>2. \A n \in N : n \in G
  <2> HIDE DEF G
  <2> QED BY <1>1, TreeInduction
<1>3. CASE HeadOf(s) = NULL
  BY <1>3 DEF Shape
<1>4. CASE HeadOf(s) # NULL
  <2>1. HeadOf(s) \in N /\ D[HeadOf(s)] = N
    BY <1>4 DEF Shape, Typed, HeadOf
  <2> QED BY <2>1, <1>2
<1> QED BY <1>3, <1>4

\* t is s with the keys moved up along the chain C.
Moved(s, t, C, leaf) ==
    /\ NodesOf(t) = NodesOf(s) /\ HeadOf(t) = HeadOf(s)
    /\ \A m \in NodesOf(s) :
          /\ Up(t, m) = Up(s, m) /\ Color(t, m) = Color(s, m)
          /\ \A d \in Dirs : Kid(t, m, d) = Kid(s, m, d)
          /\ KeyOf(t, m) = IF m \in C \ {leaf} THEN KeyOf(s, Replacement(s, m))
                                               ELSE KeyOf(s, m)
          /\ DataOf(t, m) = IF m \in C \ {leaf} THEN DataOf(s, Replacement(s, m))
                                                ELSE DataOf(s, m)

(***************************************************************************)
(* When the keys have moved up along the chain, only the leaf at its end   *)
(* repeats a key, and only the key to remove is gone.                      *)
(***************************************************************************)
LEMMA MovedTree ==
    ASSUME NEW s, NEW t, NEW D, Typed(s), Shape(s, D), Sorted(s, D, NULL),
           NEW n \in NodesOf(s), NEW C, Chain(s, D, n, C), NEW leaf \in C, NoKids(s, leaf),
           Moved(s, t, C, leaf)
    PROVE  /\ Shape(t, D) /\ Sorted(t, D, leaf)
           /\ {KeyOf(t, m) : m \in NodesOf(s) \ {leaf}} = {KeyOf(s, m) : m \in NodesOf(s) \ {n}}
<1> DEFINE N == NodesOf(s)
           R(m) == Replacement(s, m)
<1>1. Shape(t, D)
  BY SameShape DEF Moved
<1>2. C \subseteq N /\ leaf \in N
  BY Nested DEF Chain
<1>3. \A a \in C \ {leaf} :
         /\ ~NoKids(s, a) /\ R(a) \in C
         /\ \A x \in C : x \in D[a] /\ x # a => x \in D[R(a)]
  BY DEF Chain
<1>4. \A a \in C \ {leaf} :
         /\ R(a) \in D[a] /\ R(a) # a /\ R(a) \in N
         /\ IF Kid(s, a, "right") # NULL
            THEN Extreme(s, D, Kid(s, a, "right"), "left", R(a))
            ELSE Extreme(s, D, Kid(s, a, "left"), "right", R(a))
  BY <1>2, <1>3, ReplacementIs
<1>5. \A m \in N : KeyOf(s, m) \in Nat
  BY NodeIs
<1>6. \A m \in N : KeyOf(t, m) = IF m \in C \ {leaf} THEN KeyOf(s, R(m)) ELSE KeyOf(s, m)
  BY DEF Moved
<1>7. \A x, y \in N : KeyOf(s, x) = KeyOf(s, y) => x = y
  <2>1. NULL \notin N
    BY NodeIs
  <2> QED BY <2>1, KeysDiffer
<1> HIDE DEF R
<1> DEFINE From(x) == IF x \in C \ {leaf} THEN R(x) ELSE x
<1>8. \A x \in N : /\ From(x) \in N /\ From(x) \in D[x] /\ KeyOf(t, x) = KeyOf(s, From(x))
                   /\ D[From(x)] \subseteq D[x]
  <2>1. \A x \in N : x \in D[x] /\ \A y \in D[x] : D[y] \subseteq D[x]
    BY Nested
  <2> QED BY <2>1, <1>4, <1>6
<1>9. ASSUME NEW a \in C \ {leaf}, NEW x \in N, x \in D[a], x # a, From(x) = R(a)
      PROVE  x = leaf
  <2>1. CASE x \in C \ {leaf}
    <3>1. x \in D[R(a)] /\ R(a) \in D[x] /\ R(a) # x
      BY <2>1, <1>3, <1>4, <1>9
    <3> QED BY <3>1, <1>4, Nested
  <2>2. CASE x \notin C \ {leaf}
    <3>1. x = R(a)
      BY <2>2, <1>9
    <3> QED BY <2>2, <3>1, <1>3
  <2> QED BY <2>1, <2>2
<1>10. ASSUME NEW a \in N, NEW d \in Dirs, NEW x \in D[Kid(s, a, d)]
       PROVE  x \in N /\ x \in D[a] /\ x # a /\ From(x) \in D[Kid(s, a, d)] /\ From(x) \in N
  <2>1. Kid(s, a, d) \in N \cup {NULL} /\ D[NULL] = {}
    BY NodeIs DEF Shape
  <2>2. D[Kid(s, a, d)] \subseteq N /\ D[Kid(s, a, d)] \subseteq D[a] /\ a \notin D[Kid(s, a, d)]
    BY <2>1 DEF Shape
  <2>3. D[x] \subseteq D[Kid(s, a, d)]
    BY <2>1, Nested
  <2> HIDE DEF From
  <2> QED BY <2>2, <2>3, <1>8
<1>11. ASSUME NEW a \in N
       PROVE  /\ \A x \in D[Kid(t, a, "left")] :
                    KeyOf(t, x) < KeyOf(t, a) \/ (x = leaf /\ KeyOf(t, x) = KeyOf(t, a))
              /\ \A x \in D[Kid(t, a, "right")] :
                    KeyOf(t, x) > KeyOf(t, a) \/ (x = leaf /\ KeyOf(t, x) = KeyOf(t, a))
  <2> DEFINE l == Kid(s, a, "left")
             r == Kid(s, a, "right")
  <2>1. Kid(t, a, "left") = l /\ Kid(t, a, "right") = r
    BY Sides DEF Moved
  <2>2. /\ \A x \in D[l] : KeyOf(s, x) < KeyOf(s, a)
        /\ \A x \in D[r] : KeyOf(s, x) > KeyOf(s, a)
    <3>1. NULL \notin N
      BY NodeIs
    <3> QED BY <3>1, KidKeys
  <2>3. \A x \in D[l] \cup D[r] :
           /\ x \in N /\ x \in D[a] /\ x # a /\ KeyOf(t, x) = KeyOf(s, From(x)) /\ From(x) \in N
           /\ (x \in D[l] => From(x) \in D[l]) /\ (x \in D[r] => From(x) \in D[r])
    <3> HIDE DEF From
    <3> QED BY <1>8, <1>10, Sides
  <2>4. CASE a \notin C \ {leaf}
    <3>1. KeyOf(t, a) = KeyOf(s, a)
      BY <2>4, <1>6
    <3> HIDE DEF From
    <3> QED BY <2>1, <2>2, <2>3, <3>1
  <2>5. CASE a \in C \ {leaf} /\ r # NULL
    <3>1. KeyOf(t, a) = KeyOf(s, R(a)) /\ R(a) \in N
      BY <2>5, <1>4, <1>6
    <3>2. /\ R(a) \in D[r]
          /\ \A x \in D[r] \ {R(a)} : KeyOf(s, R(a)) < KeyOf(s, x)
      BY <2>5, <1>4 DEF Extreme
    <3>3. \A x \in D[r] : From(x) = R(a) => x = leaf
      BY <2>3, <2>5, <1>9
    <3> HIDE DEF From, l, r
    <3>4. \A x \in D[r] : KeyOf(t, x) > KeyOf(t, a) \/ (x = leaf /\ KeyOf(t, x) = KeyOf(t, a))
      BY <2>3, <3>1, <3>2, <3>3, <1>5
    <3>5. ASSUME NEW x \in D[l] PROVE KeyOf(t, x) < KeyOf(t, a)
      <4>1. KeyOf(s, From(x)) < KeyOf(s, a) /\ KeyOf(s, R(a)) > KeyOf(s, a)
        BY <2>2, <2>3, <3>2
      <4>2. KeyOf(s, From(x)) \in Nat /\ KeyOf(s, a) \in Nat /\ KeyOf(s, R(a)) \in Nat
        BY <2>3, <3>1, <1>5
      <4> QED BY <4>1, <4>2, <2>3, <3>1
    <3> QED BY <2>1, <3>4, <3>5
  <2>6. CASE a \in C \ {leaf} /\ r = NULL
    <3>1. KeyOf(t, a) = KeyOf(s, R(a)) /\ R(a) \in N
      BY <2>6, <1>4, <1>6
    <3>2. /\ R(a) \in D[l]
          /\ \A x \in D[l] \ {R(a)} : KeyOf(s, R(a)) > KeyOf(s, x)
      BY <2>6, <1>4, Sides DEF Extreme
    <3>3. \A x \in D[l] : From(x) = R(a) => x = leaf
      BY <2>3, <2>6, <1>9
    <3>4. D[r] = {}
      BY <2>6 DEF Shape
    <3> HIDE DEF From, l, r
    <3>5. \A x \in D[l] : KeyOf(t, x) < KeyOf(t, a) \/ (x = leaf /\ KeyOf(t, x) = KeyOf(t, a))
      BY <2>3, <3>1, <3>2, <3>3, <1>5
    <3> QED BY <2>1, <3>4, <3>5
  <2> QED BY <2>4, <2>5, <2>6
<1>12. Sorted(t, D, leaf)
  <2>1. NodesOf(t) = N
    BY DEF Moved
  <2> QED BY <1>11, <2>1 DEF Sorted
<1>13. ASSUME NEW x \in N \ {leaf}
       PROVE  KeyOf(t, x) \in {KeyOf(s, m) : m \in N \ {n}}
  <2>1. From(x) # n
    <3>1. CASE x \in C \ {leaf}
      <4>1. R(x) \in D[x] /\ R(x) # x /\ x \in D[n]
        BY <3>1, <1>4 DEF Chain
      <4> QED BY <3>1, <4>1, Nested
    <3>2. CASE x \notin C
      BY <3>2 DEF Chain
    <3> QED BY <3>1, <3>2
  <2> HIDE DEF From
  <2> QED BY <2>1, <1>8
<1>14. ASSUME NEW x \in N \ {n}
       PROVE  KeyOf(s, x) \in {KeyOf(t, m) : m \in N \ {leaf}}
  <2>1. CASE x \in C
    <3>1. PICK a \in C : ~NoKids(s, a) /\ R(a) = x
      BY <2>1 DEF Chain, R
    <3>2. a # leaf /\ a \in N
      BY <3>1, <1>2
    <3> QED BY <3>1, <3>2, <1>6
  <2>2. CASE x \notin C
    BY <2>2, <1>6
  <2> QED BY <2>1, <2>2
<1> QED BY <1>1, <1>12, <1>13, <1>14

(***************************************************************************)
(* A head and a table of nodes make a tree's memory.                       *)
(***************************************************************************)
LEMMA MadeOf ==
    ASSUME NEW N, N \subseteq Keys, IsFiniteSet(N), NEW h \in N \cup {NULL},
           NEW new \in [N -> NodeOf(N \cup {NULL})]
    PROVE  LET t == [head |-> h, node |-> new]
           IN  /\ Typed(t) /\ NodesOf(t) = N /\ HeadOf(t) = h
               /\ \A n \in N : NodeAt(t, n) = new[n]
<1> DEFINE t == [head |-> h, node |-> new]
<1>1. t.node = new /\ t.head = h /\ t = [head |-> t.head, node |-> t.node]
  OBVIOUS
<1>2. DOMAIN new = N
  OBVIOUS
<1> HIDE DEF t
<1>3. NodesOf(t) = N /\ HeadOf(t) = h /\ \A n \in N : NodeAt(t, n) = new[n]
  BY <1>1, <1>2 DEF NodesOf, HeadOf, NodeAt
<1>4. Typed(t)
  BY <1>1, <1>3, Zenon DEF Typed
<1> QED BY <1>3, <1>4 DEF t

(***************************************************************************)
(* A node whose pointers are in Q is a node of a memory with addresses Q.  *)
(***************************************************************************)
LEMMA NodeIn ==
    ASSUME NEW P, NEW r \in NodeOf(P), NEW Q, Field(r, "left") \in Q,
           Field(r, "right") \in Q, Field(r, "parent") \in Q
    PROVE  r \in NodeOf(Q)
BY DEF NodeOf, Field

(***************************************************************************)
(* What Remove does to the memory.                                         *)
(***************************************************************************)
LEMMA MovedIs ==
    ASSUME NEW s, Typed(s), NEW C, NEW leaf,
           \A m \in C \ {leaf} : m \in NodesOf(s) => Replacement(s, m) \in NodesOf(s)
    PROVE  LET t == [s EXCEPT !.node = [m \in DOMAIN s.node |->
                         IF m \in C \ {leaf}
                         THEN [s.node[m] EXCEPT !.key = s.node[Replacement(s, m)].key,
                                                !.data = s.node[Replacement(s, m)].data]
                         ELSE s.node[m]]]
           IN  Typed(t) /\ Moved(s, t, C, leaf)
<1> DEFINE N == NodesOf(s)
           P == N \cup {NULL}
           moved(m) == Store(Store(NodeAt(s, m), "key", KeyOf(s, Replacement(s, m))),
                             "data", DataOf(s, Replacement(s, m)))
           new == [m \in N |-> IF m \in C \ {leaf} THEN moved(m) ELSE NodeAt(s, m)]
           t0 == [s EXCEPT !.node = [m \in DOMAIN s.node |->
                         IF m \in C \ {leaf}
                         THEN [s.node[m] EXCEPT !.key = s.node[Replacement(s, m)].key,
                                                !.data = s.node[Replacement(s, m)].data]
                         ELSE s.node[m]]]
           t == [head |-> HeadOf(s), node |-> new]
<1>1. t0 = [s EXCEPT !.node = new]
  BY Zenon DEF NodesOf, NodeAt, Store, KeyOf, DataOf, Field
<1>2. s = [head |-> s.head, node |-> s.node]
  BY DEF Typed
<1>3. t0 = t
  <2> HIDE DEF t0, new
  <2>1. [s EXCEPT !.node = new] = [head |-> s.head, node |-> new]
    BY <1>2
  <2> QED BY <1>1, <2>1 DEF HeadOf
<1>4. ASSUME NEW m \in N
      PROVE  /\ new[m] \in NodeOf(P)
             /\ \A f \in Fields : Field(new[m], f) =
                    IF m \in C \ {leaf} /\ f = "key" THEN KeyOf(s, Replacement(s, m))
                    ELSE IF m \in C \ {leaf} /\ f = "data" THEN DataOf(s, Replacement(s, m))
                    ELSE Field(NodeAt(s, m), f)
  <2>1. NodeAt(s, m) \in NodeOf(P)
    BY NodeIs
  <2>2. new[m] = IF m \in C \ {leaf} THEN moved(m) ELSE NodeAt(s, m)
    OBVIOUS
  <2>3. CASE m \in C \ {leaf}
    <3> DEFINE k == KeyOf(s, Replacement(s, m))
               v == DataOf(s, Replacement(s, m))
               r1 == Store(NodeAt(s, m), "key", k)
    <3>1. k \in Keys /\ v \in Keys
      BY <2>3, NodeIs
    <3> HIDE DEF k, v, P
    <3>2. /\ "key" \in Fields /\ "data" \in Fields /\ Fits(P, "key", k) /\ Fits(P, "data", v)
      BY <3>1 DEF Fields, Fits
    <3>3. /\ r1 \in NodeOf(P)
          /\ \A f \in Fields : Field(r1, f) = IF f = "key" THEN k ELSE Field(NodeAt(s, m), f)
      BY <2>1, <3>2, StoreIs
    <3> HIDE DEF r1
    <3>4. /\ Store(r1, "data", v) \in NodeOf(P)
          /\ \A f \in Fields : Field(Store(r1, "data", v), f) = IF f = "data" THEN v ELSE Field(r1, f)
      BY <3>2, <3>3, StoreIs
    <3>5. new[m] = Store(r1, "data", v)
      BY <2>2, <2>3 DEF r1, k, v
    <3> HIDE DEF new
    <3> QED BY <2>3, <3>3, <3>4, <3>5 DEF k, v
  <2>4. CASE m \notin C \ {leaf}
    <3> HIDE DEF P
    <3> QED BY <2>1, <2>2, <2>4
  <2> QED BY <2>3, <2>4
<1>5. new \in [N -> NodeOf(P)]
  <2>1. new = [m \in N |-> new[m]]
    OBVIOUS
  <2> HIDE DEF new, P
  <2> QED BY <1>4, <2>1
<1> HIDE DEF new
<1>6. N \subseteq Keys /\ IsFiniteSet(N) /\ HeadOf(s) \in P
  BY DEF Typed, HeadOf
<1>7. /\ Typed(t) /\ NodesOf(t) = N /\ HeadOf(t) = HeadOf(s)
      /\ \A m \in N : NodeAt(t, m) = new[m]
  BY <1>5, <1>6, MadeOf
<1> HIDE DEF t
<1>8. ASSUME NEW m \in N
      PROVE  /\ Up(t, m) = Up(s, m) /\ Color(t, m) = Color(s, m)
             /\ \A d \in Dirs : Kid(t, m, d) = Kid(s, m, d)
             /\ KeyOf(t, m) = IF m \in C \ {leaf} THEN KeyOf(s, Replacement(s, m))
                                                  ELSE KeyOf(s, m)
             /\ DataOf(t, m) = IF m \in C \ {leaf} THEN DataOf(s, Replacement(s, m))
                                                   ELSE DataOf(s, m)
  <2>1. \A f \in Fields : Field(NodeAt(t, m), f) =
                    IF m \in C \ {leaf} /\ f = "key" THEN KeyOf(s, Replacement(s, m))
                    ELSE IF m \in C \ {leaf} /\ f = "data" THEN DataOf(s, Replacement(s, m))
                    ELSE Field(NodeAt(s, m), f)
    BY <1>4, <1>7
  <2>2. /\ "key" \in Fields /\ "data" \in Fields /\ "parent" \in Fields /\ "color" \in Fields
        /\ \A d \in Dirs : d \in Fields /\ d # "key" /\ d # "data"
    BY Sides
  <2>3. Up(t, m) = Up(s, m)
    BY <2>1, <2>2 DEF Up
  <2>4. Color(t, m) = Color(s, m)
    BY <2>1, <2>2 DEF Color
  <2>5. \A d \in Dirs : Kid(t, m, d) = Kid(s, m, d)
    BY <2>1, <2>2 DEF Kid
  <2>6. KeyOf(t, m) = IF m \in C \ {leaf} THEN KeyOf(s, Replacement(s, m)) ELSE KeyOf(s, m)
    BY <2>1, <2>2 DEF KeyOf
  <2>7. DataOf(t, m) = IF m \in C \ {leaf} THEN DataOf(s, Replacement(s, m)) ELSE DataOf(s, m)
    BY <2>1, <2>2 DEF DataOf
  <2> QED BY <2>3, <2>4, <2>5, <2>6, <2>7
<1>9. Moved(s, t, C, leaf)
  BY <1>7, <1>8 DEF Moved
<1>10. Typed(t0) /\ Moved(s, t0, C, leaf)
  <2> HIDE DEF t0
  <2> QED BY <1>3, <1>7, <1>9
<1> QED BY <1>10 DEF t0

-----------------------------------------------------------------------------
(***************************************************************************)
(* Insertions                                                              *)
(***************************************************************************)

(***************************************************************************)
(* The fields of a new node.                                               *)
(***************************************************************************)
LEMMA NewNodeIs ==
    ASSUME NEW k \in Keys, NEW c \in {"RED", "BLACK"}, NEW P, NULL \in P, NEW p \in P
    PROVE  LET r == NewNode(k, c, p)
           IN  /\ r \in NodeOf(P) /\ Field(r, "key") = k /\ Field(r, "data") = k
               /\ Field(r, "color") = c /\ Field(r, "parent") = p
               /\ \A d \in Dirs : Field(r, d) = NULL
<1>1. NewNode(k, c, p) \in NodeOf(P)
  BY DEF NewNode, NodeOf
<1>2. /\ Field(NewNode(k, c, p), "key") = k /\ Field(NewNode(k, c, p), "data") = k
      /\ Field(NewNode(k, c, p), "color") = c /\ Field(NewNode(k, c, p), "parent") = p
  BY DEF NewNode, Field
<1>3. /\ Field(NewNode(k, c, p), "left") = NULL /\ Field(NewNode(k, c, p), "right") = NULL
  BY DEF NewNode, Field
<1> QED BY <1>1, <1>2, <1>3, Sides

\* t is s with a new node k on side d of p.
Grown(s, t, k, p, d) ==
    /\ NodesOf(t) = NodesOf(s) \cup {k} /\ HeadOf(t) = HeadOf(s)
    /\ \A m \in NodesOf(s) :
          /\ KeyOf(t, m) = KeyOf(s, m) /\ DataOf(t, m) = DataOf(s, m)
          /\ Color(t, m) = Color(s, m) /\ Up(t, m) = Up(s, m)
          /\ \A e \in Dirs : Kid(t, m, e) = IF m = p /\ e = d THEN k ELSE Kid(s, m, e)
    /\ KeyOf(t, k) = k /\ DataOf(t, k) = k /\ Color(t, k) = "RED" /\ Up(t, k) = p
    /\ \A e \in Dirs : Kid(t, k, e) = NULL

(***************************************************************************)
(* What Insert does to the memory.                                         *)
(***************************************************************************)
LEMMA GrownIs ==
    ASSUME NEW s, Typed(s), NEW k \in Keys, k \notin NodesOf(s), NEW p \in NodesOf(s),
           NEW d \in Dirs
    PROVE  LET t == [s EXCEPT !.node =
                        Added([s EXCEPT !.node[p][d] = k], k, NewNode(k, "RED", p))]
           IN  Typed(t) /\ Grown(s, t, k, p, d)
<1> DEFINE N == NodesOf(s)
           M == N \cup {k}
           P == M \cup {NULL}
           rec == NewNode(k, "RED", p)
           mid == [m \in N |-> IF m = p THEN Store(NodeAt(s, m), d, k) ELSE NodeAt(s, m)]
           new == [m \in M |-> IF m = k THEN rec ELSE mid[m]]
           hung == [s EXCEPT !.node[p][d] = k]
           t0 == [s EXCEPT !.node = Added(hung, k, rec)]
           t  == [head |-> HeadOf(s), node |-> new]
<1>1. s = [head |-> s.head, node |-> s.node] /\ s.node = [m \in N |-> s.node[m]]
  BY DEF Typed, NodesOf
<1>2. DOMAIN s = {"head", "node"}
  BY <1>1
<1>3. hung.node = [s.node EXCEPT ![p][d] = k]
  BY <1>2, Zenon
<1>4. [s.node EXCEPT ![p][d] = k] = mid
  BY Zenon DEF Store, NodeAt, NodesOf
<1>5. hung.node = mid
  <2> HIDE DEF hung, mid
  <2> QED BY <1>3, <1>4
<1>6. DOMAIN mid = N
  OBVIOUS
<1> HIDE DEF hung, mid
<1>7. Added(hung, k, rec) = new
  <2> HIDE DEF rec
  <2> QED BY <1>5, <1>6 DEF Added
<1> HIDE DEF new
<1>8. t0 = t
  BY <1>1, <1>7 DEF HeadOf
<1>9. ASSUME NEW m \in N
      PROVE  /\ mid[m] \in NodeOf(P)
             /\ \A f \in Fields : Field(mid[m], f)
                   = IF m = p /\ f = d THEN k ELSE Field(NodeAt(s, m), f)
  <2>1. NodeAt(s, m) \in NodeOf(P)
    <3>1. /\ Kid(s, m, "left") \in P /\ Kid(s, m, "right") \in P /\ Up(s, m) \in P
          /\ NodeAt(s, m) \in NodeOf(N \cup {NULL})
      BY NodeIs, Sides
    <3> HIDE DEF P
    <3> QED BY <3>1, NodeIn DEF Kid, Up
  <2>2. k \in P /\ d \in Fields
    BY Sides
  <2> HIDE DEF P
  <2>3. Fits(P, d, k)
    BY <2>2 DEF Fits, Dirs
  <2>4. mid[m] = IF m = p THEN Store(NodeAt(s, m), d, k) ELSE NodeAt(s, m)
    BY DEF mid
  <2>5. /\ Store(NodeAt(s, m), d, k) \in NodeOf(P)
        /\ \A f \in Fields : Field(Store(NodeAt(s, m), d, k), f)
                               = IF f = d THEN k ELSE Field(NodeAt(s, m), f)
    BY <2>1, <2>2, <2>3, StoreIs
  <2> QED BY <2>1, <2>4, <2>5
<1>10. /\ rec \in NodeOf(P) /\ Field(rec, "key") = k /\ Field(rec, "data") = k
       /\ Field(rec, "color") = "RED" /\ Field(rec, "parent") = p
       /\ \A e \in Dirs : Field(rec, e) = NULL
  <2>1. NULL \in P /\ p \in P /\ "RED" \in {"RED", "BLACK"}
    OBVIOUS
  <2> HIDE DEF P
  <2> QED BY <2>1, NewNodeIs
<1> HIDE DEF rec
<1>11. new \in [M -> NodeOf(P)] /\ new[k] = rec /\ \A m \in N : new[m] = mid[m]
  <2>1. \A m \in M : new[m] = IF m = k THEN rec ELSE mid[m]
    BY DEF new
  <2>2. new = [m \in M |-> new[m]]
    BY DEF new
  <2>3. \A m \in M : new[m] \in NodeOf(P)
    <3> HIDE DEF P
    <3> QED BY <2>1, <1>9, <1>10
  <2> HIDE DEF P
  <2> QED BY <2>1, <2>2, <2>3
<1>12. M \subseteq Keys /\ IsFiniteSet(M) /\ HeadOf(s) \in P
  <2>1. N \subseteq Keys /\ IsFiniteSet(N) /\ HeadOf(s) \in N \cup {NULL}
    BY DEF Typed, HeadOf
  <2> QED BY <2>1, FS_AddElement
<1>13. /\ Typed(t) /\ NodesOf(t) = M /\ HeadOf(t) = HeadOf(s)
       /\ \A m \in M : NodeAt(t, m) = new[m]
  <2> HIDE DEF M
  <2> QED BY <1>11, <1>12, MadeOf
<1> HIDE DEF t
<1>14. /\ "key" \in Fields /\ "data" \in Fields /\ "parent" \in Fields /\ "color" \in Fields
       /\ \A e \in Dirs : e \in Fields /\ e # "key" /\ e # "data" /\ e # "parent" /\ e # "color"
  BY Sides
<1>15. ASSUME NEW m \in N
       PROVE  /\ KeyOf(t, m) = KeyOf(s, m) /\ DataOf(t, m) = DataOf(s, m)
              /\ Color(t, m) = Color(s, m) /\ Up(t, m) = Up(s, m)
              /\ \A e \in Dirs : Kid(t, m, e) = IF m = p /\ e = d THEN k ELSE Kid(s, m, e)
  <2>1. \A f \in Fields : Field(NodeAt(t, m), f)
                            = IF m = p /\ f = d THEN k ELSE Field(NodeAt(s, m), f)
    BY <1>9, <1>11, <1>13
  <2>2. KeyOf(t, m) = KeyOf(s, m) /\ DataOf(t, m) = DataOf(s, m)
    BY <2>1, <1>14 DEF KeyOf, DataOf
  <2>3. Color(t, m) = Color(s, m) /\ Up(t, m) = Up(s, m)
    BY <2>1, <1>14 DEF Color, Up
  <2>4. \A e \in Dirs : Kid(t, m, e) = IF m = p /\ e = d THEN k ELSE Kid(s, m, e)
    BY <2>1, <1>14 DEF Kid
  <2> QED BY <2>2, <2>3, <2>4
<1>16. /\ KeyOf(t, k) = k /\ DataOf(t, k) = k /\ Color(t, k) = "RED" /\ Up(t, k) = p
       /\ \A e \in Dirs : Kid(t, k, e) = NULL
  BY <1>10, <1>11, <1>13 DEF KeyOf, DataOf, Color, Up, Kid
<1>17. Grown(s, t, k, p, d)
  BY <1>13, <1>15, <1>16 DEF Grown
<1>18. Typed(t0) /\ Grown(s, t0, k, p, d)
  <2> HIDE DEF t0
  <2> QED BY <1>8, <1>13, <1>17
<1> QED BY <1>18 DEF t0, hung, rec

\* What lies below each node when k has been put below p.
GrownD(s, D, k, p) ==
    [m \in NodesOf(s) \cup {k} \cup {NULL} |->
        IF m = k THEN {k} ELSE IF p \in D[m] THEN D[m] \cup {k} ELSE D[m]]

(***************************************************************************)
(* The new node hangs where the search for its key ends, so the keys stay  *)
(* in order.                                                               *)
(***************************************************************************)
LEMMA GrownTree ==
    ASSUME NEW s, NEW t, NEW D, Typed(s), Shape(s, D), Sorted(s, D, NULL), HeadOf(s) # NULL,
           NEW k \in Keys, k \notin NodesOf(s), NEW p, Found(s, D, HeadOf(s), k, p),
           KeyOf(s, p) # k, Typed(t), Grown(s, t, k, p, Toward(s, p, k))
    PROVE  Shape(t, GrownD(s, D, k, p)) /\ Sorted(t, GrownD(s, D, k, p), NULL)
<1> DEFINE N == NodesOf(s)
           d == Toward(s, p, k)
           E == GrownD(s, D, k, p)
<1>1. /\ HeadOf(s) \in N /\ D[HeadOf(s)] = N /\ D[NULL] = {} /\ NULL \notin N /\ k # NULL
      /\ \A m \in N \cup {NULL} : D[m] \subseteq N
  <2>1. NULL \notin N
    BY NodeIs
  <2> QED BY <2>1, KeysAssumption DEF Typed, Shape, HeadOf
<1>2. /\ p \in N /\ Kid(s, p, d) = NULL /\ d \in Dirs
      /\ \A a \in N : p \in D[a] /\ a # p =>
             KeyOf(s, a) # k /\ p \in D[Kid(s, a, Toward(s, a, k))]
  BY <1>1, Sides DEF Found, Toward
<1>3. /\ NodesOf(t) = N \cup {k} /\ HeadOf(t) = HeadOf(s)
      /\ \A m \in N : /\ KeyOf(t, m) = KeyOf(s, m) /\ Up(t, m) = Up(s, m)
                      /\ \A e \in Dirs : Kid(t, m, e) = IF m = p /\ e = d THEN k ELSE Kid(s, m, e)
      /\ KeyOf(t, k) = k /\ Up(t, k) = p
      /\ \A e \in Dirs : Kid(t, k, e) = NULL
  BY DEF Grown
<1>4. /\ E \in [N \cup {k} \cup {NULL} -> SUBSET (N \cup {k})]
      /\ E[k] = {k} /\ E[NULL] = {}
      /\ \A m \in N \cup {NULL} : E[m] = IF p \in D[m] THEN D[m] \cup {k} ELSE D[m]
  <2>1. \A m \in N \cup {k} \cup {NULL} :
           E[m] = IF m = k THEN {k} ELSE IF p \in D[m] THEN D[m] \cup {k} ELSE D[m]
    BY DEF GrownD
  <2>2. E = [m \in N \cup {k} \cup {NULL} |-> E[m]]
    BY DEF GrownD
  <2> HIDE DEF E
  <2>3. \A m \in N \cup {k} \cup {NULL} : E[m] \in SUBSET (N \cup {k})
    BY <2>1, <1>1
  <2> QED BY <2>1, <2>2, <2>3, <1>1
<1> HIDE DEF E, d
<1>5. \A m \in N : p \in D[p] /\ Kid(s, m, d) \in N \cup {NULL}
  BY <1>2, Nested, NodeIs
<1>6. ASSUME NEW m \in N, NEW e \in Dirs
      PROVE  /\ E[m] = {m} \cup E[Kid(t, m, e)] \cup E[Kid(t, m, Opposite(e))]
             /\ E[Kid(t, m, e)] \cap E[Kid(t, m, Opposite(e))] = {}
             /\ m \notin E[Kid(t, m, e)]
             /\ Kid(t, m, e) # NULL => Up(t, Kid(t, m, e)) = m
             /\ m # p => E[Kid(t, m, e)] = IF p \in D[Kid(s, m, e)] THEN D[Kid(s, m, e)] \cup {k}
                                           ELSE D[Kid(s, m, e)]
  <2> DEFINE x == Kid(s, m, e)
             y == Kid(s, m, Opposite(e))
  <2>1. /\ Opposite(e) \in Dirs /\ x \in N \cup {NULL} /\ y \in N \cup {NULL}
    BY Sides, NodeIs
  <2>2. /\ D[m] = {m} \cup D[x] \cup D[y] /\ D[x] \cap D[y] = {} /\ m \notin D[x] /\ m \notin D[y]
        /\ x # NULL => Up(s, x) = m
    BY <2>1 DEF Shape
  <2> HIDE DEF x, y
  <2>3. CASE m # p
    <3>1. Kid(t, m, e) = x /\ Kid(t, m, Opposite(e)) = y
      BY <2>1, <2>3, <1>3 DEF x, y
    <3>2. /\ E[m] = IF p \in D[m] THEN D[m] \cup {k} ELSE D[m]
          /\ E[x] = IF p \in D[x] THEN D[x] \cup {k} ELSE D[x]
          /\ E[y] = IF p \in D[y] THEN D[y] \cup {k} ELSE D[y]
      BY <2>1, <1>4
    <3>3. k \notin D[x] /\ k \notin D[y] /\ m # k
      BY <2>1, <1>1
    <3>4. x # NULL => Up(t, x) = m
      BY <2>1, <2>2, <1>3
    <3>5. E[m] = {m} \cup E[x] \cup E[y]
      BY <2>2, <2>3, <3>2
    <3>6. E[x] \cap E[y] = {} /\ m \notin E[x]
      BY <2>2, <3>2, <3>3
    <3> QED BY <3>1, <3>2, <3>4, <3>5, <3>6 DEF x
  <2>4. CASE m = p /\ e = d
    <3>1. x = NULL /\ Kid(t, m, e) = k /\ Kid(t, m, Opposite(e)) = y
      BY <2>1, <2>4, <1>2, <1>3, Sides DEF x, y
    <3>2. E[m] = D[m] \cup {k} /\ E[y] = D[y] /\ D[x] = {} /\ m # k /\ k \notin D[y]
      BY <2>1, <2>2, <2>4, <3>1, <1>1, <1>4, <1>5
    <3> QED BY <2>2, <2>4, <3>1, <3>2, <1>3, <1>4
  <2>5. CASE m = p /\ e # d
    <3>1. Opposite(e) = d
      BY <2>5, <1>2, Sides
    <3>2. y = NULL /\ Kid(t, m, e) = x /\ Kid(t, m, Opposite(e)) = k
      BY <2>1, <2>5, <3>1, <1>2, <1>3 DEF x, y
    <3>3. E[m] = D[m] \cup {k} /\ E[x] = D[x] /\ D[y] = {} /\ m # k /\ k \notin D[x]
      BY <2>1, <2>2, <2>5, <3>2, <1>1, <1>4, <1>5
    <3>4. x # NULL => Up(t, x) = m
      BY <2>1, <2>2, <1>3
    <3> QED BY <2>2, <2>5, <3>2, <3>3, <3>4, <1>4
  <2> QED BY <2>3, <2>4, <2>5
<1>7. ASSUME NEW e \in Dirs
      PROVE  /\ E[k] = {k} \cup E[Kid(t, k, e)] \cup E[Kid(t, k, Opposite(e))]
             /\ E[Kid(t, k, e)] \cap E[Kid(t, k, Opposite(e))] = {}
             /\ k \notin E[Kid(t, k, e)]
             /\ Kid(t, k, e) = NULL
  <2>1. Opposite(e) \in Dirs
    BY Sides
  <2> QED BY <2>1, <1>3, <1>4
<1>8. /\ HeadOf(t) # NULL /\ Up(t, HeadOf(t)) = NULL
      /\ E[HeadOf(t)] = N \cup {k}
  <2>1. Up(s, HeadOf(s)) = NULL
    BY DEF Shape
  <2>2. E[HeadOf(s)] = D[HeadOf(s)] \cup {k}
    BY <1>1, <1>2, <1>4
  <2> QED BY <2>1, <2>2, <1>1, <1>3
<1>9. ASSUME NEW m \in N \cup {k}
      PROVE  /\ Up(t, m) = NULL => m = HeadOf(t)
             /\ Up(t, m) # NULL => \E e \in Dirs : Kid(t, Up(t, m), e) = m
  <2>1. CASE m = k
    BY <2>1, <1>1, <1>2, <1>3
  <2>2. CASE m # k
    <3>1. m \in N /\ Up(t, m) = Up(s, m) /\ Up(s, m) \in N \cup {NULL}
      BY <2>2, <1>3, NodeIs
    <3>2. CASE Up(s, m) = NULL
      BY <3>1, <3>2, <1>3 DEF Shape
    <3>3. CASE Up(s, m) # NULL
      <4>1. PICK e \in Dirs : Kid(s, Up(s, m), e) = m
        BY <3>1, <3>3 DEF Shape
      <4>2. ~ (Up(s, m) = p /\ e = d)
        BY <4>1, <3>1, <1>1, <1>2
      <4> QED BY <3>1, <3>3, <4>1, <4>2, <1>3
    <3> QED BY <3>2, <3>3
  <2> QED BY <2>1, <2>2
<1>10. Shape(t, E)
  BY <1>3, <1>4, <1>6, <1>7, <1>8, <1>9 DEF Shape
<1>11. ASSUME NEW m \in N, NEW e \in Dirs, k \in E[Kid(t, m, e)]
       PROVE  e = Toward(s, m, k) /\ KeyOf(s, m) # k
  <2>1. CASE m = p
    <3>1. CASE e = d
      BY <2>1, <3>1 DEF d
    <3>2. CASE e # d
      <4>1. Kid(t, m, e) = Kid(s, m, e) /\ Kid(s, m, e) \in N \cup {NULL}
        BY <3>2, <1>3, NodeIs
      <4>2. p \notin D[Kid(s, m, e)]
        BY <2>1 DEF Shape
      <4> QED BY <4>1, <4>2, <1>1, <1>4, <1>11
    <3> QED BY <3>1, <3>2
  <2>2. CASE m # p
    <3>1. E[Kid(t, m, e)] = IF p \in D[Kid(s, m, e)] THEN D[Kid(s, m, e)] \cup {k}
                            ELSE D[Kid(s, m, e)]
      BY <2>2, <1>6
    <3>2. Kid(s, m, e) \in N \cup {NULL}
      BY NodeIs
    <3>3. p \in D[Kid(s, m, e)]
      BY <3>1, <3>2, <1>1, <1>11
    <3>4. p \in D[m]
      BY <3>3 DEF Shape
    <3>5. KeyOf(s, m) # k /\ p \in D[Kid(s, m, Toward(s, m, k))]
      BY <3>4, <2>2, <1>2
    <3>6. Toward(s, m, k) \in Dirs
      BY Sides DEF Toward
    <3>7. D[Kid(s, m, e)] \cap D[Kid(s, m, Opposite(e))] = {}
      BY DEF Shape
    <3> QED BY <3>3, <3>5, <3>6, <3>7, Sides
  <2> QED BY <2>1, <2>2
<1>12. ASSUME NEW m \in N, NEW e \in Dirs, NEW x \in E[Kid(t, m, e)], x # k
       PROVE  x \in D[Kid(s, m, e)] /\ x \in N
  <2>1. Kid(s, m, e) \in N \cup {NULL}
    BY NodeIs
  <2>2. CASE m = p /\ e = d
    BY <2>2, <1>3, <1>4, <1>12
  <2>3. CASE ~ (m = p /\ e = d)
    BY <2>1, <2>3, <1>1, <1>3, <1>4, <1>12
  <2> QED BY <2>2, <2>3
<1>13. k \in Nat /\ \A m \in N : KeyOf(s, m) \in Nat
  BY NodeIs, KeysAssumption
<1>14. ASSUME NEW m \in N \cup {k}
       PROVE  /\ \A x \in E[Kid(t, m, "left")] : KeyOf(t, x) < KeyOf(t, m)
              /\ \A x \in E[Kid(t, m, "right")] : KeyOf(t, x) > KeyOf(t, m)
  <2>1. CASE m = k
    BY <2>1, <1>3, <1>4, Sides
  <2>2. CASE m # k
    <3>1. m \in N
      BY <2>2
    <3>2. ASSUME NEW x \in E[Kid(t, m, "left")] PROVE KeyOf(t, x) < KeyOf(t, m)
      <4>1. CASE x = k
        <5>1. "left" = Toward(s, m, k) /\ KeyOf(s, m) # k
          BY <3>1, <4>1, <3>2, <1>11, Sides
        <5> QED BY <4>1, <5>1, <3>1, <1>3, <1>13, Sides DEF Toward
      <4>2. CASE x # k
        <5>1. x \in D[Kid(s, m, "left")] /\ x \in N
          BY <3>1, <3>2, <4>2, <1>12, Sides
        <5> QED BY <5>1, <3>1, <1>1, <1>3 DEF Sorted
      <4> QED BY <4>1, <4>2
    <3>3. ASSUME NEW x \in E[Kid(t, m, "right")] PROVE KeyOf(t, x) > KeyOf(t, m)
      <4>1. CASE x = k
        <5>1. "right" = Toward(s, m, k) /\ KeyOf(s, m) # k
          BY <3>1, <4>1, <3>3, <1>11, Sides
        <5> QED BY <4>1, <5>1, <3>1, <1>3, <1>13, Sides DEF Toward
      <4>2. CASE x # k
        <5>1. x \in D[Kid(s, m, "right")] /\ x \in N
          BY <3>1, <3>3, <4>2, <1>12, Sides
        <5> QED BY <5>1, <3>1, <1>1, <1>3 DEF Sorted
      <4> QED BY <4>1, <4>2
    <3> QED BY <3>2, <3>3
  <2> QED BY <2>1, <2>2
<1>15. Sorted(t, E, NULL)
  BY <1>3, <1>14 DEF Sorted
<1> QED BY <1>10, <1>15 DEF E

(***************************************************************************)
(* The first insertion makes a tree of one node.                           *)
(***************************************************************************)
LEMMA FirstTree ==
    ASSUME NEW s, NEW D, Typed(s), Shape(s, D), HeadOf(s) = NULL, NEW k \in Keys
    PROVE  LET t == [head |-> k, node |-> Added(s, k, NewNode(k, "BLACK", NULL))]
           IN  /\ Typed(t) /\ NodesOf(s) = {} /\ NodesOf(t) = {k} /\ HeadOf(t) = k
               /\ KeyOf(t, k) = k /\ DataOf(t, k) = k /\ Color(t, k) = "BLACK"
               /\ Up(t, k) = NULL /\ (\A d \in Dirs : Kid(t, k, d) = NULL)
               /\ \E E : Shape(t, E) /\ Sorted(t, E, NULL)
<1> DEFINE rec == NewNode(k, "BLACK", NULL)
           new == [m \in {k} |-> rec]
           P   == {k} \cup {NULL}
           t0  == [head |-> k, node |-> Added(s, k, rec)]
           t   == [head |-> k, node |-> new]
           E   == [m \in P |-> IF m = k THEN {k} ELSE {}]
<1>1. NodesOf(s) = {}
  BY DEF Shape
<1>2. Added(s, k, rec) = new
  <2> HIDE DEF rec
  <2> QED BY <1>1 DEF Added, NodesOf
<1>3. k # NULL
  BY KeysAssumption
<1>4. /\ rec \in NodeOf(P) /\ Field(rec, "key") = k /\ Field(rec, "data") = k
      /\ Field(rec, "color") = "BLACK" /\ Field(rec, "parent") = NULL
      /\ \A e \in Dirs : Field(rec, e) = NULL
  <2>1. NULL \in P /\ "BLACK" \in {"RED", "BLACK"}
    OBVIOUS
  <2> HIDE DEF P
  <2> QED BY <2>1, NewNodeIs
<1> HIDE DEF rec
<1>5. new \in [{k} -> NodeOf(P)] /\ new[k] = rec
  BY <1>4
<1>6. /\ Typed(t) /\ NodesOf(t) = {k} /\ HeadOf(t) = k /\ NodeAt(t, k) = new[k]
  <2>1. {k} \subseteq Keys /\ IsFiniteSet({k}) /\ k \in P
    BY FS_Singleton
  <2> HIDE DEF new
  <2> QED BY <2>1, <1>5, MadeOf
<1> HIDE DEF t, new
<1>7. /\ KeyOf(t, k) = k /\ DataOf(t, k) = k /\ Color(t, k) = "BLACK" /\ Up(t, k) = NULL
      /\ \A e \in Dirs : Kid(t, k, e) = NULL
  BY <1>4, <1>5, <1>6 DEF KeyOf, DataOf, Color, Up, Kid
<1>8. E \in [P -> SUBSET {k}] /\ E[k] = {k} /\ E[NULL] = {}
  BY <1>3
<1> HIDE DEF E
<1>9. Shape(t, E)
  BY <1>3, <1>6, <1>7, <1>8, Sides DEF Shape
<1>10. Sorted(t, E, NULL)
  BY <1>6, <1>7, <1>8, Sides DEF Sorted
<1>11. t0 = t
  BY <1>2 DEF t
<1> HIDE DEF t0
<1>12. /\ Typed(t0) /\ NodesOf(t0) = {k} /\ HeadOf(t0) = k
       /\ KeyOf(t0, k) = k /\ DataOf(t0, k) = k /\ Color(t0, k) = "BLACK"
       /\ Up(t0, k) = NULL /\ (\A d \in Dirs : Kid(t0, k, d) = NULL)
       /\ \E F : Shape(t0, F) /\ Sorted(t0, F, NULL)
  BY <1>6, <1>7, <1>9, <1>10, <1>11
<1> QED BY <1>1, <1>12 DEF t0, rec

-----------------------------------------------------------------------------
(***************************************************************************)
(* Taking the leaf out                                                     *)
(***************************************************************************)

\* The tree without the leaf res, its nodes not yet renamed.
Cut(s, res) ==
    LET p == s.node[res].parent
        cut == IF p = NULL THEN [s EXCEPT !.head = NULL]
               ELSE [s EXCEPT !.node[p][Direction(s, res)] = NULL]
    IN  [cut EXCEPT !.node = [n \in DOMAIN cut.node \ {res} |-> cut.node[n]]]

\* u is s without the node res.
Without(s, u, res) ==
    /\ NodesOf(u) = NodesOf(s) \ {res}
    /\ HeadOf(u) = IF HeadOf(s) = res THEN NULL ELSE HeadOf(s)
    /\ \A m \in NodesOf(s) \ {res} :
          /\ KeyOf(u, m) = KeyOf(s, m) /\ DataOf(u, m) = DataOf(s, m)
          /\ Color(u, m) = Color(s, m) /\ Up(u, m) = Up(s, m)
          /\ \A e \in Dirs : Kid(u, m, e) = IF Kid(s, m, e) = res THEN NULL ELSE Kid(s, m, e)

(***************************************************************************)
(* What Unlink does to the memory: the node res is gone and so is the      *)
(* pointer to it, which is found by comparing keys.                        *)
(***************************************************************************)
LEMMA CutIs ==
    ASSUME NEW s, NEW D, Typed(s), Shape(s, D), NEW res \in NodesOf(s), Sorted(s, D, res),
           NoKids(s, res)
    PROVE  Typed(Cut(s, res)) /\ Without(s, Cut(s, res), res)
<1> DEFINE N == NodesOf(s)
           M == N \ {res}
           P == M \cup {NULL}
           p == Up(s, res)
           d == Direction(s, res)
           new == [m \in M |-> IF m = p THEN Store(NodeAt(s, m), d, NULL) ELSE NodeAt(s, m)]
           h == IF HeadOf(s) = res THEN NULL ELSE HeadOf(s)
           t == [head |-> h, node |-> new]
<1>1. s = [head |-> s.head, node |-> s.node] /\ s.node = [m \in N |-> s.node[m]]
  BY DEF Typed, NodesOf
<1>2. NULL \notin N /\ res # NULL /\ p \in N \cup {NULL} /\ HeadOf(s) \in N \cup {NULL}
  <2>1. NULL \notin N /\ p \in N \cup {NULL}
    BY NodeIs
  <2> QED BY <2>1 DEF Typed, HeadOf
<1>3. (p = NULL <=> res = HeadOf(s)) /\ p # res
  <2>1. p # NULL => p # res
    BY Hangs
  <2> QED BY <2>1, <1>2 DEF Shape
<1>4. ASSUME NEW m \in M, NEW e \in Dirs
      PROVE  /\ Kid(s, m, e) = res <=> m = p /\ e = d
             /\ Kid(s, m, e) \in N \cup {NULL}
  <2>1. Kid(s, m, e) \in N \cup {NULL} /\ (Kid(s, m, e) # NULL => Up(s, Kid(s, m, e)) = m)
    BY NodeIs DEF Shape
  <2>2. p # NULL => /\ d \in Dirs /\ Kid(s, p, d) = res
                    /\ Kid(s, p, Opposite(d)) # res
    BY DirectionIs, Hangs
  <2>3. m = p => p # NULL
    BY <1>2
  <2> QED BY <2>1, <2>2, <2>3, <1>2, Sides
<1>5. ASSUME NEW m \in M PROVE Up(s, m) \in P
  <2>1. Up(s, m) \in N \cup {NULL}
    BY NodeIs
  <2>2. Up(s, m) # res
    <3> SUFFICES ASSUME Up(s, m) = res PROVE FALSE
      OBVIOUS
    <3>1. PICK e \in Dirs : Kid(s, res, e) = m
      BY <1>2 DEF Shape
    <3>2. m = NULL
      BY <3>1, Sides DEF NoKids
    <3> QED BY <3>2, <1>2
  <2> QED BY <2>1, <2>2
<1>6. Cut(s, res) = t
  <2> DEFINE cut == IF s.node[res].parent = NULL THEN [s EXCEPT !.head = NULL]
                    ELSE [s EXCEPT !.node[s.node[res].parent][Direction(s, res)] = NULL]
             old == [m \in N |-> IF m = p THEN Store(NodeAt(s, m), d, NULL) ELSE NodeAt(s, m)]
  <2>1. Cut(s, res) = [cut EXCEPT !.node = [n \in DOMAIN cut.node \ {res} |-> cut.node[n]]]
    BY Zenon DEF Cut
  <2>2. s.node[res].parent = p
    BY Zenon DEF Up, Field, NodeAt
  <2>3. cut = [head |-> h, node |-> old]
    <3>1. DOMAIN s = {"head", "node"}
      BY <1>1
    <3>2. CASE p = NULL
      <4>1. cut = [s EXCEPT !.head = NULL]
        BY <3>2, <2>2
      <4>2. old = [m \in N |-> s.node[m]]
        BY <3>2, <1>2 DEF NodeAt
      <4>3. [s EXCEPT !.head = NULL] = [head |-> NULL, node |-> s.node]
        BY <1>1
      <4>4. h = NULL
        BY <3>2, <1>3
      <4> HIDE DEF cut, old, h
      <4> QED BY <1>1, <4>1, <4>2, <4>3, <4>4
    <3>3. CASE p # NULL
      <4>1. cut = [s EXCEPT !.node[p][d] = NULL]
        BY <3>3, <2>2, Zenon
      <4>2. [s EXCEPT !.node[p][d] = NULL] = [s EXCEPT !.node = [s.node EXCEPT ![p][d] = NULL]]
        BY <3>1, Zenon
      <4>3. [s.node EXCEPT ![p][d] = NULL] = old
        <5> HIDE DEF p, d
        <5> QED BY Zenon DEF Store, NodeAt, NodesOf
      <4>4. h = s.head
        BY <3>3, <1>3 DEF HeadOf
      <4> HIDE DEF cut, old, h, p, d
      <4>5. [s EXCEPT !.node = old] = [head |-> s.head, node |-> old]
        BY <1>1
      <4>6. cut = [s EXCEPT !.node = old]
        BY <4>1, <4>2, <4>3, Zenon
      <4> QED BY <4>4, <4>5, <4>6, Zenon
    <3> QED BY <3>2, <3>3
  <2>4. cut.node = old /\ DOMAIN old = N
    <3>1. DOMAIN old = N
      OBVIOUS
    <3> HIDE DEF cut, old, h
    <3> QED BY <2>3, <3>1
  <2>5. [n \in DOMAIN cut.node \ {res} |-> cut.node[n]] = new
    <3>1. \A m \in N : old[m] = IF m = p THEN Store(NodeAt(s, m), d, NULL) ELSE NodeAt(s, m)
      OBVIOUS
    <3> HIDE DEF cut, old, p, d
    <3> QED BY <2>4, <3>1
  <2>6. [cut EXCEPT !.node = new] = t
    <3> HIDE DEF cut, old, new, h
    <3> QED BY <2>3
  <2> HIDE DEF cut, new, t
  <2> QED BY <2>1, <2>5, <2>6, Zenon
<1>7. p # NULL => d \in Dirs
  BY DirectionIs
<1>8. \A m \in M : m = p => p # NULL
  BY <1>2
<1> HIDE DEF p, d, h
<1>9. ASSUME NEW m \in M
      PROVE  /\ new[m] \in NodeOf(P)
             /\ \A f \in Fields : Field(new[m], f) =
                   IF m = p /\ f = d THEN NULL ELSE Field(NodeAt(s, m), f)
  <2>1. NodeAt(s, m) \in NodeOf(N \cup {NULL})
    BY NodeIs
  <2>2. new[m] = IF m = p THEN Store(NodeAt(s, m), d, NULL) ELSE NodeAt(s, m)
    OBVIOUS
  <2> DEFINE Q == N \cup {NULL}
  <2>3. NULL \in Q
    OBVIOUS
  <2> HIDE DEF Q, new
  <2>4. m = p => d \in Fields /\ Fits(Q, d, NULL)
    BY <1>7, <1>8, <2>3, Sides DEF Fits, Dirs
  <2>5. m = p => /\ Store(NodeAt(s, m), d, NULL) \in NodeOf(Q)
                 /\ \A f \in Fields : Field(Store(NodeAt(s, m), d, NULL), f)
                                        = IF f = d THEN NULL ELSE Field(NodeAt(s, m), f)
    BY <2>1, <2>4, StoreIs DEF Q
  <2>6. /\ new[m] \in NodeOf(Q)
        /\ \A f \in Fields : Field(new[m], f) =
              IF m = p /\ f = d THEN NULL ELSE Field(NodeAt(s, m), f)
    BY <2>1, <2>2, <2>5 DEF Q
  <2>7. Field(new[m], "left") \in P /\ Field(new[m], "right") \in P /\ Field(new[m], "parent") \in P
    <3>1. ASSUME NEW e \in Dirs PROVE Field(new[m], e) \in P
      <4>1. Field(new[m], e) = IF Kid(s, m, e) = res THEN NULL ELSE Kid(s, m, e)
        BY <2>6, <1>4, Sides DEF Kid
      <4> QED BY <4>1, <1>4
    <3>2. Field(new[m], "parent") = Up(s, m)
      <4>1. ~ (m = p /\ "parent" = d) /\ "parent" \in Fields
        BY <1>7, <1>8, Sides
      <4> QED BY <4>1, <2>6 DEF Up
    <3> QED BY <3>1, <3>2, <1>5, Sides
  <2>8. new[m] \in NodeOf(P)
    <3> HIDE DEF P
    <3> QED BY <2>6, <2>7, NodeIn
  <2> QED BY <2>6, <2>8
<1>10. new \in [M -> NodeOf(P)]
  <2>1. new = [m \in M |-> new[m]]
    OBVIOUS
  <2> HIDE DEF new, P
  <2> QED BY <1>9, <2>1
<1> HIDE DEF new
<1>11. M \subseteq Keys /\ IsFiniteSet(M) /\ h \in P
  <2>1. N \subseteq Keys /\ IsFiniteSet(N) /\ M \in SUBSET N
    BY DEF Typed
  <2>2. h \in P
    BY <1>2 DEF h
  <2>3. IsFiniteSet(M)
    BY <2>1, FS_Subset
  <2> QED BY <2>1, <2>2, <2>3
<1>12. /\ Typed(t) /\ NodesOf(t) = M /\ HeadOf(t) = h
       /\ \A m \in M : NodeAt(t, m) = new[m]
  <2> HIDE DEF M
  <2> QED BY <1>10, <1>11, MadeOf
<1> HIDE DEF t
<1>13. ASSUME NEW m \in M
       PROVE  /\ KeyOf(t, m) = KeyOf(s, m) /\ DataOf(t, m) = DataOf(s, m)
              /\ Color(t, m) = Color(s, m) /\ Up(t, m) = Up(s, m)
              /\ \A e \in Dirs : Kid(t, m, e) = IF Kid(s, m, e) = res THEN NULL ELSE Kid(s, m, e)
  <2>1. \A f \in Fields : Field(NodeAt(t, m), f)
                            = IF m = p /\ f = d THEN NULL ELSE Field(NodeAt(s, m), f)
    BY <1>9, <1>12
  <2>2. /\ "key" \in Fields /\ "data" \in Fields /\ "parent" \in Fields /\ "color" \in Fields
        /\ \A e \in Dirs : e \in Fields
        /\ m = p => d # "key" /\ d # "data" /\ d # "parent" /\ d # "color"
    BY <1>7, <1>8, Sides
  <2>3. KeyOf(t, m) = KeyOf(s, m) /\ DataOf(t, m) = DataOf(s, m)
    BY <2>1, <2>2 DEF KeyOf, DataOf
  <2>4. Color(t, m) = Color(s, m) /\ Up(t, m) = Up(s, m)
    BY <2>1, <2>2 DEF Color, Up
  <2>5. \A e \in Dirs : Kid(t, m, e) = IF m = p /\ e = d THEN NULL ELSE Kid(s, m, e)
    BY <2>1, <2>2 DEF Kid
  <2> QED BY <2>3, <2>4, <2>5, <1>4
<1>14. Without(s, t, res)
  BY <1>12, <1>13 DEF Without, h
<1> QED BY <1>6, <1>12, <1>14

(***************************************************************************)
(* Without the leaf the rest is a tree, and its keys are all different.    *)
(***************************************************************************)
LEMMA CutTree ==
    ASSUME NEW s, NEW u, NEW D, Typed(s), Shape(s, D), NEW res \in NodesOf(s),
           Sorted(s, D, res), NoKids(s, res), Typed(u), Without(s, u, res)
    PROVE  LET E == [m \in (NodesOf(s) \ {res}) \cup {NULL} |-> D[m] \ {res}]
           IN  Shape(u, E) /\ Sorted(u, E, NULL)
<1> DEFINE N == NodesOf(s)
           M == N \ {res}
           E == [m \in M \cup {NULL} |-> D[m] \ {res}]
<1>1. NULL \notin N /\ res # NULL /\ HeadOf(s) \in N \cup {NULL}
  <2>1. NULL \notin N
    BY NodeIs
  <2> QED BY <2>1 DEF Typed, HeadOf
<1>2. D[NULL] = {} /\ D[HeadOf(s)] = N /\ \A m \in N \cup {NULL} : D[m] \subseteq N
  BY DEF Shape
<1>3. D[res] = {res}
  BY <1>2, Sides DEF Shape, NoKids
<1>4. /\ NodesOf(u) = M
      /\ HeadOf(u) = IF HeadOf(s) = res THEN NULL ELSE HeadOf(s)
      /\ \A m \in M :
            /\ KeyOf(u, m) = KeyOf(s, m) /\ Up(u, m) = Up(s, m)
            /\ \A e \in Dirs : Kid(u, m, e) = IF Kid(s, m, e) = res THEN NULL ELSE Kid(s, m, e)
  BY DEF Without
<1>5. /\ E \in [M \cup {NULL} -> SUBSET M]
      /\ \A m \in M \cup {NULL} : E[m] = D[m] \ {res}
  BY <1>2
<1> HIDE DEF E
<1>6. ASSUME NEW m \in M, NEW e \in Dirs
      PROVE  E[Kid(u, m, e)] = D[Kid(s, m, e)] \ {res}
  <2>1. Kid(s, m, e) \in N \cup {NULL}
    BY NodeIs
  <2> QED BY <2>1, <1>2, <1>3, <1>4, <1>5
<1>7. ASSUME NEW m \in M, NEW e \in Dirs
      PROVE  /\ E[m] = {m} \cup E[Kid(u, m, e)] \cup E[Kid(u, m, Opposite(e))]
             /\ E[Kid(u, m, e)] \cap E[Kid(u, m, Opposite(e))] = {}
             /\ m \notin E[Kid(u, m, e)]
             /\ Kid(u, m, e) # NULL => Up(u, Kid(u, m, e)) = m
  <2>1. Opposite(e) \in Dirs /\ Kid(s, m, e) \in N \cup {NULL}
    BY Sides, NodeIs
  <2>2. /\ D[m] = {m} \cup D[Kid(s, m, e)] \cup D[Kid(s, m, Opposite(e))]
        /\ D[Kid(s, m, e)] \cap D[Kid(s, m, Opposite(e))] = {}
        /\ m \notin D[Kid(s, m, e)]
        /\ Kid(s, m, e) # NULL => Up(s, Kid(s, m, e)) = m
    BY DEF Shape
  <2>3. /\ E[Kid(u, m, e)] = D[Kid(s, m, e)] \ {res} /\ E[m] = D[m] \ {res}
        /\ E[Kid(u, m, Opposite(e))] = D[Kid(s, m, Opposite(e))] \ {res}
    BY <2>1, <1>5, <1>6
  <2>4. Kid(u, m, e) # NULL => Up(u, Kid(u, m, e)) = m
    BY <2>1, <2>2, <1>4
  <2> QED BY <2>2, <2>3, <2>4
<1>8. E[NULL] = {} /\ E[HeadOf(u)] = M /\ (HeadOf(u) # NULL => Up(u, HeadOf(u)) = NULL)
  <2>1. CASE HeadOf(s) = res
    BY <2>1, <1>2, <1>3, <1>4, <1>5
  <2>2. CASE HeadOf(s) # res
    <3>1. HeadOf(s) # NULL => Up(s, HeadOf(s)) = NULL
      BY DEF Shape
    <3> QED BY <2>2, <3>1, <1>1, <1>2, <1>4, <1>5
  <2> QED BY <2>1, <2>2
<1>9. ASSUME NEW m \in M
      PROVE  /\ Up(u, m) = NULL => m = HeadOf(u)
             /\ Up(u, m) # NULL => \E d \in Dirs : Kid(u, Up(u, m), d) = m
  <2>1. Up(s, m) \in N \cup {NULL}
    BY NodeIs
  <2>2. CASE Up(s, m) = NULL
    BY <2>2, <1>4 DEF Shape
  <2>3. CASE Up(s, m) # NULL
    <3>1. PICK e \in Dirs : Kid(s, Up(s, m), e) = m
      BY <2>3 DEF Shape
    <3>2. Up(s, m) # res
      BY <3>1, <1>1, Sides DEF NoKids
    <3> QED BY <2>1, <2>3, <3>1, <3>2, <1>4
  <2> QED BY <2>2, <2>3
<1>10. Shape(u, E)
  BY <1>4, <1>5, <1>7, <1>8, <1>9 DEF Shape
<1>11. Sorted(u, E, NULL)
  <2>1. \A m \in N, e \in Dirs : D[Kid(s, m, e)] \subseteq N
    BY NodeIs DEF Shape
  <2>2. ASSUME NEW m \in M
        PROVE  /\ \A x \in E[Kid(u, m, "left")] : KeyOf(u, x) < KeyOf(u, m)
               /\ \A x \in E[Kid(u, m, "right")] : KeyOf(u, x) > KeyOf(u, m)
    <3>1. /\ E[Kid(u, m, "left")] = D[Kid(s, m, "left")] \ {res}
          /\ E[Kid(u, m, "right")] = D[Kid(s, m, "right")] \ {res}
      BY <1>6, Sides
    <3>2. /\ \A x \in D[Kid(s, m, "left")] \ {res} : x \in M /\ KeyOf(s, x) < KeyOf(s, m)
          /\ \A x \in D[Kid(s, m, "right")] \ {res} : x \in M /\ KeyOf(s, x) > KeyOf(s, m)
      BY <2>1, KidKeys, Sides
    <3> QED BY <3>1, <3>2, <1>4
  <2> QED BY <2>2, <1>4 DEF Sorted
<1> QED BY <1>10, <1>11 DEF E

Name(s, n) == IF n = NULL THEN NULL ELSE KeyOf(s, n)

\* v is u with every node named after its key.
Renamed(u, v) ==
    /\ NodesOf(v) = {KeyOf(u, n) : n \in NodesOf(u)} /\ HeadOf(v) = Name(u, HeadOf(u))
    /\ \A n \in NodesOf(u) :
          /\ KeyOf(v, KeyOf(u, n)) = KeyOf(u, n)
          /\ DataOf(v, KeyOf(u, n)) = DataOf(u, n)
          /\ Color(v, KeyOf(u, n)) = Color(u, n)
          /\ Up(v, KeyOf(u, n)) = Name(u, Up(u, n))
          /\ \A d \in Dirs : Kid(v, KeyOf(u, n), d) = Name(u, Kid(u, n, d))

(***************************************************************************)
(* What giving the nodes their names back does to the memory.              *)
(***************************************************************************)
LEMMA RenamedIs ==
    ASSUME NEW u, NEW E, Typed(u), Shape(u, E), Sorted(u, E, NULL)
    PROVE  Typed(Named(u)) /\ Renamed(u, Named(u))
<1> DEFINE M == NodesOf(u)
           K == {KeyOf(u, n) : n \in M}
           P == K \cup {NULL}
           inv(k) == CHOOSE m \in M : KeyOf(u, m) = k
           rec(n) == Store(Store(Store(NodeAt(u, n), "left", Name(u, Kid(u, n, "left"))),
                                 "right", Name(u, Kid(u, n, "right"))),
                           "parent", Name(u, Up(u, n)))
           new == [k \in K |-> rec(inv(k))]
           t == [head |-> Name(u, HeadOf(u)), node |-> new]
<1>1. NULL \notin M
  BY NodeIs
<1>2. \A x, y \in M : KeyOf(u, x) = KeyOf(u, y) => x = y
  BY <1>1, KeysDiffer
<1>3. \A n \in M : inv(KeyOf(u, n)) = n
  BY <1>2
<1>4. Named(u) = t
  <2> DEFINE name(n) == IF n = NULL THEN NULL ELSE u.node[n].key
             edit(n) == [u.node[n] EXCEPT !.left = name(@), !.right = name(@),
                                          !.parent = name(@)]
             pick(k) == CHOOSE m \in DOMAIN u.node : u.node[m].key = k
             S == {name(n) : n \in DOMAIN u.node}
             raw == [k \in S |-> edit(pick(k))]
  <2>1. Named(u) = [head |-> name(u.head), node |-> raw]
    BY Zenon DEF Named
  <2>2. name(u.head) = Name(u, HeadOf(u))
    BY Zenon DEF Name, HeadOf, KeyOf, Field, NodeAt
  <2>3. S = K
    <3>1. \A n \in M : name(n) = KeyOf(u, n)
      BY <1>1, Zenon DEF KeyOf, Field, NodeAt
    <3> HIDE DEF name
    <3> QED BY <3>1 DEF NodesOf
  <2>4. ASSUME NEW n
        PROVE  edit(n) = Store(Store(Store(NodeAt(u, n), "left", name(u.node[n].left)),
                                     "right", name(u.node[n].right)),
                               "parent", name(u.node[n].parent))
    <3> HIDE DEF name
    <3> QED BY Zenon DEF Store, NodeAt
  <2>5. ASSUME NEW n
        PROVE  Store(Store(Store(NodeAt(u, n), "left", name(u.node[n].left)),
                           "right", name(u.node[n].right)),
                     "parent", name(u.node[n].parent)) = rec(n)
    BY Zenon DEF Name, Kid, Up, KeyOf, Field, NodeAt
  <2>6. ASSUME NEW k PROVE pick(k) = inv(k)
    BY Zenon DEF NodesOf, KeyOf, Field, NodeAt
  <2>7. raw = new
    <3> HIDE DEF name, rec, inv, edit, pick, S
    <3>1. \A n : edit(n) = rec(n)
      BY <2>4, <2>5, Zenon
    <3>2. \A k : pick(k) = inv(k)
      BY <2>6, Zenon
    <3> HIDE DEF K
    <3> QED BY <2>3, <3>1, <3>2
  <2> HIDE DEF name, raw, new
  <2> QED BY <2>1, <2>2, <2>7, Zenon
<1>5. \A n \in M \cup {NULL} : Name(u, n) \in P
  BY DEF Name
<1>6. HeadOf(u) \in M \cup {NULL}
  BY DEF Typed, HeadOf
<1>7. ASSUME NEW n \in M
      PROVE  /\ rec(n) \in NodeOf(P)
             /\ \A f \in Fields : Field(rec(n), f) =
                   IF f = "parent" THEN Name(u, Up(u, n))
                   ELSE IF f \in Dirs THEN Name(u, Kid(u, n, f))
                   ELSE Field(NodeAt(u, n), f)
  <2> DEFINE Q == M \cup {NULL} \cup P
             l == Name(u, Kid(u, n, "left"))
             r == Name(u, Kid(u, n, "right"))
             a == Name(u, Up(u, n))
             r1 == Store(NodeAt(u, n), "left", l)
             r2 == Store(r1, "right", r)
  <2>1. l \in P /\ r \in P /\ a \in P
    BY <1>5, NodeIs, Sides
  <2>2. NodeAt(u, n) \in NodeOf(Q)
    <3>1. /\ Kid(u, n, "left") \in Q /\ Kid(u, n, "right") \in Q /\ Up(u, n) \in Q
          /\ NodeAt(u, n) \in NodeOf(M \cup {NULL})
      BY NodeIs, Sides
    <3> HIDE DEF Q
    <3> QED BY <3>1, NodeIn DEF Kid, Up
  <2>3. l \in Q /\ r \in Q /\ a \in Q
    BY <2>1
  <2> HIDE DEF Q, l, r, a
  <2>4. /\ "left" \in Fields /\ "right" \in Fields /\ "parent" \in Fields
        /\ Fits(Q, "left", l) /\ Fits(Q, "right", r) /\ Fits(Q, "parent", a)
    BY <2>3 DEF Fields, Fits
  <2>5. /\ r1 \in NodeOf(Q)
        /\ \A f \in Fields : Field(r1, f) = IF f = "left" THEN l ELSE Field(NodeAt(u, n), f)
    BY <2>2, <2>4, StoreIs
  <2> HIDE DEF r1
  <2>6. /\ r2 \in NodeOf(Q)
        /\ \A f \in Fields : Field(r2, f) = IF f = "right" THEN r ELSE Field(r1, f)
    BY <2>4, <2>5, StoreIs
  <2> HIDE DEF r2
  <2>7. /\ Store(r2, "parent", a) \in NodeOf(Q)
        /\ \A f \in Fields : Field(Store(r2, "parent", a), f)
                               = IF f = "parent" THEN a ELSE Field(r2, f)
    BY <2>4, <2>6, StoreIs
  <2>8. rec(n) = Store(r2, "parent", a)
    BY DEF r1, r2, l, r, a
  <2> HIDE DEF rec
  <2>9. \A f \in Fields : Field(rec(n), f) =
                   IF f = "parent" THEN a ELSE IF f = "left" THEN l
                   ELSE IF f = "right" THEN r ELSE Field(NodeAt(u, n), f)
    BY <2>5, <2>6, <2>7, <2>8, Sides
  <2>10. rec(n) \in NodeOf(P)
    <3>1. Field(rec(n), "left") \in P /\ Field(rec(n), "right") \in P /\ Field(rec(n), "parent") \in P
      BY <2>1, <2>4, <2>9
    <3>2. rec(n) \in NodeOf(Q)
      BY <2>7, <2>8
    <3> HIDE DEF P
    <3> QED BY <3>1, <3>2, NodeIn
  <2> QED BY <2>9, <2>10, Sides DEF l, r, a
<1> HIDE DEF rec, inv
<1>8. \A n \in M : new[KeyOf(u, n)] = rec(n)
  BY <1>3
<1>9. new \in [K -> NodeOf(P)]
  <2>1. new = [k \in K |-> new[k]]
    OBVIOUS
  <2>2. \A k \in K : new[k] \in NodeOf(P)
    <3> HIDE DEF new, P
    <3> QED BY <1>7, <1>8
  <2> HIDE DEF new, P, K
  <2> QED BY <2>1, <2>2
<1>10. K \subseteq Keys /\ IsFiniteSet(K) /\ Name(u, HeadOf(u)) \in P
  <2>1. IsFiniteSet(K)
    <3> DEFINE f == [n \in M |-> KeyOf(u, n)]
    <3>1. f \in Surjection(M, K)
      BY DEF Surjection
    <3>2. IsFiniteSet(M)
      BY DEF Typed
    <3> HIDE DEF f, K
    <3> QED BY <3>1, <3>2, FS_Surjection
  <2>2. \A n \in M : KeyOf(u, n) \in Keys
    BY NodeIs
  <2> QED BY <2>1, <2>2, <1>5, <1>6
<1> HIDE DEF new
<1>11. /\ Typed(t) /\ NodesOf(t) = K /\ HeadOf(t) = Name(u, HeadOf(u))
       /\ \A k \in K : NodeAt(t, k) = new[k]
  <2> HIDE DEF K
  <2> QED BY <1>9, <1>10, MadeOf
<1> HIDE DEF t
<1>12. ASSUME NEW n \in M
       PROVE  /\ KeyOf(t, KeyOf(u, n)) = KeyOf(u, n) /\ DataOf(t, KeyOf(u, n)) = DataOf(u, n)
              /\ Color(t, KeyOf(u, n)) = Color(u, n) /\ Up(t, KeyOf(u, n)) = Name(u, Up(u, n))
              /\ \A d \in Dirs : Kid(t, KeyOf(u, n), d) = Name(u, Kid(u, n, d))
  <2>1. \A f \in Fields : Field(NodeAt(t, KeyOf(u, n)), f) =
                   IF f = "parent" THEN Name(u, Up(u, n))
                   ELSE IF f \in Dirs THEN Name(u, Kid(u, n, f))
                   ELSE Field(NodeAt(u, n), f)
    BY <1>7, <1>8, <1>11
  <2>2. /\ "key" \in Fields /\ "data" \in Fields /\ "parent" \in Fields /\ "color" \in Fields
        /\ "key" \notin Dirs /\ "data" \notin Dirs /\ "color" \notin Dirs
        /\ \A e \in Dirs : e \in Fields /\ e # "parent"
    BY Sides
  <2>3. KeyOf(t, KeyOf(u, n)) = KeyOf(u, n) /\ DataOf(t, KeyOf(u, n)) = DataOf(u, n)
    <3>1. /\ KeyOf(t, KeyOf(u, n)) = Field(NodeAt(t, KeyOf(u, n)), "key")
          /\ KeyOf(u, n) = Field(NodeAt(u, n), "key")
          /\ DataOf(t, KeyOf(u, n)) = Field(NodeAt(t, KeyOf(u, n)), "data")
          /\ DataOf(u, n) = Field(NodeAt(u, n), "data")
      BY Zenon DEF KeyOf, DataOf
    <3> QED BY <2>1, <2>2, <3>1
  <2>4. Color(t, KeyOf(u, n)) = Color(u, n) /\ Up(t, KeyOf(u, n)) = Name(u, Up(u, n))
    <3>1. /\ Color(t, KeyOf(u, n)) = Field(NodeAt(t, KeyOf(u, n)), "color")
          /\ Color(u, n) = Field(NodeAt(u, n), "color")
          /\ Up(t, KeyOf(u, n)) = Field(NodeAt(t, KeyOf(u, n)), "parent")
      BY Zenon DEF Color, Up
    <3> QED BY <2>1, <2>2, <3>1
  <2>5. ASSUME NEW d \in Dirs PROVE Kid(t, KeyOf(u, n), d) = Name(u, Kid(u, n, d))
    <3>1. Kid(t, KeyOf(u, n), d) = Field(NodeAt(t, KeyOf(u, n)), d)
      BY Zenon DEF Kid
    <3> QED BY <2>1, <2>2, <3>1
  <2> QED BY <2>3, <2>4, <2>5
<1>13. Renamed(u, t)
  BY <1>11, <1>12 DEF Renamed
<1> QED BY <1>4, <1>11, <1>13

(***************************************************************************)
(* The names do not matter.                                                *)
(***************************************************************************)
LEMMA RenamedTree ==
    ASSUME NEW u, NEW v, NEW E, Typed(u), Shape(u, E), Sorted(u, E, NULL), Typed(v),
           Renamed(u, v)
    PROVE  \E F : Shape(v, F) /\ Sorted(v, F, NULL)
<1> DEFINE M == NodesOf(u)
           K == {KeyOf(u, n) : n \in M}
           inv(k) == CHOOSE m \in M : KeyOf(u, m) = k
           Img(S) == {KeyOf(u, x) : x \in S}
           F == [k \in K \cup {NULL} |-> IF k = NULL THEN {} ELSE Img(E[inv(k)])]
<1>1. NULL \notin M /\ HeadOf(u) \in M \cup {NULL}
  <2>1. NULL \notin M
    BY NodeIs
  <2> QED BY <2>1 DEF Typed, HeadOf
<1>2. \A x, y \in M : KeyOf(u, x) = KeyOf(u, y) => x = y
  BY <1>1, KeysDiffer
<1>3. \A n \in M : inv(KeyOf(u, n)) = n
  BY <1>2
<1>4. \A n \in M : KeyOf(u, n) # NULL /\ KeyOf(u, n) \in Nat /\ KeyOf(u, n) \in K
  <2>1. \A n \in M : KeyOf(u, n) \in Keys /\ KeyOf(u, n) \in Nat
    BY NodeIs
  <2> QED BY <2>1, KeysAssumption
<1>5. E[NULL] = {} /\ E[HeadOf(u)] = M /\ \A n \in M \cup {NULL} : E[n] \subseteq M
  BY DEF Shape
<1> HIDE DEF inv
<1>6. \A n \in M \cup {NULL} : F[Name(u, n)] = Img(E[n])
  <2>1. F[NULL] = {}
    OBVIOUS
  <2>2. \A n \in M : F[KeyOf(u, n)] = Img(E[n])
    BY <1>3, <1>4
  <2> HIDE DEF F
  <2> QED BY <2>1, <2>2, <1>1, <1>5 DEF Name
<1>7. F \in [K \cup {NULL} -> SUBSET K] /\ F[NULL] = {}
  <2>1. \A k \in K : inv(k) \in M
    BY <1>3
  <2> QED BY <2>1, <1>5
<1> HIDE DEF F
<1>8. /\ NodesOf(v) = K /\ HeadOf(v) = Name(u, HeadOf(u))
      /\ \A n \in M :
            /\ KeyOf(v, KeyOf(u, n)) = KeyOf(u, n)
            /\ Up(v, KeyOf(u, n)) = Name(u, Up(u, n))
            /\ \A d \in Dirs : Kid(v, KeyOf(u, n), d) = Name(u, Kid(u, n, d))
  BY DEF Renamed
<1>9. \A n \in M \cup {NULL} : (Name(u, n) = NULL <=> n = NULL) /\ (n # NULL => Name(u, n) = KeyOf(u, n))
  BY <1>1, <1>4 DEF Name
<1>10. ASSUME NEW n \in M, NEW d \in Dirs
       PROVE  /\ Kid(u, n, d) \in M \cup {NULL} /\ E[Kid(u, n, d)] \subseteq M
              /\ F[Kid(v, KeyOf(u, n), d)] = Img(E[Kid(u, n, d)])
  <2>1. Kid(u, n, d) \in M \cup {NULL}
    BY NodeIs
  <2> HIDE DEF Img
  <2> QED BY <2>1, <1>5, <1>6, <1>8
<1>11. ASSUME NEW k \in K, NEW d \in Dirs
       PROVE  /\ F[k] = {k} \cup F[Kid(v, k, d)] \cup F[Kid(v, k, Opposite(d))]
              /\ F[Kid(v, k, d)] \cap F[Kid(v, k, Opposite(d))] = {}
              /\ k \notin F[Kid(v, k, d)]
              /\ Kid(v, k, d) # NULL => Up(v, Kid(v, k, d)) = k
  <2>1. PICK n \in M : k = KeyOf(u, n)
    OBVIOUS
  <2> DEFINE x == Kid(u, n, d)
             y == Kid(u, n, Opposite(d))
  <2>2. Opposite(d) \in Dirs
    BY Sides
  <2>3. /\ E[n] = {n} \cup E[x] \cup E[y] /\ E[x] \cap E[y] = {} /\ n \notin E[x]
        /\ x # NULL => Up(u, x) = n
    BY <2>2 DEF Shape
  <2>4. /\ F[k] = Img(E[n]) /\ F[Kid(v, k, d)] = Img(E[x])
        /\ F[Kid(v, k, Opposite(d))] = Img(E[y])
        /\ E[x] \subseteq M /\ E[y] \subseteq M /\ x \in M \cup {NULL}
    <3>1. Name(u, n) = k
      BY <2>1, <1>1, <1>9
    <3> HIDE DEF Img
    <3> QED BY <2>1, <2>2, <3>1, <1>6, <1>10
  <2>5. Kid(v, k, d) # NULL => Up(v, Kid(v, k, d)) = k
    <3>1. Kid(v, k, d) = Name(u, x)
      BY <2>1, <1>8
    <3>2. x # NULL => Up(v, KeyOf(u, x)) = Name(u, n)
      BY <2>3, <2>4, <1>8
    <3> HIDE DEF x
    <3> QED BY <2>1, <2>4, <3>1, <3>2, <1>1, <1>9
  <2> HIDE DEF x, y
  <2>6. Img(E[n]) = {k} \cup Img(E[x]) \cup Img(E[y])
    BY <2>1, <2>3
  <2>7. Img(E[x]) \cap Img(E[y]) = {}
    BY <2>3, <2>4, <1>2
  <2>8. k \notin Img(E[x])
    BY <2>1, <2>3, <2>4, <1>2
  <2> HIDE DEF Img
  <2> QED BY <2>4, <2>5, <2>6, <2>7, <2>8
<1>12. ASSUME NEW k \in K
       PROVE  /\ Up(v, k) = NULL => k = HeadOf(v)
              /\ Up(v, k) # NULL => \E d \in Dirs : Kid(v, Up(v, k), d) = k
  <2>1. PICK n \in M : k = KeyOf(u, n)
    OBVIOUS
  <2>2. Up(u, n) \in M \cup {NULL} /\ Up(v, k) = Name(u, Up(u, n)) /\ Name(u, n) = k
    BY <2>1, <1>1, <1>8, <1>9, NodeIs
  <2>3. CASE Up(u, n) = NULL
    <3>1. n = HeadOf(u) /\ Up(v, k) = NULL
      BY <2>2, <2>3, <1>9 DEF Shape
    <3> QED BY <2>2, <3>1, <1>8
  <2>4. CASE Up(u, n) # NULL
    <3>1. PICK d \in Dirs : Kid(u, Up(u, n), d) = n
      BY <2>4 DEF Shape
    <3>2. Up(v, k) = KeyOf(u, Up(u, n)) /\ Up(u, n) \in M
      BY <2>2, <2>4, <1>9
    <3>3. Kid(v, KeyOf(u, Up(u, n)), d) = Name(u, n)
      BY <3>1, <3>2, <1>8
    <3>4. Kid(v, Up(v, k), d) = k /\ Up(v, k) # NULL
      BY <2>2, <3>2, <3>3, <1>4
    <3> QED BY <3>4
  <2> QED BY <2>3, <2>4
<1>13. F[HeadOf(v)] = K /\ (HeadOf(v) # NULL => Up(v, HeadOf(v)) = NULL)
  <2>1. F[HeadOf(v)] = Img(M)
    <3> HIDE DEF Img
    <3> QED BY <1>1, <1>5, <1>6, <1>8
  <2>2. HeadOf(u) # NULL => Up(u, HeadOf(u)) = NULL
    BY DEF Shape
  <2> QED BY <2>1, <2>2, <1>1, <1>8, <1>9
<1>14. Shape(v, F)
  <2> HIDE DEF K
  <2> QED BY <1>7, <1>8, <1>11, <1>12, <1>13 DEF Shape
<1>15. ASSUME NEW k \in K
       PROVE  /\ \A j \in F[Kid(v, k, "left")] : KeyOf(v, j) < KeyOf(v, k)
              /\ \A j \in F[Kid(v, k, "right")] : KeyOf(v, j) > KeyOf(v, k)
  <2>1. PICK n \in M : k = KeyOf(u, n)
    OBVIOUS
  <2>2. /\ F[Kid(v, k, "left")] = Img(E[Kid(u, n, "left")])
        /\ F[Kid(v, k, "right")] = Img(E[Kid(u, n, "right")])
        /\ E[Kid(u, n, "left")] \subseteq M /\ E[Kid(u, n, "right")] \subseteq M
    <3> HIDE DEF Img
    <3> QED BY <2>1, <1>10, Sides
  <2>3. /\ \A x \in E[Kid(u, n, "left")] : KeyOf(u, x) < KeyOf(u, n)
        /\ \A x \in E[Kid(u, n, "right")] : KeyOf(u, x) > KeyOf(u, n)
    BY <2>2, <1>1, KidKeys
  <2> QED BY <2>1, <2>2, <2>3, <1>8
<1>16. Sorted(v, F, NULL)
  <2> HIDE DEF K
  <2> QED BY <1>8, <1>15 DEF Sorted
<1> QED BY <1>14, <1>16

-----------------------------------------------------------------------------
(***************************************************************************)
(* The invariant of the tree                                               *)
(***************************************************************************)
Trunk(s, D, res) ==
    /\ Typed(s) /\ Shape(s, D) /\ Sorted(s, D, res)
    /\ ~IsRed(s, HeadOf(s))
    /\ \A n \in NodesOf(s) : DataOf(s, n) = KeyOf(s, n)

\* The keys in the tree, that of the node to take out left aside.
Holds(s, res, ks) ==
    /\ ks = {KeyOf(s, n) : n \in NodesOf(s) \ {res}}
    /\ res = NULL => \A n \in NodesOf(s) : KeyOf(s, n) = n

\* Where the running call is.
At(s, D, p, c, k, res) ==
    \/ p = "idle" /\ c = NULL /\ k = NULL /\ res = NULL
    \/ p = "insert" /\ res = NULL /\ c \in NodesOf(s) /\ k \in D[c] /\ k # c
    \/ p = "delete" /\ k = NULL /\ res \in NodesOf(s) /\ NoKids(s, res)
       /\ c \in NodesOf(s) /\ res \in D[c]
    \/ p = "unlink" /\ k = NULL /\ res \in NodesOf(s) /\ NoKids(s, res) /\ c \in NodesOf(s)

\* The invariant of the tree.
Tree(D) ==
    /\ Trunk(rbt, D, res_node) /\ Holds(rbt, res_node, keys)
    /\ At(rbt, D, pc, cur, key, res_node)

TreeInv == \E D : Tree(D)

(***************************************************************************)
(* IsRed in terms of the color field.                                      *)
(***************************************************************************)
LEMMA RedIs ==
    ASSUME NEW s, NEW n
    PROVE  IsRed(s, n) <=> n # NULL /\ Color(s, n) = "RED"
BY Zenon DEF IsRed, Color, Field, NodeAt

(***************************************************************************)
(* The way towards the key of a node goes to it.                           *)
(***************************************************************************)
LEMMA TowardIs ==
    ASSUME NEW s, NEW D, Typed(s), Shape(s, D), NEW res, Sorted(s, D, res),
           NEW a \in NodesOf(s), NEW x \in D[a], x # a, x # res
    PROVE  LET d == Toward(s, a, KeyOf(s, x))
           IN  d \in Dirs /\ x \in D[Kid(s, a, d)] /\ Kid(s, a, d) \in NodesOf(s)
<1>1. PICK d \in Dirs : x \in D[Kid(s, a, d)]
  BY Sides DEF Shape
<1>2. x \in NodesOf(s)
  BY Nested
<1>3. KeyOf(s, x) \in Nat /\ KeyOf(s, a) \in Nat
  BY <1>2, NodeIs
<1>4. Kid(s, a, d) \in NodesOf(s)
  <2>1. Kid(s, a, d) \in NodesOf(s) \cup {NULL}
    BY NodeIs
  <2> QED BY <1>1, <2>1 DEF Shape
<1>5. d = Toward(s, a, KeyOf(s, x))
  <2>1. CASE d = "left"
    BY <1>1, <1>3, <2>1, KidKeys DEF Toward
  <2>2. CASE d = "right"
    BY <1>1, <1>3, <2>2, KidKeys DEF Toward
  <2> QED BY <2>1, <2>2, Sides
<1> QED BY <1>1, <1>4, <1>5

(***************************************************************************)
(* A search that does not end at k shows that k is not there.              *)
(***************************************************************************)
LEMMA NotFound ==
    ASSUME NEW s, NEW D, Typed(s), Shape(s, D), Sorted(s, D, NULL), NEW n \in NodesOf(s),
           NEW k \in Nat, NEW p, Found(s, D, n, k, p), KeyOf(s, p) # k
    PROVE  \A x \in D[n] : KeyOf(s, x) # k
<1> SUFFICES ASSUME NEW x \in D[n], KeyOf(s, x) = k PROVE FALSE
  OBVIOUS
<1>1. p \in D[n] /\ x \in D[p] /\ x # p /\ Kid(s, p, Toward(s, p, k)) = NULL
  BY DEF Found
<1>2. p \in NodesOf(s) /\ x \in NodesOf(s) /\ NULL \notin NodesOf(s)
  BY <1>1, Nested
<1>3. Kid(s, p, Toward(s, p, k)) \in NodesOf(s)
  BY <1>1, <1>2, TowardIs
<1> QED BY <1>1, <1>2, <1>3

(***************************************************************************)
(* Painting keeps the tree, unless it makes the head red.                  *)
(***************************************************************************)
LEMMA PaintKeeps ==
    ASSUME NEW s, NEW D, NEW res, Trunk(s, D, res), NEW S, NEW c \in {"RED", "BLACK"},
           c = "RED" => HeadOf(s) \notin S
    PROVE  LET t == Paint(s, S, c)
           IN  /\ Trunk(t, D, res) /\ NodesOf(t) = NodesOf(s) /\ HeadOf(t) = HeadOf(s)
               /\ \A n \in NodesOf(s) :
                     /\ KeyOf(t, n) = KeyOf(s, n) /\ Up(t, n) = Up(s, n)
                     /\ \A d \in Dirs : Kid(t, n, d) = Kid(s, n, d)
                     /\ Color(t, n) = IF n \in S THEN c ELSE Color(s, n)
<1> DEFINE t == Paint(s, S, c)
<1>1. /\ Typed(s) /\ Shape(s, D) /\ Sorted(s, D, res) /\ ~IsRed(s, HeadOf(s))
      /\ \A n \in NodesOf(s) : DataOf(s, n) = KeyOf(s, n)
  BY DEF Trunk
<1>2. /\ Typed(t) /\ NodesOf(t) = NodesOf(s) /\ HeadOf(t) = HeadOf(s)
      /\ \A n \in NodesOf(s) :
            /\ KeyOf(t, n) = KeyOf(s, n) /\ DataOf(t, n) = DataOf(s, n) /\ Up(t, n) = Up(s, n)
            /\ \A d \in Dirs : Kid(t, n, d) = Kid(s, n, d)
            /\ Color(t, n) = IF n \in S THEN c ELSE Color(s, n)
  BY <1>1, PaintIs
<1> HIDE DEF t
<1>3. Shape(t, D) /\ Sorted(t, D, res)
  BY <1>1, <1>2, SameTree
<1>4. ~IsRed(t, HeadOf(t))
  <2>1. HeadOf(s) \in NodesOf(s) \cup {NULL}
    BY <1>1 DEF Typed, HeadOf
  <2>2. HeadOf(s) # NULL => Color(s, HeadOf(s)) # "RED"
    BY <1>1, RedIs
  <2>3. HeadOf(t) # NULL => Color(t, HeadOf(t)) # "RED"
    BY <1>2, <2>1, <2>2
  <2> QED BY <2>3, RedIs
<1>5. \A n \in NodesOf(t) : DataOf(t, n) = KeyOf(t, n)
  BY <1>1, <1>2
<1>6. Trunk(t, D, res)
  BY <1>2, <1>3, <1>4, <1>5 DEF Trunk
<1> QED BY <1>2, <1>6 DEF t

(***************************************************************************)
(* A rotation keeps the tree, its keys and the nodes without kids, and it  *)
(* puts the node that comes up where the node that goes down was.          *)
(***************************************************************************)
LEMMA RotateKeeps ==
    ASSUME NEW s, NEW D, NEW res, Trunk(s, D, res), NEW n \in NodesOf(s), NEW d \in Dirs,
           Kid(s, n, Opposite(d)) # NULL, Kid(s, n, Opposite(d)) # res
    PROVE  LET t == Rotate(s, n, d)
               c == Kid(s, n, Opposite(d))
               E == TurnedD(s, D, n, d)
           IN  /\ Trunk(t, E, res) /\ NodesOf(t) = NodesOf(s)
               /\ \A m \in NodesOf(s) : KeyOf(t, m) = KeyOf(s, m)
               /\ \A m \in NodesOf(s) : m # n /\ m # c => E[m] = D[m]
               /\ \A m \in NodesOf(s) : NoKids(s, m) /\ m # c => NoKids(t, m)
               /\ \E side \in Dirs : /\ Turned(s, t, n, d, side, Up(s, n), c, Kid(s, c, d))
                                     /\ Up(s, n) # NULL => Kid(s, Up(s, n), side) = n
<1> DEFINE t == Rotate(s, n, d)
           c == Kid(s, n, Opposite(d))
           E == TurnedD(s, D, n, d)
           up == Up(s, n)
<1>1. /\ Typed(s) /\ Shape(s, D) /\ Sorted(s, D, res) /\ ~IsRed(s, HeadOf(s))
      /\ \A m \in NodesOf(s) : DataOf(s, m) = KeyOf(s, m)
  BY DEF Trunk
<1>2. /\ Typed(t) /\ Shape(t, E) /\ Sorted(t, E, res)
      /\ \E side \in Dirs : /\ Turned(s, t, n, d, side, up, c, Kid(s, c, d))
                            /\ up # NULL => Kid(s, up, side) = n
  BY <1>1, RotateTree
<1>3. PICK side \in Dirs : /\ Turned(s, t, n, d, side, up, c, Kid(s, c, d))
                           /\ up # NULL => Kid(s, up, side) = n
  BY <1>2
<1>4. /\ c \in NodesOf(s) /\ Up(s, c) = n /\ n # NULL /\ n # c /\ up \in NodesOf(s) \cup {NULL}
  <2>1. n # NULL
    BY <1>1, NodeIs
  <2> QED BY <1>1, <2>1, Pivot
<1>5. \A m \in NodesOf(s) : m # n /\ m # c => E[m] = D[m]
  BY DEF TurnedD
<1> HIDE DEF t, E
<1>6. /\ NodesOf(t) = NodesOf(s) /\ HeadOf(t) = IF n = HeadOf(s) THEN c ELSE HeadOf(s)
      /\ \A m \in NodesOf(s) :
            /\ KeyOf(t, m) = KeyOf(s, m) /\ DataOf(t, m) = DataOf(s, m)
            /\ Color(t, m) = IF m = c THEN Color(s, n)
                             ELSE IF m = n THEN Color(s, c) ELSE Color(s, m)
            /\ \A e \in Dirs :
                  Kid(t, m, e) = IF m = c /\ e = d THEN n
                                 ELSE IF m = n /\ e = Opposite(d) THEN Kid(s, c, d)
                                 ELSE IF m = up /\ e = side THEN c ELSE Kid(s, m, e)
  BY <1>3 DEF Turned
<1>7. ~IsRed(t, HeadOf(t))
  <2>1. HeadOf(s) \in NodesOf(s) \cup {NULL} /\ (HeadOf(s) # NULL => HeadOf(s) # c)
    <3>1. HeadOf(s) \in NodesOf(s) \cup {NULL}
      BY <1>1 DEF Typed, HeadOf
    <3> QED BY <3>1, <1>1, <1>4 DEF Shape
  <2>2. HeadOf(s) # NULL => Color(s, HeadOf(s)) # "RED"
    BY <1>1, RedIs
  <2>3. HeadOf(t) # NULL => Color(t, HeadOf(t)) # "RED"
    BY <1>4, <1>6, <2>1, <2>2
  <2> QED BY <2>3, RedIs
<1>8. Trunk(t, E, res)
  BY <1>1, <1>2, <1>6, <1>7 DEF Trunk
<1>9. ASSUME NEW m \in NodesOf(s), NoKids(s, m), m # c
      PROVE  NoKids(t, m)
  <2>1. \A e \in Dirs : Kid(s, m, e) = NULL
    BY <1>9, Sides DEF NoKids
  <2>2. m # n
    BY <2>1, Sides
  <2>3. ASSUME m = up PROVE FALSE
    BY <2>1, <2>3, <1>1, <1>3, <1>4, NodeIs
  <2> QED BY <2>1, <2>2, <2>3, <1>6, <1>9, Sides DEF NoKids
<1> QED BY <1>3, <1>5, <1>6, <1>8, <1>9 DEF t, E

-----------------------------------------------------------------------------
(***************************************************************************)
(* The steps keep the tree                                                 *)
(***************************************************************************)

(***************************************************************************)
(* A red node has a parent, because the head is never red.                 *)
(***************************************************************************)
LEMMA RedHangs ==
    ASSUME NEW s, NEW D, NEW res, Trunk(s, D, res), NEW n \in NodesOf(s), IsRed(s, n)
    PROVE  Up(s, n) \in NodesOf(s)
<1>1. Typed(s) /\ Shape(s, D) /\ ~IsRed(s, HeadOf(s))
  BY DEF Trunk
<1>2. Up(s, n) # NULL
  BY <1>1 DEF Shape
<1> QED BY <1>1, <1>2, Hangs

(***************************************************************************)
(* The empty tree is one.                                                  *)
(***************************************************************************)
LEMMA InitTree ==
    ASSUME Init
    PROVE  TreeInv
<1> DEFINE D == [m \in {NULL} |-> {}]
<1>1. /\ HeadOf(rbt) = NULL /\ NodesOf(rbt) = {} /\ Typed(rbt)
  <2>1. IsFiniteSet({})
    BY FS_EmptySet
  <2>2. [n \in {} |-> NULL] \in [{} -> NodeOf({} \cup {NULL})]
    OBVIOUS
  <2> QED BY <2>1, <2>2, MadeOf DEF Init
<1>2. Shape(rbt, D) /\ Sorted(rbt, D, NULL)
  BY <1>1 DEF Shape, Sorted
<1>3. Trunk(rbt, D, NULL) /\ Holds(rbt, NULL, {})
  BY <1>1, <1>2 DEF Trunk, Holds, IsRed
<1> QED BY <1>3 DEF TreeInv, Tree, At, Init

(***************************************************************************)
(* Insertion into the empty tree.                                          *)
(***************************************************************************)
LEMMA InsertFirstTree ==
    ASSUME NEW D, Tree(D), NEW k \in Keys, InsertFirst(k)
    PROVE  TreeInv'
<1> DEFINE t == [head |-> k, node |-> Added(rbt, k, NewNode(k, "BLACK", NULL))]
<1>1. /\ pc = "idle" /\ HeadOf(rbt) = NULL /\ rbt' = t /\ keys' = keys \cup {k}
      /\ pc' = "idle" /\ cur' = NULL /\ key' = NULL /\ res_node' = NULL
  BY DEF InsertFirst, Return, HeadOf
<1>2. /\ Typed(rbt) /\ Shape(rbt, D) /\ res_node = NULL
      /\ keys = {KeyOf(rbt, n) : n \in NodesOf(rbt) \ {res_node}}
  BY <1>1 DEF Tree, Trunk, At, Holds
<1>3. /\ Typed(t) /\ NodesOf(rbt) = {} /\ NodesOf(t) = {k} /\ HeadOf(t) = k
      /\ KeyOf(t, k) = k /\ DataOf(t, k) = k /\ Color(t, k) = "BLACK"
      /\ \E E : Shape(t, E) /\ Sorted(t, E, NULL)
  BY <1>1, <1>2, FirstTree
<1>4. NULL \notin {k}
  BY <1>3, NodeIs
<1> HIDE DEF t
<1>5. PICK E : Shape(t, E) /\ Sorted(t, E, NULL)
  BY <1>3
<1>6. ~IsRed(t, HeadOf(t))
  BY <1>3, RedIs
<1>7. Trunk(t, E, NULL)
  BY <1>3, <1>5, <1>6 DEF Trunk
<1>8. Holds(t, NULL, keys \cup {k})
  BY <1>2, <1>3, <1>4 DEF Holds
<1>9. At(t, E, "idle", NULL, NULL, NULL)
  BY DEF At
<1> QED BY <1>1, <1>7, <1>8, <1>9 DEF TreeInv, Tree

(***************************************************************************)
(* What Insert does: the descent ends at a node p that has no kid on the   *)
(* side of k, and the new node is put there.                               *)
(***************************************************************************)
LEMMA InsertIs ==
    ASSUME NEW D, Tree(D), NEW k \in Keys, Insert(k)
    PROVE  LET p == Descend(rbt, HeadOf(rbt), k)
           IN  /\ pc = "idle" /\ res_node = NULL /\ HeadOf(rbt) \in NodesOf(rbt)
               /\ Found(rbt, D, HeadOf(rbt), k, p) /\ p \in NodesOf(rbt) /\ k \notin NodesOf(rbt)
               /\ KeyOf(rbt, p) # k
               /\ Typed(rbt') /\ Grown(rbt, rbt', k, p, Toward(rbt, p, k))
               /\ cur' = p /\ pc' = "insert" /\ key' = k /\ res_node' = NULL
               /\ keys' = keys \cup {k}
<1> DEFINE p == Descend(rbt, HeadOf(rbt), k)
           d == Toward(rbt, p, k)
           t == [rbt EXCEPT !.node =
                    Added([rbt EXCEPT !.node[p][d] = k], k, NewNode(k, "RED", p))]
<1>1. /\ pc = "idle" /\ HeadOf(rbt) # NULL /\ KeyOf(rbt, p) # k /\ rbt' = t /\ cur' = p
      /\ pc' = "insert" /\ key' = k /\ keys' = keys \cup {k} /\ res_node' = res_node
  BY Zenon DEF Insert, HeadOf, KeyOf, Field, NodeAt, Toward
<1>2. /\ Typed(rbt) /\ Shape(rbt, D) /\ res_node = NULL /\ Sorted(rbt, D, res_node)
      /\ \A n \in NodesOf(rbt) : KeyOf(rbt, n) = n
  BY <1>1 DEF Tree, Trunk, At, Holds
<1>3. HeadOf(rbt) \in NodesOf(rbt) /\ k \in Nat
  BY <1>1, <1>2, KeysAssumption DEF Typed, HeadOf
<1> HIDE DEF t
<1>4. Found(rbt, D, HeadOf(rbt), k, p)
  BY <1>2, <1>3, DescendIs
<1> HIDE DEF p
<1>5. p \in NodesOf(rbt)
  <2>1. p \in D[HeadOf(rbt)]
    BY <1>4 DEF Found
  <2> QED BY <2>1, <1>2 DEF Shape
<1>6. k \notin NodesOf(rbt)
  <2>1. \A x \in D[HeadOf(rbt)] : KeyOf(rbt, x) # k
    BY <1>1, <1>2, <1>3, <1>4, NotFound
  <2> QED BY <2>1, <1>2 DEF Shape
<1>7. d \in Dirs
  BY Sides DEF Toward
<1> HIDE DEF d
<1>8. Typed(t) /\ Grown(rbt, t, k, p, d)
  BY <1>2, <1>5, <1>6, <1>7, GrownIs DEF t
<1> QED BY <1>1, <1>2, <1>3, <1>4, <1>5, <1>6, <1>8 DEF p, d

(***************************************************************************)
(* Insertion below the node the descent ends at.                           *)
(***************************************************************************)
LEMMA InsertTree ==
    ASSUME NEW D, Tree(D), NEW k \in Keys, Insert(k)
    PROVE  TreeInv'
<1> DEFINE p == Descend(rbt, HeadOf(rbt), k)
           E == GrownD(rbt, D, k, p)
<1>1. /\ pc = "idle" /\ res_node = NULL /\ HeadOf(rbt) \in NodesOf(rbt)
      /\ Found(rbt, D, HeadOf(rbt), k, p) /\ p \in NodesOf(rbt) /\ k \notin NodesOf(rbt)
      /\ KeyOf(rbt, p) # k
      /\ Typed(rbt') /\ Grown(rbt, rbt', k, p, Toward(rbt, p, k))
      /\ cur' = p /\ pc' = "insert" /\ key' = k /\ res_node' = NULL
      /\ keys' = keys \cup {k}
  BY InsertIs
<1> HIDE DEF p
<1>2. /\ Typed(rbt) /\ Shape(rbt, D) /\ Sorted(rbt, D, NULL)
      /\ keys = {KeyOf(rbt, n) : n \in NodesOf(rbt) \ {NULL}}
      /\ \A n \in NodesOf(rbt) : KeyOf(rbt, n) = n
      /\ ~IsRed(rbt, HeadOf(rbt)) /\ \A n \in NodesOf(rbt) : DataOf(rbt, n) = KeyOf(rbt, n)
  BY <1>1 DEF Tree, Trunk, Holds
<1>3. NULL \notin NodesOf(rbt) /\ NULL \notin NodesOf(rbt')
  BY <1>1, <1>2, NodeIs
<1>4. Shape(rbt', E) /\ Sorted(rbt', E, NULL)
  BY <1>1, <1>2, <1>3, GrownTree
<1>5. /\ NodesOf(rbt') = NodesOf(rbt) \cup {k} /\ HeadOf(rbt') = HeadOf(rbt)
      /\ \A m \in NodesOf(rbt) : /\ KeyOf(rbt', m) = KeyOf(rbt, m)
                                 /\ DataOf(rbt', m) = DataOf(rbt, m)
                                 /\ Color(rbt', m) = Color(rbt, m)
      /\ KeyOf(rbt', k) = k /\ DataOf(rbt', k) = k
  BY <1>1 DEF Grown
<1>6. ~IsRed(rbt', HeadOf(rbt'))
  BY <1>1, <1>2, <1>5, RedIs
<1>7. Trunk(rbt', E, NULL)
  BY <1>1, <1>2, <1>4, <1>5, <1>6 DEF Trunk
<1>8. Holds(rbt', NULL, keys')
  <2>1. \A n \in NodesOf(rbt') : KeyOf(rbt', n) = n
    BY <1>2, <1>5
  <2>2. keys' = NodesOf(rbt')
    BY <1>1, <1>2, <1>3, <1>5
  <2>3. {KeyOf(rbt', n) : n \in NodesOf(rbt') \ {NULL}} = NodesOf(rbt')
    BY <2>1, <1>3
  <2> QED BY <2>1, <2>2, <2>3 DEF Holds
<1>9. k \in E[p] /\ k # p /\ p \in NodesOf(rbt')
  <2>1. p \in D[p]
    BY <1>1, <1>2, Nested
  <2> QED BY <2>1, <1>1, <1>5 DEF GrownD
<1> HIDE DEF E
<1>10. At(rbt', E, pc', cur', key', res_node')
  BY <1>1, <1>9 DEF At
<1> QED BY <1>1, <1>7, <1>8, <1>10 DEF TreeInv, Tree

(***************************************************************************)
(* The repair after an insertion returns.                                  *)
(***************************************************************************)
LEMMA InsertBalancedTree ==
    ASSUME NEW D, Tree(D), InsertBalanced
    PROVE  TreeInv'
<1>1. /\ pc = "insert" /\ rbt' = rbt /\ keys' = keys /\ pc' = "idle" /\ cur' = NULL
      /\ key' = NULL /\ res_node' = NULL
  BY DEF InsertBalanced, Return
<1>2. res_node = NULL
  BY <1>1 DEF Tree, At
<1>3. Trunk(rbt, D, NULL) /\ Holds(rbt, NULL, keys)
  BY <1>2 DEF Tree
<1> QED BY <1>1, <1>3 DEF TreeInv, Tree, At

\* What InsertRecolor does, on the side d of p that cur hangs on.
Recolored(d) ==
    LET p == Up(rbt, cur)
        w == Kid(rbt, p, Opposite(d))
        fixed == Paint(rbt, {cur, w}, "BLACK")
    IN  /\ pc = "insert" /\ res_node = NULL /\ cur \in NodesOf(rbt) /\ p \in NodesOf(rbt)
        /\ w \in NodesOf(rbt)
        /\ Kid(rbt, p, d) = cur /\ Color(rbt, cur) = "RED" /\ Color(rbt, w) = "RED"
        /\ keys' = keys
        /\ \/ /\ Up(rbt, p) = NULL /\ rbt' = Paint(fixed, {p}, "BLACK")
              /\ pc' = "idle" /\ cur' = NULL /\ key' = NULL /\ res_node' = NULL
           \/ /\ Up(rbt, p) \in NodesOf(rbt) /\ rbt' = Paint(fixed, {p}, "RED")
              /\ pc' = "insert" /\ cur' = Up(rbt, p) /\ key' = cur /\ res_node' = NULL

(***************************************************************************)
(* What InsertRecolor does: it finds the side of cur, and with it its      *)
(* sibling, by comparing keys, and they are right.                         *)
(***************************************************************************)
LEMMA InsertRecolorIs ==
    ASSUME NEW D, Tree(D), InsertRecolor
    PROVE  \E d \in Dirs : Recolored(d)
<1> DEFINE p == Up(rbt, cur)
           up == Up(rbt, p)
           sibling == IF KeyOf(rbt, p) < KeyOf(rbt, cur)
                      THEN Kid(rbt, p, "left") ELSE Kid(rbt, p, "right")
           fixed == Paint(rbt, {cur, sibling}, "BLACK")
<1>1. /\ pc = "insert" /\ IsRed(rbt, cur) /\ IsRed(rbt, Neighbor(rbt, cur)) /\ keys' = keys
      /\ \/ /\ up = NULL /\ rbt' = Paint(fixed, {p}, "BLACK")
            /\ pc' = "idle" /\ cur' = NULL /\ key' = NULL /\ res_node' = NULL
         \/ /\ up # NULL /\ rbt' = Paint(fixed, {p}, "RED")
            /\ pc' = pc /\ cur' = up /\ key' = KeyOf(rbt, cur) /\ res_node' = res_node
  BY Zenon DEF InsertRecolor, Return, Up, KeyOf, Kid, Field, NodeAt
<1>2. /\ Typed(rbt) /\ Shape(rbt, D) /\ Sorted(rbt, D, NULL) /\ Trunk(rbt, D, NULL)
      /\ res_node = NULL /\ cur \in NodesOf(rbt) /\ \A n \in NodesOf(rbt) : KeyOf(rbt, n) = n
  BY <1>1 DEF Tree, Trunk, At, Holds
<1>3. p \in NodesOf(rbt)
  BY <1>1, <1>2, RedHangs
<1>4. NULL \notin NodesOf(rbt) /\ up \in NodesOf(rbt) \cup {NULL}
  BY <1>2, <1>3, NodeIs
<1> HIDE DEF up
<1>5. PICK d \in Dirs : /\ Kid(rbt, p, d) = cur
                        /\ Neighbor(rbt, cur) = Kid(rbt, p, Opposite(d))
  BY <1>2, <1>3, <1>4, DirectionIs
<1>6. Opposite(d) \in Dirs
  BY Sides
<1>7. Kid(rbt, p, Opposite(d)) \in NodesOf(rbt) \cup {NULL}
  BY <1>2, <1>3, <1>6, NodeIs
<1>8. /\ Kid(rbt, p, Opposite(d)) \in NodesOf(rbt) /\ Color(rbt, cur) = "RED"
      /\ Color(rbt, Kid(rbt, p, Opposite(d))) = "RED"
  BY <1>1, <1>5, <1>7, RedIs
<1>9. sibling = Kid(rbt, p, Opposite(d))
  <2>1. cur \in D[Kid(rbt, p, d)]
    BY <1>2, <1>5, Nested
  <2>2. KeyOf(rbt, p) \in Nat /\ KeyOf(rbt, cur) \in Nat
    BY <1>2, <1>3, NodeIs
  <2>3. CASE d = "left"
    <3>1. KeyOf(rbt, cur) < KeyOf(rbt, p)
      BY <1>2, <1>3, <1>4, <2>1, <2>3, KidKeys
    <3> QED BY <3>1, <2>2, <2>3, Sides
  <2>4. CASE d = "right"
    <3>1. KeyOf(rbt, cur) > KeyOf(rbt, p)
      BY <1>2, <1>3, <1>4, <2>1, <2>4, KidKeys
    <3> QED BY <3>1, <2>2, <2>4, Sides
  <2> QED BY <2>3, <2>4, Sides
<1> HIDE DEF p, sibling
<1>10. KeyOf(rbt, cur) = cur
  BY <1>2
<1>11. Recolored(d)
  BY <1>1, <1>2, <1>3, <1>4, <1>5, <1>8, <1>9, <1>10 DEF Recolored, p, up
<1> QED BY <1>11

(***************************************************************************)
(* Recoloring keeps the tree, and the node to go on from is above the red  *)
(* node that the recoloring has left.                                      *)
(***************************************************************************)
LEMMA InsertRecolorTree ==
    ASSUME NEW D, Tree(D), InsertRecolor
    PROVE  TreeInv'
<1>1. PICK d \in Dirs : Recolored(d)
  BY InsertRecolorIs
<1> DEFINE p == Up(rbt, cur)
           w == Kid(rbt, p, Opposite(d))
           fixed == Paint(rbt, {cur, w}, "BLACK")
<1>2. /\ pc = "insert" /\ res_node = NULL /\ cur \in NodesOf(rbt) /\ p \in NodesOf(rbt)
      /\ keys' = keys
      /\ \/ /\ Up(rbt, p) = NULL /\ rbt' = Paint(fixed, {p}, "BLACK")
            /\ pc' = "idle" /\ cur' = NULL /\ key' = NULL /\ res_node' = NULL
         \/ /\ Up(rbt, p) \in NodesOf(rbt) /\ rbt' = Paint(fixed, {p}, "RED")
            /\ pc' = "insert" /\ cur' = Up(rbt, p) /\ key' = cur /\ res_node' = NULL
  BY <1>1 DEF Recolored
<1>3. /\ Typed(rbt) /\ Shape(rbt, D) /\ Trunk(rbt, D, NULL)
      /\ keys = {KeyOf(rbt, n) : n \in NodesOf(rbt) \ {NULL}}
      /\ \A n \in NodesOf(rbt) : KeyOf(rbt, n) = n
  BY <1>2 DEF Tree, Trunk, Holds
<1>4. NULL \notin NodesOf(rbt)
  BY <1>3, NodeIs
<1>5. /\ Trunk(fixed, D, NULL) /\ NodesOf(fixed) = NodesOf(rbt) /\ HeadOf(fixed) = HeadOf(rbt)
      /\ \A n \in NodesOf(rbt) : KeyOf(fixed, n) = KeyOf(rbt, n)
  BY <1>3, PaintKeeps
<1> HIDE DEF fixed
<1>6. ASSUME NEW c \in {"RED", "BLACK"}, rbt' = Paint(fixed, {p}, c),
             c = "RED" => HeadOf(rbt) # p
      PROVE  Trunk(rbt', D, NULL) /\ NodesOf(rbt') = NodesOf(rbt) /\ Holds(rbt', NULL, keys)
  <2>1. /\ Trunk(rbt', D, NULL) /\ NodesOf(rbt') = NodesOf(fixed)
        /\ \A n \in NodesOf(fixed) : KeyOf(rbt', n) = KeyOf(fixed, n)
    BY <1>5, <1>6, PaintKeeps
  <2>2. \A n \in NodesOf(rbt') : KeyOf(rbt', n) = n
    BY <2>1, <1>3, <1>5
  <2> QED BY <2>1, <2>2, <1>3, <1>5 DEF Holds
<1>7. CASE Up(rbt, p) = NULL
  <2>1. Up(rbt, p) \notin NodesOf(rbt)
    BY <1>4, <1>7
  <2>2. /\ rbt' = Paint(fixed, {p}, "BLACK")
        /\ pc' = "idle" /\ cur' = NULL /\ key' = NULL /\ res_node' = NULL
    BY <2>1, <1>2
  <2>3. Trunk(rbt', D, NULL) /\ Holds(rbt', NULL, keys)
    BY <2>2, <1>6
  <2> QED BY <2>2, <2>3, <1>2 DEF TreeInv, Tree, At
<1>8. CASE Up(rbt, p) # NULL
  <2>1. /\ Up(rbt, p) \in NodesOf(rbt) /\ rbt' = Paint(fixed, {p}, "RED")
        /\ pc' = "insert" /\ cur' = Up(rbt, p) /\ key' = cur /\ res_node' = NULL
    BY <1>2, <1>8
  <2>2. HeadOf(rbt) # p
    BY <1>2, <1>3, <1>4, <1>8 DEF Shape
  <2>3. Trunk(rbt', D, NULL) /\ Holds(rbt', NULL, keys) /\ NodesOf(rbt') = NodesOf(rbt)
    BY <2>1, <2>2, <1>6
  <2>4. /\ p \in D[Up(rbt, p)] /\ Up(rbt, p) \notin D[p]
    BY <1>2, <1>3, <1>8, Hangs
  <2>5. cur \in D[p]
    BY <1>2, <1>3, <1>4, Hangs
  <2>6. cur \in D[Up(rbt, p)] /\ cur # Up(rbt, p)
    BY <2>1, <2>4, <2>5, <1>3, Nested
  <2>7. At(rbt', D, pc', cur', key', res_node')
    BY <2>1, <2>3, <2>6 DEF At
  <2> QED BY <2>1, <2>3, <2>7, <1>2 DEF TreeInv, Tree
<1> QED BY <1>7, <1>8

\* What InsertRotate does, on the side of g that cur hangs on.
Rotated(side, outer) ==
    LET g == Up(rbt, cur)
    IN  /\ pc = "insert" /\ cur \in NodesOf(rbt) /\ g \in NodesOf(rbt)
        /\ Kid(rbt, g, side) = cur /\ Color(rbt, cur) = "RED"
        /\ ~IsRed(rbt, Kid(rbt, g, Opposite(side)))
        /\ Kid(rbt, cur, Toward(rbt, cur, key)) \in NodesOf(rbt)
        /\ \/ side = Toward(rbt, cur, key) /\ outer = rbt
           \/ Opposite(side) = Toward(rbt, cur, key) /\ outer = Rotate(rbt, cur, side)
        /\ rbt' = Rotate(outer, g, Opposite(side)) /\ keys' = keys
        /\ pc' = "idle" /\ cur' = NULL /\ key' = NULL /\ res_node' = NULL

(***************************************************************************)
(* What InsertRotate does: both sides that it finds by comparing keys are  *)
(* right.                                                                  *)
(***************************************************************************)
LEMMA InsertRotateIs ==
    ASSUME NEW D, Tree(D), InsertRotate
    PROVE  \E side \in Dirs : \E outer : Rotated(side, outer)
<1> DEFINE g == Up(rbt, cur)
           side == Toward(rbt, g, KeyOf(rbt, cur))
           below == Toward(rbt, cur, key)
           outer == IF side = below THEN rbt ELSE Rotate(rbt, cur, side)
<1>1. /\ pc = "insert" /\ IsRed(rbt, cur) /\ ~IsRed(rbt, Neighbor(rbt, cur)) /\ keys' = keys
      /\ rbt' = Rotate(outer, g, Opposite(side))
      /\ pc' = "idle" /\ cur' = NULL /\ key' = NULL /\ res_node' = NULL
  BY Zenon DEF InsertRotate, Return, Up, KeyOf, Toward, Field, NodeAt
<1>2. /\ Typed(rbt) /\ Shape(rbt, D) /\ Sorted(rbt, D, NULL) /\ Trunk(rbt, D, NULL)
      /\ res_node = NULL /\ cur \in NodesOf(rbt) /\ key \in D[cur] /\ key # cur
      /\ \A n \in NodesOf(rbt) : KeyOf(rbt, n) = n
  BY <1>1 DEF Tree, Trunk, At, Holds
<1>3. g \in NodesOf(rbt) /\ Color(rbt, cur) = "RED"
  BY <1>1, <1>2, RedHangs, RedIs
<1>4. NULL \notin NodesOf(rbt)
  BY <1>2, NodeIs
<1>5. PICK d \in Dirs : /\ Kid(rbt, g, d) = cur
                        /\ Neighbor(rbt, cur) = Kid(rbt, g, Opposite(d))
  BY <1>2, <1>3, <1>4, DirectionIs
<1>6. side \in Dirs /\ cur \in D[Kid(rbt, g, side)]
  <2>1. cur \in D[g] /\ cur # g /\ cur # NULL
    BY <1>2, <1>3, <1>4, Hangs
  <2> QED BY <2>1, <1>2, <1>3, TowardIs
<1>7. below \in Dirs /\ Kid(rbt, cur, below) \in NodesOf(rbt)
  <2>1. key \in NodesOf(rbt) /\ key # NULL
    BY <1>2, <1>4, Nested
  <2>2. KeyOf(rbt, key) = key
    BY <2>1, <1>2
  <2> HIDE DEF below
  <2>3. below = Toward(rbt, cur, KeyOf(rbt, key))
    BY <2>2 DEF below
  <2> QED BY <2>1, <2>3, <1>2, TowardIs
<1> HIDE DEF side, below
<1>8. side = d
  <2>1. D[Kid(rbt, g, Opposite(d))] \cap D[cur] = {} /\ cur \in D[cur]
    <3>1. cur \in D[cur]
      BY <1>2, Nested
    <3> QED BY <3>1, <1>2, <1>3, <1>4, <1>5, Hangs
  <2>2. side # Opposite(d)
    BY <2>1, <1>6
  <2> QED BY <2>2, <1>6, Sides
<1>9. side = below \/ Opposite(side) = below
  BY <1>6, <1>7, Sides
<1>10. Rotated(side, outer)
  <2>1. \/ side = below /\ outer = rbt
        \/ Opposite(side) = below /\ outer = Rotate(rbt, cur, side)
    BY <1>6, <1>9, Sides
  <2> HIDE DEF outer
  <2> QED BY <2>1, <1>1, <1>2, <1>3, <1>5, <1>7, <1>8 DEF Rotated, below
<1> QED BY <1>6, <1>10

(***************************************************************************)
(* The first of two rotations.                                             *)
(***************************************************************************)
LEMMA InnerRotation ==
    ASSUME NEW s, NEW D, NEW res, Trunk(s, D, res), NEW n \in NodesOf(s), NEW side \in Dirs,
           Up(s, n) \in NodesOf(s), Kid(s, Up(s, n), side) = n,
           NEW x \in NodesOf(s), Kid(s, n, Opposite(side)) = x, x # res
    PROVE  LET t == Rotate(s, n, side)
           IN  /\ Turned(s, t, n, side, side, Up(s, n), x, Kid(s, x, side))
               /\ Kid(t, Up(s, n), side) = x /\ Up(s, n) # n /\ Up(s, n) # x
<1> DEFINE t == Rotate(s, n, side)
           g == Up(s, n)
<1>1. Typed(s) /\ Shape(s, D)
  BY DEF Trunk
<1>2. NULL \notin NodesOf(s)
  BY <1>1, NodeIs
<1>3. PICK e \in Dirs : Turned(s, t, n, side, e, g, x, Kid(s, x, side)) /\ Kid(s, g, e) = n
  BY <1>2, RotateKeeps
<1>4. e = side
  <2>1. Kid(s, g, Opposite(side)) # n
    BY <1>1, <1>2, Hangs
  <2> QED BY <2>1, <1>3, Sides
<1>5. g # n /\ g # x
  BY <1>1, <1>2, Pivot
<1> HIDE DEF t
<1>6. Kid(t, g, side) = x
  BY <1>3, <1>4, <1>5 DEF Turned
<1> QED BY <1>3, <1>4, <1>5, <1>6 DEF t

(***************************************************************************)
(* One or two rotations keep the tree.                                     *)
(***************************************************************************)
LEMMA InsertRotateTree ==
    ASSUME NEW D, Tree(D), InsertRotate
    PROVE  TreeInv'
<1>1. PICK side \in Dirs : \E outer : Rotated(side, outer)
  BY InsertRotateIs
<1>2. PICK outer : Rotated(side, outer)
  BY <1>1
<1> DEFINE g == Up(rbt, cur)
<1>3. /\ pc = "insert" /\ cur \in NodesOf(rbt) /\ g \in NodesOf(rbt)
      /\ Kid(rbt, g, side) = cur
      /\ Kid(rbt, cur, Toward(rbt, cur, key)) \in NodesOf(rbt)
      /\ \/ side = Toward(rbt, cur, key) /\ outer = rbt
         \/ Opposite(side) = Toward(rbt, cur, key) /\ outer = Rotate(rbt, cur, side)
      /\ rbt' = Rotate(outer, g, Opposite(side)) /\ keys' = keys
      /\ pc' = "idle" /\ cur' = NULL /\ key' = NULL /\ res_node' = NULL
  BY <1>2 DEF Rotated
<1>4. /\ Typed(rbt) /\ Shape(rbt, D) /\ Trunk(rbt, D, NULL)
      /\ keys = {KeyOf(rbt, n) : n \in NodesOf(rbt) \ {NULL}}
      /\ \A n \in NodesOf(rbt) : KeyOf(rbt, n) = n
  BY <1>3 DEF Tree, Trunk, Holds, At
<1>5. NULL \notin NodesOf(rbt) /\ Opposite(side) \in Dirs /\ Opposite(Opposite(side)) = side
  BY <1>4, NodeIs, Sides
<1>6. \E F : /\ Trunk(outer, F, NULL) /\ NodesOf(outer) = NodesOf(rbt)
             /\ \A m \in NodesOf(rbt) : KeyOf(outer, m) = KeyOf(rbt, m)
             /\ Kid(outer, g, side) \in NodesOf(rbt)
  <2>1. CASE side = Toward(rbt, cur, key) /\ outer = rbt
    BY <2>1, <1>3, <1>4
  <2>2. CASE Opposite(side) = Toward(rbt, cur, key) /\ outer = Rotate(rbt, cur, side)
    <3> DEFINE x == Kid(rbt, cur, Opposite(side))
    <3>1. x \in NodesOf(rbt) /\ x # NULL
      BY <2>2, <1>3, <1>5
    <3>2. Kid(outer, g, side) = x
      BY <3>1, <2>2, <1>3, <1>4, InnerRotation
    <3>3. /\ Trunk(outer, TurnedD(rbt, D, cur, side), NULL) /\ NodesOf(outer) = NodesOf(rbt)
          /\ \A m \in NodesOf(rbt) : KeyOf(outer, m) = KeyOf(rbt, m)
      BY <3>1, <2>2, <1>3, <1>4, RotateKeeps
    <3> QED BY <3>1, <3>2, <3>3
  <2> QED BY <2>1, <2>2, <1>3
<1>7. PICK F : /\ Trunk(outer, F, NULL) /\ NodesOf(outer) = NodesOf(rbt)
               /\ \A m \in NodesOf(rbt) : KeyOf(outer, m) = KeyOf(rbt, m)
               /\ Kid(outer, g, side) \in NodesOf(rbt)
  BY <1>6
<1>8. Kid(outer, g, Opposite(Opposite(side))) # NULL
  BY <1>5, <1>7
<1>9. /\ Trunk(rbt', TurnedD(outer, F, g, Opposite(side)), NULL)
      /\ NodesOf(rbt') = NodesOf(rbt)
      /\ \A m \in NodesOf(rbt) : KeyOf(rbt', m) = KeyOf(outer, m)
  <2>1. g \in NodesOf(outer)
    BY <1>3, <1>7
  <2> QED BY <2>1, <1>3, <1>5, <1>7, <1>8, RotateKeeps
<1>10. Holds(rbt', NULL, keys)
  <2>1. \A n \in NodesOf(rbt') : KeyOf(rbt', n) = n
    BY <1>9, <1>7, <1>4
  <2> QED BY <2>1, <1>4, <1>9 DEF Holds
<1> QED BY <1>3, <1>9, <1>10 DEF TreeInv, Tree, At

(***************************************************************************)
(* What Remove does: the keys move up along a chain that ends at a leaf.   *)
(***************************************************************************)
LEMMA RemoveIs ==
    ASSUME NEW D, Tree(D), NEW k \in Keys, Remove(k)
    PROVE  \E C : \E leaf \in C :
               /\ k \in NodesOf(rbt) /\ Chain(rbt, D, k, C) /\ NoKids(rbt, leaf)
               /\ leaf \in NodesOf(rbt) /\ Typed(rbt') /\ Moved(rbt, rbt', C, leaf)
               /\ pc = "idle" /\ res_node = NULL /\ key = NULL
               /\ res_node' = leaf /\ cur' = leaf /\ key' = NULL /\ keys' = keys \ {k}
               /\ pc' = IF IsRed(rbt, leaf) THEN "unlink" ELSE "delete"
<1> DEFINE n == Descend(rbt, HeadOf(rbt), k)
           C == Replaced(rbt, n)
           leaf == CHOOSE m \in C : IsLeaf(rbt, m)
           t == [rbt EXCEPT !.node = [m \in DOMAIN rbt.node |->
                         IF m \in C \ {leaf}
                         THEN [rbt.node[m] EXCEPT !.key = rbt.node[Replacement(rbt, m)].key,
                                                  !.data = rbt.node[Replacement(rbt, m)].data]
                         ELSE rbt.node[m]]]
<1>1. /\ pc = "idle" /\ HeadOf(rbt) # NULL /\ KeyOf(rbt, n) = k /\ rbt' = t
      /\ res_node' = leaf /\ cur' = leaf /\ key' = key /\ keys' = keys \ {k}
      /\ pc' = IF IsRed(rbt, leaf) THEN "unlink" ELSE "delete"
  BY Zenon DEF Remove, HeadOf, KeyOf, Field, NodeAt
<1>2. /\ Typed(rbt) /\ Shape(rbt, D) /\ Sorted(rbt, D, NULL) /\ res_node = NULL
      /\ key = NULL /\ \A m \in NodesOf(rbt) : KeyOf(rbt, m) = m
  BY <1>1 DEF Tree, Trunk, At, Holds
<1>3. HeadOf(rbt) \in NodesOf(rbt) /\ k \in Nat
  BY <1>1, <1>2, KeysAssumption DEF Typed, HeadOf
<1> HIDE DEF t, leaf, C
<1>4. n \in D[HeadOf(rbt)]
  BY <1>2, <1>3, DescendIs DEF Found
<1> HIDE DEF n
<1>5. n \in NodesOf(rbt) /\ n = k
  <2>1. n \in NodesOf(rbt)
    BY <1>4, <1>2 DEF Shape
  <2> QED BY <2>1, <1>1, <1>2
<1>6. Chain(rbt, D, k, C)
  BY <1>2, <1>5, ReplacedIs DEF C
<1>7. C \subseteq NodesOf(rbt)
  <2>1. C \subseteq D[k]
    BY <1>6 DEF Chain
  <2> QED BY <2>1, <1>2, <1>5, Nested
<1>8. leaf \in C /\ NoKids(rbt, leaf)
  <2>1. PICK x \in C : NoKids(rbt, x)
    BY <1>6 DEF Chain
  <2>2. \A m : IsLeaf(rbt, m) <=> NoKids(rbt, m)
    BY Zenon DEF IsLeaf, NoKids, Kid, Field, NodeAt
  <2>3. \E m \in C : IsLeaf(rbt, m)
    BY <2>1, <2>2
  <2>4. leaf \in C /\ IsLeaf(rbt, leaf)
    BY <2>3 DEF leaf
  <2> QED BY <2>2, <2>4
<1>9. \A m \in C \ {leaf} : m \in NodesOf(rbt) => Replacement(rbt, m) \in NodesOf(rbt)
  <2> SUFFICES ASSUME NEW m \in C \ {leaf} PROVE Replacement(rbt, m) \in NodesOf(rbt)
    OBVIOUS
  <2>1. ~NoKids(rbt, m)
    BY <1>6, <1>8 DEF Chain
  <2> QED BY <2>1, <1>2, <1>7, ReplacementIs
<1>10. Typed(t) /\ Moved(rbt, t, C, leaf)
  BY <1>2, <1>9, MovedIs DEF t
<1> QED BY <1>1, <1>2, <1>5, <1>6, <1>7, <1>8, <1>10

(***************************************************************************)
(* Moving the keys up keeps the tree, with the leaf as the node that may   *)
(* repeat a key.                                                           *)
(***************************************************************************)
LEMMA RemoveTree ==
    ASSUME NEW D, Tree(D), NEW k \in Keys, Remove(k)
    PROVE  TreeInv'
<1>1. PICK C : \E leaf \in C :
               /\ k \in NodesOf(rbt) /\ Chain(rbt, D, k, C) /\ NoKids(rbt, leaf)
               /\ leaf \in NodesOf(rbt) /\ Typed(rbt') /\ Moved(rbt, rbt', C, leaf)
               /\ pc = "idle" /\ res_node = NULL /\ key = NULL
               /\ res_node' = leaf /\ cur' = leaf /\ key' = NULL /\ keys' = keys \ {k}
               /\ pc' = IF IsRed(rbt, leaf) THEN "unlink" ELSE "delete"
  BY RemoveIs
<1>2. PICK leaf \in C :
               /\ k \in NodesOf(rbt) /\ Chain(rbt, D, k, C) /\ NoKids(rbt, leaf)
               /\ leaf \in NodesOf(rbt) /\ Typed(rbt') /\ Moved(rbt, rbt', C, leaf)
               /\ pc = "idle" /\ res_node = NULL /\ key = NULL
               /\ res_node' = leaf /\ cur' = leaf /\ key' = NULL /\ keys' = keys \ {k}
               /\ pc' = IF IsRed(rbt, leaf) THEN "unlink" ELSE "delete"
  BY <1>1
<1>3. /\ Typed(rbt) /\ Shape(rbt, D) /\ Sorted(rbt, D, NULL)
      /\ keys = {KeyOf(rbt, m) : m \in NodesOf(rbt) \ {NULL}}
      /\ \A m \in NodesOf(rbt) : KeyOf(rbt, m) = m
      /\ ~IsRed(rbt, HeadOf(rbt)) /\ \A m \in NodesOf(rbt) : DataOf(rbt, m) = KeyOf(rbt, m)
  BY <1>2 DEF Tree, Trunk, Holds
<1>4. NULL \notin NodesOf(rbt) /\ HeadOf(rbt) \in NodesOf(rbt) \cup {NULL}
  <2>1. NULL \notin NodesOf(rbt)
    BY <1>3, NodeIs
  <2> QED BY <2>1, <1>3 DEF Typed, HeadOf
<1>5. /\ Shape(rbt', D) /\ Sorted(rbt', D, leaf)
      /\ {KeyOf(rbt', m) : m \in NodesOf(rbt) \ {leaf}} = {KeyOf(rbt, m) : m \in NodesOf(rbt) \ {k}}
  <2>1. /\ k \in NodesOf(rbt) /\ Chain(rbt, D, k, C) /\ NoKids(rbt, leaf)
        /\ Moved(rbt, rbt', C, leaf)
    BY <1>2
  <2>2. Typed(rbt) /\ Shape(rbt, D) /\ Sorted(rbt, D, NULL)
    BY <1>3
  <2> QED BY <2>1, <2>2, MovedTree
<1>6. /\ NodesOf(rbt') = NodesOf(rbt) /\ HeadOf(rbt') = HeadOf(rbt)
      /\ \A m \in NodesOf(rbt) :
            /\ Color(rbt', m) = Color(rbt, m)
            /\ \A d \in Dirs : Kid(rbt', m, d) = Kid(rbt, m, d)
            /\ KeyOf(rbt', m) = IF m \in C \ {leaf} THEN KeyOf(rbt, Replacement(rbt, m))
                                                    ELSE KeyOf(rbt, m)
            /\ DataOf(rbt', m) = IF m \in C \ {leaf} THEN DataOf(rbt, Replacement(rbt, m))
                                                     ELSE DataOf(rbt, m)
  BY <1>2 DEF Moved
<1>7. \A m \in NodesOf(rbt') : DataOf(rbt', m) = KeyOf(rbt', m)
  <2> SUFFICES ASSUME NEW m \in NodesOf(rbt) PROVE DataOf(rbt', m) = KeyOf(rbt', m)
    BY <1>6
  <2>1. CASE m \in C \ {leaf}
    <3>1. ~NoKids(rbt, m)
      BY <2>1, <1>2 DEF Chain
    <3>2. Replacement(rbt, m) \in NodesOf(rbt)
      BY <3>1, <1>3, ReplacementIs
    <3> QED BY <3>2, <2>1, <1>3, <1>6
  <2>2. CASE m \notin C \ {leaf}
    BY <2>2, <1>3, <1>6
  <2> QED BY <2>1, <2>2
<1>8. ~IsRed(rbt', HeadOf(rbt'))
  BY <1>3, <1>4, <1>6, RedIs
<1>9. Trunk(rbt', D, leaf)
  BY <1>2, <1>5, <1>7, <1>8 DEF Trunk
<1>10. Holds(rbt', leaf, keys')
  <2>1. keys = NodesOf(rbt)
    BY <1>3, <1>4
  <2>2. {KeyOf(rbt, m) : m \in NodesOf(rbt) \ {k}} = NodesOf(rbt) \ {k}
    BY <1>3
  <2> QED BY <2>1, <2>2, <1>2, <1>4, <1>5, <1>6 DEF Holds
<1>11. NoKids(rbt', leaf) /\ leaf \in D[leaf]
  BY <1>2, <1>3, <1>6, Sides, Nested DEF NoKids
<1>12. At(rbt', D, pc', cur', key', res_node')
  BY <1>2, <1>6, <1>11 DEF At
<1> QED BY <1>2, <1>9, <1>10, <1>12 DEF TreeInv, Tree

\* s is the tree of the removal that runs, its subtrees E.
Kept(s, E) ==
    /\ Trunk(s, E, res_node) /\ NodesOf(s) = NodesOf(rbt) /\ NoKids(s, res_node)
    /\ \A m \in NodesOf(rbt) : KeyOf(s, m) = KeyOf(rbt, m)

(***************************************************************************)
(* What holds while a removal is balancing.                                *)
(***************************************************************************)
LEMMA DeleteAt ==
    ASSUME NEW D, Tree(D), pc = "delete"
    PROVE  /\ Kept(rbt, D) /\ Typed(rbt) /\ Shape(rbt, D) /\ Sorted(rbt, D, res_node)
           /\ key = NULL /\ NULL \notin NodesOf(rbt)
           /\ res_node \in NodesOf(rbt) /\ cur \in NodesOf(rbt) /\ res_node \in D[cur]
           /\ HeadOf(rbt) \in NodesOf(rbt)
<1>1. /\ Trunk(rbt, D, res_node) /\ NoKids(rbt, res_node) /\ key = NULL
      /\ res_node \in NodesOf(rbt) /\ cur \in NodesOf(rbt) /\ res_node \in D[cur]
  BY DEF Tree, At
<1>2. Typed(rbt) /\ Shape(rbt, D) /\ Sorted(rbt, D, res_node)
  BY <1>1 DEF Trunk
<1>3. NULL \notin NodesOf(rbt)
  BY <1>2, NodeIs
<1>4. HeadOf(rbt) \in NodesOf(rbt)
  <2>1. HeadOf(rbt) \in NodesOf(rbt) \cup {NULL}
    BY <1>2 DEF Typed, HeadOf
  <2>2. HeadOf(rbt) # NULL
    BY <1>1, <1>2 DEF Shape
  <2> QED BY <2>1, <2>2
<1> QED BY <1>1, <1>2, <1>3, <1>4 DEF Kept

(***************************************************************************)
(* The keys stay while a removal is balancing.                             *)
(***************************************************************************)
LEMMA HoldsKept ==
    ASSUME NEW D, Tree(D), pc = "delete", NEW s, NEW E, Kept(s, E)
    PROVE  Holds(s, res_node, keys)
<1>1. res_node # NULL /\ res_node \in NodesOf(rbt)
  BY DeleteAt
<1>2. keys = {KeyOf(rbt, n) : n \in NodesOf(rbt) \ {res_node}}
  BY DEF Tree, Holds
<1> QED BY <1>1, <1>2 DEF Holds, Kept

(***************************************************************************)
(* Painting keeps what has to stay while a removal is balancing.           *)
(***************************************************************************)
LEMMA PaintKept ==
    ASSUME NEW D, Tree(D), pc = "delete", NEW s, NEW E, Kept(s, E), NEW S,
           NEW c \in {"RED", "BLACK"}, c = "RED" => HeadOf(s) \notin S
    PROVE  Kept(Paint(s, S, c), E)
<1> DEFINE t == Paint(s, S, c)
<1>1. /\ Trunk(s, E, res_node) /\ NodesOf(s) = NodesOf(rbt) /\ NoKids(s, res_node)
      /\ \A m \in NodesOf(rbt) : KeyOf(s, m) = KeyOf(rbt, m)
  BY DEF Kept
<1>2. /\ Trunk(t, E, res_node) /\ NodesOf(t) = NodesOf(s)
      /\ \A n \in NodesOf(s) : /\ KeyOf(t, n) = KeyOf(s, n)
                               /\ \A d \in Dirs : Kid(t, n, d) = Kid(s, n, d)
  BY <1>1, PaintKeeps
<1>3. res_node \in NodesOf(rbt)
  BY DeleteAt
<1> HIDE DEF t
<1>4. NoKids(t, res_node)
  BY <1>1, <1>2, <1>3, Sides DEF NoKids
<1> QED BY <1>1, <1>2, <1>4 DEF Kept, t

(***************************************************************************)
(* And so does a rotation that does not lift the node to take out.         *)
(***************************************************************************)
LEMMA RotateKept ==
    ASSUME NEW D, Tree(D), pc = "delete", NEW n \in NodesOf(rbt), NEW d \in Dirs,
           Kid(rbt, n, Opposite(d)) # NULL, Kid(rbt, n, Opposite(d)) # res_node
    PROVE  Kept(Rotate(rbt, n, d), TurnedD(rbt, D, n, d))
<1>1. Trunk(rbt, D, res_node) /\ NoKids(rbt, res_node) /\ res_node \in NodesOf(rbt)
  BY DeleteAt DEF Kept
<1> DEFINE t == Rotate(rbt, n, d)
           E == TurnedD(rbt, D, n, d)
<1>2. /\ Trunk(t, E, res_node) /\ NodesOf(t) = NodesOf(rbt)
      /\ \A m \in NodesOf(rbt) : KeyOf(t, m) = KeyOf(rbt, m)
      /\ \A m \in NodesOf(rbt) : NoKids(rbt, m) /\ m # Kid(rbt, n, Opposite(d)) => NoKids(t, m)
  BY <1>1, RotateKeeps
<1> HIDE DEF t, E
<1>3. Kept(t, E)
  BY <1>1, <1>2 DEF Kept
<1> QED BY <1>3 DEF t, E

(***************************************************************************)
(* The end of the balancing loop keeps the tree.                           *)
(***************************************************************************)
LEMMA BalancedTree ==
    ASSUME NEW D, Tree(D), pc = "delete", NEW s, NEW E, Kept(s, E), Balanced(s)
    PROVE  TreeInv'
<1> DEFINE t == Paint(s, {HeadOf(s)}, "BLACK")
<1>1. /\ rbt' = t /\ pc' = "unlink" /\ cur' = cur /\ key' = key /\ res_node' = res_node
      /\ keys' = keys
  BY DEF Balanced, HeadOf
<1>2. Kept(t, E)
  BY PaintKept
<1> HIDE DEF t
<1>3. Holds(t, res_node, keys)
  BY <1>2, HoldsKept
<1>4. At(t, E, "unlink", cur, key, res_node)
  <2>1. key = NULL /\ res_node \in NodesOf(rbt) /\ cur \in NodesOf(rbt)
    BY DeleteAt
  <2>2. NodesOf(t) = NodesOf(rbt) /\ NoKids(t, res_node)
    BY <1>2 DEF Kept
  <2> QED BY <2>1, <2>2 DEF At
<1>5. Trunk(t, E, res_node)
  BY <1>2 DEF Kept
<1> QED BY <1>1, <1>3, <1>4, <1>5 DEF TreeInv, Tree

(***************************************************************************)
(* And so does the next round of it.                                       *)
(***************************************************************************)
LEMMA GoOnTree ==
    ASSUME NEW D, Tree(D), pc = "delete", NEW s, NEW E, Kept(s, E),
           NEW n \in NodesOf(rbt), res_node \in E[n], GoOn(s, n)
    PROVE  TreeInv'
<1>1. /\ rbt' = s /\ pc' = "delete" /\ cur' = n /\ key' = key /\ res_node' = res_node
      /\ keys' = keys
  BY DEF GoOn
<1>2. Holds(s, res_node, keys)
  BY HoldsKept
<1>3. At(s, E, "delete", n, key, res_node)
  <2>1. key = NULL /\ res_node \in NodesOf(rbt)
    BY DeleteAt
  <2> QED BY <2>1 DEF At, Kept
<1>4. Trunk(s, E, res_node)
  BY DEF Kept
<1> QED BY <1>1, <1>2, <1>3, <1>4 DEF TreeInv, Tree

\* Where cur hangs: on side d of p, with w on the other side.
Beside(D, d, p, w) ==
    /\ d \in Dirs /\ p = Up(rbt, cur) /\ p \in NodesOf(rbt)
    /\ Kid(rbt, p, d) = cur /\ w = Kid(rbt, p, Opposite(d))
    /\ p # cur /\ res_node \in D[p]
    /\ w \in NodesOf(rbt) \cup {NULL} /\ w # HeadOf(rbt) /\ w # cur /\ w # res_node
    /\ res_node \notin D[w] /\ cur \notin D[w]

(***************************************************************************)
(* Direction and Neighbor find, by comparing keys, the side of cur and the *)
(* node on the other side, although res_node may repeat a key.             *)
(***************************************************************************)
LEMMA DeleteBeside ==
    ASSUME NEW D, Tree(D), pc = "delete", Up(rbt, cur) # NULL
    PROVE  Beside(D, Direction(rbt, cur), Up(rbt, cur), Neighbor(rbt, cur))
<1> DEFINE p == Up(rbt, cur)
           d == Direction(rbt, cur)
           w == Neighbor(rbt, cur)
<1>1. /\ Typed(rbt) /\ Shape(rbt, D) /\ Sorted(rbt, D, res_node) /\ NULL \notin NodesOf(rbt)
      /\ res_node \in NodesOf(rbt) /\ cur \in NodesOf(rbt) /\ res_node \in D[cur]
      /\ HeadOf(rbt) \in NodesOf(rbt)
  BY DeleteAt
<1>2. d \in Dirs /\ Kid(rbt, p, d) = cur /\ w = Kid(rbt, p, Opposite(d))
  BY <1>1, DirectionIs
<1> HIDE DEF d, w
<1>3. Opposite(d) \in Dirs
  BY <1>2, Sides
<1>4. /\ p \in NodesOf(rbt) /\ p # cur /\ cur \in D[p] /\ w # cur
      /\ D[w] \cap D[cur] = {}
  BY <1>1, <1>2, Hangs
<1>5. w \in NodesOf(rbt) \cup {NULL}
  BY <1>1, <1>2, <1>3, <1>4, NodeIs
<1>6. cur \in D[cur] /\ D[cur] \subseteq D[p] /\ (w # NULL => w \in D[w])
  BY <1>1, <1>4, <1>5, Nested
<1>7. w # HeadOf(rbt)
  <2>1. w # NULL => Up(rbt, w) = p
    BY <1>1, <1>2, <1>3, <1>4 DEF Shape
  <2>2. Up(rbt, HeadOf(rbt)) = NULL
    BY <1>1 DEF Shape
  <2> QED BY <2>1, <2>2, <1>1, <1>4
<1>8. w # res_node
  <2>1. w = NULL \/ w # res_node
    BY <1>1, <1>4, <1>6
  <2> QED BY <2>1, <1>1
<1>9. res_node \in D[p] /\ res_node \notin D[w] /\ cur \notin D[w]
  BY <1>1, <1>4, <1>6
<1>10. Beside(D, d, p, w)
  BY <1>2, <1>4, <1>5, <1>7, <1>8, <1>9 DEF Beside
<1> QED BY <1>10 DEF d, w

(***************************************************************************)
(* The round at the head keeps the tree.                                   *)
(***************************************************************************)
LEMMA DeleteAtTopTree ==
    ASSUME NEW D, Tree(D), DeleteAtTop
    PROVE  TreeInv'
<1>1. pc = "delete" /\ Balanced(rbt)
  BY DEF DeleteAtTop
<1>2. Kept(rbt, D)
  BY <1>1, DeleteAt
<1> QED BY <1>1, <1>2, BalancedTree

(***************************************************************************)
(* The round that paints the neighbor keeps the tree.                      *)
(***************************************************************************)
LEMMA DeleteRecolorTree ==
    ASSUME NEW D, Tree(D), DeleteRecolor
    PROVE  TreeInv'
<1> DEFINE p == Up(rbt, cur)
           w == Neighbor(rbt, cur)
           fixed == Paint(rbt, {w}, "RED")
<1>1. /\ pc = "delete" /\ p # NULL
      /\ \/ Balanced(Paint(fixed, {p}, "BLACK")) \/ GoOn(fixed, p)
  BY Zenon DEF DeleteRecolor, Up, Field, NodeAt
<1>2. Beside(D, Direction(rbt, cur), p, w)
  BY <1>1, DeleteBeside
<1> HIDE DEF p, w
<1>3. p \in NodesOf(rbt) /\ res_node \in D[p] /\ w # HeadOf(rbt)
  BY <1>2 DEF Beside
<1>4. Kept(rbt, D)
  BY <1>1, DeleteAt
<1>5. Kept(fixed, D)
  BY <1>1, <1>3, <1>4, PaintKept
<1> HIDE DEF fixed
<1>6. Kept(Paint(fixed, {p}, "BLACK"), D)
  BY <1>1, <1>5, PaintKept
<1>7. CASE Balanced(Paint(fixed, {p}, "BLACK"))
  BY <1>1, <1>6, <1>7, BalancedTree
<1>8. CASE GoOn(fixed, p)
  BY <1>1, <1>3, <1>5, <1>8, GoOnTree
<1> QED BY <1>1, <1>7, <1>8

(***************************************************************************)
(* The round that turns the neighbor's red far kid up keeps the tree.      *)
(***************************************************************************)
LEMMA DeleteRotateFarTree ==
    ASSUME NEW D, Tree(D), DeleteRotateFar
    PROVE  TreeInv'
<1> DEFINE p == Up(rbt, cur)
           w == Neighbor(rbt, cur)
           d == Direction(rbt, cur)
           turned == Rotate(rbt, p, d)
           far == Kid(turned, w, Opposite(d))
<1>1. pc = "delete" /\ p # NULL /\ w # NULL /\ Balanced(Paint(turned, {far}, "BLACK"))
  BY Zenon DEF DeleteRotateFar, Up, Kid, Field, NodeAt
<1>2. Beside(D, d, p, w)
  BY <1>1, DeleteBeside
<1> HIDE DEF p, w, d, turned, far
<1>3. Kept(turned, TurnedD(rbt, D, p, d))
  <2>1. p \in NodesOf(rbt) /\ d \in Dirs /\ w = Kid(rbt, p, Opposite(d)) /\ w # res_node
    BY <1>2 DEF Beside
  <2> QED BY <2>1, <1>1, RotateKept DEF turned
<1>4. Kept(Paint(turned, {far}, "BLACK"), TurnedD(rbt, D, p, d))
  BY <1>1, <1>3, PaintKept
<1> QED BY <1>1, <1>4, BalancedTree

(***************************************************************************)
(* The round that turns the neighbor's red near kid up keeps the tree.     *)
(***************************************************************************)
LEMMA DeleteRotateNearTree ==
    ASSUME NEW D, Tree(D), DeleteRotateNear
    PROVE  TreeInv'
<1> DEFINE p == Up(rbt, cur)
           w == Neighbor(rbt, cur)
           d == Direction(rbt, cur)
           x == Kid(rbt, w, d)
<1>1. /\ pc = "delete" /\ p # NULL /\ w # NULL /\ IsRed(rbt, x)
      /\ GoOn(Rotate(rbt, w, Opposite(d)), cur)
  BY Zenon DEF DeleteRotateNear, Up, Kid, Field, NodeAt
<1>2. Beside(D, d, p, w)
  BY <1>1, DeleteBeside
<1> HIDE DEF p, w, d
<1>3. /\ d \in Dirs /\ w \in NodesOf(rbt) /\ res_node \notin D[w] /\ cur \notin D[w] /\ w # cur
  BY <1>1, <1>2 DEF Beside
<1>4. /\ Typed(rbt) /\ Shape(rbt, D) /\ NULL \notin NodesOf(rbt)
      /\ cur \in NodesOf(rbt) /\ res_node \in D[cur]
  BY <1>1, DeleteAt
<1>5. x \in NodesOf(rbt) /\ x # NULL
  <2>1. x \in NodesOf(rbt) \cup {NULL}
    BY <1>3, <1>4, NodeIs
  <2> QED BY <2>1, <1>1, RedIs
<1>6. x \in D[w]
  <2>1. x \in D[x]
    BY <1>4, <1>5, Nested
  <2> QED BY <2>1, <1>3, <1>4 DEF Shape
<1>7. Opposite(d) \in Dirs /\ Opposite(Opposite(d)) = d
  BY <1>3, Sides
<1>8. /\ Kept(Rotate(rbt, w, Opposite(d)), TurnedD(rbt, D, w, Opposite(d)))
  BY <1>1, <1>3, <1>5, <1>6, <1>7, RotateKept
<1>9. TurnedD(rbt, D, w, Opposite(d))[cur] = D[cur]
  BY <1>3, <1>4, <1>6, <1>7 DEF TurnedD
<1> QED BY <1>1, <1>4, <1>8, <1>9, GoOnTree

(***************************************************************************)
(* The round that turns a red neighbor up keeps the tree.                  *)
(***************************************************************************)
LEMMA DeleteRotateRedTree ==
    ASSUME NEW D, Tree(D), DeleteRotateRed
    PROVE  TreeInv'
<1> DEFINE p == Up(rbt, cur)
           w == Neighbor(rbt, cur)
           d == Direction(rbt, cur)
<1>1. /\ pc = "delete" /\ p # NULL /\ IsRed(rbt, w) /\ GoOn(Rotate(rbt, p, d), cur)
  BY Zenon DEF DeleteRotateRed, Up, Kid, Field, NodeAt
<1>2. Beside(D, d, p, w)
  BY <1>1, DeleteBeside
<1> HIDE DEF p, w, d
<1>3. /\ d \in Dirs /\ p \in NodesOf(rbt) /\ w = Kid(rbt, p, Opposite(d)) /\ w # res_node
      /\ p # cur /\ w # cur
  BY <1>1, <1>2 DEF Beside
<1>4. w # NULL
  BY <1>1, RedIs
<1>5. Kept(Rotate(rbt, p, d), TurnedD(rbt, D, p, d))
  BY <1>1, <1>3, <1>4, RotateKept
<1>6. cur \in NodesOf(rbt) /\ res_node \in D[cur]
  BY <1>1, DeleteAt
<1>7. TurnedD(rbt, D, p, d)[cur] = D[cur]
  BY <1>3, <1>6 DEF TurnedD
<1> QED BY <1>1, <1>5, <1>6, <1>7, GoOnTree

(***************************************************************************)
(* Unlink takes one leaf out and names the nodes after their keys again.   *)
(***************************************************************************)
LEMMA UnlinkTree ==
    ASSUME NEW D, Tree(D), Unlink
    PROVE  TreeInv'
<1> DEFINE u == Cut(rbt, res_node)
           v == Named(u)
<1>1. /\ pc = "unlink" /\ rbt' = v /\ keys' = keys
      /\ pc' = "idle" /\ cur' = NULL /\ key' = NULL /\ res_node' = NULL
  BY Zenon DEF Unlink, Return, Cut
<1>2. /\ Trunk(rbt, D, res_node) /\ NoKids(rbt, res_node) /\ res_node \in NodesOf(rbt)
      /\ keys = {KeyOf(rbt, n) : n \in NodesOf(rbt) \ {res_node}}
  BY <1>1 DEF Tree, At, Holds
<1>3. /\ Typed(rbt) /\ Shape(rbt, D) /\ Sorted(rbt, D, res_node) /\ ~IsRed(rbt, HeadOf(rbt))
      /\ \A n \in NodesOf(rbt) : DataOf(rbt, n) = KeyOf(rbt, n)
  BY <1>2 DEF Trunk
<1>4. Typed(u) /\ Without(rbt, u, res_node)
  BY <1>2, <1>3, CutIs
<1> DEFINE E == [m \in (NodesOf(rbt) \ {res_node}) \cup {NULL} |-> D[m] \ {res_node}]
<1> HIDE DEF u
<1>5. Shape(u, E) /\ Sorted(u, E, NULL)
  BY <1>2, <1>3, <1>4, CutTree
<1> HIDE DEF E
<1>6. Typed(v) /\ Renamed(u, v)
  BY <1>4, <1>5, RenamedIs
<1> HIDE DEF v
<1>7. PICK F : Shape(v, F) /\ Sorted(v, F, NULL)
  BY <1>4, <1>5, <1>6, RenamedTree
<1>8. /\ NodesOf(u) = NodesOf(rbt) \ {res_node}
      /\ HeadOf(u) = IF HeadOf(rbt) = res_node THEN NULL ELSE HeadOf(rbt)
      /\ \A m \in NodesOf(rbt) \ {res_node} :
            /\ KeyOf(u, m) = KeyOf(rbt, m) /\ DataOf(u, m) = DataOf(rbt, m)
            /\ Color(u, m) = Color(rbt, m)
  BY <1>4 DEF Without
<1>9. /\ NodesOf(v) = {KeyOf(u, n) : n \in NodesOf(u)} /\ HeadOf(v) = Name(u, HeadOf(u))
      /\ \A n \in NodesOf(u) :
            /\ KeyOf(v, KeyOf(u, n)) = KeyOf(u, n)
            /\ DataOf(v, KeyOf(u, n)) = DataOf(u, n)
            /\ Color(v, KeyOf(u, n)) = Color(u, n)
  BY <1>6 DEF Renamed
<1>10. \A n \in NodesOf(v) : DataOf(v, n) = KeyOf(v, n) /\ KeyOf(v, n) = n
  BY <1>3, <1>8, <1>9
<1>11. ~IsRed(v, HeadOf(v))
  <2>1. HeadOf(u) \in NodesOf(u) \cup {NULL}
    BY <1>4 DEF Typed, HeadOf
  <2>2. CASE HeadOf(u) = NULL
    BY <2>2, <1>9, RedIs DEF Name
  <2>3. CASE HeadOf(u) # NULL
    <3>1. HeadOf(u) \in NodesOf(u) /\ HeadOf(u) = HeadOf(rbt)
      BY <2>1, <2>3, <1>8
    <3>2. Color(rbt, HeadOf(rbt)) # "RED"
      BY <3>1, <2>3, <1>3, RedIs
    <3>3. HeadOf(v) = KeyOf(u, HeadOf(u)) /\ Color(v, HeadOf(v)) # "RED"
      BY <3>1, <3>2, <2>3, <1>8, <1>9 DEF Name
    <3> QED BY <3>3, RedIs
  <2> QED BY <2>2, <2>3
<1>12. Trunk(v, F, NULL)
  BY <1>6, <1>7, <1>10, <1>11 DEF Trunk
<1>13. Holds(v, NULL, keys)
  <2>1. keys = NodesOf(v)
    BY <1>2, <1>8, <1>9
  <2>2. NULL \notin NodesOf(v)
    BY <1>6, NodeIs
  <2> QED BY <2>1, <2>2, <1>10 DEF Holds
<1> QED BY <1>1, <1>12, <1>13 DEF TreeInv, Tree, At

(***************************************************************************)
(* Every step keeps the tree.                                              *)
(***************************************************************************)
LEMMA NextTree ==
    ASSUME TreeInv, [Next]_vars
    PROVE  TreeInv'
<1>1. PICK D : Tree(D)
  BY DEF TreeInv
<1>2. ASSUME NEW k \in Keys, InsertFirst(k) PROVE TreeInv'
  BY <1>1, <1>2, InsertFirstTree
<1>3. ASSUME NEW k \in Keys, Insert(k) PROVE TreeInv'
  BY <1>1, <1>3, InsertTree
<1>4. ASSUME NEW k \in Keys, Remove(k) PROVE TreeInv'
  BY <1>1, <1>4, RemoveTree
<1>5. CASE InsertBalanced
  BY <1>1, <1>5, InsertBalancedTree
<1>6. CASE InsertRecolor
  BY <1>1, <1>6, InsertRecolorTree
<1>7. CASE InsertRotate
  BY <1>1, <1>7, InsertRotateTree
<1>8. CASE DeleteAtTop
  BY <1>1, <1>8, DeleteAtTopTree
<1>9. CASE DeleteRecolor
  BY <1>1, <1>9, DeleteRecolorTree
<1>10. CASE DeleteRotateFar
  BY <1>1, <1>10, DeleteRotateFarTree
<1>11. CASE DeleteRotateNear
  BY <1>1, <1>11, DeleteRotateNearTree
<1>12. CASE DeleteRotateRed
  BY <1>1, <1>12, DeleteRotateRedTree
<1>13. CASE Unlink
  BY <1>1, <1>13, UnlinkTree
<1>14. CASE UNCHANGED vars
  BY <1>14 DEF vars, TreeInv, Tree
<1> QED BY <1>2, <1>3, <1>4, <1>5, <1>6, <1>7, <1>8, <1>9, <1>10, <1>11, <1>12, <1>13, <1>14
        DEF Next, Step

(***************************************************************************)
(* In every state the pointers form a tree and the keys in it are in       *)
(* order, also between the steps of a removal, when two nodes may hold the *)
(* same key.                                                               *)
(***************************************************************************)
THEOREM TreeInvariant == Spec => []TreeInv
BY InitTree, NextTree, PTL DEF Spec

-----------------------------------------------------------------------------
(***************************************************************************)
(* What the tree holds between two calls                                   *)
(***************************************************************************)

(***************************************************************************)
(* TypeOK: every pointer of the tree and of the locals is NULL or names an *)
(* allocated node; no step of a call leaves a dangling one.                *)
(***************************************************************************)
THEOREM TypeCorrect == Spec => []TypeOK
<1>1. TreeInv => TypeOK
  <2> SUFFICES ASSUME NEW D, Tree(D) PROVE TypeOK
    BY DEF TreeInv
  <2>1. /\ Trunk(rbt, D, res_node) /\ At(rbt, D, pc, cur, key, res_node)
        /\ keys = {KeyOf(rbt, n) : n \in NodesOf(rbt) \ {res_node}}
    BY DEF Tree, Holds
  <2>2. Typed(rbt) /\ Shape(rbt, D)
    BY <2>1 DEF Trunk
  <2>3. keys \subseteq Keys
    BY <2>1, <2>2, NodeIs
  <2>4. NodesOf(rbt) \subseteq Keys /\ HeadOf(rbt) \in NodesOf(rbt) \cup {NULL}
    BY <2>2 DEF Typed, HeadOf
  <2>5. /\ pc \in {"idle", "insert", "delete", "unlink"} /\ key \in Keys \cup {NULL}
        /\ cur \in NodesOf(rbt) \cup {NULL} /\ res_node \in NodesOf(rbt) \cup {NULL}
    <3>1. \A n \in NodesOf(rbt) : D[n] \subseteq NodesOf(rbt)
      BY <2>2, Nested
    <3> QED BY <3>1, <2>1, <2>4 DEF At
  <2>6. \A n \in NodesOf(rbt) : NodeAt(rbt, n) \in NodeOf(NodesOf(rbt) \cup {NULL})
    BY <2>2, NodeIs
  <2>7. \A n \in Nodes : rbt.node[n] \in NodeType
    BY <2>6, Zenon DEF NodeAt, NodeOf, NodesOf, Nodes, NodeType, Pointers
  <2> QED BY <2>3, <2>4, <2>5, <2>7 DEF TypeOK, Pointers, Nodes, NodesOf, HeadOf
<1> QED BY <1>1, TreeInvariant, PTL

\* The nodes from m up to the head, and their number.
Above(s, D, m) == {a \in NodesOf(s) : m \in D[a]}
Depth(s, D, m) == Cardinality(Above(s, D, m))

(***************************************************************************)
(* A kid is one deeper than its parent.                                    *)
(***************************************************************************)
LEMMA DepthIs ==
    ASSUME NEW s, NEW D, Typed(s), Shape(s, D)
    PROVE  /\ Cardinality(NodesOf(s)) \in Nat
           /\ \A m \in NodesOf(s) : /\ Depth(s, D, m) \in Nat
                                    /\ Depth(s, D, m) <= Cardinality(NodesOf(s))
           /\ \A m \in NodesOf(s), d \in Dirs :
                 Kid(s, m, d) # NULL => Depth(s, D, Kid(s, m, d)) = Depth(s, D, m) + 1
           /\ \A n \in NodesOf(s) : \A m \in D[n] :
                 m # n => Depth(s, D, n) < Depth(s, D, m)
<1>1. IsFiniteSet(NodesOf(s))
  BY DEF Typed
<1>2. ASSUME NEW m PROVE /\ IsFiniteSet(Above(s, D, m)) /\ Depth(s, D, m) \in Nat
                         /\ Depth(s, D, m) <= Cardinality(NodesOf(s))
  <2>1. Above(s, D, m) \in SUBSET NodesOf(s)
    BY DEF Above
  <2> QED BY <2>1, <1>1, FS_Subset, FS_CardinalityType DEF Depth
<1>3. ASSUME NEW m \in NodesOf(s), NEW d \in Dirs, Kid(s, m, d) # NULL
      PROVE  Depth(s, D, Kid(s, m, d)) = Depth(s, D, m) + 1
  <2> DEFINE c == Kid(s, m, d)
  <2>1. c \in NodesOf(s)
    BY <1>3, NodeIs
  <2>2. m \notin D[c] /\ Up(s, c) = m /\ D[c] \subseteq D[m]
    BY <1>3 DEF Shape
  <2>3. c \in D[c]
    BY <2>1, Nested
  <2> HIDE DEF c
  <2>4. \A a \in NodesOf(s) : c \in D[a] => a = c \/ m \in D[a]
    BY <2>2, Nested
  <2>5. \A a \in NodesOf(s) : m \in D[a] => c \in D[a]
    BY <2>2, <2>3, Nested
  <2>6. Above(s, D, c) = Above(s, D, m) \cup {c} /\ c \notin Above(s, D, m)
    BY <2>1, <2>2, <2>3, <2>4, <2>5 DEF Above
  <2> QED BY <2>6, <1>2, FS_AddElement DEF Depth, c
<1>4. ASSUME NEW n \in NodesOf(s), NEW m \in D[n], m # n
      PROVE  Depth(s, D, n) < Depth(s, D, m)
  <2>1. m \in NodesOf(s) /\ m \in D[m] /\ n \notin D[m]
    BY <1>4, Nested
  <2>2. \A a \in NodesOf(s) : n \in D[a] => m \in D[a]
    BY <1>4, Nested
  <2>3. Above(s, D, n) \in SUBSET Above(s, D, m) /\ Above(s, D, n) # Above(s, D, m)
    BY <2>1, <2>2 DEF Above
  <2>4. /\ Cardinality(Above(s, D, n)) <= Cardinality(Above(s, D, m))
        /\ Cardinality(Above(s, D, n)) # Cardinality(Above(s, D, m))
    BY <2>3, <1>2, FS_Subset
  <2> QED BY <2>4, <1>2 DEF Depth
<1>5. Cardinality(NodesOf(s)) \in Nat
  BY <1>1, FS_CardinalityType
<1> QED BY <1>2, <1>3, <1>4, <1>5

(***************************************************************************)
(* The level i below n holds the nodes below n that are i deeper.          *)
(***************************************************************************)
LEMMA LevelIs ==
    ASSUME NEW D, Typed(rbt), Shape(rbt, D), NEW n \in NodesOf(rbt) \cup {NULL}, NEW i \in Nat
    PROVE  Level({n}, i) = {m \in D[n] : Depth(rbt, D, m) = Depth(rbt, D, n) + i}
<1> DEFINE L(j) == {m \in D[n] : Depth(rbt, D, m) = Depth(rbt, D, n) + j}
           Kids(S) == (UNION {{Kid(rbt, m, "left"), Kid(rbt, m, "right")} : m \in S}) \ {NULL}
           Is(f) == f = [j \in Nat |-> IF j = 0 THEN {n} \ {NULL} ELSE Kids(f[j - 1])]
<1>1. Level({n}, i) = (CHOOSE f : Is(f))[i]
  BY Zenon DEF Level, Kid, Field, NodeAt
<1>2. /\ NULL \notin NodesOf(rbt) /\ D[NULL] = {}
      /\ \A m \in D[n] : m \in NodesOf(rbt)
  <2>1. NULL \notin NodesOf(rbt) /\ D[NULL] = {}
    BY NodeIs DEF Shape
  <2> QED BY <2>1, Nested
<1>3. L(0) = {n} \ {NULL}
  <2>1. CASE n = NULL
    BY <2>1, <1>2
  <2>2. CASE n # NULL
    <3>1. n \in NodesOf(rbt) /\ n \in D[n]
      BY <2>2, Nested
    <3>2. Depth(rbt, D, n) \in Nat /\ \A m \in D[n] : Depth(rbt, D, m) \in Nat
      BY <3>1, <1>2, DepthIs
    <3>3. \A m \in D[n] : m # n => Depth(rbt, D, n) < Depth(rbt, D, m)
      BY <3>1, DepthIs
    <3> QED BY <2>2, <3>1, <3>2, <3>3
  <2> QED BY <2>1, <2>2
<1>4. ASSUME NEW j \in Nat PROVE Kids(L(j)) = L(j + 1)
  <2>1. CASE n = NULL
    BY <2>1, <1>2
  <2>2. CASE n # NULL
    <3>1. n \in NodesOf(rbt) /\ Depth(rbt, D, n) \in Nat
      BY <2>2, DepthIs
    <3>2. ASSUME NEW m \in L(j), NEW d \in Dirs, Kid(rbt, m, d) # NULL
          PROVE  Kid(rbt, m, d) \in L(j + 1)
      <4>1. m \in NodesOf(rbt) /\ m \in D[n] /\ Depth(rbt, D, m) = Depth(rbt, D, n) + j
        BY <3>2, <1>2
      <4>2. Kid(rbt, m, d) \in NodesOf(rbt)
        BY <4>1, <3>2, NodeIs
      <4>3. Kid(rbt, m, d) \in D[Kid(rbt, m, d)]
        BY <4>2, Nested
      <4>4. Kid(rbt, m, d) \in D[m]
        BY <4>1, <4>3 DEF Shape
      <4>5. Kid(rbt, m, d) \in D[n]
        BY <4>1, <4>4, <3>1, Nested
      <4>6. Depth(rbt, D, Kid(rbt, m, d)) = Depth(rbt, D, m) + 1
        BY <4>1, <3>2, DepthIs
      <4> QED BY <4>1, <4>5, <4>6, <3>1
    <3>3. ASSUME NEW m \in L(j + 1)
          PROVE  \E a \in L(j), d \in Dirs : m = Kid(rbt, a, d)
      <4>1. m \in NodesOf(rbt) /\ m \in D[n] /\ Depth(rbt, D, m) = Depth(rbt, D, n) + (j + 1)
        BY <3>3, <1>2
      <4>2. m # n
        BY <4>1, <3>1
      <4>3. Up(rbt, m) \in D[n]
        BY <4>1, <4>2, <3>1, Nested
      <4>4. Up(rbt, m) \in NodesOf(rbt) /\ Up(rbt, m) # NULL
        BY <4>3, <1>2
      <4>5. PICK d \in Dirs : Kid(rbt, Up(rbt, m), d) = m
        BY <4>1, <4>4, Hangs
      <4>6. Depth(rbt, D, m) = Depth(rbt, D, Up(rbt, m)) + 1 /\ Depth(rbt, D, Up(rbt, m)) \in Nat
        BY <4>1, <4>4, <4>5, <1>2, DepthIs
      <4>7. Up(rbt, m) \in L(j)
        BY <4>1, <4>3, <4>6, <3>1
      <4> QED BY <4>5, <4>7
    <3>4. \A m \in L(j + 1) : m # NULL
      BY <1>2
    <3> HIDE DEF L
    <3>5. \A m : m \in Kids(L(j)) <=>
             m # NULL /\ \E a \in L(j) : m = Kid(rbt, a, "left") \/ m = Kid(rbt, a, "right")
      OBVIOUS
    <3> HIDE DEF Kids
    <3>6. \A m \in Kids(L(j)) : m \in L(j + 1)
      BY <3>2, <3>5, Sides
    <3>7. \A m \in L(j + 1) : m \in Kids(L(j))
      BY <3>3, <3>4, <3>5, Sides
    <3> QED BY <3>6, <3>7
  <2> QED BY <2>1, <2>2
<1> HIDE DEF L, Kids
<1>5. Is([j \in Nat |-> L(j)])
  <2> DEFINE f == [j \in Nat |-> L(j)]
  <2>1. ASSUME NEW j \in Nat PROVE L(j) = IF j = 0 THEN {n} \ {NULL} ELSE Kids(f[j - 1])
    <3>1. CASE j = 0
      BY <3>1, <1>3
    <3>2. CASE j # 0
      <4>1. j - 1 \in Nat /\ (j - 1) + 1 = j
        BY <3>2
      <4>2. f[j - 1] = L(j - 1)
        BY <4>1
      <4>3. Kids(L(j - 1)) = L((j - 1) + 1)
        BY <4>1, <1>4
      <4> QED BY <3>2, <4>1, <4>2, <4>3
    <3> QED BY <3>1, <3>2
  <2> QED BY <2>1
<1>6. ASSUME NEW f, Is(f) PROVE \A j \in Nat : f[j] = L(j)
  <2>1. /\ f[0] = {n} \ {NULL}
        /\ \A j \in Nat : j # 0 => f[j] = Kids(f[j - 1])
    BY <1>6
  <2> DEFINE Bad == {j \in Nat : f[j] # L(j)}
  <2> SUFFICES ASSUME Bad # {} PROVE FALSE
    OBVIOUS
  <2>2. PICK j \in Bad : \A a \in Bad : j <= a
    BY LeastNat
  <2>3. j # 0
    BY <2>1, <2>2, <1>3
  <2>4. j - 1 \in Nat /\ (j - 1) + 1 = j /\ j - 1 \notin Bad
    BY <2>2, <2>3
  <2>5. f[j] = Kids(L(j - 1)) /\ L(j) = Kids(L(j - 1))
    BY <2>1, <2>3, <2>4, <1>4
  <2> QED BY <2>5, <2>2
<1> HIDE DEF Is
<1>7. Is(CHOOSE f : Is(f))
  BY <1>5
<1>8. Level({n}, i) = L(i)
  BY <1>1, <1>6, <1>7
<1> QED BY <1>8 DEF L

(***************************************************************************)
(* D[n] holds the nodes the model finds under n.                           *)
(***************************************************************************)
LEMMA UnderIs ==
    ASSUME NEW D, Typed(rbt), Shape(rbt, D), NEW n \in NodesOf(rbt) \cup {NULL}
    PROVE  Under(n) = D[n]
<1>1. D[NULL] = {} /\ NULL \notin NodesOf(rbt) /\ Cardinality(NodesOf(rbt)) \in Nat
  BY NodeIs, DepthIs DEF Shape
<1>2. \A i \in 0..Cardinality(Nodes) : Level({n}, i) \subseteq D[n]
  BY <1>1, LevelIs DEF Nodes, NodesOf
<1>3. ASSUME NEW m \in D[n] PROVE \E i \in 0..Cardinality(Nodes) : m \in Level({n}, i)
  <2>1. n \in NodesOf(rbt)
    BY <1>1, <1>3
  <2>2. m \in NodesOf(rbt)
    BY <2>1, <1>3, Nested
  <2>3. /\ Depth(rbt, D, n) \in Nat /\ Depth(rbt, D, m) \in Nat
        /\ Depth(rbt, D, m) <= Cardinality(NodesOf(rbt))
    BY <2>1, <2>2, DepthIs
  <2>4. Depth(rbt, D, n) <= Depth(rbt, D, m)
    <3>1. m # n => Depth(rbt, D, n) < Depth(rbt, D, m)
      BY <2>1, <1>3, DepthIs
    <3> QED BY <3>1, <2>3
  <2> DEFINE i == Depth(rbt, D, m) - Depth(rbt, D, n)
  <2>5. /\ i \in Nat /\ i \in 0..Cardinality(NodesOf(rbt))
        /\ Depth(rbt, D, m) = Depth(rbt, D, n) + i
    BY <1>1, <2>3, <2>4
  <2> HIDE DEF i
  <2>6. m \in Level({n}, i)
    BY <2>5, <1>3, LevelIs
  <2> QED BY <2>5, <2>6 DEF Nodes, NodesOf
<1> QED BY <1>2, <1>3 DEF Under

\* The tree between two calls.
Resting(D) ==
    /\ Typed(rbt) /\ Shape(rbt, D) /\ Sorted(rbt, D, NULL) /\ keys = NodesOf(rbt)
    /\ \A n \in NodesOf(rbt) : KeyOf(rbt, n) = n /\ DataOf(rbt, n) = n
    /\ NULL \notin NodesOf(rbt) /\ HeadOf(rbt) \in NodesOf(rbt) \cup {NULL}
    /\ ~IsRed(rbt, HeadOf(rbt))

(***************************************************************************)
(* What the invariant of the tree says between two calls.                  *)
(***************************************************************************)
LEMMA Rests ==
    ASSUME NEW D, Tree(D), pc = "idle"
    PROVE  Resting(D)
<1>1. res_node = NULL
  BY DEF Tree, At
<1>2. /\ Typed(rbt) /\ Shape(rbt, D) /\ Sorted(rbt, D, NULL) /\ ~IsRed(rbt, HeadOf(rbt))
      /\ keys = {KeyOf(rbt, n) : n \in NodesOf(rbt) \ {NULL}}
      /\ \A n \in NodesOf(rbt) : KeyOf(rbt, n) = n /\ DataOf(rbt, n) = n
  BY <1>1 DEF Tree, Trunk, Holds
<1>3. NULL \notin NodesOf(rbt)
  BY <1>2, NodeIs
<1>4. HeadOf(rbt) \in NodesOf(rbt) \cup {NULL}
  BY <1>2 DEF Typed, HeadOf
<1> QED BY <1>2, <1>3, <1>4 DEF Resting

(***************************************************************************)
(* Linked: between two calls every node is reached from the head by one    *)
(* pointer and its parent field names the node that pointer is in.         *)
(***************************************************************************)
THEOREM StaysLinked == Spec => []Linked
<1>1. TreeInv => Linked
  <2> SUFFICES ASSUME NEW D, Tree(D), pc = "idle" PROVE Linked
    BY DEF TreeInv, Linked
  <2>1. /\ Typed(rbt) /\ Shape(rbt, D) /\ NULL \notin NodesOf(rbt)
        /\ HeadOf(rbt) \in NodesOf(rbt) \cup {NULL}
    BY Rests DEF Resting
  <2>2. Under(rbt.head) = Nodes
    <3>1. Under(HeadOf(rbt)) = D[HeadOf(rbt)] /\ D[HeadOf(rbt)] = NodesOf(rbt)
      BY <2>1, UnderIs DEF Shape
    <3> QED BY <3>1 DEF Nodes, NodesOf, HeadOf
  <2>3. rbt.head # NULL => rbt.node[rbt.head].parent = NULL
    <3>1. HeadOf(rbt) # NULL => Up(rbt, HeadOf(rbt)) = NULL
      BY <2>1 DEF Shape
    <3> QED BY <3>1, Zenon DEF HeadOf, Up, Field, NodeAt
  <2>4. ASSUME NEW n \in NodesOf(rbt), NEW d \in Dirs, Kid(rbt, n, d) # NULL
        PROVE  /\ Up(rbt, Kid(rbt, n, d)) = n /\ Kid(rbt, n, d) # Kid(rbt, n, Opposite(d))
    <3>1. Kid(rbt, n, d) \in NodesOf(rbt)
      BY <2>1, <2>4, NodeIs
    <3>2. Kid(rbt, n, d) \in D[Kid(rbt, n, d)]
      BY <2>1, <3>1, Nested
    <3> QED BY <2>1, <2>4, <3>2 DEF Shape
  <2>5. \A n \in Nodes, d \in {"left", "right"} :
           LET c == rbt.node[n][d]
           IN  c # NULL => rbt.node[c].parent = n /\ c # rbt.node[n][Opposite(d)]
    BY <2>4, Zenon DEF Nodes, NodesOf, Dirs, Kid, Up, Field, NodeAt
  <2> QED BY <2>2, <2>3, <2>5 DEF Linked
<1> QED BY <1>1, TreeInvariant, PTL

(***************************************************************************)
(* Ordered: between two calls the keys grow from left to right, although   *)
(* Rotate and Unlink find the pointers they change by comparing keys.      *)
(***************************************************************************)
THEOREM StaysOrdered == Spec => []Ordered
<1>1. TreeInv => Ordered
  <2> SUFFICES ASSUME NEW D, Tree(D), pc = "idle" PROVE Ordered
    BY DEF TreeInv, Ordered
  <2>1. /\ Typed(rbt) /\ Shape(rbt, D) /\ Sorted(rbt, D, NULL) /\ NULL \notin NodesOf(rbt)
    BY Rests DEF Resting
  <2>2. ASSUME NEW n \in NodesOf(rbt)
        PROVE  /\ \A m \in Under(Kid(rbt, n, "left")) : KeyOf(rbt, m) < KeyOf(rbt, n)
               /\ \A m \in Under(Kid(rbt, n, "right")) : KeyOf(rbt, m) > KeyOf(rbt, n)
    <3>1. \A d \in Dirs : Kid(rbt, n, d) \in NodesOf(rbt) \cup {NULL}
      BY <2>1, NodeIs
    <3>2. \A d \in Dirs : Under(Kid(rbt, n, d)) = D[Kid(rbt, n, d)]
      BY <2>1, <3>1, UnderIs
    <3>3. /\ \A m \in D[Kid(rbt, n, "left")] : KeyOf(rbt, m) < KeyOf(rbt, n) /\ m # NULL
          /\ \A m \in D[Kid(rbt, n, "right")] : KeyOf(rbt, m) > KeyOf(rbt, n) /\ m # NULL
      BY <2>1, KidKeys
    <3> QED BY <3>2, <3>3, Sides
  <2> QED BY <2>2, Zenon DEF Ordered, Nodes, NodesOf, Kid, KeyOf, Field, NodeAt
<1> QED BY <1>1, TreeInvariant, PTL

(***************************************************************************)
(* HoldsKeys: between two calls the tree holds the keys that were inserted *)
(* and not removed, each with its own data, whatever nodes a removal moved *)
(* them through.                                                           *)
(***************************************************************************)
THEOREM KeysHeld == Spec => []HoldsKeys
<1>1. TreeInv => HoldsKeys
  <2> SUFFICES ASSUME NEW D, Tree(D), pc = "idle" PROVE HoldsKeys
    BY DEF TreeInv, HoldsKeys
  <2>1. /\ Typed(rbt) /\ Shape(rbt, D) /\ keys = NodesOf(rbt)
        /\ \A n \in NodesOf(rbt) : KeyOf(rbt, n) = n /\ DataOf(rbt, n) = n
        /\ HeadOf(rbt) \in NodesOf(rbt) \cup {NULL}
    BY Rests DEF Resting
  <2>2. Under(HeadOf(rbt)) = NodesOf(rbt)
    <3>1. Under(HeadOf(rbt)) = D[HeadOf(rbt)] /\ D[HeadOf(rbt)] = NodesOf(rbt)
      BY <2>1, UnderIs DEF Shape
    <3> QED BY <3>1
  <2>3. {KeyOf(rbt, n) : n \in Under(HeadOf(rbt))} = keys
    BY <2>1, <2>2
  <2>4. \A n \in NodesOf(rbt) : DataOf(rbt, n) = KeyOf(rbt, n)
    BY <2>1
  <2> QED BY <2>3, <2>4, Zenon DEF HoldsKeys, Nodes, NodesOf, HeadOf, KeyOf, DataOf, Field, NodeAt
<1> QED BY <1>1, TreeInvariant, PTL

-----------------------------------------------------------------------------
(***************************************************************************)
(* Lookups                                                                 *)
(***************************************************************************)

\* v is the node below n whose key is nearest to k on the far side of d.
Nearest(s, D, n, k, d, v) ==
    \/ /\ v = NULL
       /\ \A x \in D[n] : IF d = "right" THEN KeyOf(s, x) > k ELSE KeyOf(s, x) < k
    \/ /\ v \in D[n]
       /\ IF d = "right" THEN KeyOf(s, v) <= k ELSE KeyOf(s, v) >= k
       /\ \A x \in D[n] : IF d = "right" THEN KeyOf(s, x) <= k => KeyOf(s, x) <= KeyOf(s, v)
                                         ELSE KeyOf(s, x) >= k => KeyOf(s, x) >= KeyOf(s, v)

(***************************************************************************)
(* The last node the search left towards d is the nearest one.             *)
(***************************************************************************)
LEMMA BoundIs ==
    ASSUME NEW D, Typed(rbt), Shape(rbt, D), Sorted(rbt, D, NULL), NEW k \in Nat, NEW d \in Dirs
    PROVE  Nearest(rbt, D, HeadOf(rbt), k, d, Bound(k, d))
<1> DEFINE N == NodesOf(rbt)
           P == N \cup {NULL}
           T(n) == Toward(rbt, n, k)
           Is(f) == f = [n \in P |->
                       IF n = NULL THEN NULL
                       ELSE IF KeyOf(rbt, n) = k THEN n
                       ELSE IF f[Kid(rbt, n, T(n))] = NULL /\ T(n) = d THEN n
                       ELSE f[Kid(rbt, n, T(n))]]
           Stop == {NULL} \cup {n \in N : KeyOf(rbt, n) = k}
           base == [n \in P |-> n]
           next == [n \in P |-> Kid(rbt, n, T(n))]
           H    == [x \in P \X P |-> IF x[2] = NULL /\ T(x[1]) = d THEN x[1] ELSE x[2]]
           rank == [n \in P |-> IF n = NULL THEN 0 ELSE Size(D, n) + 1]
           b    == Cardinality(N) + 2
<1>1. Bound(k, d) = (CHOOSE f : Is(f))[HeadOf(rbt)]
  BY Zenon DEF Bound, HeadOf, NodesOf, KeyOf, Kid, Toward, Field, NodeAt
<1>2. NULL \notin N /\ D[NULL] = {} /\ HeadOf(rbt) \in P
  <2>1. NULL \notin N
    BY NodeIs
  <2> QED BY <2>1 DEF Shape, Typed, HeadOf
<1>3. \A n \in N : T(n) \in Dirs /\ Kid(rbt, n, T(n)) \in P
  BY NodeIs, Sides DEF Toward
<1>4. Ends(P, P, rank, b, Stop, base, next, H)
  <2>1. /\ Cardinality(N) \in Nat
        /\ \A n \in N : Size(D, n) \in Nat /\ Size(D, n) < Cardinality(N) + 1
    BY Sizes
  <2>2. rank \in [P -> Nat] /\ b \in Nat /\ \A x \in P : rank[x] < b
    <3>1. b \in Nat /\ 0 < b
      BY <2>1
    <3>2. ASSUME NEW x \in P PROVE rank[x] \in Nat /\ rank[x] < b
      <4>1. CASE x = NULL
        BY <4>1, <3>1
      <4>2. CASE x # NULL
        <5>1. rank[x] = Size(D, x) + 1 /\ x \in N
          BY <4>2
        <5> QED BY <5>1, <2>1
      <4> QED BY <4>1, <4>2
    <3> QED BY <3>1, <3>2
  <2>3. base \in [P -> P] /\ H \in [P \X P -> P]
    OBVIOUS
  <2>4. ASSUME NEW x \in P \ Stop PROVE next[x] \in P /\ rank[next[x]] < rank[x]
    <3>1. x \in N /\ x # NULL /\ next[x] = Kid(rbt, x, T(x)) /\ rank[x] = Size(D, x) + 1
      BY <1>2
    <3> DEFINE y == Kid(rbt, x, T(x))
    <3>2. y \in P
      BY <3>1, <1>3
    <3>3. y # NULL => Size(D, y) < Size(D, x)
      <4>1. D[y] \subseteq D[x] /\ x \notin D[y]
        BY <3>1, <1>3 DEF Shape
      <4> HIDE DEF y
      <4> QED BY <4>1, <3>1, <3>2, Sizes
    <3>4. Size(D, x) \in Nat
      BY <3>1, <2>1
    <3> HIDE DEF y
    <3>5. rank[y] < rank[x]
      <4>1. CASE y = NULL
        BY <4>1, <3>1, <3>4
      <4>2. CASE y # NULL
        <5>1. y \in N /\ rank[y] = Size(D, y) + 1
          BY <4>2, <3>2
        <5> QED BY <5>1, <4>2, <3>1, <3>3, <3>4, <2>1
      <4> QED BY <4>1, <4>2
    <3> QED BY <3>1, <3>2, <3>5 DEF y
  <2> HIDE DEF rank, b, base, next, H, Stop, P
  <2> QED BY <2>2, <2>3, <2>4 DEF Ends
<1>5. \E f \in [P -> P] : f = Round(P, Stop, base, next, H, f)
  <2> HIDE DEF rank, b, base, next, H, Stop, P
  <2> QED BY <1>4, Walk
<1>6. PICK f \in [P -> P] : f = Round(P, Stop, base, next, H, f)
  BY <1>5
<1>7. Is(f)
  <2>1. ASSUME NEW n \in P
        PROVE  (IF n \in Stop THEN base[n] ELSE H[<<n, f[next[n]]>>]) =
                  IF n = NULL THEN NULL
                  ELSE IF KeyOf(rbt, n) = k THEN n
                  ELSE IF f[Kid(rbt, n, T(n))] = NULL /\ T(n) = d THEN n
                  ELSE f[Kid(rbt, n, T(n))]
    <3>1. CASE n \in Stop
      BY <3>1, <1>2
    <3>2. CASE n \notin Stop
      <4>1. n \in N /\ n # NULL /\ KeyOf(rbt, n) # k
        BY <3>2
      <4>2. next[n] = Kid(rbt, n, T(n)) /\ next[n] \in P
        BY <4>1, <1>3
      <4> HIDE DEF next, Stop
      <4>3. f[next[n]] \in P
        BY <4>2
      <4>4. H[<<n, f[next[n]]>>] = IF f[next[n]] = NULL /\ T(n) = d THEN n ELSE f[next[n]]
        BY <4>3
      <4> HIDE DEF H, base, T, P
      <4> QED BY <3>2, <4>1, <4>2, <4>4
    <3> QED BY <3>1, <3>2
  <2> HIDE DEF rank, b, base, next, H, Stop, P, T
  <2>2. f = [n \in P |-> IF n \in Stop THEN base[n] ELSE H[<<n, f[next[n]]>>]]
    BY <1>6 DEF Round
  <2> QED BY <2>1, <2>2
<1> DEFINE F == CHOOSE g : Is(g)
<1>8. Is(F)
  <2> HIDE DEF Is
  <2> QED BY <1>7
<1> HIDE DEF F, T
<1>9. /\ F[NULL] = NULL
      /\ \A n \in N : F[n] = IF KeyOf(rbt, n) = k THEN n
                             ELSE IF F[Kid(rbt, n, T(n))] = NULL /\ T(n) = d THEN n
                             ELSE F[Kid(rbt, n, T(n))]
  <2>1. \A n \in P : F[n] = IF n = NULL THEN NULL
                            ELSE IF KeyOf(rbt, n) = k THEN n
                            ELSE IF F[Kid(rbt, n, T(n))] = NULL /\ T(n) = d THEN n
                            ELSE F[Kid(rbt, n, T(n))]
    BY <1>8
  <2> QED BY <2>1, <1>2
<1> DEFINE G == {n \in N : Nearest(rbt, D, n, k, d, F[n])}
<1>10. Nearest(rbt, D, NULL, k, d, F[NULL])
  BY <1>2, <1>9 DEF Nearest
<1>11. ASSUME NEW n \in N, \A e \in Dirs : Kid(rbt, n, e) # NULL => Kid(rbt, n, e) \in G
       PROVE  n \in G
  <2> DEFINE e == T(n)
             y == Kid(rbt, n, e)
             z == Kid(rbt, n, Opposite(e))
  <2>1. e \in Dirs /\ y \in P
    BY <1>3
  <2>2. Nearest(rbt, D, y, k, d, F[y])
    BY <2>1, <1>10, <1>11
  <2>3. D[n] = {n} \cup D[y] \cup D[z] /\ n \in D[n]
    BY <2>1 DEF Shape
  <2>4. /\ KeyOf(rbt, n) \in Nat /\ e = IF KeyOf(rbt, n) < k THEN "right" ELSE "left"
        /\ \A x \in D[n] : KeyOf(rbt, x) \in Nat
    <3>1. \A x \in D[n] : x \in N
      BY Nested
    <3> QED BY <3>1, NodeIs DEF T, Toward
  <2>5. /\ e = "right" => /\ \A x \in D[y] : KeyOf(rbt, x) > KeyOf(rbt, n)
                          /\ \A x \in D[z] : KeyOf(rbt, x) < KeyOf(rbt, n)
        /\ e = "left" => /\ \A x \in D[y] : KeyOf(rbt, x) < KeyOf(rbt, n)
                         /\ \A x \in D[z] : KeyOf(rbt, x) > KeyOf(rbt, n)
    <3>1. /\ \A m \in D[Kid(rbt, n, "left")] : KeyOf(rbt, m) < KeyOf(rbt, n)
          /\ \A m \in D[Kid(rbt, n, "right")] : KeyOf(rbt, m) > KeyOf(rbt, n)
      BY <1>2, KidKeys
    <3> QED BY <3>1, Sides
  <2>6. D[y] \subseteq D[n]
    BY <2>3
  <2> HIDE DEF e, y, z, N, P
  <2>7. CASE KeyOf(rbt, n) = k
    <3>1. F[n] = n
      BY <2>7, <1>9
    <3> QED BY <3>1, <2>3, <2>4, <2>7 DEF Nearest
  <2>8. CASE KeyOf(rbt, n) # k /\ F[y] = NULL /\ e = d
    <3>1. F[n] = n
      BY <2>8, <1>9 DEF e, y
    <3>2. \A x \in D[y] : IF d = "right" THEN KeyOf(rbt, x) > k ELSE KeyOf(rbt, x) < k
      <4>1. NULL \notin D[y]
        BY <2>6, <1>2, Nested DEF N
      <4> QED BY <4>1, <2>2, <2>8 DEF Nearest
    <3>3. CASE d = "right"
      <4>1. KeyOf(rbt, n) < k /\ \A x \in D[z] : KeyOf(rbt, x) < KeyOf(rbt, n)
        BY <3>3, <2>4, <2>5, <2>8
      <4>2. \A x \in D[n] : KeyOf(rbt, x) <= k => KeyOf(rbt, x) <= KeyOf(rbt, n)
        BY <4>1, <3>2, <3>3, <2>3, <2>4
      <4> QED BY <4>1, <4>2, <3>1, <3>3, <2>3, <2>4 DEF Nearest
    <3>4. CASE d = "left"
      <4>1. KeyOf(rbt, n) > k /\ \A x \in D[z] : KeyOf(rbt, x) > KeyOf(rbt, n)
        BY <3>4, <2>4, <2>5, <2>8
      <4>2. \A x \in D[n] : KeyOf(rbt, x) >= k => KeyOf(rbt, x) >= KeyOf(rbt, n)
        BY <4>1, <3>2, <3>4, <2>3, <2>4
      <4> QED BY <4>1, <4>2, <3>1, <3>4, <2>3, <2>4 DEF Nearest
    <3> QED BY <3>3, <3>4, Sides
  <2>9. CASE KeyOf(rbt, n) # k /\ ~(F[y] = NULL /\ e = d)
    <3>1. F[n] = F[y]
      BY <2>9, <1>9 DEF e, y
    <3>2. CASE d = "right"
      <4>1. CASE F[y] = NULL
        <5>1. e = "left" /\ KeyOf(rbt, n) > k
          BY <4>1, <3>2, <2>1, <2>4, <2>9, Sides
        <5>2. NULL \notin D[y]
          BY <2>6, <1>2, Nested DEF N
        <5>3. \A x \in D[y] : KeyOf(rbt, x) > k
          BY <5>2, <4>1, <3>2, <2>2 DEF Nearest
        <5>4. \A x \in D[n] : KeyOf(rbt, x) > k
          BY <5>1, <5>3, <2>3, <2>4, <2>5
        <5> QED BY <5>4, <4>1, <3>1, <3>2 DEF Nearest
      <4>2. CASE F[y] # NULL
        <5>1. /\ F[y] \in D[y] /\ KeyOf(rbt, F[y]) <= k
              /\ \A x \in D[y] : KeyOf(rbt, x) <= k => KeyOf(rbt, x) <= KeyOf(rbt, F[y])
          BY <4>2, <3>2, <2>2 DEF Nearest
        <5>2. \A x \in D[n] : KeyOf(rbt, x) <= k => KeyOf(rbt, x) <= KeyOf(rbt, F[y])
          <6>1. CASE e = "right"
            BY <6>1, <5>1, <2>3, <2>4, <2>5, <2>6
          <6>2. CASE e = "left"
            <7>1. KeyOf(rbt, n) > k
              BY <6>2, <2>4, <2>9
            <7> QED BY <7>1, <6>2, <5>1, <2>3, <2>4, <2>5
          <6> QED BY <6>1, <6>2, <2>1, Sides
        <5> QED BY <5>1, <5>2, <3>1, <3>2, <2>6 DEF Nearest
      <4> QED BY <4>1, <4>2
    <3>3. CASE d = "left"
      <4>1. CASE F[y] = NULL
        <5>1. e = "right" /\ KeyOf(rbt, n) < k
          BY <4>1, <3>3, <2>1, <2>4, <2>9, Sides
        <5>2. NULL \notin D[y]
          BY <2>6, <1>2, Nested DEF N
        <5>3. \A x \in D[y] : KeyOf(rbt, x) < k
          BY <5>2, <4>1, <3>3, <2>2, Sides DEF Nearest
        <5>4. \A x \in D[n] : KeyOf(rbt, x) < k
          BY <5>1, <5>3, <2>3, <2>4, <2>5
        <5> QED BY <5>4, <4>1, <3>1, <3>3, Sides DEF Nearest
      <4>2. CASE F[y] # NULL
        <5>1. /\ F[y] \in D[y] /\ KeyOf(rbt, F[y]) >= k
              /\ \A x \in D[y] : KeyOf(rbt, x) >= k => KeyOf(rbt, x) >= KeyOf(rbt, F[y])
          BY <4>2, <3>3, <2>2, Sides DEF Nearest
        <5>2. \A x \in D[n] : KeyOf(rbt, x) >= k => KeyOf(rbt, x) >= KeyOf(rbt, F[y])
          <6>1. CASE e = "left"
            BY <6>1, <5>1, <2>3, <2>4, <2>5, <2>6
          <6>2. CASE e = "right"
            <7>1. KeyOf(rbt, n) < k
              BY <6>2, <2>4, <2>9, Sides
            <7> QED BY <7>1, <6>2, <5>1, <2>3, <2>4, <2>5
          <6> QED BY <6>1, <6>2, <2>1, Sides
        <5> QED BY <5>1, <5>2, <3>1, <3>3, <2>6, Sides DEF Nearest
      <4> QED BY <4>1, <4>2
    <3> QED BY <3>2, <3>3, Sides
  <2> QED BY <2>7, <2>8, <2>9 DEF N
<1> HIDE DEF G
<1>12. \A n \in N : n \in G
  BY <1>11, TreeInduction
<1>13. Bound(k, d) = F[HeadOf(rbt)]
  BY <1>1 DEF F
<1> QED BY <1>2, <1>10, <1>12, <1>13 DEF G

(***************************************************************************)
(* LookupsFind: between two calls both bounds and both extreme keys are    *)
(* the right ones, for every set of keys in the tree.                      *)
(***************************************************************************)
THEOREM LookupsCorrect == Spec => []LookupsFind
<1>1. TreeInv => LookupsFind
  <2> SUFFICES ASSUME NEW D, Tree(D), pc = "idle" PROVE LookupsFind
    BY DEF TreeInv, LookupsFind
  <2>1. /\ Typed(rbt) /\ Shape(rbt, D) /\ Sorted(rbt, D, NULL) /\ keys = NodesOf(rbt)
        /\ \A n \in NodesOf(rbt) : KeyOf(rbt, n) = n
        /\ NULL \notin NodesOf(rbt) /\ HeadOf(rbt) \in NodesOf(rbt) \cup {NULL}
    BY Rests DEF Resting
  <2>2. D[HeadOf(rbt)] = keys /\ keys \in SUBSET Nat /\ NULL \notin keys /\ D[NULL] = {}
    <3>1. \A n \in NodesOf(rbt) : n \in Nat
      BY <2>1, NodeIs
    <3> QED BY <3>1, <2>1 DEF Shape
  <2>3. ASSUME NEW k \in Keys
        PROVE  Bound(k, "right") = KeyOrNull({j \in keys : j <= k}, Max)
    <3> DEFINE v == Bound(k, "right")
               S == {j \in keys : j <= k}
    <3>1. k \in Nat /\ S \in SUBSET Nat
      BY <2>2, KeysAssumption
    <3>2. Nearest(rbt, D, HeadOf(rbt), k, "right", v)
      BY <2>1, <3>1, BoundIs, Sides
    <3> HIDE DEF v
    <3>3. \/ v = NULL /\ \A x \in keys : x > k
          \/ v \in keys /\ v <= k /\ \A x \in keys : x <= k => x <= v
      BY <3>2, <2>1, <2>2 DEF Nearest
    <3>4. CASE v = NULL
      <4>1. S = {}
        BY <3>1, <3>3, <3>4, <2>2
      <4> HIDE DEF S
      <4>2. KeyOrNull(S, Max) = NULL
        BY <4>1 DEF KeyOrNull
      <4> QED BY <4>2, <3>4 DEF S, v
    <3>5. CASE v # NULL
      <4>1. v \in S /\ \A y \in S : y <= v
        BY <3>3, <3>5
      <4> HIDE DEF S
      <4>2. Max(S) = v /\ S # {}
        BY <4>1, <3>1, MaxIs
      <4>3. KeyOrNull(S, Max) = v
        BY <4>2 DEF KeyOrNull
      <4> QED BY <4>3 DEF S, v
    <3> QED BY <3>4, <3>5
  <2>4. ASSUME NEW k \in Keys
        PROVE  Bound(k, "left") = KeyOrNull({j \in keys : j >= k}, Min)
    <3> DEFINE v == Bound(k, "left")
               S == {j \in keys : j >= k}
    <3>1. k \in Nat /\ S \in SUBSET Nat
      BY <2>2, KeysAssumption
    <3>2. Nearest(rbt, D, HeadOf(rbt), k, "left", v)
      BY <2>1, <3>1, BoundIs, Sides
    <3> HIDE DEF v
    <3>3. \/ v = NULL /\ \A x \in keys : x < k
          \/ v \in keys /\ v >= k /\ \A x \in keys : x >= k => x >= v
      BY <3>2, <2>1, <2>2, Sides DEF Nearest
    <3>4. CASE v = NULL
      <4>1. S = {}
        BY <3>1, <3>3, <3>4, <2>2
      <4> HIDE DEF S
      <4>2. KeyOrNull(S, Min) = NULL
        BY <4>1 DEF KeyOrNull
      <4> QED BY <4>2, <3>4 DEF S, v
    <3>5. CASE v # NULL
      <4>1. v \in S /\ v \in Nat /\ \A y \in S : v <= y
        BY <3>1, <3>3, <3>5, <2>2
      <4> HIDE DEF S
      <4>2. Min(S) = v /\ S # {}
        BY <4>1, <3>1, MinIs
      <4>3. KeyOrNull(S, Min) = v
        BY <4>2 DEF KeyOrNull
      <4> QED BY <4>3 DEF S, v
    <3> QED BY <3>4, <3>5
  <2>5. bf_get_highest_key_node = KeyOrNull(keys, Max)
    <3>1. CASE HeadOf(rbt) = NULL
      BY <3>1, <2>2 DEF bf_get_highest_key_node, KeyOrNull, HeadOf
    <3>2. CASE HeadOf(rbt) # NULL
      <4> DEFINE v == Outermost(rbt, HeadOf(rbt), "right")
      <4>1. HeadOf(rbt) \in NodesOf(rbt)
        BY <3>2, <2>1
      <4>2. Extreme(rbt, D, HeadOf(rbt), "right", v)
        BY <4>1, <2>1, OutermostIs, Sides
      <4> HIDE DEF v
      <4>3. v \in keys /\ \A x \in keys \ {v} : v > x
        BY <4>2, <2>1, <2>2, Sides DEF Extreme
      <4>4. \A x \in keys : x <= v
        BY <4>3, <2>2
      <4>5. Max(keys) = v /\ keys # {}
        BY <4>3, <4>4, <2>2, MaxIs
      <4>6. bf_get_highest_key_node = v
        BY <3>2 DEF bf_get_highest_key_node, v, HeadOf
      <4> QED BY <4>5, <4>6 DEF KeyOrNull
    <3> QED BY <3>1, <3>2
  <2>6. bf_get_lowest_key_node = KeyOrNull(keys, Min)
    <3>1. CASE HeadOf(rbt) = NULL
      BY <3>1, <2>2 DEF bf_get_lowest_key_node, KeyOrNull, HeadOf
    <3>2. CASE HeadOf(rbt) # NULL
      <4> DEFINE v == Outermost(rbt, HeadOf(rbt), "left")
      <4>1. HeadOf(rbt) \in NodesOf(rbt)
        BY <3>2, <2>1
      <4>2. Extreme(rbt, D, HeadOf(rbt), "left", v)
        BY <4>1, <2>1, OutermostIs, Sides
      <4> HIDE DEF v
      <4>3. v \in keys /\ \A x \in keys \ {v} : v < x
        BY <4>2, <2>1, <2>2, Sides DEF Extreme
      <4>4. \A x \in keys : v <= x
        BY <4>3, <2>2
      <4>5. Min(keys) = v /\ keys # {}
        BY <4>3, <4>4, <2>2, MinIs
      <4>6. bf_get_lowest_key_node = v
        BY <3>2 DEF bf_get_lowest_key_node, v, HeadOf
      <4> QED BY <4>5, <4>6 DEF KeyOrNull
    <3> QED BY <3>1, <3>2
  <2> QED BY <2>3, <2>4, <2>5, <2>6 DEF LookupsFind, bf_get_lower_bound, bf_get_upper_bound
<1> QED BY <1>1, TreeInvariant, PTL

-----------------------------------------------------------------------------
(***************************************************************************)
(* Balance                                                                 *)
(***************************************************************************)

\* What n adds to the count of black nodes; the node to take out adds nothing.
Weight(s, res, n) == IF Color(s, n) = "RED" \/ n = res THEN 0 ELSE 1

\* The black nodes on a way down from c, with the one that is missing below x.
Seen(B, x, c) == B[c] + (IF c # NULL /\ c = x THEN 1 ELSE 0)

(***************************************************************************)
(* B[n] black nodes are on every way down from n; like D above it takes    *)
(* the place of a recursive definition.                                    *)
(***************************************************************************)
Black(s, B, res, x) ==
    /\ B \in [NodesOf(s) \cup {NULL} -> Nat] /\ B[NULL] = 0
    /\ \A n \in NodesOf(s), d \in Dirs : B[n] = Seen(B, x, Kid(s, n, d)) + Weight(s, res, n)

\* No red node has a red kid, but perhaps a on side e.
Reds(s, a, e) ==
    \A n \in NodesOf(s), d \in Dirs :
        Color(s, n) = "RED" /\ IsRed(s, Kid(s, n, d)) => n = a /\ d = e

\* The invariant of the colors.
Bal(B) ==
    /\ Black(rbt, B, res_node, IF pc = "delete" THEN cur ELSE NULL)
    /\ Reds(rbt, IF pc = "insert" THEN cur ELSE NULL, Toward(rbt, cur, key))
    /\ pc = "insert" => IsRed(rbt, Kid(rbt, cur, Toward(rbt, cur, key)))
    /\ pc = "delete" => ~IsRed(rbt, cur)

BalInv == \E B : Bal(B)

(***************************************************************************)
(* A kid is a node of its own, hangs from one node and is not above it.    *)
(***************************************************************************)
LEMMA KidUp ==
    ASSUME NEW s, NEW D, Typed(s), Shape(s, D), NEW m \in NodesOf(s), NEW e \in Dirs,
           Kid(s, m, e) # NULL
    PROVE  /\ Kid(s, m, e) \in NodesOf(s) /\ Up(s, Kid(s, m, e)) = m /\ Kid(s, m, e) # m
           /\ Kid(s, m, Opposite(e)) # Kid(s, m, e)
           /\ \A f \in Dirs : Kid(s, Kid(s, m, e), f) # m
<1>1. Kid(s, m, e) \in NodesOf(s)
  BY NodeIs
<1>2. Kid(s, m, e) \in D[Kid(s, m, e)] /\ m \in D[m]
  BY <1>1, Nested
<1>3. ASSUME NEW f \in Dirs PROVE Kid(s, Kid(s, m, e), f) # m
  BY <1>1, <1>2 DEF Shape
<1> QED BY <1>1, <1>2, <1>3 DEF Shape

(***************************************************************************)
(* Only pointers and colors count.                                         *)
(***************************************************************************)
LEMMA SameBalance ==
    ASSUME NEW s, NEW t, Typed(s), NodesOf(t) = NodesOf(s),
           \A m \in NodesOf(s) : /\ Color(t, m) = Color(s, m)
                                 /\ \A d \in Dirs : Kid(t, m, d) = Kid(s, m, d)
    PROVE  /\ \A B, res, x : Black(s, B, res, x) => Black(t, B, res, x)
           /\ \A a, e : Reds(s, a, e) => Reds(t, a, e)
<1>1. ASSUME NEW B, NEW res, NEW x, Black(s, B, res, x) PROVE Black(t, B, res, x)
  BY <1>1 DEF Black, Weight
<1>2. ASSUME NEW a, NEW e, Reds(s, a, e) PROVE Reds(t, a, e)
  <2>1. \A m \in NodesOf(s), d \in Dirs : Kid(s, m, d) \in NodesOf(s) \cup {NULL}
    BY NodeIs
  <2>2. \A m \in NodesOf(s), d \in Dirs : IsRed(t, Kid(t, m, d)) => IsRed(s, Kid(s, m, d))
    BY <2>1, RedIs
  <2> QED BY <1>2, <2>2 DEF Reds
<1> QED BY <1>1, <1>2

(***************************************************************************)
(* The empty tree is balanced.                                             *)
(***************************************************************************)
LEMMA InitBal ==
    ASSUME Init
    PROVE  BalInv
<1> DEFINE B == [m \in {NULL} |-> 0]
<1>1. NodesOf(rbt) = {} /\ pc = "idle"
  BY DEF Init, NodesOf
<1>2. Black(rbt, B, res_node, NULL)
  BY <1>1 DEF Black
<1> HIDE DEF B
<1> QED BY <1>1, <1>2 DEF BalInv, Bal, Reds

(***************************************************************************)
(* One black node is balanced.                                             *)
(***************************************************************************)
LEMMA InsertFirstBal ==
    ASSUME NEW D, Tree(D), NEW k \in Keys, InsertFirst(k)
    PROVE  BalInv'
<1> DEFINE t == [head |-> k, node |-> Added(rbt, k, NewNode(k, "BLACK", NULL))]
           B == [m \in {k, NULL} |-> IF m = k THEN 1 ELSE 0]
<1>1. HeadOf(rbt) = NULL /\ rbt' = t /\ pc' = "idle" /\ res_node' = NULL
  BY DEF InsertFirst, Return, HeadOf
<1>2. Typed(rbt) /\ Shape(rbt, D)
  BY DEF Tree, Trunk
<1>3. /\ Typed(t) /\ NodesOf(t) = {k} /\ Color(t, k) = "BLACK"
      /\ \A d \in Dirs : Kid(t, k, d) = NULL
  BY <1>1, <1>2, FirstTree
<1> HIDE DEF t
<1>4. NULL # k
  BY <1>3, NodeIs
<1>5. Weight(t, NULL, k) = 1
  BY <1>3, <1>4 DEF Weight
<1>6. Black(t, B, NULL, NULL)
  BY <1>3, <1>4, <1>5 DEF Black, Seen
<1>7. \A a, e : Reds(t, a, e)
  BY <1>3 DEF Reds
<1> HIDE DEF B
<1> QED BY <1>1, <1>6, <1>7 DEF BalInv, Bal

(***************************************************************************)
(* A new red node changes no count; it may hang from a red one, which is   *)
(* cur.                                                                    *)
(***************************************************************************)
LEMMA InsertBal ==
    ASSUME NEW D, Tree(D), NEW B, Bal(B), NEW k \in Keys, Insert(k)
    PROVE  BalInv'
<1> DEFINE p == Descend(rbt, HeadOf(rbt), k)
           d == Toward(rbt, p, k)
           C == [m \in NodesOf(rbt) \cup {k} \cup {NULL} |-> IF m = k THEN 0 ELSE B[m]]
<1>1. /\ pc = "idle" /\ res_node = NULL
      /\ Found(rbt, D, HeadOf(rbt), k, p) /\ p \in NodesOf(rbt) /\ k \notin NodesOf(rbt)
      /\ KeyOf(rbt, p) # k
      /\ Typed(rbt') /\ Grown(rbt, rbt', k, p, d)
      /\ cur' = p /\ pc' = "insert" /\ key' = k /\ res_node' = NULL
  BY InsertIs
<1> HIDE DEF p
<1>2. Kid(rbt, p, d) = NULL /\ d \in Dirs
  BY <1>1, Sides DEF Found, Toward
<1>3. Typed(rbt) /\ Black(rbt, B, NULL, NULL) /\ \E e : Reds(rbt, NULL, e)
  BY <1>1 DEF Tree, Trunk, Bal
<1>4. NULL \notin NodesOf(rbt) /\ NULL \notin NodesOf(rbt')
  BY <1>1, <1>3, NodeIs
<1>5. /\ NodesOf(rbt') = NodesOf(rbt) \cup {k}
      /\ \A m \in NodesOf(rbt) :
            /\ KeyOf(rbt', m) = KeyOf(rbt, m) /\ Color(rbt', m) = Color(rbt, m)
            /\ \A e \in Dirs : Kid(rbt', m, e) = IF m = p /\ e = d THEN k ELSE Kid(rbt, m, e)
      /\ Color(rbt', k) = "RED" /\ \A e \in Dirs : Kid(rbt', k, e) = NULL
  BY <1>1 DEF Grown
<1>6. Toward(rbt', p, k) = d
  BY <1>1, <1>5 DEF Toward
<1> HIDE DEF d
<1>7. \A m \in NodesOf(rbt), e \in Dirs : Kid(rbt, m, e) \in NodesOf(rbt) \cup {NULL}
  BY <1>3, NodeIs
<1>8. Black(rbt', C, NULL, NULL)
  <2>1. /\ B \in [NodesOf(rbt) \cup {NULL} -> Nat] /\ B[NULL] = 0
        /\ \A n \in NodesOf(rbt), e \in Dirs :
              B[n] = Seen(B, NULL, Kid(rbt, n, e)) + Weight(rbt, NULL, n)
    BY <1>3 DEF Black
  <2>2. C \in [NodesOf(rbt') \cup {NULL} -> Nat] /\ C[NULL] = 0 /\ C[k] = 0
    BY <2>1, <1>4, <1>5
  <2>3. \A m \in NodesOf(rbt) \cup {NULL} : C[m] = B[m]
    BY <2>2, <2>1, <1>1
  <2> HIDE DEF C
  <2>4. ASSUME NEW n \in NodesOf(rbt'), NEW e \in Dirs
        PROVE  C[n] = Seen(C, NULL, Kid(rbt', n, e)) + Weight(rbt', NULL, n)
    <3>1. CASE n = k
      BY <3>1, <2>2, <1>5 DEF Seen, Weight
    <3>2. CASE n # k
      <4>1. n \in NodesOf(rbt) /\ Weight(rbt', NULL, n) = Weight(rbt, NULL, n)
        BY <3>2, <1>5 DEF Weight
      <4>2. Seen(C, NULL, Kid(rbt', n, e)) = Seen(B, NULL, Kid(rbt, n, e))
        <5>1. CASE n = p /\ e = d
          BY <5>1, <4>1, <2>1, <2>2, <1>2, <1>5 DEF Seen
        <5>2. CASE ~(n = p /\ e = d)
          BY <5>2, <4>1, <2>3, <1>5, <1>7 DEF Seen
        <5> QED BY <5>1, <5>2
      <4> QED BY <4>1, <4>2, <2>1, <2>3
    <3> QED BY <3>1, <3>2
  <2> QED BY <2>2, <2>4 DEF Black
<1> HIDE DEF C
<1>9. Reds(rbt', p, d)
  <2> SUFFICES ASSUME NEW n \in NodesOf(rbt'), NEW e \in Dirs, Color(rbt', n) = "RED",
                      IsRed(rbt', Kid(rbt', n, e)), ~(n = p /\ e = d)
               PROVE  FALSE
    BY DEF Reds
  <2>1. n \in NodesOf(rbt) /\ Kid(rbt', n, e) = Kid(rbt, n, e) /\ Color(rbt, n) = "RED"
    BY <1>4, <1>5, RedIs
  <2>2. IsRed(rbt, Kid(rbt, n, e))
    BY <2>1, <1>5, <1>7, RedIs
  <2> QED BY <2>1, <2>2, <1>3, <1>4 DEF Reds
<1>10. IsRed(rbt', Kid(rbt', p, d))
  <2>1. Kid(rbt', p, d) = k /\ k # NULL
    BY <1>1, <1>2, <1>4, <1>5
  <2> QED BY <2>1, <1>5, RedIs
<1> QED BY <1>1, <1>6, <1>8, <1>9, <1>10 DEF BalInv, Bal

(***************************************************************************)
(* A parent that is not red allows a red kid.                              *)
(***************************************************************************)
LEMMA InsertBalancedBal ==
    ASSUME NEW D, Tree(D), NEW B, Bal(B), InsertBalanced
    PROVE  BalInv'
<1>1. /\ pc = "insert" /\ ~IsRed(rbt, cur) /\ rbt' = rbt /\ pc' = "idle" /\ res_node' = NULL
  BY DEF InsertBalanced, Return
<1>2. /\ Black(rbt, B, NULL, NULL) /\ Reds(rbt, cur, Toward(rbt, cur, key)) /\ Typed(rbt)
  BY <1>1 DEF Bal, Tree, At, Trunk
<1>3. \A e : Reds(rbt, NULL, e)
  <2>1. \A n \in NodesOf(rbt) : Color(rbt, n) = "RED" => n # cur
    BY <1>1, <1>2, RedIs, NodeIs
  <2> QED BY <2>1, <1>2 DEF Reds
<1> QED BY <1>1, <1>2, <1>3 DEF BalInv, Bal

(***************************************************************************)
(* Recoloring moves the black of p down to its two kids: no count changes  *)
(* above p, and a red node with a red kid can only be left at the node     *)
(* above p.                                                                *)
(***************************************************************************)
LEMMA InsertRecolorBal ==
    ASSUME NEW D, Tree(D), NEW B, Bal(B), InsertRecolor
    PROVE  BalInv'
<1>1. PICK d \in Dirs : Recolored(d)
  BY InsertRecolorIs
<1> DEFINE p == Up(rbt, cur)
           w == Kid(rbt, p, Opposite(d))
           up == Up(rbt, p)
           fixed == Paint(rbt, {cur, w}, "BLACK")
           c == IF up = NULL THEN "BLACK" ELSE "RED"
           t == Paint(fixed, {p}, c)
<1>2. /\ pc = "insert" /\ res_node = NULL /\ cur \in NodesOf(rbt) /\ p \in NodesOf(rbt)
      /\ w \in NodesOf(rbt) /\ Kid(rbt, p, d) = cur
      /\ Color(rbt, cur) = "RED" /\ Color(rbt, w) = "RED" /\ res_node' = NULL
  BY <1>1 DEF Recolored
<1>3. /\ Typed(rbt) /\ Shape(rbt, D) /\ Sorted(rbt, D, NULL)
      /\ \A n \in NodesOf(rbt) : KeyOf(rbt, n) = n
      /\ Black(rbt, B, NULL, NULL) /\ Reds(rbt, cur, Toward(rbt, cur, key))
  BY <1>2 DEF Tree, Trunk, Holds, Bal
<1>4. NULL \notin NodesOf(rbt) /\ Opposite(d) \in Dirs
  BY <1>3, NodeIs, Sides
<1>5. /\ rbt' = t
      /\ up = NULL => pc' = "idle"
      /\ up # NULL => pc' = "insert" /\ cur' = up /\ key' = cur /\ up \in NodesOf(rbt)
  BY <1>1, <1>4 DEF Recolored
<1>6. /\ Typed(t) /\ NodesOf(t) = NodesOf(rbt)
      /\ \A m \in NodesOf(rbt) :
            /\ KeyOf(t, m) = KeyOf(rbt, m)
            /\ \A e \in Dirs : Kid(t, m, e) = Kid(rbt, m, e)
            /\ Color(t, m) = IF m = p THEN c ELSE IF m \in {cur, w} THEN "BLACK"
                             ELSE Color(rbt, m)
  <2>1. /\ Typed(fixed) /\ NodesOf(fixed) = NodesOf(rbt)
        /\ \A m \in NodesOf(rbt) :
              /\ KeyOf(fixed, m) = KeyOf(rbt, m)
              /\ \A e \in Dirs : Kid(fixed, m, e) = Kid(rbt, m, e)
              /\ Color(fixed, m) = IF m \in {cur, w} THEN "BLACK" ELSE Color(rbt, m)
    BY <1>3, PaintIs
  <2> HIDE DEF fixed
  <2>2. /\ Typed(t) /\ NodesOf(t) = NodesOf(fixed)
        /\ \A m \in NodesOf(fixed) :
              /\ KeyOf(t, m) = KeyOf(fixed, m)
              /\ \A e \in Dirs : Kid(t, m, e) = Kid(fixed, m, e)
              /\ Color(t, m) = IF m \in {p} THEN c ELSE Color(fixed, m)
    BY <2>1, PaintIs
  <2> HIDE DEF t
  <2> QED BY <2>1, <2>2
<1> HIDE DEF t
<1>7. /\ w # cur /\ cur # p /\ w # p /\ Up(rbt, w) = p
      /\ \A e \in Dirs : Kid(rbt, cur, e) # p /\ Kid(rbt, w, e) # p
  <2>1. /\ w # cur /\ cur # p /\ \A e \in Dirs : Kid(rbt, cur, e) # p
    BY <1>2, <1>3, <1>4, KidUp
  <2>2. w # NULL
    BY <1>2, <1>4
  <2>3. Up(rbt, w) = p /\ w # p /\ \A e \in Dirs : Kid(rbt, w, e) # p
    BY <2>2, <1>2, <1>3, <1>4, KidUp
  <2> QED BY <2>1, <2>3
<1>8. \A m \in NodesOf(rbt), e \in Dirs :
         Kid(rbt, m, e) # NULL => Kid(rbt, m, e) \in NodesOf(rbt) /\ Up(rbt, Kid(rbt, m, e)) = m
  BY <1>3, KidUp
<1>9. Color(rbt, p) # "RED"
  <2>1. IsRed(rbt, Kid(rbt, p, d))
    BY <1>2, <1>4, RedIs
  <2> QED BY <2>1, <1>2, <1>3, <1>7 DEF Reds
<1>10. /\ B \in [NodesOf(rbt) \cup {NULL} -> Nat] /\ B[NULL] = 0
       /\ \A n \in NodesOf(rbt), e \in Dirs : B[n] = B[Kid(rbt, n, e)] + Weight(rbt, NULL, n)
  <2>1. /\ B \in [NodesOf(rbt) \cup {NULL} -> Nat] /\ B[NULL] = 0
        /\ \A n \in NodesOf(rbt), e \in Dirs :
              B[n] = Seen(B, NULL, Kid(rbt, n, e)) + Weight(rbt, NULL, n)
    BY <1>3 DEF Black
  <2>2. \A n \in NodesOf(rbt), e \in Dirs : Seen(B, NULL, Kid(rbt, n, e)) = B[Kid(rbt, n, e)]
    BY <2>1, <1>8 DEF Seen
  <2> QED BY <2>1, <2>2
<1> DEFINE C == [m \in NodesOf(rbt) \cup {NULL} |->
                    IF m = cur \/ m = w \/ (m = p /\ up = NULL) THEN B[m] + 1 ELSE B[m]]
<1>11. Black(t, C, NULL, NULL)
  <2>1. C \in [NodesOf(t) \cup {NULL} -> Nat] /\ C[NULL] = 0
    BY <1>2, <1>4, <1>6, <1>10
  <2>2. \A m \in NodesOf(rbt) \cup {NULL} :
           C[m] = IF m = cur \/ m = w \/ (m = p /\ up = NULL) THEN B[m] + 1 ELSE B[m]
    OBVIOUS
  <2> HIDE DEF C
  <2>3. ASSUME NEW n \in NodesOf(rbt), NEW e \in Dirs
        PROVE  C[n] = C[Kid(rbt, n, e)] + Weight(t, NULL, n)
    <3> DEFINE y == Kid(rbt, n, e)
    <3>1. /\ B[n] = B[y] + Weight(rbt, NULL, n) /\ B[n] \in Nat /\ B[y] \in Nat
          /\ y \in NodesOf(rbt) \cup {NULL} /\ (y # NULL => Up(rbt, y) = n)
      BY <1>8, <1>10
    <3>2. n # NULL /\ cur # NULL /\ w # NULL /\ p # NULL
      BY <1>2, <1>4
    <3>3. CASE n = cur \/ n = w
      <4>1. y # cur /\ y # w /\ y # p
        BY <3>1, <3>2, <3>3, <1>7
      <4>2. Weight(t, NULL, n) = 1 /\ Weight(rbt, NULL, n) = 0
        BY <3>2, <3>3, <1>2, <1>6, <1>7 DEF Weight
      <4>3. C[n] = B[n] + 1 /\ C[y] = B[y]
        BY <4>1, <3>1, <3>3, <2>2
      <4> QED BY <4>2, <4>3, <3>1
    <3>4. CASE n = p
      <4>1. y = cur \/ y = w
        BY <3>4, <1>2, Sides
      <4>2. Weight(rbt, NULL, n) = 1 /\ Weight(t, NULL, n) = IF up = NULL THEN 1 ELSE 0
        BY <3>2, <3>4, <1>2, <1>6, <1>9 DEF Weight
      <4>3. C[y] = B[y] + 1 /\ C[n] = IF up = NULL THEN B[n] + 1 ELSE B[n]
        BY <4>1, <3>1, <3>4, <2>2, <1>7
      <4> QED BY <4>2, <4>3, <3>1
    <3>5. CASE n # p /\ n # cur /\ n # w
      <4>1. y # cur /\ y # w /\ (y = p => up # NULL)
        BY <3>1, <3>2, <3>5, <1>7
      <4>2. Weight(t, NULL, n) = Weight(rbt, NULL, n)
        BY <3>5, <1>6 DEF Weight
      <4>3. C[n] = B[n] /\ C[y] = B[y]
        BY <4>1, <3>1, <3>5, <2>2
      <4> QED BY <4>2, <4>3, <3>1
    <3> QED BY <3>3, <3>4, <3>5
  <2>4. ASSUME NEW n \in NodesOf(t), NEW e \in Dirs
        PROVE  C[n] = Seen(C, NULL, Kid(t, n, e)) + Weight(t, NULL, n)
    <3>1. n \in NodesOf(rbt) /\ Kid(t, n, e) = Kid(rbt, n, e)
      BY <1>6
    <3>2. Seen(C, NULL, Kid(t, n, e)) = C[Kid(rbt, n, e)]
      <4>1. C[Kid(rbt, n, e)] \in Nat
        BY <3>1, <2>1, <1>6, <1>8
      <4> QED BY <4>1, <3>1 DEF Seen
    <3> QED BY <3>1, <3>2, <2>3
  <2> QED BY <2>1, <2>4 DEF Black
<1> HIDE DEF C
<1>12. ASSUME NEW n \in NodesOf(t), NEW e \in Dirs, Color(t, n) = "RED",
              IsRed(t, Kid(t, n, e))
       PROVE  n = up /\ Kid(rbt, n, e) = p
  <2> DEFINE y == Kid(rbt, n, e)
  <2>1. /\ n \in NodesOf(rbt) /\ Kid(t, n, e) = y /\ y # NULL /\ Color(t, y) = "RED"
        /\ y \in NodesOf(rbt) /\ Up(rbt, y) = n
    BY <1>6, <1>8, <1>12, RedIs
  <2>2. n # cur /\ n # w /\ y # cur /\ y # w
    BY <2>1, <1>6, <1>7, <1>12
  <2>3. n # p
    BY <2>1, <2>2, <1>2, Sides
  <2>4. CASE y = p
    BY <2>1, <2>4
  <2>5. CASE y # p
    <3>1. Color(rbt, n) = "RED" /\ IsRed(rbt, Kid(rbt, n, e))
      BY <2>1, <2>2, <2>3, <2>5, <1>6, <1>12, RedIs
    <3> QED BY <3>1, <2>1, <2>2, <1>3 DEF Reds
  <2> QED BY <2>4, <2>5
<1>13. CASE up = NULL
  <2>1. \A a, e : Reds(t, a, e)
    BY <1>4, <1>6, <1>12, <1>13 DEF Reds
  <2> HIDE DEF up
  <2> QED BY <2>1, <1>2, <1>5, <1>11, <1>13 DEF BalInv, Bal
<1>14. CASE up # NULL
  <2> DEFINE T == Toward(t, up, cur)
  <2>1. up \in NodesOf(rbt) /\ KeyOf(rbt, cur) = cur
    BY <1>2, <1>3, <1>5, <1>14
  <2>2. T = Toward(rbt, up, KeyOf(rbt, cur))
    BY <2>1, <1>6 DEF Toward
  <2>3. cur \in D[p] /\ p \in D[up] /\ up \notin D[p]
    <3>1. cur \in D[p]
      BY <1>2, <1>3, <1>4, Hangs
    <3>2. p \in D[up] /\ up \notin D[p]
      BY <1>2, <1>3, <1>4, <1>14, Hangs
    <3> QED BY <3>1, <3>2
  <2>4. cur \in D[up] /\ cur # up /\ cur # NULL
    BY <2>1, <2>3, <1>2, <1>3, <1>4, Nested
  <2>5. T \in Dirs /\ cur \in D[Kid(rbt, up, T)]
    BY <2>1, <2>2, <2>4, <1>3, TowardIs
  <2> HIDE DEF T, up
  <2>6. \A e \in Dirs : Kid(rbt, up, e) = p => e = T
    <3>1. D[Kid(rbt, up, T)] \cap D[Kid(rbt, up, Opposite(T))] = {}
      BY <2>1, <2>5, <1>3 DEF Shape
    <3> QED BY <3>1, <2>3, <2>5, Sides
  <2>7. Kid(rbt, up, T) = p
    <3>1. \E e \in Dirs : Kid(rbt, Up(rbt, p), e) = p
      BY <1>2, <1>3, <1>14, Hangs DEF up
    <3> QED BY <3>1, <2>6 DEF up
  <2>8. Reds(t, up, T)
    BY <2>6, <1>12 DEF Reds
  <2>9. IsRed(t, Kid(t, up, T))
    BY <2>1, <2>5, <2>7, <1>2, <1>4, <1>6, <1>14, RedIs
  <2> QED BY <2>8, <2>9, <1>2, <1>5, <1>11, <1>14 DEF BalInv, Bal, T
<1> QED BY <1>13, <1>14

\* t is the tree s after the rotation of n to side d, c on the other side.
Turning(s, t, D, n, d, c) ==
    /\ Typed(s) /\ Shape(s, D) /\ n \in NodesOf(s) /\ d \in Dirs
    /\ c = Kid(s, n, Opposite(d)) /\ c # NULL
    /\ \E side \in Dirs : /\ Turned(s, t, n, d, side, Up(s, n), c, Kid(s, c, d))
                          /\ Up(s, n) # NULL => Kid(s, Up(s, n), side) = n

\* The kids of every node after the rotation.
NewKids(s, t, n, d, c) ==
    /\ c \in NodesOf(s) /\ n # c
    /\ Kid(t, n, d) = Kid(s, n, d) /\ Kid(s, n, d) # n /\ Kid(s, n, d) # c
    /\ Kid(t, n, Opposite(d)) = Kid(s, c, d) /\ Kid(s, c, d) # n /\ Kid(s, c, d) # c
    /\ Kid(t, c, d) = n
    /\ Kid(t, c, Opposite(d)) = Kid(s, c, Opposite(d))
    /\ Kid(s, c, Opposite(d)) # n /\ Kid(s, c, Opposite(d)) # c
    /\ \A m \in NodesOf(s) \ {n, c}, e \in Dirs :
          \/ Kid(t, m, e) = c /\ Kid(s, m, e) = n
          \/ Kid(t, m, e) = Kid(s, m, e) /\ Kid(s, m, e) # n /\ Kid(s, m, e) # c
    /\ NodesOf(t) = NodesOf(s)
    /\ \A m \in NodesOf(s) : Color(t, m) = IF m = c THEN Color(s, n)
                                           ELSE IF m = n THEN Color(s, c) ELSE Color(s, m)

(***************************************************************************)
(* A rotation changes the kids of three nodes.                             *)
(***************************************************************************)
LEMMA KidsAfter ==
    ASSUME NEW s, NEW t, NEW D, NEW n, NEW d, NEW c, Turning(s, t, D, n, d, c)
    PROVE  NewKids(s, t, n, d, c)
<1> DEFINE up == Up(s, n)
           g == Kid(s, c, d)
<1>1. /\ Typed(s) /\ Shape(s, D) /\ n \in NodesOf(s) /\ d \in Dirs
      /\ c = Kid(s, n, Opposite(d)) /\ c # NULL
  BY DEF Turning
<1>2. PICK side \in Dirs : /\ Turned(s, t, n, d, side, up, c, g)
                           /\ up # NULL => Kid(s, up, side) = n
  BY DEF Turning
<1>3. /\ NodesOf(t) = NodesOf(s)
      /\ \A m \in NodesOf(s) :
            /\ Color(t, m) = IF m = c THEN Color(s, n)
                             ELSE IF m = n THEN Color(s, c) ELSE Color(s, m)
            /\ \A e \in Dirs :
                  Kid(t, m, e) = IF m = c /\ e = d THEN n
                                 ELSE IF m = n /\ e = Opposite(d) THEN g
                                 ELSE IF m = up /\ e = side THEN c ELSE Kid(s, m, e)
  BY <1>2 DEF Turned
<1>4. /\ c \in NodesOf(s) /\ n # c /\ g # n /\ g # c /\ up # n /\ up # c /\ Up(s, c) = n
      /\ g \in NodesOf(s) \cup {NULL} /\ up \in NodesOf(s) \cup {NULL}
  BY <1>1, Pivot
<1>5. NULL \notin NodesOf(s)
  BY <1>1, NodeIs
<1>6. Opposite(d) \in Dirs /\ Opposite(d) # d
  BY <1>1, Sides
<1>7. \A m \in NodesOf(s), e \in Dirs : Kid(s, m, e) # NULL => Up(s, Kid(s, m, e)) = m
  BY <1>1, KidUp
<1>8. Kid(s, n, d) # c
  <2>1. Kid(s, n, Opposite(Opposite(d))) # Kid(s, n, Opposite(d))
    BY <1>1, <1>6, KidUp
  <2> QED BY <2>1, <1>1, Sides
<1>9. Kid(s, n, d) # n
  BY <1>1, <1>4, <1>5, <1>7
<1>10. Kid(s, c, Opposite(d)) # n /\ Kid(s, c, Opposite(d)) # c
  BY <1>1, <1>4, <1>5, <1>6, <1>7
<1>11. ASSUME NEW m \in NodesOf(s) \ {n, c}, NEW e \in Dirs
       PROVE  \/ Kid(t, m, e) = c /\ Kid(s, m, e) = n
              \/ Kid(t, m, e) = Kid(s, m, e) /\ Kid(s, m, e) # n /\ Kid(s, m, e) # c
  <2>1. Kid(t, m, e) = IF m = up /\ e = side THEN c ELSE Kid(s, m, e)
    BY <1>3
  <2>2. Kid(s, m, e) # c
    BY <1>1, <1>4, <1>7
  <2>3. CASE m = up /\ e = side
    BY <2>1, <2>3, <1>2, <1>5
  <2>4. CASE ~(m = up /\ e = side)
    <3>1. Kid(s, m, e) # n
      <4>1. CASE m # up
        BY <4>1, <1>1, <1>5, <1>7
      <4>2. CASE m = up /\ e # side
        <5>1. Kid(s, up, side) = n /\ up \in NodesOf(s) /\ up # NULL
          BY <4>2, <1>2, <1>5
        <5>2. Kid(s, up, Opposite(side)) # Kid(s, up, side)
          BY <5>1, <1>1, <1>5, KidUp
        <5> QED BY <5>1, <5>2, <4>2, <1>2, Sides
      <4> QED BY <4>1, <4>2, <2>4
    <3> QED BY <3>1, <2>1, <2>2, <2>4
  <2> QED BY <2>3, <2>4
<1>12. Kid(t, n, d) = Kid(s, n, d) /\ Kid(t, n, Opposite(d)) = g
  BY <1>1, <1>3, <1>4, <1>6
<1>13. Kid(t, c, d) = n /\ Kid(t, c, Opposite(d)) = Kid(s, c, Opposite(d))
  BY <1>1, <1>3, <1>4, <1>6
<1> QED BY <1>3, <1>4, <1>8, <1>9, <1>10, <1>11, <1>12, <1>13 DEF NewKids

(***************************************************************************)
(* A rotation that brings up a red node keeps the numbers of black nodes.  *)
(***************************************************************************)
LEMMA TurnedBlack ==
    ASSUME NEW s, NEW t, NEW D, NEW n, NEW d, NEW c, Turning(s, t, D, n, d, c),
           NEW B, NEW res, NEW x, Black(s, B, res, x), Color(s, c) = "RED",
           n # res, c # res, n # x, c # x
    PROVE  \E E : Black(t, E, res, x)
<1>1. /\ Typed(s) /\ n \in NodesOf(s) /\ d \in Dirs /\ c = Kid(s, n, Opposite(d)) /\ c # NULL
  BY DEF Turning
<1>2. NULL \notin NodesOf(s) /\ Opposite(d) \in Dirs
  BY <1>1, NodeIs, Sides
<1>3. NewKids(s, t, n, d, c)
  BY KidsAfter
<1>4. c \in NodesOf(s) /\ n # c /\ NodesOf(t) = NodesOf(s)
  BY <1>3 DEF NewKids
<1>5. /\ B \in [NodesOf(s) \cup {NULL} -> Nat] /\ B[NULL] = 0
      /\ \A m \in NodesOf(s), e \in Dirs : B[m] = Seen(B, x, Kid(s, m, e)) + Weight(s, res, m)
  BY DEF Black
<1> DEFINE E == [m \in NodesOf(s) \cup {NULL} |->
                    IF m = n THEN B[c] ELSE IF m = c THEN B[n] ELSE B[m]]
<1>6. E \in [NodesOf(t) \cup {NULL} -> Nat] /\ E[NULL] = 0
  BY <1>1, <1>2, <1>4, <1>5
<1>7. /\ E[n] = B[c] /\ E[c] = B[n]
      /\ \A m \in NodesOf(s) \cup {NULL} : m # n /\ m # c => E[m] = B[m]
  BY <1>1, <1>4
<1> HIDE DEF E
<1>8. /\ Weight(s, res, c) = 0 /\ Weight(t, res, n) = 0 /\ Weight(t, res, c) = Weight(s, res, n)
      /\ \A m \in NodesOf(s) : m # n /\ m # c => Weight(t, res, m) = Weight(s, res, m)
  BY <1>1, <1>3, <1>4 DEF NewKids, Weight
<1>9. /\ Seen(B, x, c) = B[c] /\ Seen(E, x, n) = E[n] /\ Seen(B, x, n) = B[n]
      /\ Seen(E, x, c) = E[c] /\ B[n] \in Nat /\ B[c] \in Nat
  BY <1>1, <1>4, <1>5, <1>6 DEF Seen
<1>10. \A y \in NodesOf(s) \cup {NULL} : y # n /\ y # c => Seen(E, x, y) = Seen(B, x, y)
  BY <1>7 DEF Seen
<1>11. \A m \in NodesOf(s), e \in Dirs : Kid(s, m, e) \in NodesOf(s) \cup {NULL}
  BY <1>1, NodeIs
<1>12. \A y \in NodesOf(s) \cup {NULL} : Seen(B, x, y) \in Nat
  BY <1>5 DEF Seen
<1>13. B[n] = B[c] + Weight(s, res, n) /\ Weight(s, res, n) \in Nat
  BY <1>1, <1>2, <1>5, <1>9 DEF Weight
<1>14. ASSUME NEW e \in Dirs PROVE E[n] = Seen(E, x, Kid(t, n, e)) + Weight(t, res, n)
  <2>1. CASE e = d
    <3>1. Kid(t, n, e) = Kid(s, n, d) /\ Kid(s, n, d) # n /\ Kid(s, n, d) # c
      BY <2>1, <1>3 DEF NewKids
    <3>2. Seen(E, x, Kid(t, n, e)) = Seen(B, x, Kid(s, n, d)) /\ Seen(B, x, Kid(s, n, d)) \in Nat
      BY <3>1, <1>1, <1>10, <1>11, <1>12
    <3>3. B[n] = Seen(B, x, Kid(s, n, d)) + Weight(s, res, n)
      BY <1>1, <1>5
    <3> QED BY <3>2, <3>3, <1>7, <1>8, <1>9, <1>13
  <2>2. CASE e = Opposite(d)
    <3>1. Kid(t, n, e) = Kid(s, c, d) /\ Kid(s, c, d) # n /\ Kid(s, c, d) # c
      BY <2>2, <1>3 DEF NewKids
    <3>2. Seen(E, x, Kid(t, n, e)) = Seen(B, x, Kid(s, c, d))
      BY <3>1, <1>1, <1>4, <1>10, <1>11
    <3>3. B[c] = Seen(B, x, Kid(s, c, d)) + Weight(s, res, c)
      BY <1>1, <1>4, <1>5
    <3> QED BY <3>2, <3>3, <1>7, <1>8
  <2> QED BY <2>1, <2>2, <1>1, Sides
<1>15. ASSUME NEW e \in Dirs PROVE E[c] = Seen(E, x, Kid(t, c, e)) + Weight(t, res, c)
  <2>1. CASE e = d
    <3>1. Kid(t, c, e) = n
      BY <2>1, <1>3 DEF NewKids
    <3> QED BY <3>1, <1>7, <1>8, <1>9, <1>13
  <2>2. CASE e = Opposite(d)
    <3> DEFINE y == Kid(s, c, Opposite(d))
    <3>1. Kid(t, c, e) = y /\ y # n /\ y # c
      BY <2>2, <1>3 DEF NewKids
    <3>2. Seen(E, x, y) = Seen(B, x, y) /\ Seen(B, x, y) \in Nat
      BY <3>1, <1>2, <1>4, <1>10, <1>11, <1>12
    <3>3. B[c] = Seen(B, x, y) + Weight(s, res, c)
      BY <1>2, <1>4, <1>5
    <3> QED BY <3>1, <3>2, <3>3, <1>7, <1>8, <1>13
  <2> QED BY <2>1, <2>2, <1>1, Sides
<1>16. ASSUME NEW m \in NodesOf(s) \ {n, c}, NEW e \in Dirs
       PROVE  E[m] = Seen(E, x, Kid(t, m, e)) + Weight(t, res, m)
  <2>1. \/ Kid(t, m, e) = c /\ Kid(s, m, e) = n
        \/ Kid(t, m, e) = Kid(s, m, e) /\ Kid(s, m, e) # n /\ Kid(s, m, e) # c
    BY <1>3 DEF NewKids
  <2>2. Seen(E, x, Kid(t, m, e)) = Seen(B, x, Kid(s, m, e))
    <3>1. Kid(s, m, e) \in NodesOf(s) \cup {NULL}
      BY <1>11
    <3> QED BY <3>1, <2>1, <1>7, <1>9, <1>10
  <2> QED BY <2>2, <1>5, <1>7, <1>8
<1>17. Black(t, E, res, x)
  BY <1>4, <1>6, <1>14, <1>15, <1>16 DEF Black
<1> QED BY <1>17

(***************************************************************************)
(* Between a black node and a red one below it, a rotation leaves no red   *)
(* node with a red kid when the outer kid was the only one.                *)
(***************************************************************************)
LEMMA TurnedReds ==
    ASSUME NEW s, NEW t, NEW D, NEW n, NEW d, NEW c, Turning(s, t, D, n, d, c),
           Color(s, n) # "RED", Color(s, c) = "RED", ~IsRed(s, Kid(s, n, d)),
           Reds(s, c, Opposite(d))
    PROVE  \A a, e : Reds(t, a, e)
<1>1. /\ Typed(s) /\ n \in NodesOf(s) /\ d \in Dirs /\ c # NULL
  BY DEF Turning
<1>2. NULL \notin NodesOf(s) /\ Opposite(d) \in Dirs /\ Opposite(d) # d
  BY <1>1, NodeIs, Sides
<1>3. NewKids(s, t, n, d, c)
  BY KidsAfter
<1>4. /\ c \in NodesOf(s) /\ n # c /\ NodesOf(t) = NodesOf(s)
      /\ \A m \in NodesOf(s) : Color(t, m) = IF m = c THEN Color(s, n)
                                             ELSE IF m = n THEN Color(s, c) ELSE Color(s, m)
  BY <1>3 DEF NewKids
<1>5. \A m \in NodesOf(s), e \in Dirs : Kid(s, m, e) \in NodesOf(s) \cup {NULL}
  BY <1>1, NodeIs
<1>6. \A y \in NodesOf(s) \cup {NULL} : y # n /\ y # c => (IsRed(t, y) <=> IsRed(s, y))
  BY <1>4, RedIs
<1>7. ~IsRed(t, c)
  BY <1>4, RedIs
<1> SUFFICES ASSUME NEW m \in NodesOf(s), NEW e \in Dirs, Color(t, m) = "RED",
                    IsRed(t, Kid(t, m, e))
             PROVE  FALSE
  BY <1>4 DEF Reds
<1>8. m # c
  BY <1>4
<1>9. CASE m = n
  <2>1. CASE e = d
    <3>1. Kid(t, n, d) = Kid(s, n, d) /\ Kid(s, n, d) # n /\ Kid(s, n, d) # c
      BY <1>3 DEF NewKids
    <3> QED BY <3>1, <2>1, <1>1, <1>5, <1>6, <1>9
  <2>2. CASE e = Opposite(d)
    <3>1. Kid(t, n, Opposite(d)) = Kid(s, c, d) /\ Kid(s, c, d) # n /\ Kid(s, c, d) # c
      BY <1>3 DEF NewKids
    <3>2. IsRed(s, Kid(s, c, d))
      BY <3>1, <2>2, <1>1, <1>4, <1>5, <1>6, <1>9
    <3> QED BY <3>2, <1>1, <1>2, <1>4 DEF Reds
  <2> QED BY <2>1, <2>2, <1>1, Sides
<1>10. CASE m # n
  <2>1. \/ Kid(t, m, e) = c /\ Kid(s, m, e) = n
        \/ Kid(t, m, e) = Kid(s, m, e) /\ Kid(s, m, e) # n /\ Kid(s, m, e) # c
    BY <1>3, <1>8, <1>10 DEF NewKids
  <2>2. IsRed(s, Kid(s, m, e)) /\ Color(s, m) = "RED"
    BY <2>1, <1>4, <1>5, <1>6, <1>7, <1>8, <1>10
  <2> QED BY <2>2, <1>8 DEF Reds
<1> QED BY <1>9, <1>10

(***************************************************************************)
(* A rotation between two red nodes makes the inner kid an outer one.      *)
(***************************************************************************)
LEMMA TurnedInner ==
    ASSUME NEW s, NEW t, NEW D, NEW n, NEW d, NEW c, Turning(s, t, D, n, d, c),
           Color(s, n) = "RED", Color(s, c) = "RED", Reds(s, n, Opposite(d))
    PROVE  Reds(t, c, d)
<1>1. /\ Typed(s) /\ n \in NodesOf(s) /\ d \in Dirs /\ c # NULL
  BY DEF Turning
<1>2. NULL \notin NodesOf(s) /\ Opposite(d) \in Dirs /\ Opposite(d) # d
  BY <1>1, NodeIs, Sides
<1>3. NewKids(s, t, n, d, c)
  BY KidsAfter
<1>4. /\ c \in NodesOf(s) /\ n # c /\ NodesOf(t) = NodesOf(s)
      /\ \A m \in NodesOf(s) : Color(t, m) = Color(s, m)
  BY <1>3 DEF NewKids
<1>5. \A m \in NodesOf(s), e \in Dirs : Kid(s, m, e) \in NodesOf(s) \cup {NULL}
  BY <1>1, NodeIs
<1>6. \A y \in NodesOf(s) \cup {NULL} : IsRed(t, y) <=> IsRed(s, y)
  BY <1>4, RedIs
<1>7. IsRed(s, n) /\ IsRed(s, c)
  BY <1>1, <1>2, <1>4, RedIs
<1> SUFFICES ASSUME NEW m \in NodesOf(s), NEW e \in Dirs, Color(t, m) = "RED",
                    IsRed(t, Kid(t, m, e)), ~(m = c /\ e = d)
             PROVE  FALSE
  BY <1>4 DEF Reds
<1>8. CASE m = n
  <2>1. Kid(t, n, d) = Kid(s, n, d) /\ Kid(t, n, Opposite(d)) = Kid(s, c, d)
    BY <1>3 DEF NewKids
  <2>2. IsRed(s, Kid(s, n, d)) \/ IsRed(s, Kid(s, c, d))
    BY <2>1, <1>1, <1>4, <1>5, <1>6, <1>8, Sides
  <2> QED BY <2>2, <1>1, <1>2, <1>4 DEF Reds
<1>9. CASE m = c
  <2>1. Kid(t, c, Opposite(d)) = Kid(s, c, Opposite(d)) /\ e = Opposite(d)
    BY <1>1, <1>3, <1>9, Sides DEF NewKids
  <2>2. IsRed(s, Kid(s, c, Opposite(d)))
    BY <2>1, <1>2, <1>4, <1>5, <1>6, <1>9
  <2> QED BY <2>2, <1>2, <1>4 DEF Reds
<1>10. CASE m # n /\ m # c
  <2>1. \/ Kid(t, m, e) = c /\ Kid(s, m, e) = n
        \/ Kid(t, m, e) = Kid(s, m, e) /\ Kid(s, m, e) # n /\ Kid(s, m, e) # c
    BY <1>3, <1>10 DEF NewKids
  <2>2. IsRed(s, Kid(s, m, e)) /\ Color(s, m) = "RED"
    BY <2>1, <1>4, <1>5, <1>6, <1>7
  <2> QED BY <2>2, <1>10 DEF Reds
<1> QED BY <1>8, <1>9, <1>10

(***************************************************************************)
(* Rotate is such a rotation.                                              *)
(***************************************************************************)
LEMMA RotateTurns ==
    ASSUME NEW s, NEW D, NEW res, Trunk(s, D, res), NEW n \in NodesOf(s), NEW d \in Dirs,
           NEW c, c = Kid(s, n, Opposite(d)), c # NULL, c # res
    PROVE  Turning(s, Rotate(s, n, d), D, n, d, c)
<1>1. Typed(s) /\ Shape(s, D)
  BY DEF Trunk
<1>2. \E side \in Dirs :
         /\ Turned(s, Rotate(s, n, d), n, d, side, Up(s, n), c, Kid(s, c, d))
         /\ Up(s, n) # NULL => Kid(s, Up(s, n), side) = n
  BY RotateKeeps
<1> QED BY <1>1, <1>2 DEF Turning

(***************************************************************************)
(* The rotation that InsertRotate, DeleteRotateNear and DeleteRotateRed    *)
(* end with: a red node comes up in the place of a black one.              *)
(***************************************************************************)
LEMMA RotateBal ==
    ASSUME NEW s, NEW D, NEW res, Trunk(s, D, res), NEW n \in NodesOf(s), NEW d \in Dirs,
           NEW c, c = Kid(s, n, Opposite(d)), c # NULL, c # res, n # res,
           NEW B, NEW x, Black(s, B, res, x), n # x, c # x,
           Color(s, n) # "RED", Color(s, c) = "RED", ~IsRed(s, Kid(s, n, d)),
           Reds(s, c, Opposite(d))
    PROVE  /\ \E E : Black(Rotate(s, n, d), E, res, x)
           /\ \A a, e : Reds(Rotate(s, n, d), a, e)
<1>1. Turning(s, Rotate(s, n, d), D, n, d, c)
  BY RotateTurns
<1>2. \E E : Black(Rotate(s, n, d), E, res, x)
  BY <1>1, TurnedBlack
<1>3. \A a, e : Reds(Rotate(s, n, d), a, e)
  BY <1>1, TurnedReds
<1> QED BY <1>2, <1>3

(***************************************************************************)
(* After one or two rotations no red node has a red kid.                   *)
(***************************************************************************)
LEMMA InsertRotateBal ==
    ASSUME NEW D, Tree(D), NEW B, Bal(B), InsertRotate
    PROVE  BalInv'
<1>1. PICK side \in Dirs : \E outer : Rotated(side, outer)
  BY InsertRotateIs
<1>2. PICK outer : Rotated(side, outer)
  BY <1>1
<1> DEFINE g == Up(rbt, cur)
           T == Toward(rbt, cur, key)
           x == Kid(rbt, cur, T)
<1>3. /\ pc = "insert" /\ cur \in NodesOf(rbt) /\ g \in NodesOf(rbt)
      /\ Kid(rbt, g, side) = cur /\ Color(rbt, cur) = "RED"
      /\ ~IsRed(rbt, Kid(rbt, g, Opposite(side))) /\ x \in NodesOf(rbt)
      /\ \/ side = T /\ outer = rbt
         \/ Opposite(side) = T /\ outer = Rotate(rbt, cur, side)
      /\ rbt' = Rotate(outer, g, Opposite(side))
      /\ pc' = "idle" /\ res_node' = NULL
  BY <1>2 DEF Rotated
<1>4. /\ res_node = NULL /\ Trunk(rbt, D, NULL) /\ Typed(rbt) /\ Shape(rbt, D)
      /\ Black(rbt, B, NULL, NULL) /\ Reds(rbt, cur, T) /\ IsRed(rbt, x)
  BY <1>3 DEF Tree, At, Trunk, Bal
<1> HIDE DEF T
<1>5. NULL \notin NodesOf(rbt) /\ Opposite(side) \in Dirs /\ Opposite(Opposite(side)) = side
  BY <1>4, NodeIs, Sides
<1>6. g # cur /\ Kid(rbt, g, Opposite(side)) # cur
  BY <1>3, <1>4, <1>5, KidUp
<1>7. Color(rbt, g) # "RED"
  <2>1. IsRed(rbt, Kid(rbt, g, side))
    BY <1>3, <1>5, RedIs
  <2> QED BY <2>1, <1>3, <1>4, <1>6 DEF Reds
<1>8. \E F, E, c : /\ Trunk(outer, F, NULL) /\ NodesOf(outer) = NodesOf(rbt)
                   /\ c = Kid(outer, g, side) /\ c # NULL /\ Black(outer, E, NULL, NULL)
                   /\ Color(outer, g) # "RED" /\ Color(outer, c) = "RED"
                   /\ ~IsRed(outer, Kid(outer, g, Opposite(side))) /\ Reds(outer, c, side)
  <2>1. CASE side = T /\ outer = rbt
    BY <2>1, <1>3, <1>4, <1>5, <1>7
  <2>2. CASE Opposite(side) = T /\ outer = Rotate(rbt, cur, side)
    <3>1. x = Kid(rbt, cur, Opposite(side)) /\ x # NULL /\ Color(rbt, x) = "RED"
      BY <2>2, <1>3, <1>4, <1>5, RedIs
    <3>2. Kid(outer, g, side) = x /\ g # x
      BY <3>1, <2>2, <1>3, <1>4, InnerRotation
    <3>3. Trunk(outer, TurnedD(rbt, D, cur, side), NULL) /\ NodesOf(outer) = NodesOf(rbt)
      BY <3>1, <2>2, <1>3, <1>4, RotateKeeps
    <3>4. Turning(rbt, outer, D, cur, side, x)
      BY <3>1, <2>2, <1>3, <1>4, RotateTurns
    <3>5. \E E : Black(outer, E, NULL, NULL)
      BY <3>1, <3>4, <1>3, <1>4, <1>5, TurnedBlack
    <3>6. Reds(outer, x, side)
      BY <3>1, <3>4, <2>2, <1>3, <1>4, TurnedInner
    <3>7. NewKids(rbt, outer, cur, side, x)
      BY <3>4, KidsAfter
    <3>8. Color(outer, g) = Color(rbt, g) /\ Color(outer, x) = Color(rbt, cur)
      BY <3>2, <3>7, <1>3, <1>6 DEF NewKids
    <3>9. ~IsRed(outer, Kid(outer, g, Opposite(side)))
      <4> DEFINE w == Kid(rbt, g, Opposite(side))
      <4>1. Kid(outer, g, Opposite(side)) = w /\ w # cur /\ w # x
        <5>1. g \in NodesOf(rbt) \ {cur, x}
          BY <3>2, <1>3, <1>6
        <5> QED BY <5>1, <3>7, <1>5, <1>6 DEF NewKids
      <4>2. w \in NodesOf(rbt) \cup {NULL}
        BY <1>3, <1>4, <1>5, NodeIs
      <4> HIDE DEF w
      <4>3. w # NULL => Color(outer, w) = Color(rbt, w)
        BY <4>1, <4>2, <3>7 DEF NewKids
      <4>4. ~IsRed(rbt, w)
        BY <1>3 DEF w
      <4> QED BY <4>1, <4>3, <4>4, RedIs
    <3> HIDE DEF x
    <3> QED BY <3>1, <3>2, <3>3, <3>5, <3>6, <3>8, <3>9, <1>3, <1>7
  <2> QED BY <2>1, <2>2, <1>3
<1>9. PICK F, E, c : /\ Trunk(outer, F, NULL) /\ NodesOf(outer) = NodesOf(rbt)
                     /\ c = Kid(outer, g, side) /\ c # NULL /\ Black(outer, E, NULL, NULL)
                     /\ Color(outer, g) # "RED" /\ Color(outer, c) = "RED"
                     /\ ~IsRed(outer, Kid(outer, g, Opposite(side))) /\ Reds(outer, c, side)
  BY <1>8
<1>10. g \in NodesOf(outer) /\ g # NULL /\ c = Kid(outer, g, Opposite(Opposite(side)))
  BY <1>3, <1>5, <1>9
<1>11. Reds(outer, c, Opposite(Opposite(side)))
  BY <1>5, <1>9
<1> HIDE DEF g
<1>12. /\ \E H : Black(rbt', H, NULL, NULL)
       /\ \A a, e : Reds(rbt', a, e)
  BY <1>3, <1>5, <1>9, <1>10, <1>11, RotateBal
<1> QED BY <1>3, <1>12 DEF BalInv, Bal

(***************************************************************************)
(* A red leaf is missed by no count.  Once a black leaf adds nothing, one  *)
(* black node is missing at cur.                                           *)
(***************************************************************************)
LEMMA RemoveBal ==
    ASSUME NEW D, Tree(D), NEW B, Bal(B), NEW k \in Keys, Remove(k)
    PROVE  BalInv'
<1>1. PICK C : \E leaf \in C :
               /\ NoKids(rbt, leaf) /\ leaf \in NodesOf(rbt) /\ Moved(rbt, rbt', C, leaf)
               /\ pc = "idle" /\ res_node = NULL /\ res_node' = leaf /\ cur' = leaf
               /\ pc' = IF IsRed(rbt, leaf) THEN "unlink" ELSE "delete"
  BY RemoveIs
<1>2. PICK leaf \in C :
               /\ NoKids(rbt, leaf) /\ leaf \in NodesOf(rbt) /\ Moved(rbt, rbt', C, leaf)
               /\ pc = "idle" /\ res_node = NULL /\ res_node' = leaf /\ cur' = leaf
               /\ pc' = IF IsRed(rbt, leaf) THEN "unlink" ELSE "delete"
  BY <1>1
<1>3. /\ NodesOf(rbt') = NodesOf(rbt)
      /\ \A m \in NodesOf(rbt) : /\ Color(rbt', m) = Color(rbt, m)
                                 /\ \A d \in Dirs : Kid(rbt', m, d) = Kid(rbt, m, d)
  BY <1>2 DEF Moved
<1>4. Typed(rbt) /\ Black(rbt, B, NULL, NULL) /\ \E e : Reds(rbt, NULL, e)
  BY <1>2 DEF Tree, Trunk, Bal
<1>5. NULL \notin NodesOf(rbt)
  BY <1>4, NodeIs
<1>6. \A a, e : Reds(rbt', a, e)
  <2>1. \A a, e : Reds(rbt, a, e)
    BY <1>4, <1>5 DEF Reds
  <2> QED BY <2>1, <1>3, <1>4, SameBalance
<1>7. /\ B \in [NodesOf(rbt) \cup {NULL} -> Nat] /\ B[NULL] = 0
      /\ \A n \in NodesOf(rbt), d \in Dirs :
            B[n] = Seen(B, NULL, Kid(rbt, n, d)) + Weight(rbt, NULL, n)
  BY <1>4 DEF Black
<1>8. \A m \in NodesOf(rbt), d \in Dirs : Kid(rbt, m, d) \in NodesOf(rbt) \cup {NULL}
  BY <1>4, NodeIs
<1>9. \A d \in Dirs : Kid(rbt, leaf, d) = NULL
  BY <1>2, Sides DEF NoKids
<1>10. CASE IsRed(rbt, leaf)
  <2>1. Color(rbt, leaf) = "RED"
    BY <1>10, RedIs
  <2>2. \A n \in NodesOf(rbt) : Weight(rbt', leaf, n) = Weight(rbt, NULL, n)
    BY <2>1, <1>3, <1>5 DEF Weight
  <2>3. Black(rbt', B, leaf, NULL)
    BY <2>2, <1>3, <1>7 DEF Black
  <2> QED BY <2>3, <1>2, <1>6, <1>10 DEF BalInv, Bal
<1>11. CASE ~IsRed(rbt, leaf)
  <2> DEFINE E == [m \in NodesOf(rbt) \cup {NULL} |-> IF m = leaf THEN 0 ELSE B[m]]
  <2>1. Color(rbt, leaf) # "RED"
    BY <1>2, <1>5, <1>11, RedIs
  <2>2. B[leaf] = 1
    <3>1. Weight(rbt, NULL, leaf) = 1
      BY <2>1, <1>2, <1>5 DEF Weight
    <3>2. B[leaf] = Seen(B, NULL, NULL) + 1
      BY <3>1, <1>2, <1>7, <1>9, Sides
    <3> QED BY <3>2, <1>7 DEF Seen
  <2>3. E \in [NodesOf(rbt') \cup {NULL} -> Nat] /\ E[NULL] = 0 /\ E[leaf] = 0
    BY <1>2, <1>3, <1>5, <1>7
  <2>4. \A m \in NodesOf(rbt) \cup {NULL} : m # leaf => E[m] = B[m]
    OBVIOUS
  <2> HIDE DEF E
  <2>5. \A y \in NodesOf(rbt) \cup {NULL} : Seen(E, leaf, y) = Seen(B, NULL, y)
    <3>1. Seen(E, leaf, leaf) = 1 /\ Seen(B, NULL, leaf) = 1
      BY <2>2, <2>3, <1>2, <1>5 DEF Seen
    <3>2. ASSUME NEW y \in NodesOf(rbt) \cup {NULL}, y # leaf
          PROVE  Seen(E, leaf, y) = Seen(B, NULL, y)
      BY <3>2, <2>4 DEF Seen
    <3> QED BY <3>1, <3>2
  <2>6. ASSUME NEW n \in NodesOf(rbt), NEW d \in Dirs
        PROVE  E[n] = Seen(E, leaf, Kid(rbt', n, d)) + Weight(rbt', leaf, n)
    <3>1. CASE n = leaf
      <4>1. Kid(rbt', n, d) = NULL /\ Weight(rbt', leaf, n) = 0
        BY <3>1, <1>2, <1>3, <1>9 DEF Weight
      <4> QED BY <4>1, <3>1, <2>3 DEF Seen
    <3>2. CASE n # leaf
      <4>1. Weight(rbt', leaf, n) = Weight(rbt, NULL, n)
        BY <3>2, <1>3, <1>5 DEF Weight
      <4> QED BY <4>1, <3>2, <2>4, <2>5, <1>3, <1>7, <1>8
    <3> QED BY <3>1, <3>2
  <2>7. Black(rbt', E, leaf, leaf)
    BY <2>3, <2>6, <1>3 DEF Black
  <2>8. ~IsRed(rbt', leaf)
    BY <2>1, <1>2, <1>3, RedIs
  <2> QED BY <2>7, <2>8, <1>2, <1>6, <1>11 DEF BalInv, Bal
<1> QED BY <1>10, <1>11

(***************************************************************************)
(* The loop ends when no black node is missing any more.                   *)
(***************************************************************************)
LEMMA BalancedBal ==
    ASSUME NEW D, Tree(D), pc = "delete", NEW s, NEW E, Kept(s, E), Balanced(s),
           NEW C, Black(s, C, res_node, NULL), \A a, e : Reds(s, a, e)
    PROVE  BalInv'
<1> DEFINE t == Paint(s, {HeadOf(s)}, "BLACK")
<1>1. rbt' = t /\ pc' = "unlink" /\ res_node' = res_node
  BY DEF Balanced, HeadOf
<1>2. Typed(s) /\ ~IsRed(s, HeadOf(s))
  BY DEF Kept, Trunk
<1>3. /\ NodesOf(t) = NodesOf(s)
      /\ \A n \in NodesOf(s) :
            /\ \A d \in Dirs : Kid(t, n, d) = Kid(s, n, d)
            /\ Color(t, n) = IF n \in {HeadOf(s)} THEN "BLACK" ELSE Color(s, n)
  BY <1>2, PaintIs
<1>4. \A n \in NodesOf(s) : Color(s, n) \in {"RED", "BLACK"} /\ n # NULL
  BY <1>2, NodeIs
<1>5. \A n \in NodesOf(s) : Color(t, n) = Color(s, n)
  BY <1>2, <1>3, <1>4, RedIs
<1> HIDE DEF t
<1>6. Black(t, C, res_node, NULL) /\ \A a, e : Reds(t, a, e)
  BY <1>2, <1>3, <1>5, SameBalance
<1> QED BY <1>1, <1>6 DEF BalInv, Bal

(***************************************************************************)
(* It goes on while one is missing below cur.                              *)
(***************************************************************************)
LEMMA GoOnBal ==
    ASSUME pc = "delete", NEW s, NEW n, GoOn(s, n), ~IsRed(s, n),
           NEW C, Black(s, C, res_node, n), \A a, e : Reds(s, a, e)
    PROVE  BalInv'
<1>1. rbt' = s /\ pc' = "delete" /\ cur' = n /\ res_node' = res_node
  BY DEF GoOn
<1> QED BY <1>1 DEF BalInv, Bal

(***************************************************************************)
(* What holds of the colors while a removal is balancing.                  *)
(***************************************************************************)
LEMMA DeleteBal ==
    ASSUME NEW D, Tree(D), NEW B, Bal(B), pc = "delete"
    PROVE  /\ Black(rbt, B, res_node, cur) /\ ~IsRed(rbt, cur)
           /\ \A a, e : Reds(rbt, a, e)
           /\ B \in [NodesOf(rbt) \cup {NULL} -> Nat] /\ B[NULL] = 0
           /\ \A n \in NodesOf(rbt), e \in Dirs :
                 B[n] = Seen(B, cur, Kid(rbt, n, e)) + Weight(rbt, res_node, n)
<1>1. Black(rbt, B, res_node, cur) /\ ~IsRed(rbt, cur) /\ \E e : Reds(rbt, NULL, e)
  BY DEF Bal
<1>2. NULL \notin NodesOf(rbt)
  BY DeleteAt
<1>3. \A a, e : Reds(rbt, a, e)
  BY <1>1, <1>2 DEF Reds
<1> QED BY <1>1, <1>3 DEF Black

(***************************************************************************)
(* One black node is missing below cur, so its neighbor is there and has   *)
(* one more than cur.                                                      *)
(***************************************************************************)
LEMMA DeleteSums ==
    ASSUME NEW D, Tree(D), NEW B, Bal(B), pc = "delete",
           NEW d, NEW p, NEW w, Beside(D, d, p, w)
    PROVE  /\ w \in NodesOf(rbt) /\ p # res_node /\ p # w /\ Up(rbt, w) = p
           /\ B[w] = B[cur] + 1 /\ B[p] = B[w] + Weight(rbt, res_node, p)
           /\ \A e \in Dirs : Kid(rbt, w, e) # p /\ Kid(rbt, w, e) # cur
           /\ \A m \in NodesOf(rbt) : B[m] \in Nat
<1>1. /\ d \in Dirs /\ p \in NodesOf(rbt) /\ p = Up(rbt, cur) /\ p # cur
      /\ Kid(rbt, p, d) = cur /\ w = Kid(rbt, p, Opposite(d))
      /\ w \in NodesOf(rbt) \cup {NULL} /\ w # cur
  BY DEF Beside
<1>2. /\ Typed(rbt) /\ Shape(rbt, D) /\ NULL \notin NodesOf(rbt) /\ cur \in NodesOf(rbt)
      /\ NoKids(rbt, res_node)
  BY DeleteAt DEF Kept
<1>3. /\ B \in [NodesOf(rbt) \cup {NULL} -> Nat] /\ B[NULL] = 0
      /\ \A n \in NodesOf(rbt), e \in Dirs :
            B[n] = Seen(B, cur, Kid(rbt, n, e)) + Weight(rbt, res_node, n)
  BY DeleteBal
<1>4. Opposite(d) \in Dirs
  BY <1>1, Sides
<1>5. p # res_node
  BY <1>1, <1>2, Sides DEF NoKids
<1>6. Seen(B, cur, cur) = B[cur] + 1 /\ Seen(B, cur, w) = B[w]
  BY <1>1, <1>2, <1>3 DEF Seen
<1>7. /\ B[p] = B[cur] + 1 + Weight(rbt, res_node, p) /\ B[p] = B[w] + Weight(rbt, res_node, p)
      /\ Weight(rbt, res_node, p) \in Nat
  BY <1>1, <1>3, <1>4, <1>6 DEF Weight
<1>8. B[cur] \in Nat /\ B[w] \in Nat /\ B[p] \in Nat
  BY <1>1, <1>2, <1>3
<1>9. B[w] = B[cur] + 1
  BY <1>7, <1>8
<1>10. w \in NodesOf(rbt)
  BY <1>1, <1>3, <1>8, <1>9
<1>11. Up(rbt, w) = p /\ p # w /\ \A e \in Dirs : Kid(rbt, w, e) # p
  <2>1. w # NULL
    BY <1>2, <1>10
  <2> QED BY <2>1, <1>1, <1>2, <1>4, KidUp
<1>12. \A e \in Dirs : Kid(rbt, w, e) # cur
  <2>1. ASSUME NEW e \in Dirs, Kid(rbt, w, e) = cur PROVE FALSE
    <3>1. Up(rbt, Kid(rbt, w, e)) = w
      BY <2>1, <1>2, <1>10, KidUp
    <3> QED BY <3>1, <2>1, <1>1, <1>11
  <2> QED BY <2>1
<1> QED BY <1>3, <1>5, <1>7, <1>9, <1>10, <1>11, <1>12

(***************************************************************************)
(* A black node missing below the head is missing on every way.            *)
(***************************************************************************)
LEMMA DeleteAtTopBal ==
    ASSUME NEW D, Tree(D), NEW B, Bal(B), DeleteAtTop
    PROVE  BalInv'
<1>1. pc = "delete" /\ Up(rbt, cur) = NULL /\ Balanced(rbt)
  BY Zenon DEF DeleteAtTop, Up, Field, NodeAt
<1>2. /\ Kept(rbt, D) /\ Typed(rbt) /\ Shape(rbt, D) /\ NULL \notin NodesOf(rbt)
  BY <1>1, DeleteAt
<1>3. /\ B \in [NodesOf(rbt) \cup {NULL} -> Nat] /\ B[NULL] = 0
      /\ \A n \in NodesOf(rbt), e \in Dirs :
            B[n] = Seen(B, cur, Kid(rbt, n, e)) + Weight(rbt, res_node, n)
      /\ \A a, e : Reds(rbt, a, e)
  BY <1>1, DeleteBal
<1>4. \A n \in NodesOf(rbt), e \in Dirs : Kid(rbt, n, e) # NULL => Up(rbt, Kid(rbt, n, e)) = n
  BY <1>2, KidUp
<1>5. \A n \in NodesOf(rbt), e \in Dirs :
         Seen(B, cur, Kid(rbt, n, e)) = Seen(B, NULL, Kid(rbt, n, e))
  BY <1>1, <1>2, <1>4 DEF Seen
<1>6. Black(rbt, B, res_node, NULL)
  BY <1>3, <1>5 DEF Black
<1> QED BY <1>1, <1>2, <1>3, <1>6, BalancedBal

\* The tree t after DeleteRecolor has painted w and p.
Lightened(t, p, w) ==
    /\ NodesOf(t) = NodesOf(rbt)
    /\ \A m \in NodesOf(rbt) :
          /\ \A e \in Dirs : Kid(t, m, e) = Kid(rbt, m, e)
          /\ Color(t, m) = IF m = w THEN "RED" ELSE IF m = p THEN "BLACK" ELSE Color(rbt, m)

(***************************************************************************)
(* A red w has one black node fewer below p on its side, as cur has; a red *)
(* p that becomes black makes up for it, a black p passes it on upwards.   *)
(***************************************************************************)
LEMMA LightenedBal ==
    ASSUME NEW D, Tree(D), NEW B, Bal(B), pc = "delete", NEW d, NEW p, NEW w,
           Beside(D, d, p, w), ~IsRed(rbt, w), \A e \in Dirs : ~IsRed(rbt, Kid(rbt, w, e)),
           NEW t, Lightened(t, p, w), NEW x, x = IF Color(rbt, p) = "RED" THEN NULL ELSE p
    PROVE  /\ \E C : Black(t, C, res_node, x)
           /\ \A a, e : Reds(t, a, e)
<1>1. /\ d \in Dirs /\ p \in NodesOf(rbt) /\ p = Up(rbt, cur) /\ p # cur
      /\ Kid(rbt, p, d) = cur /\ w = Kid(rbt, p, Opposite(d)) /\ w # cur /\ w # res_node
  BY DEF Beside
<1>2. /\ Typed(rbt) /\ Shape(rbt, D) /\ NULL \notin NodesOf(rbt) /\ cur \in NodesOf(rbt)
  BY DeleteAt
<1>3. /\ w \in NodesOf(rbt) /\ p # res_node /\ p # w /\ Up(rbt, w) = p
      /\ B[w] = B[cur] + 1 /\ B[p] = B[w] + Weight(rbt, res_node, p)
      /\ \A e \in Dirs : Kid(rbt, w, e) # p /\ Kid(rbt, w, e) # cur
      /\ \A m \in NodesOf(rbt) : B[m] \in Nat
  BY DeleteSums
<1>4. /\ B \in [NodesOf(rbt) \cup {NULL} -> Nat] /\ B[NULL] = 0
      /\ \A n \in NodesOf(rbt), e \in Dirs :
            B[n] = Seen(B, cur, Kid(rbt, n, e)) + Weight(rbt, res_node, n)
      /\ \A a, e : Reds(rbt, a, e)
  BY DeleteBal
<1>5. \A n \in NodesOf(rbt), e \in Dirs :
         /\ Kid(rbt, n, e) \in NodesOf(rbt) \cup {NULL}
         /\ Kid(rbt, n, e) # NULL => Up(rbt, Kid(rbt, n, e)) = n /\ Kid(rbt, n, e) # n
  <2>1. \A n \in NodesOf(rbt), e \in Dirs : Kid(rbt, n, e) \in NodesOf(rbt) \cup {NULL}
    BY <1>2, NodeIs
  <2> QED BY <2>1, <1>2, KidUp
<1>6. /\ NodesOf(t) = NodesOf(rbt)
      /\ \A m \in NodesOf(rbt) :
            /\ \A e \in Dirs : Kid(t, m, e) = Kid(rbt, m, e)
            /\ Color(t, m) = IF m = w THEN "RED" ELSE IF m = p THEN "BLACK" ELSE Color(rbt, m)
  BY DEF Lightened
<1>7. Color(rbt, w) # "RED"
  BY <1>2, <1>3, RedIs
<1>8. ASSUME NEW a, NEW f PROVE Reds(t, a, f)
  <2> SUFFICES ASSUME NEW n \in NodesOf(rbt), NEW e \in Dirs, Color(t, n) = "RED",
                      IsRed(t, Kid(t, n, e))
               PROVE  FALSE
    BY <1>6 DEF Reds
  <2> DEFINE y == Kid(rbt, n, e)
  <2>1. /\ Kid(t, n, e) = y /\ y # NULL /\ y \in NodesOf(rbt) /\ Color(t, y) = "RED"
        /\ Up(rbt, y) = n /\ y # n
    BY <1>5, <1>6, RedIs
  <2>2. n # p /\ y # p /\ y # w
    BY <2>1, <1>3, <1>6
  <2>3. CASE n = w
    <3>1. Color(rbt, y) # "RED"
      BY <2>1, <2>3, RedIs
    <3> QED BY <3>1, <2>1, <2>2, <1>6
  <2>4. CASE n # w
    <3>1. Color(rbt, n) = "RED" /\ IsRed(rbt, Kid(rbt, n, e))
      BY <2>1, <2>2, <2>4, <1>6, RedIs
    <3>2. n = NULL
      BY <3>1, <1>4 DEF Reds
    <3> QED BY <3>2, <1>2
  <2> QED BY <2>3, <2>4
<1> DEFINE C == [m \in NodesOf(rbt) \cup {NULL} |->
                    IF m = w \/ (m = p /\ Color(rbt, p) # "RED") THEN B[m] - 1 ELSE B[m]]
<1>9. /\ Weight(rbt, res_node, p) = IF Color(rbt, p) = "RED" THEN 0 ELSE 1
      /\ Weight(rbt, res_node, w) = 1 /\ Weight(t, res_node, w) = 0 /\ Weight(t, res_node, p) = 1
      /\ \A m \in NodesOf(rbt) : m # w /\ m # p =>
            Weight(t, res_node, m) = Weight(rbt, res_node, m)
  BY <1>1, <1>3, <1>6, <1>7 DEF Weight
<1>10. /\ B[cur] \in Nat /\ B[w] \in Nat /\ B[p] \in Nat /\ B[w] - 1 \in Nat
       /\ (Color(rbt, p) # "RED" => B[p] - 1 \in Nat)
  BY <1>1, <1>2, <1>3, <1>9
<1>11. C \in [NodesOf(t) \cup {NULL} -> Nat] /\ C[NULL] = 0
  BY <1>1, <1>2, <1>3, <1>4, <1>6, <1>10
<1>12. /\ C[w] = B[cur]
       /\ C[p] = IF Color(rbt, p) = "RED" THEN B[p] ELSE B[p] - 1
       /\ \A m \in NodesOf(rbt) \cup {NULL} : m # w /\ m # p => C[m] = B[m]
  BY <1>1, <1>3, <1>10
<1> HIDE DEF C
<1>13. ASSUME NEW n \in NodesOf(rbt), NEW e \in Dirs
       PROVE  C[n] = Seen(C, x, Kid(rbt, n, e)) + Weight(t, res_node, n)
  <2> DEFINE y == Kid(rbt, n, e)
  <2>1. /\ B[n] = Seen(B, cur, y) + Weight(rbt, res_node, n)
        /\ y \in NodesOf(rbt) \cup {NULL} /\ (y # NULL => Up(rbt, y) = n /\ y # n)
        /\ B[n] \in Nat /\ B[y] \in Nat
    BY <1>4, <1>5
  <2>2. w # NULL /\ p # NULL /\ cur # NULL
    BY <1>1, <1>2, <1>3
  <2>3. ASSUME y # w, y # p, y # cur PROVE Seen(C, x, y) = B[y] /\ Seen(B, cur, y) = B[y]
    BY <2>1, <2>3, <1>12 DEF Seen
  <2>4. CASE n = w
    <3>1. y # w /\ y # p /\ y # cur
      BY <2>1, <2>2, <2>4, <1>3
    <3>2. Seen(C, x, y) = B[y] /\ Seen(B, cur, y) = B[y]
      BY <3>1, <2>3
    <3> HIDE DEF y
    <3>3. C[n] = Seen(C, x, y) + Weight(t, res_node, n)
      BY <3>2, <2>1, <2>4, <1>3, <1>9, <1>10, <1>12
    <3> QED BY <3>3 DEF y
  <2>5. CASE n = p
    <3>1. Seen(C, x, y) = B[cur]
      <4>1. CASE y = cur
        BY <4>1, <2>1, <1>1, <1>2, <1>10, <1>12 DEF Seen
      <4>2. CASE y = w
        BY <4>2, <1>1, <1>3, <1>10, <1>12 DEF Seen
      <4> QED BY <4>1, <4>2, <2>5, <1>1, Sides
    <3> HIDE DEF y
    <3>3. C[n] = Seen(C, x, y) + Weight(t, res_node, n)
      BY <3>1, <2>5, <1>3, <1>9, <1>10, <1>12
    <3> QED BY <3>3 DEF y
  <2>6. CASE n # w /\ n # p
    <3>1. y # w /\ y # cur
      BY <2>1, <2>2, <2>6, <1>1, <1>3
    <3>2. Seen(C, x, y) = Seen(B, cur, y)
      <4>1. CASE y = p
        <5>1. Seen(B, cur, p) = B[p]
          BY <2>2, <1>1, <1>10 DEF Seen
        <5>2. Seen(C, x, p) = B[p]
          BY <2>2, <1>10, <1>12 DEF Seen
        <5> QED BY <4>1, <5>1, <5>2
      <4>2. CASE y # p
        BY <4>2, <3>1, <2>3
      <4> QED BY <4>1, <4>2
    <3> HIDE DEF y
    <3>3. C[n] = Seen(C, x, y) + Weight(t, res_node, n)
      BY <3>2, <2>1, <2>6, <1>9, <1>12
    <3> QED BY <3>3 DEF y
  <2> QED BY <2>4, <2>5, <2>6
<1>14. Black(t, C, res_node, x)
  BY <1>6, <1>11, <1>13 DEF Black
<1> QED BY <1>8, <1>14


(***************************************************************************)
(* Painting the neighbor red moves the missing node up, or ends the search *)
(* when the parent was red.                                                *)
(***************************************************************************)
LEMMA DeleteRecolorBal ==
    ASSUME NEW D, Tree(D), NEW B, Bal(B), DeleteRecolor
    PROVE  BalInv'
<1> DEFINE p == Up(rbt, cur)
           w == Neighbor(rbt, cur)
           d == Direction(rbt, cur)
           fixed == Paint(rbt, {w}, "RED")
<1>1. /\ pc = "delete" /\ p # NULL /\ ~IsRed(rbt, w)
      /\ w = NULL \/ \A e \in Dirs : ~IsRed(rbt, Kid(rbt, w, e))
      /\ \/ IsRed(rbt, p) /\ Balanced(Paint(fixed, {p}, "BLACK"))
         \/ ~IsRed(rbt, p) /\ GoOn(fixed, p)
  BY Zenon DEF DeleteRecolor, Up, Kid, Dirs, Field, NodeAt
<1>2. Beside(D, d, p, w)
  BY <1>1, DeleteBeside
<1> HIDE DEF p, w, d
<1>3. w \in NodesOf(rbt) /\ p # w
  BY <1>1, <1>2, DeleteSums
<1>4. p \in NodesOf(rbt) /\ w # HeadOf(rbt)
  BY <1>2 DEF Beside
<1>5. Kept(rbt, D) /\ Typed(rbt) /\ NULL \notin NodesOf(rbt)
  BY <1>1, DeleteAt
<1>6. /\ Typed(fixed) /\ NodesOf(fixed) = NodesOf(rbt)
      /\ \A m \in NodesOf(rbt) :
            /\ \A e \in Dirs : Kid(fixed, m, e) = Kid(rbt, m, e)
            /\ Color(fixed, m) = IF m \in {w} THEN "RED" ELSE Color(rbt, m)
  BY <1>5, PaintIs
<1>7. Kept(fixed, D)
  BY <1>1, <1>4, <1>5, PaintKept
<1> HIDE DEF fixed
<1>8. \A e \in Dirs : ~IsRed(rbt, Kid(rbt, w, e))
  BY <1>1, <1>3, <1>5
<1>9. CASE IsRed(rbt, p) /\ Balanced(Paint(fixed, {p}, "BLACK"))
  <2> DEFINE t == Paint(fixed, {p}, "BLACK")
  <2>1. Kept(t, D)
    BY <1>1, <1>7, PaintKept
  <2>2. /\ NodesOf(t) = NodesOf(fixed)
        /\ \A m \in NodesOf(fixed) :
              /\ \A e \in Dirs : Kid(t, m, e) = Kid(fixed, m, e)
              /\ Color(t, m) = IF m \in {p} THEN "BLACK" ELSE Color(fixed, m)
    BY <1>6, PaintIs
  <2> HIDE DEF t
  <2>3. Lightened(t, p, w)
    BY <2>2, <1>3, <1>6 DEF Lightened
  <2>4. Color(rbt, p) = "RED"
    BY <1>9, RedIs
  <2>5. (\E C : Black(t, C, res_node, NULL)) /\ \A a, e : Reds(t, a, e)
    BY <2>3, <2>4, <1>1, <1>2, <1>8, LightenedBal
  <2>6. Balanced(t)
    BY <1>9 DEF t
  <2> QED BY <2>1, <2>5, <2>6, <1>1, BalancedBal
<1>10. CASE ~IsRed(rbt, p) /\ GoOn(fixed, p)
  <2>1. Color(rbt, p) = "BLACK"
    BY <1>4, <1>5, <1>10, RedIs, NodeIs
  <2>2. Lightened(fixed, p, w)
    BY <2>1, <1>3, <1>6 DEF Lightened
  <2>3. (\E C : Black(fixed, C, res_node, p)) /\ \A a, e : Reds(fixed, a, e)
    BY <2>1, <2>2, <1>1, <1>2, <1>8, LightenedBal
  <2>4. ~IsRed(fixed, p)
    BY <2>1, <1>3, <1>4, <1>6, RedIs
  <2> QED BY <2>3, <2>4, <1>1, <1>10, GoOnBal
<1> QED BY <1>1, <1>9, <1>10

(***************************************************************************)
(* With the red near kid up, the far kid of the new neighbor is red.       *)
(***************************************************************************)
LEMMA DeleteRotateNearBal ==
    ASSUME NEW D, Tree(D), NEW B, Bal(B), DeleteRotateNear
    PROVE  BalInv'
<1> DEFINE p == Up(rbt, cur)
           w == Neighbor(rbt, cur)
           d == Direction(rbt, cur)
           c == Kid(rbt, w, d)
           t == Rotate(rbt, w, Opposite(d))
<1>1. /\ pc = "delete" /\ p # NULL /\ w # NULL /\ ~IsRed(rbt, w)
      /\ IsRed(rbt, c) /\ ~IsRed(rbt, Kid(rbt, w, Opposite(d))) /\ GoOn(t, cur)
  BY Zenon DEF DeleteRotateNear, Up, Kid, Field, NodeAt
<1>2. Beside(D, d, p, w)
  BY <1>1, DeleteBeside
<1> HIDE DEF p, w, d
<1>3. /\ d \in Dirs /\ w \in NodesOf(rbt) /\ res_node \notin D[w] /\ w # cur /\ w # res_node
  BY <1>1, <1>2 DEF Beside
<1>4. /\ Trunk(rbt, D, res_node) /\ Typed(rbt) /\ Shape(rbt, D) /\ NULL \notin NodesOf(rbt)
      /\ cur \in NodesOf(rbt)
  BY <1>1, DeleteAt DEF Kept
<1>5. c # NULL /\ Color(rbt, c) = "RED" /\ Color(rbt, w) # "RED"
  BY <1>1, RedIs
<1>6. c # cur
  BY <1>1, <1>2, <1>3, DeleteSums
<1>7. c # res_node
  <2>1. c \in NodesOf(rbt)
    BY <1>3, <1>4, <1>5, NodeIs
  <2>2. c \in D[c]
    BY <2>1, <1>4, Nested
  <2>3. c \in D[w]
    BY <2>2, <1>3, <1>4 DEF Shape
  <2> QED BY <2>3, <1>3
<1>8. Opposite(d) \in Dirs /\ Opposite(Opposite(d)) = d
  BY <1>3, Sides
<1>9. Black(rbt, B, res_node, cur) /\ ~IsRed(rbt, cur) /\ \A a, e : Reds(rbt, a, e)
  BY <1>1, DeleteBal
<1>10. c = Kid(rbt, w, Opposite(Opposite(d)))
  BY <1>8
<1> HIDE DEF c
<1>11. (\E C : Black(t, C, res_node, cur)) /\ \A a, e : Reds(t, a, e)
  BY <1>1, <1>3, <1>4, <1>5, <1>6, <1>7, <1>8, <1>9, <1>10, RotateBal
<1>12. Turning(rbt, t, D, w, Opposite(d), c)
  BY <1>3, <1>4, <1>5, <1>7, <1>8, <1>10, RotateTurns
<1>13. NewKids(rbt, t, w, Opposite(d), c)
  BY <1>12, KidsAfter
<1> HIDE DEF t
<1>14. ~IsRed(t, cur)
  <2>1. Color(t, cur) = Color(rbt, cur)
    BY <1>3, <1>4, <1>6, <1>13 DEF NewKids
  <2> QED BY <2>1, <1>9, RedIs
<1> QED BY <1>1, <1>11, <1>14, GoOnBal

(***************************************************************************)
(* With the red neighbor up, cur has a neighbor that is not red.           *)
(***************************************************************************)
LEMMA DeleteRotateRedBal ==
    ASSUME NEW D, Tree(D), NEW B, Bal(B), DeleteRotateRed
    PROVE  BalInv'
<1> DEFINE p == Up(rbt, cur)
           w == Neighbor(rbt, cur)
           d == Direction(rbt, cur)
           t == Rotate(rbt, p, d)
<1>1. /\ pc = "delete" /\ p # NULL /\ IsRed(rbt, w) /\ GoOn(t, cur)
  BY Zenon DEF DeleteRotateRed, Up, Field, NodeAt
<1>2. Beside(D, d, p, w)
  BY <1>1, DeleteBeside
<1> HIDE DEF p, w, d
<1>3. /\ d \in Dirs /\ p \in NodesOf(rbt) /\ w = Kid(rbt, p, Opposite(d)) /\ w # res_node
      /\ p # cur /\ w # cur /\ Kid(rbt, p, d) = cur
  BY <1>1, <1>2 DEF Beside
<1>4. p # res_node
  BY <1>1, <1>2, DeleteSums
<1>5. Trunk(rbt, D, res_node) /\ cur \in NodesOf(rbt) /\ NULL \notin NodesOf(rbt)
  BY <1>1, DeleteAt DEF Kept
<1>6. w # NULL /\ Color(rbt, w) = "RED" /\ Opposite(d) \in Dirs
  BY <1>1, <1>3, RedIs, Sides
<1>7. Black(rbt, B, res_node, cur) /\ ~IsRed(rbt, cur) /\ \A a, e : Reds(rbt, a, e)
  BY <1>1, DeleteBal
<1>8. Color(rbt, p) # "RED"
  <2>1. Reds(rbt, NULL, d)
    BY <1>7
  <2> QED BY <2>1, <1>1, <1>3, <1>6 DEF Reds
<1>9. (\E C : Black(t, C, res_node, cur)) /\ \A a, e : Reds(t, a, e)
  BY <1>3, <1>4, <1>5, <1>6, <1>7, <1>8, RotateBal
<1>10. Turning(rbt, t, D, p, d, w)
  BY <1>3, <1>5, <1>6, RotateTurns
<1>11. NewKids(rbt, t, p, d, w)
  BY <1>10, KidsAfter
<1> HIDE DEF t
<1>12. ~IsRed(t, cur)
  <2>1. Color(t, cur) = Color(rbt, cur)
    BY <1>3, <1>5, <1>11 DEF NewKids
  <2> QED BY <2>1, <1>7, RedIs
<1> QED BY <1>1, <1>9, <1>12, GoOnBal

(***************************************************************************)
(* With the neighbor up and its far kid black, no black node is missing.   *)
(***************************************************************************)
LEMMA DeleteRotateFarBal ==
    ASSUME NEW D, Tree(D), NEW B, Bal(B), DeleteRotateFar
    PROVE  BalInv'
<1> DEFINE p == Up(rbt, cur)
           w == Neighbor(rbt, cur)
           d == Direction(rbt, cur)
           o == Opposite(d)
           turned == Rotate(rbt, p, d)
           far == Kid(rbt, w, o)
           near == Kid(rbt, w, d)
           t == Paint(turned, {Kid(turned, w, o)}, "BLACK")
<1>1. /\ pc = "delete" /\ p # NULL /\ w # NULL /\ ~IsRed(rbt, w) /\ IsRed(rbt, far)
      /\ Balanced(t)
  BY Zenon DEF DeleteRotateFar, Up, Kid, Field, NodeAt
<1>2. Beside(D, d, p, w)
  BY <1>1, DeleteBeside
<1> HIDE DEF p, w, d
<1>3. /\ d \in Dirs /\ p \in NodesOf(rbt) /\ w = Kid(rbt, p, o) /\ w # res_node
      /\ p # cur /\ w # cur /\ Kid(rbt, p, d) = cur /\ p = Up(rbt, cur) /\ res_node \notin D[w]
  BY <1>1, <1>2 DEF Beside
<1>4. /\ w \in NodesOf(rbt) /\ p # res_node /\ p # w /\ Up(rbt, w) = p
      /\ B[w] = B[cur] + 1 /\ B[p] = B[w] + Weight(rbt, res_node, p)
      /\ \A e \in Dirs : Kid(rbt, w, e) # p /\ Kid(rbt, w, e) # cur
      /\ \A m \in NodesOf(rbt) : B[m] \in Nat
  BY <1>1, <1>2, DeleteSums
<1>5. /\ Trunk(rbt, D, res_node) /\ Typed(rbt) /\ Shape(rbt, D) /\ NULL \notin NodesOf(rbt)
      /\ cur \in NodesOf(rbt)
  BY <1>1, DeleteAt DEF Kept
<1>6. /\ B \in [NodesOf(rbt) \cup {NULL} -> Nat] /\ B[NULL] = 0
      /\ \A n \in NodesOf(rbt), e \in Dirs :
            B[n] = Seen(B, cur, Kid(rbt, n, e)) + Weight(rbt, res_node, n)
      /\ \A a, e : Reds(rbt, a, e)
  BY <1>1, DeleteBal
<1>7. o \in Dirs /\ o # d /\ \A e \in Dirs : e = d \/ e = o
  BY <1>3, Sides
<1>8. \A n \in NodesOf(rbt), e \in Dirs :
         /\ Kid(rbt, n, e) \in NodesOf(rbt) \cup {NULL}
         /\ Kid(rbt, n, e) # NULL => Up(rbt, Kid(rbt, n, e)) = n /\ Kid(rbt, n, e) # n
  <2>1. \A n \in NodesOf(rbt), e \in Dirs : Kid(rbt, n, e) \in NodesOf(rbt) \cup {NULL}
    BY <1>5, NodeIs
  <2> QED BY <2>1, <1>5, KidUp
<1>9. /\ far \in NodesOf(rbt) /\ far # NULL /\ Color(rbt, far) = "RED" /\ Up(rbt, far) = w
      /\ far # p /\ far # cur /\ far # w /\ near # far /\ near # cur /\ near # p /\ near # w
  <2>1. far # NULL /\ Color(rbt, far) = "RED"
    BY <1>1, RedIs
  <2>2. near # far
    BY <2>1, <1>3, <1>4, <1>5, <1>7, KidUp
  <2>3. far \in NodesOf(rbt) /\ Up(rbt, far) = w /\ far # w
    BY <2>1, <1>4, <1>7, <1>8
  <2>4. near # w
    BY <1>3, <1>4, <1>5, <1>8
  <2> QED BY <2>1, <2>2, <2>3, <2>4, <1>3, <1>4, <1>7
<1>10. far # res_node
  <2>1. far \in D[far]
    BY <1>5, <1>9, Nested
  <2>2. far \in D[w]
    BY <2>1, <1>4, <1>5, <1>7 DEF Shape
  <2> QED BY <2>2, <1>3
<1>11. NewKids(rbt, turned, p, d, w)
  <2>1. Turning(rbt, turned, D, p, d, w)
    BY <1>1, <1>3, <1>5, RotateTurns
  <2> QED BY <2>1, KidsAfter
<1>12. Kept(turned, TurnedD(rbt, D, p, d))
  BY <1>1, <1>3, RotateKept
<1> HIDE DEF turned
<1>13. Kept(t, TurnedD(rbt, D, p, d))
  BY <1>1, <1>12, PaintKept
<1>14. /\ Kid(turned, w, o) = far /\ NodesOf(turned) = NodesOf(rbt) /\ Typed(turned)
  BY <1>11, <1>12 DEF NewKids, Kept, Trunk
<1>15. /\ NodesOf(t) = NodesOf(turned)
       /\ \A m \in NodesOf(turned) :
             /\ \A e \in Dirs : Kid(t, m, e) = Kid(turned, m, e)
             /\ Color(t, m) = IF m \in {Kid(turned, w, o)} THEN "BLACK" ELSE Color(turned, m)
  BY <1>14, PaintIs
<1> HIDE DEF t
<1>16. Color(rbt, w) = "BLACK"
  BY <1>1, <1>4, <1>5, RedIs, NodeIs
<1> HIDE DEF far, near, o
<1>17. /\ Color(t, p) = "BLACK" /\ Color(t, far) = "BLACK" /\ Color(t, w) = Color(rbt, p)
       /\ \A m \in NodesOf(rbt) : m # p /\ m # w /\ m # far => Color(t, m) = Color(rbt, m)
  <2>1. \A m \in NodesOf(rbt) : Color(turned, m) = IF m = w THEN Color(rbt, p)
                                ELSE IF m = p THEN Color(rbt, w) ELSE Color(rbt, m)
    BY <1>11 DEF NewKids
  <2> QED BY <2>1, <1>3, <1>4, <1>9, <1>14, <1>15, <1>16
<1>18. /\ Kid(t, p, d) = cur /\ Kid(t, p, o) = near /\ Kid(t, w, d) = p /\ Kid(t, w, o) = far
       /\ \A e \in Dirs : Kid(t, far, e) = Kid(rbt, far, e)
       /\ \A m \in NodesOf(rbt), e \in Dirs : m # p /\ m # w =>
             \/ Kid(t, m, e) = w /\ Kid(rbt, m, e) = p
             \/ Kid(t, m, e) = Kid(rbt, m, e) /\ Kid(rbt, m, e) # p /\ Kid(rbt, m, e) # w
  <2>1. /\ Kid(turned, p, d) = Kid(rbt, p, d) /\ Kid(turned, p, o) = near
        /\ Kid(turned, w, d) = p
        /\ \A m \in NodesOf(rbt) \ {p, w}, e \in Dirs :
             \/ Kid(turned, m, e) = w /\ Kid(rbt, m, e) = p
             \/ Kid(turned, m, e) = Kid(rbt, m, e) /\ Kid(rbt, m, e) # p /\ Kid(rbt, m, e) # w
    BY <1>11 DEF NewKids, near, o
  <2>2. \A e \in Dirs : Kid(rbt, far, e) # p
    <3>1. ASSUME NEW e \in Dirs, Kid(rbt, far, e) = p PROVE FALSE
      BY <3>1, <1>3, <1>4, <1>5, <1>7, <1>8, <1>9, Nested DEF Shape
    <3> QED BY <3>1
  <2> QED BY <2>1, <2>2, <1>3, <1>4, <1>7, <1>9, <1>14, <1>15
<1>19. \A a, f : Reds(t, a, f)
  <2> SUFFICES ASSUME NEW n \in NodesOf(rbt), NEW e \in Dirs, Color(t, n) = "RED",
                      IsRed(t, Kid(t, n, e))
               PROVE  FALSE
    BY <1>14, <1>15 DEF Reds
  <2>1. n # p /\ n # far
    BY <1>17
  <2>2. n # w
    BY <1>7, <1>17, <1>18, RedIs
  <2>3. Color(rbt, n) = "RED"
    BY <2>1, <2>2, <1>17
  <2>4. IsRed(rbt, Kid(rbt, n, e))
    <3>1. CASE Kid(t, n, e) = w /\ Kid(rbt, n, e) = p
      BY <3>1, <1>1, <1>17, RedIs
    <3>2. CASE Kid(t, n, e) = Kid(rbt, n, e) /\ Kid(rbt, n, e) # p /\ Kid(rbt, n, e) # w
      <4> DEFINE y == Kid(rbt, n, e)
      <4>1. y # NULL /\ Color(t, y) = "RED" /\ y # p /\ y # w /\ y \in NodesOf(rbt)
        BY <3>2, <1>8, RedIs
      <4>2. y # far
        BY <4>1, <1>17
      <4> QED BY <4>1, <4>2, <1>17, RedIs
    <3> QED BY <3>1, <3>2, <2>1, <2>2, <1>18
  <2>5. n = NULL
    BY <2>3, <2>4, <1>6 DEF Reds
  <2> QED BY <2>5, <1>5
<1>20. /\ B[cur] \in Nat /\ B[near] = B[cur] /\ B[far] = B[cur]
  <2>1. Weight(rbt, res_node, w) = 1
    BY <1>3, <1>16 DEF Weight
  <2>2. Kid(rbt, w, d) = near /\ Kid(rbt, w, o) = far
    BY DEF near, far
  <2>3. near \in NodesOf(rbt) \cup {NULL}
    BY <2>2, <1>3, <1>4, <1>8
  <2>4. Seen(B, cur, near) = B[near] /\ Seen(B, cur, far) = B[far]
    BY <2>3, <1>6, <1>9 DEF Seen
  <2>5. B[w] = B[near] + 1 /\ B[w] = B[far] + 1
    BY <2>1, <2>2, <2>4, <1>3, <1>4, <1>6, <1>7
  <2> QED BY <2>3, <2>5, <1>4, <1>5, <1>6, <1>9
<1> DEFINE C == [m \in NodesOf(rbt) \cup {NULL} |->
                    IF m = p THEN B[w] ELSE IF m = w THEN B[p]
                    ELSE IF m = far THEN B[far] + 1 ELSE B[m]]
<1>21. C \in [NodesOf(t) \cup {NULL} -> Nat] /\ C[NULL] = 0
  BY <1>3, <1>4, <1>5, <1>6, <1>9, <1>14, <1>15
<1>22. /\ C[p] = B[cur] + 1 /\ C[w] = B[p] /\ C[far] = B[cur] + 1
       /\ \A m \in NodesOf(rbt) \cup {NULL} : m # p /\ m # w /\ m # far => C[m] = B[m]
  BY <1>3, <1>4, <1>9, <1>20
<1> HIDE DEF C
<1>23. /\ Weight(t, res_node, p) = 1 /\ Weight(t, res_node, far) = 1
       /\ Weight(rbt, res_node, far) = 0
       /\ Weight(t, res_node, w) = Weight(rbt, res_node, p)
       /\ \A m \in NodesOf(rbt) : m # p /\ m # w /\ m # far =>
             Weight(t, res_node, m) = Weight(rbt, res_node, m)
  BY <1>3, <1>4, <1>9, <1>10, <1>17 DEF Weight
<1>24. ASSUME NEW y \in NodesOf(rbt) \cup {NULL} PROVE Seen(C, NULL, y) = C[y]
  BY <1>21, <1>14, <1>15 DEF Seen
<1>25. ASSUME NEW y \in NodesOf(rbt) \cup {NULL}, y # cur PROVE Seen(B, cur, y) = B[y]
  BY <1>25, <1>6 DEF Seen
<1>26. ASSUME NEW n \in NodesOf(rbt), NEW e \in Dirs
       PROVE  C[n] = Seen(C, NULL, Kid(t, n, e)) + Weight(t, res_node, n)
  <2>1. near \in NodesOf(rbt) \cup {NULL}
    BY <1>3, <1>4, <1>8 DEF near
  <2>2. CASE n = p
    <3>1. Kid(t, n, e) = cur \/ Kid(t, n, e) = near
      BY <2>2, <1>7, <1>18
    <3>2. C[cur] = B[cur] /\ C[near] = B[cur]
      BY <2>1, <1>3, <1>5, <1>9, <1>20, <1>22
    <3>3. Seen(C, NULL, Kid(t, n, e)) = B[cur]
      BY <3>1, <3>2, <2>1, <1>5, <1>24
    <3> QED BY <3>3, <2>2, <1>22, <1>23
  <2>3. CASE n = w
    <3>1. Kid(t, n, e) = p \/ Kid(t, n, e) = far
      BY <2>3, <1>7, <1>18
    <3>2. Seen(C, NULL, Kid(t, n, e)) = B[w]
      BY <3>1, <1>3, <1>4, <1>9, <1>22, <1>24
    <3> QED BY <3>2, <2>3, <1>4, <1>22, <1>23
  <2>4. CASE n # p /\ n # w
    <3> DEFINE y == Kid(rbt, n, e)
    <3>1. y \in NodesOf(rbt) \cup {NULL} /\ y # cur /\ y # far
      BY <2>4, <1>3, <1>5, <1>8, <1>9
    <3>2. B[n] = B[y] + Weight(rbt, res_node, n) /\ B[y] \in Nat
      BY <3>1, <1>6, <1>25
    <3>3. Seen(C, NULL, Kid(t, n, e)) = B[y]
      <4>1. CASE Kid(t, n, e) = w /\ y = p
        BY <4>1, <1>4, <1>22, <1>24
      <4>2. CASE Kid(t, n, e) = y /\ y # p /\ y # w
        BY <4>2, <3>1, <1>22, <1>24
      <4> QED BY <4>1, <4>2, <2>4, <1>18
    <3> HIDE DEF y
    <3>4. CASE n = far
      BY <3>2, <3>3, <3>4, <1>20, <1>22, <1>23
    <3>5. CASE n # far
      BY <3>2, <3>3, <3>5, <2>4, <1>22, <1>23
    <3> QED BY <3>4, <3>5
  <2> QED BY <2>2, <2>3, <2>4
<1>27. Black(t, C, res_node, NULL)
  BY <1>14, <1>15, <1>21, <1>26 DEF Black
<1> QED BY <1>1, <1>13, <1>19, <1>27, BalancedBal

(***************************************************************************)
(* The node that Unlink takes out adds nothing to any count.               *)
(***************************************************************************)
LEMMA CutBal ==
    ASSUME NEW s, NEW u, Typed(s), NEW res \in NodesOf(s), NoKids(s, res), Without(s, u, res),
           NEW B, Black(s, B, res, NULL), \A a, e : Reds(s, a, e)
    PROVE  (\E C : Black(u, C, NULL, NULL)) /\ \A a, e : Reds(u, a, e)
<1>1. /\ NodesOf(u) = NodesOf(s) \ {res}
      /\ \A m \in NodesOf(u) :
            /\ Color(u, m) = Color(s, m)
            /\ \A e \in Dirs : Kid(u, m, e) = IF Kid(s, m, e) = res THEN NULL ELSE Kid(s, m, e)
  BY DEF Without
<1>2. /\ B \in [NodesOf(s) \cup {NULL} -> Nat] /\ B[NULL] = 0
      /\ \A n \in NodesOf(s), e \in Dirs : B[n] = Seen(B, NULL, Kid(s, n, e)) + Weight(s, res, n)
  BY DEF Black
<1>3. /\ NULL \notin NodesOf(s)
      /\ \A m \in NodesOf(s), e \in Dirs : Kid(s, m, e) \in NodesOf(s) \cup {NULL}
  BY NodeIs
<1>4. B[res] = 0
  <2>1. Kid(s, res, "left") = NULL /\ Weight(s, res, res) = 0 /\ "left" \in Dirs
    BY Sides DEF NoKids, Weight
  <2>2. B[res] = Seen(B, NULL, NULL) + 0
    BY <2>1, <1>2
  <2> QED BY <2>2, <1>2 DEF Seen
<1> DEFINE C == [m \in NodesOf(u) \cup {NULL} |-> B[m]]
<1>5. C \in [NodesOf(u) \cup {NULL} -> Nat] /\ C[NULL] = 0
  BY <1>1, <1>2
<1>6. \A m \in NodesOf(u) \cup {NULL} : C[m] = B[m]
  OBVIOUS
<1> HIDE DEF C
<1>7. ASSUME NEW n \in NodesOf(u), NEW e \in Dirs
      PROVE  C[n] = Seen(C, NULL, Kid(u, n, e)) + Weight(u, NULL, n)
  <2>1. n \in NodesOf(s) /\ n # res /\ n # NULL
    BY <1>1, <1>3
  <2>2. Weight(u, NULL, n) = Weight(s, res, n)
    BY <2>1, <1>1 DEF Weight
  <2>3. Seen(C, NULL, Kid(u, n, e)) = Seen(B, NULL, Kid(s, n, e))
    <3>1. CASE Kid(s, n, e) = res
      BY <3>1, <1>1, <1>2, <1>3, <1>4, <1>5 DEF Seen
    <3>2. CASE Kid(s, n, e) # res
      <4>1. Kid(u, n, e) = Kid(s, n, e) /\ Kid(s, n, e) \in NodesOf(u) \cup {NULL}
        BY <3>2, <2>1, <1>1, <1>3
      <4> QED BY <4>1, <1>6 DEF Seen
    <3> QED BY <3>1, <3>2
  <2> QED BY <2>1, <2>2, <2>3, <1>2, <1>6
<1>8. Black(u, C, NULL, NULL)
  BY <1>5, <1>7 DEF Black
<1>9. ASSUME NEW a, NEW f PROVE Reds(u, a, f)
  <2> SUFFICES ASSUME NEW n \in NodesOf(u), NEW e \in Dirs, Color(u, n) = "RED",
                      IsRed(u, Kid(u, n, e))
               PROVE  FALSE
    BY DEF Reds
  <2>1. Kid(u, n, e) # NULL /\ Color(u, Kid(u, n, e)) = "RED"
    BY RedIs
  <2>2. Kid(u, n, e) = Kid(s, n, e) /\ Kid(s, n, e) \in NodesOf(u)
    BY <2>1, <1>1, <1>3
  <2>3. n \in NodesOf(s) /\ Color(s, n) = "RED" /\ IsRed(s, Kid(s, n, e))
    BY <2>1, <2>2, <1>1, RedIs
  <2>4. n = NULL
    BY <2>3 DEF Reds
  <2> QED BY <2>3, <2>4, <1>3
<1> QED BY <1>8, <1>9

(***************************************************************************)
(* The names of the nodes do not count.                                    *)
(***************************************************************************)
LEMMA RenamedBal ==
    ASSUME NEW u, NEW v, NEW E, Typed(u), Shape(u, E), Sorted(u, E, NULL), Typed(v),
           Renamed(u, v), NEW B, Black(u, B, NULL, NULL), \A a, e : Reds(u, a, e)
    PROVE  (\E C : Black(v, C, NULL, NULL)) /\ \A a, e : Reds(v, a, e)
<1>1. /\ NodesOf(v) = {KeyOf(u, n) : n \in NodesOf(u)}
      /\ \A n \in NodesOf(u) :
            /\ Color(v, KeyOf(u, n)) = Color(u, n)
            /\ \A d \in Dirs : Kid(v, KeyOf(u, n), d) = Name(u, Kid(u, n, d))
  BY DEF Renamed
<1>2. /\ NULL \notin NodesOf(u) /\ NULL \notin NodesOf(v)
      /\ \A m \in NodesOf(u), e \in Dirs : Kid(u, m, e) \in NodesOf(u) \cup {NULL}
  BY NodeIs
<1>3. \A x, y \in NodesOf(u) : KeyOf(u, x) = KeyOf(u, y) => x = y
  BY <1>2, KeysDiffer
<1>4. /\ B \in [NodesOf(u) \cup {NULL} -> Nat] /\ B[NULL] = 0
      /\ \A n \in NodesOf(u), e \in Dirs : B[n] = Seen(B, NULL, Kid(u, n, e)) + Weight(u, NULL, n)
  BY DEF Black
<1> DEFINE Node(k) == CHOOSE n \in NodesOf(u) : KeyOf(u, n) = k
           C == [k \in NodesOf(v) \cup {NULL} |-> IF k = NULL THEN 0 ELSE B[Node(k)]]
<1>5. ASSUME NEW n \in NodesOf(u) PROVE Node(KeyOf(u, n)) = n
  BY <1>3
<1>6. ASSUME NEW k \in NodesOf(v) PROVE Node(k) \in NodesOf(u)
  BY <1>1
<1> HIDE DEF Node
<1>7. C \in [NodesOf(v) \cup {NULL} -> Nat] /\ C[NULL] = 0
  BY <1>4, <1>6
<1>8. \A n \in NodesOf(u) \cup {NULL} : Name(u, n) \in NodesOf(v) \cup {NULL} /\ C[Name(u, n)] = B[n]
  BY <1>1, <1>2, <1>4, <1>5 DEF Name
<1> HIDE DEF C
<1>9. ASSUME NEW k \in NodesOf(v), NEW e \in Dirs
      PROVE  C[k] = Seen(C, NULL, Kid(v, k, e)) + Weight(v, NULL, k)
  <2>1. PICK n \in NodesOf(u) : k = KeyOf(u, n)
    BY <1>1
  <2>2. Name(u, n) = k /\ C[k] = B[n]
    BY <2>1, <1>2, <1>8 DEF Name
  <2>3. Weight(v, NULL, k) = Weight(u, NULL, n)
    BY <2>1, <1>1, <1>2 DEF Weight
  <2>4. Kid(v, k, e) = Name(u, Kid(u, n, e)) /\ Kid(u, n, e) \in NodesOf(u) \cup {NULL}
    BY <2>1, <1>1, <1>2
  <2>5. C[Kid(v, k, e)] = B[Kid(u, n, e)]
    BY <2>4, <1>8
  <2>6. Seen(C, NULL, Kid(v, k, e)) = Seen(B, NULL, Kid(u, n, e))
    BY <2>5 DEF Seen
  <2> QED BY <2>2, <2>3, <2>6, <1>4
<1>10. Black(v, C, NULL, NULL)
  BY <1>7, <1>9 DEF Black
<1>11. ASSUME NEW a, NEW f PROVE Reds(v, a, f)
  <2> SUFFICES ASSUME NEW k \in NodesOf(v), NEW e \in Dirs, Color(v, k) = "RED",
                      IsRed(v, Kid(v, k, e))
               PROVE  FALSE
    BY DEF Reds
  <2>1. PICK n \in NodesOf(u) : k = KeyOf(u, n)
    BY <1>1
  <2>2. Kid(v, k, e) = Name(u, Kid(u, n, e)) /\ Kid(u, n, e) \in NodesOf(u) \cup {NULL}
    BY <2>1, <1>1, <1>2
  <2>3. Kid(v, k, e) # NULL /\ Color(v, Kid(v, k, e)) = "RED"
    BY RedIs
  <2>4. /\ Kid(u, n, e) # NULL /\ Kid(v, k, e) = KeyOf(u, Kid(u, n, e))
    BY <2>2, <2>3 DEF Name
  <2>5. Color(u, n) = "RED" /\ IsRed(u, Kid(u, n, e))
    BY <2>1, <2>2, <2>3, <2>4, <1>1, RedIs
  <2>6. n = NULL
    BY <2>5 DEF Reds
  <2> QED BY <2>6, <1>2
<1> QED BY <1>10, <1>11

(***************************************************************************)
(* Unlink keeps the balance.                                               *)
(***************************************************************************)
LEMMA UnlinkBal ==
    ASSUME NEW D, Tree(D), NEW B, Bal(B), Unlink
    PROVE  BalInv'
<1> DEFINE u == Cut(rbt, res_node)
           v == Named(u)
           E == [m \in (NodesOf(rbt) \ {res_node}) \cup {NULL} |-> D[m] \ {res_node}]
<1>1. pc = "unlink" /\ rbt' = v /\ pc' = "idle" /\ res_node' = NULL
  BY Zenon DEF Unlink, Return, Cut
<1>2. /\ Typed(rbt) /\ Shape(rbt, D) /\ Sorted(rbt, D, res_node)
      /\ NoKids(rbt, res_node) /\ res_node \in NodesOf(rbt)
  BY <1>1 DEF Tree, At, Trunk
<1>3. Typed(u) /\ Without(rbt, u, res_node)
  BY <1>2, CutIs
<1> HIDE DEF u
<1>4. Shape(u, E) /\ Sorted(u, E, NULL)
  BY <1>2, <1>3, CutTree
<1> HIDE DEF E
<1>5. Typed(v) /\ Renamed(u, v)
  BY <1>3, <1>4, RenamedIs
<1> HIDE DEF v
<1>6. Black(rbt, B, res_node, NULL) /\ \A a, e : Reds(rbt, a, e)
  <2>1. Black(rbt, B, res_node, NULL) /\ \E e : Reds(rbt, NULL, e)
    BY <1>1 DEF Bal
  <2>2. NULL \notin NodesOf(rbt)
    BY <1>2, NodeIs
  <2> QED BY <2>1, <2>2 DEF Reds
<1>7. (\E C : Black(u, C, NULL, NULL)) /\ \A a, e : Reds(u, a, e)
  BY <1>2, <1>3, <1>6, CutBal
<1>8. (\E C : Black(v, C, NULL, NULL)) /\ \A a, e : Reds(v, a, e)
  BY <1>3, <1>4, <1>5, <1>7, RenamedBal
<1> QED BY <1>1, <1>8 DEF BalInv, Bal

(***************************************************************************)
(* Every step keeps the balance.                                           *)
(***************************************************************************)
LEMMA NextBal ==
    ASSUME TreeInv, BalInv, [Next]_vars
    PROVE  BalInv'
<1>1. PICK D : Tree(D)
  BY DEF TreeInv
<1>2. PICK B : Bal(B)
  BY DEF BalInv
<1>3. ASSUME NEW k \in Keys, InsertFirst(k) PROVE BalInv'
  BY <1>1, <1>3, InsertFirstBal
<1>4. ASSUME NEW k \in Keys, Insert(k) PROVE BalInv'
  BY <1>1, <1>2, <1>4, InsertBal
<1>5. ASSUME NEW k \in Keys, Remove(k) PROVE BalInv'
  BY <1>1, <1>2, <1>5, RemoveBal
<1>6. CASE InsertBalanced
  BY <1>1, <1>2, <1>6, InsertBalancedBal
<1>7. CASE InsertRecolor
  BY <1>1, <1>2, <1>7, InsertRecolorBal
<1>8. CASE InsertRotate
  BY <1>1, <1>2, <1>8, InsertRotateBal
<1>9. CASE DeleteAtTop
  BY <1>1, <1>2, <1>9, DeleteAtTopBal
<1>10. CASE DeleteRecolor
  BY <1>1, <1>2, <1>10, DeleteRecolorBal
<1>11. CASE DeleteRotateFar
  BY <1>1, <1>2, <1>11, DeleteRotateFarBal
<1>12. CASE DeleteRotateNear
  BY <1>1, <1>2, <1>12, DeleteRotateNearBal
<1>13. CASE DeleteRotateRed
  BY <1>1, <1>2, <1>13, DeleteRotateRedBal
<1>14. CASE Unlink
  BY <1>1, <1>2, <1>14, UnlinkBal
<1>15. CASE UNCHANGED vars
  BY <1>2, <1>15 DEF vars, BalInv, Bal
<1> QED BY <1>3, <1>4, <1>5, <1>6, <1>7, <1>8, <1>9, <1>10, <1>11, <1>12, <1>13, <1>14, <1>15
        DEF Next, Step

(***************************************************************************)
(* In every state every way down passes the same number of black nodes,    *)
(* and no red node has a red kid, but for the places BalInv names: above   *)
(* the node an insertion repairs, and below the node cur of a removal.     *)
(***************************************************************************)
THEOREM BalanceInvariant == Spec => []BalInv
BY InitBal, NextBal, TreeInvariant, PTL DEF Spec

(***************************************************************************)
(* The black nodes from n up to the head are those below the head that are *)
(* not below n.                                                            *)
(***************************************************************************)
LEMMA BlackAboveIs ==
    ASSUME NEW D, Typed(rbt), Shape(rbt, D), NEW B, Black(rbt, B, NULL, NULL),
           NEW n \in NodesOf(rbt)
    PROVE  BlackAbove(n) = B[HeadOf(rbt)] - B[n] + Weight(rbt, NULL, n)
<1> DEFINE P == NodesOf(rbt) \cup {NULL}
           W(m) == Weight(rbt, NULL, m)
           U(m) == IF m = NULL THEN 0 ELSE B[HeadOf(rbt)] - B[m] + W(m)
           Is(f) == f = [m \in P |-> IF m = NULL THEN 0
                                     ELSE (IF IsRed(rbt, m) THEN 0 ELSE 1) + f[Up(rbt, m)]]
<1>1. BlackAbove(n) = (CHOOSE f : Is(f))[n]
  BY Zenon DEF BlackAbove, Pointers, Nodes, NodesOf, Up, Field, NodeAt
<1>2. /\ NULL \notin NodesOf(rbt) /\ HeadOf(rbt) \in P
      /\ \A m \in NodesOf(rbt) : Up(rbt, m) \in P
  BY NodeIs DEF Typed, HeadOf
<1>3. /\ \A m \in P : B[m] \in Nat
      /\ \A m \in NodesOf(rbt), e \in Dirs : B[m] = Seen(B, NULL, Kid(rbt, m, e)) + W(m)
  BY DEF Black
<1>4. \A m \in NodesOf(rbt) : W(m) \in Nat /\ W(m) = IF IsRed(rbt, m) THEN 0 ELSE 1
  BY <1>2, RedIs DEF Weight
<1>5. ASSUME NEW m \in NodesOf(rbt) PROVE U(m) = W(m) + U(Up(rbt, m))
  <2>1. m # NULL /\ B[m] \in Nat /\ B[HeadOf(rbt)] \in Nat /\ W(m) \in Nat
    BY <1>2, <1>3, <1>4
  <2>2. CASE Up(rbt, m) = NULL
    <3>1. m = HeadOf(rbt)
      BY <2>2 DEF Shape
    <3> HIDE DEF W
    <3> QED BY <3>1, <2>1, <2>2
  <2>3. CASE Up(rbt, m) # NULL
    <3> DEFINE p == Up(rbt, m)
    <3>1. PICK e \in Dirs : Kid(rbt, p, e) = m
      BY <2>3, Hangs
    <3>2. p \in NodesOf(rbt)
      BY <2>3, <1>2
    <3>3. Seen(B, NULL, m) = B[m]
      BY <2>1 DEF Seen
    <3>4. B[p] = B[m] + W(p) /\ W(p) \in Nat /\ B[p] \in Nat
      BY <3>1, <3>2, <3>3, <1>3, <1>4
    <3> HIDE DEF W, p
    <3>5. U(m) = W(m) + U(p)
      BY <3>4, <2>1, <2>3 DEF p
    <3> QED BY <3>5 DEF p
  <2> QED BY <2>2, <2>3
<1>6. U(NULL) = 0
  OBVIOUS
<1> HIDE DEF U
<1>7. Is([m \in P |-> U(m)])
  <2> DEFINE g == [m \in P |-> U(m)]
  <2>1. ASSUME NEW m \in P
        PROVE  U(m) = IF m = NULL THEN 0
                      ELSE (IF IsRed(rbt, m) THEN 0 ELSE 1) + g[Up(rbt, m)]
    <3>1. CASE m = NULL
      BY <3>1, <1>6
    <3>2. CASE m # NULL
      <4>1. m \in NodesOf(rbt)
        BY <3>2
      <4>2. g[Up(rbt, m)] = U(Up(rbt, m))
        BY <4>1, <1>2
      <4> HIDE DEF g
      <4> QED BY <3>2, <4>1, <4>2, <1>4, <1>5
    <3> QED BY <3>1, <3>2
  <2> QED BY <2>1
<1>8. ASSUME NEW f, Is(f) PROVE \A m \in NodesOf(rbt) : f[m] = U(m)
  <2>1. f[NULL] = 0 /\ \A m \in NodesOf(rbt) : f[m] = W(m) + f[Up(rbt, m)]
    BY <1>2, <1>4, <1>8
  <2> DEFINE S == NodesOf(rbt)
             rank == [m \in S |-> Depth(rbt, D, m)]
             G == {m \in S : f[m] = U(m)}
  <2>2. rank \in [S -> Nat]
    BY DepthIs
  <2>3. ASSUME NEW m \in S, \A y \in S : rank[y] < rank[m] => y \in G PROVE m \in G
    <3>1. CASE Up(rbt, m) = NULL
      BY <3>1, <2>1, <1>5, <1>6
    <3>2. CASE Up(rbt, m) # NULL
      <4>1. Up(rbt, m) \in S /\ m \in D[Up(rbt, m)] /\ Up(rbt, m) # m
        BY <3>2, Hangs
      <4>2. Depth(rbt, D, Up(rbt, m)) < Depth(rbt, D, m)
        BY <4>1, DepthIs
      <4>3. rank[Up(rbt, m)] < rank[m]
        BY <4>1, <4>2
      <4>4. f[Up(rbt, m)] = U(Up(rbt, m))
        BY <4>1, <4>3, <2>3
      <4> HIDE DEF rank
      <4> QED BY <4>4, <2>1, <1>5
    <3> QED BY <3>1, <3>2
  <2> HIDE DEF rank, G
  <2>4. \A m \in S : m \in G
    BY <2>2, <2>3, RankInduction
  <2> QED BY <2>4 DEF G
<1> HIDE DEF Is
<1>9. Is(CHOOSE f : Is(f))
  BY <1>7
<1>10. BlackAbove(n) = U(n)
  BY <1>1, <1>8, <1>9
<1> QED BY <1>2, <1>10 DEF U

(***************************************************************************)
(* RedBlack: between two calls the head is black, no red node has a red    *)
(* child and every way down to a missing child passes the same number of   *)
(* black nodes, so no sequence of repairs of bf_insert_rbt_entry and       *)
(* bf_remove_rbt_entry leaves the tree out of balance.                     *)
(***************************************************************************)
THEOREM StaysBalanced == Spec => []RedBlack
<1>1. TreeInv /\ BalInv => RedBlack
  <2> SUFFICES ASSUME NEW D, Tree(D), NEW B, Bal(B), pc = "idle" PROVE RedBlack
    BY DEF TreeInv, BalInv, RedBlack
  <2>1. /\ Typed(rbt) /\ Shape(rbt, D) /\ NULL \notin NodesOf(rbt) /\ ~IsRed(rbt, HeadOf(rbt))
        /\ HeadOf(rbt) \in NodesOf(rbt) \cup {NULL}
    BY Rests DEF Resting
  <2>2. Black(rbt, B, NULL, NULL) /\ \E e : Reds(rbt, NULL, e)
    BY DEF Tree, At, Bal
  <2>3. ASSUME NEW n \in NodesOf(rbt), IsRed(rbt, n), IsRed(rbt, Up(rbt, n)) PROVE FALSE
    <3>1. Up(rbt, n) # NULL /\ Color(rbt, Up(rbt, n)) = "RED"
      BY <2>3, RedIs
    <3>2. PICK d \in Dirs : Kid(rbt, Up(rbt, n), d) = n
      BY <3>1, <2>1, Hangs
    <3>3. Up(rbt, n) \in NodesOf(rbt)
      BY <3>1, <2>1, Hangs
    <3> QED BY <3>1, <3>2, <3>3, <2>2, <2>3 DEF Reds
  <2>4. ASSUME NEW n \in NodesOf(rbt), NEW d \in Dirs, Kid(rbt, n, d) = NULL
        PROVE  BlackAbove(n) = B[HeadOf(rbt)]
    <3>1. /\ B[NULL] = 0 /\ B[n] = Seen(B, NULL, NULL) + Weight(rbt, NULL, n)
          /\ B[n] \in Nat /\ B[HeadOf(rbt)] \in Nat
      BY <2>1, <2>2, <2>4 DEF Black
    <3>2. B[n] = Weight(rbt, NULL, n)
      BY <3>1 DEF Seen, Weight
    <3>3. BlackAbove(n) = B[HeadOf(rbt)] - B[n] + Weight(rbt, NULL, n)
      BY <2>1, <2>2, BlackAboveIs
    <3> QED BY <3>1, <3>2, <3>3
  <2>5. ASSUME NEW n \in NodesOf(rbt), NULL \in {Kid(rbt, n, "left"), Kid(rbt, n, "right")}
        PROVE  BlackAbove(n) = B[HeadOf(rbt)]
    BY <2>4, <2>5, Sides
  <2> DEFINE ends == {n \in NodesOf(rbt) : NULL \in {Kid(rbt, n, "left"), Kid(rbt, n, "right")}}
  <2>6. \A n, m \in ends : BlackAbove(n) = BlackAbove(m)
    BY <2>5
  <2> QED BY <2>1, <2>3, <2>6, Zenon DEF RedBlack, HeadOf, Nodes, NodesOf, Kid, Up, Field, NodeAt
<1> QED BY <1>1, TreeInvariant, BalanceInvariant, PTL
=============================================================================
