------------------------------- MODULE DList -------------------------------
(***************************************************************************)
(* The doubly linked list macros of bf_list.h.  A list is a pointer to its *)
(* head; the head's prev points to the tail, the tail's next is NULL.      *)
(*                                                                         *)
(* Each macro is one action on the pointers.  The variable list records    *)
(* what the clients have put into each list, in order; the pointers must   *)
(* spell it in both directions.                                            *)
(***************************************************************************)
EXTENDS Naturals, Sequences

CONSTANTS Elements, Lists, NULL

ASSUME NullAssumption == NULL \notin Elements

VARIABLES head,         \* the variable l of each list
          n, p,         \* the next and prev pointers of each element
          list          \* history: the elements of each list, in order

pointers == <<head, n, p>>
vars == <<pointers, list>>

\* The elements of a sequence, and a sequence without one of them.
Members(s) == {s[i] : i \in 1..Len(s)}
Without(s, e) ==
    LET k == CHOOSE i \in 1..Len(s) : s[i] = e
    IN  SubSeq(s, 1, k - 1) \o SubSeq(s, k + 1, Len(s))

Listed == UNION {Members(list[l]) : l \in Lists}

Init ==
    /\ head = [l \in Lists |-> NULL]
    /\ n = [e \in Elements |-> NULL] /\ p = [e \in Elements |-> NULL]
    /\ list = [l \in Lists |-> <<>>]

-----------------------------------------------------------------------------
\* Clients put an element into a list only while it is in none.
BF_LIST_DLL_PP(l, e) ==
    /\ e \notin Listed
    /\ n' = [n EXCEPT ![e] = head[l]]
    /\ p' = IF head[l] = NULL THEN [p EXCEPT ![e] = e]
            ELSE [p EXCEPT ![e] = p[head[l]], ![head[l]] = e]
    /\ head' = [head EXCEPT ![l] = e]
    /\ list' = [list EXCEPT ![l] = <<e>> \o @]

\* Mutant of BF_LIST_DLL_AP: the head keeps its old tail.
BF_LIST_DLL_AP_OldTail(l, e) ==
    /\ e \notin Listed
    /\ IF head[l] = NULL
       THEN /\ n' = [n EXCEPT ![e] = NULL]
            /\ p' = [p EXCEPT ![e] = e]
            /\ head' = [head EXCEPT ![l] = e]
       ELSE /\ n' = [n EXCEPT ![e] = NULL, ![p[head[l]]] = e]
            /\ p' = [p EXCEPT ![e] = p[head[l]]]
            /\ UNCHANGED head
    /\ list' = [list EXCEPT ![l] = Append(@, e)]

BF_LIST_DLL_AP(l, e) ==
    /\ e \notin Listed
    /\ IF head[l] = NULL
       THEN /\ n' = [n EXCEPT ![e] = NULL]
            /\ p' = [p EXCEPT ![e] = e]
            /\ head' = [head EXCEPT ![l] = e]
       ELSE /\ n' = [n EXCEPT ![e] = NULL, ![p[head[l]]] = e]
            /\ p' = [p EXCEPT ![e] = p[head[l]], ![head[l]] = e]
            /\ UNCHANGED head
    /\ list' = [list EXCEPT ![l] = Append(@, e)]

\* Mutant of BF_LIST_DLL_REM: the pointers of the element stay as they are.
BF_LIST_DLL_REM_KeepsPointers(l, e) ==
    /\ e \in Members(list[l])
    /\ \/ /\ p[e] = e
          /\ head' = [head EXCEPT ![l] = NULL]
          /\ UNCHANGED <<n, p>>
       \/ /\ p[e] # e /\ e = head[l]
          /\ p' = [p EXCEPT ![n[e]] = p[e]]
          /\ head' = [head EXCEPT ![l] = n[e]]
          /\ UNCHANGED n
       \/ /\ p[e] # e /\ e # head[l]
          /\ n' = [n EXCEPT ![p[e]] = n[e]]
          /\ p' = [p EXCEPT ![IF n[e] # NULL THEN n[e] ELSE head[l]] = p[e]]
          /\ UNCHANGED head
    /\ list' = [list EXCEPT ![l] = Without(@, e)]

\* The only element, the head, or any other.
BF_LIST_DLL_REM(l, e) ==
    /\ e \in Members(list[l])
    /\ \/ /\ p[e] = e
          /\ n' = [n EXCEPT ![e] = NULL]
          /\ p' = [p EXCEPT ![e] = NULL]
          /\ head' = [head EXCEPT ![l] = NULL]
       \/ /\ p[e] # e /\ e = head[l]
          /\ n' = [n EXCEPT ![e] = NULL]
          /\ p' = [p EXCEPT ![n[e]] = p[e], ![e] = NULL]
          /\ head' = [head EXCEPT ![l] = n[e]]
       \/ /\ p[e] # e /\ e # head[l]
          /\ n' = [n EXCEPT ![p[e]] = n[e], ![e] = NULL]
          /\ p' = [p EXCEPT ![IF n[e] # NULL THEN n[e] ELSE head[l]] = p[e],
                            ![e] = NULL]
          /\ UNCHANGED head
    /\ list' = [list EXCEPT ![l] = Without(@, e)]

\* Mutant of BF_LIST_DLL_CAT: the pointer to the tail of the first list is
\* overwritten before it is linked to the second.
BF_LIST_DLL_CAT_LostTail(f, s) ==
    /\ f # s
    /\ LET tail == p[head[s]] IN
       \/ /\ head[s] # NULL /\ head[f] # NULL
          /\ n' = [n EXCEPT ![tail] = head[s]]
          /\ p' = [p EXCEPT ![head[f]] = tail, ![head[s]] = tail]
          /\ head' = [head EXCEPT ![s] = NULL]
       \/ /\ head[s] # NULL /\ head[f] = NULL
          /\ head' = [head EXCEPT ![f] = head[s], ![s] = NULL]
          /\ UNCHANGED <<n, p>>
       \/ head[s] = NULL /\ UNCHANGED pointers
    /\ list' = [list EXCEPT ![f] = @ \o list[s], ![s] = <<>>]

BF_LIST_DLL_CAT(f, s) ==
    /\ f # s
    /\ \/ /\ head[s] # NULL /\ head[f] # NULL
          /\ n' = [n EXCEPT ![p[head[f]]] = head[s]]
          /\ p' = [p EXCEPT ![head[f]] = p[head[s]], ![head[s]] = p[head[f]]]
          /\ head' = [head EXCEPT ![s] = NULL]
       \/ /\ head[s] # NULL /\ head[f] = NULL
          /\ head' = [head EXCEPT ![f] = head[s], ![s] = NULL]
          /\ UNCHANGED <<n, p>>
       \/ head[s] = NULL /\ UNCHANGED pointers
    /\ list' = [list EXCEPT ![f] = @ \o list[s], ![s] = <<>>]

Next ==
    \/ \E l \in Lists, e \in Elements :
          BF_LIST_DLL_PP(l, e) \/ BF_LIST_DLL_AP(l, e) \/ BF_LIST_DLL_REM(l, e)
    \/ \E f, s \in Lists : BF_LIST_DLL_CAT(f, s)

Spec == Init /\ [][Next]_vars

\* What BF_LIST_DLL_LAST assigns to its result.
BF_LIST_DLL_LAST(l) == IF head[l] # NULL THEN p[head[l]] ELSE NULL

-----------------------------------------------------------------------------
(***************************************************************************)
(* Properties                                                              *)
(***************************************************************************)

(***************************************************************************)
(* From the head, the next pointers lead through the elements of the list  *)
(* in the order in which the macros put them, and end in NULL at the last. *)
(***************************************************************************)
Forward ==
    \A l \in Lists : LET s == list[l] IN
        /\ head[l] = IF s = <<>> THEN NULL ELSE s[1]
        /\ \A i \in 1..Len(s) : n[s[i]] = IF i = Len(s) THEN NULL ELSE s[i + 1]

(***************************************************************************)
(* The prev pointers lead back, and the head's prev is the tail, which is  *)
(* where append, concatenate and last start from: it holds through the     *)
(* removal of the head, of the tail and of the only element.               *)
(***************************************************************************)
Backward ==
    \A l \in Lists : LET s == list[l] IN
        /\ BF_LIST_DLL_LAST(l) = IF s = <<>> THEN NULL ELSE s[Len(s)]
        /\ \A i \in 2..Len(s) : p[s[i]] = s[i - 1]

(***************************************************************************)
(* An element has a prev pointer just while some list holds it: the macros *)
(* leave nothing behind in an element they take out, through which a list  *)
(* could still be reached or taken for one that holds the element.         *)
(***************************************************************************)
LinkedWhileListed ==
    \A e \in Elements : /\ p[e] # NULL <=> e \in Listed
                        /\ n[e] # NULL => e \in Listed
=============================================================================
