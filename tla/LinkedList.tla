----------------------------- MODULE LinkedList -----------------------------
(***************************************************************************)
(* The doubly linked lists of src/lib/list.c as the code keeps them: nodes *)
(* with two pointers, between the sentinels head and tail of their list.   *)
(***************************************************************************)
EXTENDS Lists

CONSTANTS List, Node, NULL, Key

head(l) == <<"head", l>>
tail(l) == <<"tail", l>>
Sentinel == {head(l) : l \in List} \cup {tail(l) : l \in List}

ASSUME LinkedListAssumption ==
    /\ IsFiniteSet(Node) /\ Node \cap Sentinel = {}
    /\ NULL \notin Node \cup Sentinel
    /\ Key \in [Node -> Int]

VARIABLES next, prev
pointers == <<next, prev>>

\* list_init of every list; list_remove leaves NULL in unlinked nodes too.
LinkedListInit ==
    /\ next = [p \in Node \cup Sentinel |->
                  IF \E l \in List : p = head(l) THEN tail(p[2]) ELSE NULL]
    /\ prev = [p \in Node \cup Sentinel |->
                  IF \E l \in List : p = tail(l) THEN head(p[2]) ELSE NULL]

IsUnlinked(node) == next[node] = NULL /\ prev[node] = NULL

(***************************************************************************)
(* The nodes on the way from "from" to the sentinel "to", one pointer at a *)
(* time: how list_search, list_size and list_insert_sort walk.             *)
(***************************************************************************)
Walk(from, to, pointer) ==
    LET seen[k \in 0..Cardinality(Node)] ==
            IF k = 0 THEN <<>>
            ELSE LET s == seen[k - 1]
                     p == pointer[IF s = <<>> THEN from ELSE s[Len(s)]]
                 IN  IF p = to THEN s ELSE Append(s, p)
    IN  seen[Cardinality(Node)]

Forward(l) == Walk(head(l), tail(l), next)

-----------------------------------------------------------------------------
list_insert_before(anchor, node) ==
    /\ prev' = [prev EXCEPT ![node] = prev[anchor], ![anchor] = node]
    /\ next' = [next EXCEPT ![node] = anchor, ![prev[anchor]] = node]

list_insert_after(anchor, node) ==
    /\ prev' = [prev EXCEPT ![node] = anchor, ![next[anchor]] = node]
    /\ next' = [next EXCEPT ![node] = next[anchor], ![anchor] = node]

\* Faulty variant: the pointers of the node are kept.
UnlinkKeeping(node) ==
    /\ next' = [next EXCEPT ![prev[node]] = next[node]]
    /\ prev' = [prev EXCEPT ![next[node]] = prev[node]]

Unlink(node) ==
    /\ next' = [next EXCEPT ![prev[node]] = next[node], ![node] = NULL]
    /\ prev' = [prev EXCEPT ![next[node]] = prev[node], ![node] = NULL]

push(l, node) == IsUnlinked(node) /\ list_insert_after(head(l), node)

pushback(l, node) == IsUnlinked(node) /\ list_insert_before(tail(l), node)

IsEmpty(l) == next[head(l)] = tail(l)

list_pop(l) == ~IsEmpty(l) /\ Unlink(next[head(l)])

list_popback(l) == ~IsEmpty(l) /\ Unlink(prev[tail(l)])

remove(node) == ~IsUnlinked(node) /\ Unlink(node)

\* The first of these places in list l, or the tail.
FirstOf(l, places) ==
    IF places = {} THEN tail(l)
    ELSE Forward(l)[CHOOSE i \in places : \A j \in places : i <= j]

\* Faulty variant: a node goes before the nodes of its own key.
AnchorNotLess(l, node) ==
    FirstOf(l, {i \in DOMAIN Forward(l) : Key[Forward(l)[i]] >= Key[node]})

\* The first node whose key is greater, or the tail.
Anchor(l, node) ==
    FirstOf(l, {i \in DOMAIN Forward(l) : Key[Forward(l)[i]] > Key[node]})

list_insert_sort(l, node) ==
    IsUnlinked(node) /\ list_insert_before(Anchor(l, node), node)

LinkedListNext ==
    \/ \E l \in List : \/ list_pop(l) \/ list_popback(l)
                       \/ \E node \in Node : \/ push(l, node) \/ pushback(l, node)
                                             \/ list_insert_sort(l, node)
    \/ \E node \in Node : remove(node)

LinkedListSpec == LinkedListInit /\ [][LinkedListNext]_pointers

-----------------------------------------------------------------------------
(***************************************************************************)
(* The two directions agree and reach the other sentinel, whatever calls   *)
(* were made before, and a node is in no list iff its pointers are NULL:   *)
(* what task_block, list_remove and list_insert_sort test of a node.       *)
(***************************************************************************)
TwoWays ==
    /\ \A l \in List : /\ Forward(l) = Reverse(Walk(tail(l), head(l), prev))
                       /\ next[tail(l)] = NULL /\ prev[head(l)] = NULL
    /\ \A node \in Node :
          IsUnlinked(node) <=> \A l \in List : ~Linked(Forward(l), node)

\* The sequences that the pointers stand for.
lists == [l \in List |-> Forward(l)]

Abstract == INSTANCE AbstractList WITH list <- lists

\* The pointer code implements the operators of Lists.tla.
ImplementsLists == Abstract!ListSpec
=============================================================================
