---------------------------- MODULE AbstractList ----------------------------
(***************************************************************************)
(* What the lists of src/lib/list.c are to their users: sequences without  *)
(* repetition, changed by the operators of Lists.tla.  The other modules   *)
(* use these operators on their lists.                                     *)
(***************************************************************************)
EXTENDS Lists

CONSTANTS
    List,       \* the names of the lists
    Node,       \* the nodes, each in one list at most
    Key         \* the key of each node

VARIABLE list

ListInit == list = [l \in List |-> <<>>]

Unlinked(node) == \A l \in List : ~Linked(list[l], node)

Becomes(l, seq) == list' = [list EXCEPT ![l] = seq]

ListNext ==
    \E l \in List :
       \/ \E node \in Node :
             \/ /\ Unlinked(node)
                /\ \/ Becomes(l, list_push(list[l], node))
                   \/ Becomes(l, list_pushback(list[l], node))
                   \/ \E k \in 1..(Len(list[l]) + 1) :
                         /\ InsertPosition([i \in DOMAIN list[l] |-> Key[list[l][i]]],
                                           Key[node], k)
                         /\ Becomes(l, InsertAt(list[l], k, node))
             \/ /\ Linked(list[l], node)
                /\ Becomes(l, list_remove(list[l], node))

ListSpec == ListInit /\ [][ListNext]_list
=============================================================================
