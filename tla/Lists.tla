------------------------------- MODULE Lists -------------------------------
(***************************************************************************)
(* The intrusive doubly linked lists of src/lib/list.c, seen as sequences. *)
(* A list is the sequence of its nodes from head.next to tail.prev, and a  *)
(* node is linked iff it occurs in some sequence (task_block, list_remove  *)
(* and list_insert_sort assert this through node->next and node->prev).    *)
(* LinkedList.tla shows that the pointer code implements these operators.  *)
(***************************************************************************)
EXTENDS Integers, SequencesExt

Linked(list, node) == \E i \in DOMAIN list : list[i] = node

list_empty(list) == list = <<>>

\* list_push links after the head, list_pushback before the tail.
list_push(list, node) == InsertAt(list, 1, node)

list_pushback(list, node) == Append(list, node)

\* Unlinks a node that is linked in list.
list_remove(list, node) ==
    RemoveAt(list, CHOOSE i \in DOMAIN list : list[i] = node)

\* The last node, which every "first waiter" of the kernel takes.
list_last(list) == list[Len(list)]

\* Faulty variant: always at the tail.
InsertAtTail(keys, x, k) == k = Len(keys) + 1

(***************************************************************************)
(* k is where list_insert_sort links a node of key x: before the first     *)
(* node whose key is greater, or before the tail.                          *)
(***************************************************************************)
InsertPosition(keys, x, k) ==
    /\ k \in 1..(Len(keys) + 1)
    /\ \A i \in 1..(k - 1) : keys[i] <= x
    /\ k <= Len(keys) => keys[k] > x
=============================================================================
