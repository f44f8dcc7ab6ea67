---------------------------- MODULE MCLinkedList ----------------------------
(***************************************************************************)
(* Four nodes, two of them with the same key.                              *)
(***************************************************************************)
EXTENDS LinkedList

CONSTANTS a, b, c, d

TwoEqualKeys == (a :> 1) @@ (b :> 2) @@ (c :> 2) @@ (d :> 3)
=============================================================================
