------------------------------ MODULE MCPaging ------------------------------
(***************************************************************************)
(* Paging for TLC: contents of pages can be exchanged, and so can the      *)
(* processes that fork makes.                                              *)
(***************************************************************************)
EXTENDS Paging, TLC

Symmetry ==
    {f @@ g : f \in Permutations(UserValue), g \in Permutations(Process \ {InitTask})}
=============================================================================
