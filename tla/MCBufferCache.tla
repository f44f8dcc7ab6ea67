--------------------------- MODULE MCBufferCache ---------------------------
(***************************************************************************)
(* The instances of BufferCache for TLC.                                   *)
(***************************************************************************)
EXTENDS BufferCache, TLC

\* Tasks and blocks are alike.
Symmetry == Permutations(Task \ {Idle}) \cup Permutations(Block)
=============================================================================
