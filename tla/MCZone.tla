------------------------------- MODULE MCZone -------------------------------
(***************************************************************************)
(* Zone for TLC: no task is named by the definitions.                      *)
(***************************************************************************)
EXTENDS Zone, TLC

TasksAlike == Permutations(Task)
=============================================================================
