------------------------------ MODULE MCSched ------------------------------
(***************************************************************************)
(* Instances of Sched for TLC: slices for the idle task and two others.    *)
(***************************************************************************)
EXTENDS Sched

\* The idle task has priority 1, the others a longer slice (5 in the code).
LongSlices == [t \in Thread |-> IF t = Idle THEN 1 ELSE 2]

\* The shortest slices, for words of two bits.
ShortSlices == [t \in Thread |-> 1]
=============================================================================
