------------------------------- MODULE Kernel -------------------------------
(***************************************************************************)
(* How kernel code runs, for the modules that model system calls.          *)
(*                                                                         *)
(* pc[t] is where task t is: in "user" mode, where interrupts are on, or   *)
(* at a label of kernel code.  Kernel code runs with interrupts off, so    *)
(* the current task is alone until it calls schedule(); interrupts come in *)
(* user mode and in the idle thread only.                                  *)
(***************************************************************************)
EXTENDS Tasks, Lists

VARIABLE pc

Goto(t, label) == pc' = [pc EXCEPT ![t] = label]

KernelInit ==
    /\ current = Idle
    /\ state = [t \in Task |-> IF t = Idle THEN "RUNNING" ELSE "READY"]
    /\ pc = [t \in Task |-> "user"]

\* schedule(), called in states st.
schedule(st) ==
    /\ current' \in Candidates(st, current)
    /\ state' = Switched(st, current, current')

\* The current task keeps the CPU.
Stay == UNCHANGED taskVars

\* Where the interrupts of the clock and of the devices are taken.
InUserMode == current \in Task /\ pc[current] = "user"

\* A slice ends, or a task calls yield(); the idle task alone just halts.
Preempted ==
    /\ InUserMode
    /\ current = Idle => Candidates(state, Idle) # {Idle}
    /\ schedule(state)
    /\ UNCHANGED pc
=============================================================================
