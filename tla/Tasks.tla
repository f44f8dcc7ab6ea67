------------------------------- MODULE Tasks -------------------------------
(***************************************************************************)
(* What the kernel's scheduler promises to the code that blocks and wakes  *)
(* tasks: the task states of src/include/onix/task.h and the switches that *)
(* schedule() makes between them, without the order in which ready tasks   *)
(* are picked.  Sched.tla implements this specification with the code's    *)
(* task_search; the modules of the drivers and of the file system use its  *)
(* operators, so that what holds there holds for every order.              *)
(*                                                                         *)
(* The kernel runs on one CPU.  System calls and interrupt handlers run    *)
(* with interrupts off, so everything between two calls of schedule() is   *)
(* one step.                                                               *)
(***************************************************************************)
EXTENDS Naturals, FiniteSets

CONSTANTS
    Task,   \* the slots of task_table
    Idle,   \* idle_task, the task of slot 0
    Boot    \* the context that ran kernel_init: it has no slot

ASSUME TaskAssumption == Idle \in Task /\ Boot \notin Task

VARIABLES
    state,      \* task->state of every slot, "NONE" for a NULL slot
    current     \* running_task()

taskVars == <<state, current>>

Sleeping == {"BLOCKED", "SLEEPING", "WAITING"}
State == {"NONE", "READY", "RUNNING", "DIED"} \cup Sleeping

TaskTypeOK ==
    /\ state \in [Task -> State]
    /\ current \in Task \cup {Boot}

-----------------------------------------------------------------------------
(***************************************************************************)
(* The tasks task_search(TASK_READY) may return in states st: the ready    *)
(* tasks other than the current one, or the idle task when there is none.  *)
(***************************************************************************)
Candidates(st, cur) ==
    LET ready == {t \in Task \ {cur} : st[t] = "READY"}
    IN  IF ready = {} THEN {Idle} ELSE ready

\* Faulty variant: the task switched out keeps TASK_RUNNING.
SwitchedStillRunning(st, cur, next) ==
    [t \in Task |-> IF t = next THEN "RUNNING" ELSE st[t]]

\* The states after schedule() has switched from cur to next.
Switched(st, cur, next) ==
    [t \in Task |-> IF t = next THEN "RUNNING"
                    ELSE IF t = cur /\ st[t] = "RUNNING" THEN "READY"
                    ELSE st[t]]

\* The states after task_unblock of every task of W.
Unblocked(st, W) == [t \in Task |-> IF t \in W THEN "READY" ELSE st[t]]

Waiters(st) == {t \in Task : st[t] \in Sleeping}

-----------------------------------------------------------------------------
TaskInit ==
    /\ current \in Task \cup {Boot}
    /\ \E live \in SUBSET Task :
          /\ {Idle, current} \cap Task \subseteq live
          /\ state = [t \in Task |-> IF t = current THEN "RUNNING"
                                     ELSE IF t \in live THEN "READY"
                                     ELSE "NONE"]

\* The current task, or an interrupt, wakes tasks and returns to it.
WakeAndReturn ==
    /\ \E W \in (SUBSET Waiters(state)) \ {{}} : state' = Unblocked(state, W)
    /\ UNCHANGED current

\* The current task takes state s (it stays "RUNNING" when it only yields).
Entering(st, cur, s) == [t \in Task |-> IF t = cur THEN s ELSE st[t]]

\* The same, ending in schedule().
WakeAndSwitch ==
    \E W \in SUBSET Waiters(state), s \in Sleeping \cup {"RUNNING", "DIED"} :
       LET st == Entering(Unblocked(state, W), current, s)
       IN  /\ s # "RUNNING" => current \notin {Idle, Boot}
           /\ current' \in Candidates(st, current)
           /\ state' = Switched(st, current, current')

\* get_free_task takes a NULL slot, task_waitpid clears that of a dead task.
Create ==
    /\ \E t \in Task : /\ state[t] = "NONE"
                       /\ state' = [state EXCEPT ![t] = "READY"]
    /\ UNCHANGED current

Reap ==
    /\ \E t \in Task : /\ state[t] = "DIED"
                       /\ state' = [state EXCEPT ![t] = "NONE"]
    /\ UNCHANGED current

TaskNext == WakeAndReturn \/ WakeAndSwitch \/ Create \/ Reap

TaskSpec == TaskInit /\ [][TaskNext]_taskVars

-----------------------------------------------------------------------------
(***************************************************************************)
(* One CPU, one running task: the task whose kernel stack the CPU is on is *)
(* the only one in TASK_RUNNING.  A second one would be a task that        *)
(* task_search never picks again, a missing one a task that can be picked  *)
(* while it runs.                                                          *)
(***************************************************************************)
RunningIsCurrent == \A t \in Task : state[t] = "RUNNING" <=> t = current

\* The idle task can always be picked, so that schedule() finds a next task.
IdleIsRunnable == state[Idle] \in {"READY", "RUNNING"}
=============================================================================
