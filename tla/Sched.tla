------------------------------- MODULE Sched -------------------------------
(***************************************************************************)
(* The scheduler: src/kernel/task.c (task_search, schedule, task_yield,    *)
(* task_block, task_unblock, task_sleep, task_wakeup) driven by            *)
(* clock_handler of src/kernel/clock.c and by the idle thread of           *)
(* src/kernel/thread.c, over a fixed task table.                           *)
(*                                                                         *)
(* Integers keep their width: jiffies and task->jiffies are u32, that is   *)
(* Word values; task->ticks is an int, that is a Signed value.  The same   *)
(* field ticks is the rest of the time slice of a task that can run and    *)
(* the wake-up time of a task that sleeps.                                 *)
(***************************************************************************)
EXTENDS Tasks, Lists

CONSTANTS
    WordSize,     \* 2^32 in the code: the modulus of the integers
    Priority,     \* task->priority of every task and of the boot context
    SleepMs,      \* the arguments tasks call sleep with, in milliseconds
    Jiffy,        \* milliseconds per tick, 10 in the code
    MaxWake       \* bound: no task sleeps until a later jiffies

Thread == Task \cup {Boot}

ASSUME SchedAssumption ==
    /\ Task \subseteq Nat
    /\ WordSize \in Nat \ {0} /\ WordSize % 2 = 0
    /\ Priority \in [Thread -> 1..(WordSize \div 2 - 1)]
    /\ SleepMs \subseteq Nat
    /\ Jiffy \in Nat \ {0}
    /\ MaxWake \in Nat

VARIABLES
    ticks,        \* task->ticks
    lastRun,      \* task->jiffies: when a tick last found the task running
    jiffies,
    sleep_list,   \* sleeping tasks by wake-up time
    block_list,   \* the wait lists of the drivers, as one list
    idleWoken     \* an interrupt has ended the hlt of the idle thread

schedVars == <<ticks, lastRun, jiffies, sleep_list, block_list, idleWoken>>
vars == <<taskVars, schedVars>>

Word == 0..(WordSize - 1)
SignedWord == -(WordSize \div 2)..(WordSize \div 2 - 1)

\* Faulty variant: ticks kept unsigned.
SignedNever(x) == x % WordSize

Signed(x) == LET w == x % WordSize
             IN  IF w < WordSize \div 2 THEN w ELSE w - WordSize
Unsigned(x) == x % WordSize

SchedTypeOK ==
    /\ TaskTypeOK
    /\ ticks \in [Thread -> SignedWord]
    /\ lastRun \in [Thread -> Word]
    /\ jiffies \in Word
    /\ sleep_list \in Seq(Task)
    /\ block_list \in Seq(Task)
    /\ idleWoken \in BOOLEAN

-----------------------------------------------------------------------------
(***************************************************************************)
(* task_search: one pass over the table.  The test prefers a longer rest   *)
(* of slice or an earlier last run than the best so far; it is no order,   *)
(* so the result depends on the order of the slots.                        *)
(***************************************************************************)
task_search(st, tk, lr) ==
    LET Better(best, ptr) ==
            IF /\ st[ptr] = "READY"
               /\ ptr # current
               /\ \/ best = Boot
                  \/ tk[best] < tk[ptr]
                  \/ lr[ptr] < lr[best]
            THEN ptr ELSE best
        found == FoldLeft(Better, Boot, SetToSortSeq(Task, <))
    IN  IF found = Boot THEN Idle ELSE found

\* Faulty variant: the idle task is not switched out.
ScheduleKeepsIdle(st, tk, lr) ==
    /\ IF current = Idle
       THEN UNCHANGED <<state, current>>
       ELSE \E next \in Candidates(st, current) :
               /\ next = task_search(st, tk, lr)
               /\ state' = Switched(st, current, next)
               /\ current' = next
    /\ ticks' = [tk EXCEPT ![current] = IF @ = 0 THEN Priority[current]
                                                 ELSE @]

\* schedule(), called in states st with the slices tk and last runs lr.
schedule(st, tk, lr) ==
    \E next \in Candidates(st, current) :
       /\ next = task_search(st, tk, lr)
       /\ state' = Switched(st, current, next)
       /\ current' = next
       /\ ticks' = [tk EXCEPT ![current] = IF @ = 0 THEN Priority[current]
                                                    ELSE @]

-----------------------------------------------------------------------------
SchedInit ==
    /\ state = [t \in Task |-> "READY"]
    /\ current = Boot
    /\ ticks = [t \in Thread |-> IF t = Boot THEN 1 ELSE Priority[t]]
    /\ lastRun = [t \in Thread |-> 0]
    /\ jiffies = 0
    /\ sleep_list = <<>>
    /\ block_list = <<>>
    /\ idleWoken = FALSE

(***************************************************************************)
(* task_wakeup takes the sleeping tasks from the head of the list up to    *)
(* the first one that is not due; n is how many it takes.  The comparison  *)
(* of an int with a u32 is unsigned.                                       *)
(***************************************************************************)
\* Faulty variant: strictly before.
DueBefore(t) == Unsigned(ticks[t]) < jiffies

Due(t) == Unsigned(ticks[t]) <= jiffies

DuePrefix(n) ==
    /\ n \in 0..Len(sleep_list)
    /\ \A i \in 1..n : Due(sleep_list[i])
    /\ n < Len(sleep_list) => ~Due(sleep_list[n + 1])

(***************************************************************************)
(* A timer interrupt.  It wakes the sleepers that are due at the old value *)
(* of jiffies, then charges the tick to the running task and switches when *)
(* that ends its slice.                                                    *)
(***************************************************************************)
clock_handler ==
    /\ jiffies' = (jiffies + 1) % WordSize
    /\ lastRun' = [lastRun EXCEPT ![current] = jiffies']
    /\ idleWoken' = (idleWoken \/ current = Idle)
    /\ \E n \in 0..Len(sleep_list) :
          LET woken == {sleep_list[i] : i \in 1..n}
              st == Unblocked(state, woken)
              tk == [t \in Thread |-> IF t \in woken THEN 0
                                      ELSE IF t = current
                                      THEN Signed(ticks[t] - 1)
                                      ELSE ticks[t]]
          IN  /\ DuePrefix(n)
              /\ sleep_list' = SubSeq(sleep_list, n + 1, Len(sleep_list))
              /\ IF tk[current] = 0
                 THEN schedule(st, tk, lastRun')
                 ELSE /\ state' = st
                      /\ ticks' = tk
                      /\ UNCHANGED current
    /\ UNCHANGED block_list

(***************************************************************************)
(* The system call yield of a task, and that of the idle thread, which     *)
(* makes it each time an interrupt has ended its hlt.                      *)
(***************************************************************************)
task_yield ==
    /\ current # Boot
    /\ current = Idle => idleWoken
    /\ idleWoken' = IF current = Idle THEN FALSE ELSE idleWoken
    /\ schedule(state, ticks, lastRun)
    /\ UNCHANGED <<lastRun, jiffies, sleep_list, block_list>>

\* Milliseconds to ticks: at least one.
SleepLength(ms) == IF ms \div Jiffy > 0 THEN ms \div Jiffy ELSE 1

\* The system call sleep(ms), which keeps sleep_list sorted by wake-up time.
task_sleep(ms) ==
    /\ current \notin {Boot, Idle}
    /\ jiffies + SleepLength(ms) <= MaxWake
    /\ LET tk == [ticks EXCEPT ![current] = Signed(jiffies + SleepLength(ms))]
           keys == [i \in DOMAIN sleep_list |-> ticks[sleep_list[i]]]
       IN  /\ \E k \in 1..(Len(sleep_list) + 1) :
                 /\ InsertPosition(keys, tk[current], k)
                 /\ sleep_list' = InsertAt(sleep_list, k, current)
           /\ schedule(Entering(state, current, "SLEEPING"), tk, lastRun)
    /\ UNCHANGED <<lastRun, jiffies, block_list, idleWoken>>

\* Faulty variant: the task that blocks is not switched out.
BlockWithoutSwitch ==
    /\ current \notin {Boot, Idle}
    /\ block_list' = list_push(block_list, current)
    /\ state' = Entering(state, current, "BLOCKED")
    /\ UNCHANGED <<current, ticks, lastRun, jiffies, sleep_list, idleWoken>>

\* A driver, a lock or waitpid blocks the running task.
task_block ==
    /\ current \notin {Boot, Idle}
    /\ block_list' = list_push(block_list, current)
    /\ schedule(Entering(state, current, "BLOCKED"), ticks, lastRun)
    /\ UNCHANGED <<lastRun, jiffies, sleep_list, idleWoken>>

\* Faulty variant: the node stays linked.
UnblockWithoutUnlink(t) ==
    /\ Linked(block_list, t)
    /\ state' = Unblocked(state, {t})
    /\ idleWoken' = (idleWoken \/ current = Idle)
    /\ UNCHANGED <<current, ticks, lastRun, jiffies, sleep_list, block_list>>

(***************************************************************************)
(* The running task, or the handler of an interrupt it takes, wakes a      *)
(* blocked task.  The idle thread can only be the interrupted one.         *)
(***************************************************************************)
task_unblock(t) ==
    /\ Linked(block_list, t)
    /\ block_list' = list_remove(block_list, t)
    /\ state' = Unblocked(state, {t})
    /\ idleWoken' = (idleWoken \/ current = Idle)
    /\ UNCHANGED <<current, ticks, lastRun, jiffies, sleep_list>>

SchedNext ==
    \/ clock_handler
    \/ task_yield
    \/ \E ms \in SleepMs : task_sleep(ms)
    \/ task_block
    \/ \E t \in Task : task_unblock(t)

SchedSpec == SchedInit /\ [][SchedNext]_vars

(***************************************************************************)
(* The timer interrupts as long as the machine runs, and the idle thread   *)
(* goes on to its yield() when it has been woken.  Nothing is assumed of   *)
(* what the tasks do.                                                      *)
(***************************************************************************)
SchedFairness ==
    /\ WF_vars(clock_handler)
    /\ WF_vars(current = Idle /\ task_yield)

SchedFairSpec == SchedSpec /\ SchedFairness

-----------------------------------------------------------------------------
(***************************************************************************)
(* A task waits in exactly the list its state says, once, and a task that  *)
(* can run is in none: the assertions on node->next and node->prev in      *)
(* task_block, task_unblock and list_insert_sort hold at every call.       *)
(***************************************************************************)
ListsMatchStates ==
    /\ \A t \in Task : /\ state[t] = "SLEEPING" <=> Linked(sleep_list, t)
                       /\ state[t] = "BLOCKED" <=> Linked(block_list, t)
    /\ IsInjective(sleep_list) /\ IsInjective(block_list)

(***************************************************************************)
(* task_wakeup stops at the first sleeper that is not due, and jiffies is  *)
(* advanced after it: no sleeper is left behind, past its wake-up time.    *)
(***************************************************************************)
NoOversleep ==
    \A t \in Task : state[t] = "SLEEPING" => Unsigned(ticks[t]) >= jiffies

(***************************************************************************)
(* "Wake it at that time" (comment at task.c:150): a sleeper is woken by   *)
(* the tick that finds jiffies at its wake-up time, by no earlier and no   *)
(* later one, and by nothing else.                                         *)
(***************************************************************************)
WakesOnTime ==
    [][\A t \in Task : state[t] = "SLEEPING" /\ state'[t] # "SLEEPING"
                       => Unsigned(ticks[t]) = jiffies]_vars

\* Every sleeper is woken some day.
SleepersWake ==
    \A t \in Task : state[t] = "SLEEPING" ~> state[t] # "SLEEPING"

\* The idle task gives the CPU up when there is a task to run.
IdleGivesWay ==
    (current = Idle /\ \E t \in Task \ {Idle} : state[t] = "READY")
        ~> current # Idle
=============================================================================
