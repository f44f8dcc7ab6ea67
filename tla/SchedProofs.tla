---------------------------- MODULE SchedProofs ----------------------------
(***************************************************************************)
(* Proofs about Sched.tla, for every table of tasks, every priority and    *)
(* every word size, and about the pointers of its lists (LinkedList.tla),  *)
(* for every set of lists, nodes and keys.                                 *)
(***************************************************************************)
EXTENDS Sched, TaskProofs, LinkedList, FiniteSetTheorems, WellFoundedInduction

(***************************************************************************)
(* Facts about words.  The second one is what fails when a wake-up time    *)
(* reaches the sign bit.                                                   *)
(***************************************************************************)
LEMMA WordType ==
    /\ \A x \in Int : Signed(x) \in SignedWord /\ Unsigned(x) \in Word
    /\ WordSize \div 2 \in Nat /\ 0 \in SignedWord /\ 0 \in Word
    /\ \A t \in Thread : Priority[t] \in SignedWord
    /\ \A w \in SignedWord : w \in Int
    /\ \A w \in Word : w \in Nat
BY SchedAssumption DEF Signed, Unsigned, SignedWord, Word

LEMMA SmallWord ==
    ASSUME NEW x \in 0..(WordSize \div 2 - 1)
    PROVE  Signed(x) = x /\ Unsigned(x) = x
BY SchedAssumption DEF Signed, Unsigned

\* A sleep lasts at least one tick.
LEMMA SleepLengthType == \A ms \in SleepMs : SleepLength(ms) \in Nat \ {0}
BY SchedAssumption DEF SleepLength

-----------------------------------------------------------------------------
(***************************************************************************)
(* The inductive invariant of the scheduler.  The lists have to agree with *)
(* the states for a wake-up to be a step of TaskSpec, which wakes only     *)
(* tasks that wait; RunningIsCurrent has to hold for the task that blocks  *)
(* or sleeps to be in no list yet.                                         *)
(***************************************************************************)
SchedInv == SchedTypeOK /\ TaskInv /\ ListsMatchStates

\* What schedule() does, whichever task task_search finds.
LEMMA ScheduleFacts ==
    ASSUME SchedTypeOK,
           NEW st, NEW tk \in [Thread -> SignedWord], NEW lr,
           schedule(st, tk, lr)
    PROVE  /\ current' \in Candidates(st, current)
           /\ state' = Switched(st, current, current')
           /\ ticks' \in [Thread -> SignedWord]
           /\ \A t \in Thread \ {current} : ticks'[t] = tk[t]
<1>1. current \in Thread
  BY DEF SchedTypeOK, TaskTypeOK, Thread
<1>2. PICK chosen \in Candidates(st, current) :
         /\ state' = Switched(st, current, chosen)
         /\ current' = chosen
         /\ ticks' = [tk EXCEPT ![current] = IF @ = 0 THEN Priority[current]
                                                      ELSE @]
  BY DEF schedule
<1> QED BY <1>1, <1>2, WordType

LEMMA InitSchedInv == SchedInit => SchedInv
<1> SUFFICES ASSUME SchedInit PROVE SchedInv
  OBVIOUS
<1>1. SchedTypeOK
  <2>1. 1 \in SignedWord
    <3>1. Priority[Boot] \in 1..(WordSize \div 2 - 1)
      BY SchedAssumption DEF Thread
    <3> QED BY <3>1, SchedAssumption DEF SignedWord
  <2>2. ticks \in [Thread -> SignedWord]
    BY <2>1, WordType DEF SchedInit
  <2>3. lastRun \in [Thread -> Word] /\ jiffies \in Word
    BY WordType DEF SchedInit
  <2>4. TaskTypeOK
    BY DEF SchedInit, TaskTypeOK, State
  <2>5. sleep_list \in Seq(Task) /\ block_list \in Seq(Task)
    BY DEF SchedInit
  <2> QED BY <2>2, <2>3, <2>4, <2>5 DEF SchedInit, SchedTypeOK
<1>2. TaskInv
  BY <1>1, TaskAssumption
     DEF SchedInit, SchedTypeOK, TaskInv, RunningIsCurrent, IdleIsRunnable
<1>3. ListsMatchStates
  BY DEF SchedInit, ListsMatchStates, Linked, IsInjective
<1> QED BY <1>1, <1>2, <1>3 DEF SchedInv

(***************************************************************************)
(* A step that wakes W, lets the current task enter s, and schedules, is a *)
(* switch of TaskSpec.                                                     *)
(***************************************************************************)
LEMMA SwitchIsTaskStep ==
    ASSUME SchedInv, NEW W \in SUBSET Waiters(state),
           NEW s \in Sleeping \cup {"RUNNING", "DIED"},
           NEW tk \in [Thread -> SignedWord], NEW lr,
           s # "RUNNING" => current \notin {Idle, Boot},
           schedule(Entering(Unblocked(state, W), current, s), tk, lr)
    PROVE  WakeAndSwitch
BY ScheduleFacts DEF WakeAndSwitch, SchedInv

\* Sleeping tasks are neither the current one nor blocked.
LEMMA RunningEntersNothing ==
    ASSUME TaskInv, current \in Task
    PROVE  state = Entering(Unblocked(state, {}), current, "RUNNING")
BY DEF TaskInv, TaskTypeOK, RunningIsCurrent, Entering, Unblocked

LEMMA BootEntersNothing ==
    ASSUME NEW st \in [Task -> State], NEW s
    PROVE  st = Entering(st, Boot, s)
BY TaskAssumption DEF Entering

(***************************************************************************)
(* Every step of the scheduler is a step of TaskSpec or leaves the task    *)
(* states alone.                                                           *)
(***************************************************************************)
LEMMA StepIsTaskStep == SchedInv /\ [SchedNext]_vars => [TaskNext]_taskVars
<1> SUFFICES ASSUME SchedInv, SchedNext PROVE TaskNext \/ UNCHANGED taskVars
  BY DEF vars
<1> USE DEF SchedInv
<1>1. CASE clock_handler
  <2>1. PICK n \in 0..Len(sleep_list) :
          LET woken == {sleep_list[i] : i \in 1..n}
              st == Unblocked(state, woken)
              tk == [t \in Thread |-> IF t \in woken THEN 0
                                      ELSE IF t = current
                                      THEN Signed(ticks[t] - 1)
                                      ELSE ticks[t]]
          IN  IF tk[current] = 0
              THEN schedule(st, tk, lastRun')
              ELSE /\ state' = st
                   /\ ticks' = tk
                   /\ UNCHANGED current
    BY <1>1 DEF clock_handler
  <2> DEFINE woken == {sleep_list[i] : i \in 1..n}
             st == Unblocked(state, woken)
             tk == [t \in Thread |-> IF t \in woken THEN 0
                                     ELSE IF t = current
                                     THEN Signed(ticks[t] - 1)
                                     ELSE ticks[t]]
  <2>2. woken \in SUBSET Waiters(state)
    <3>1. \A i \in 1..n : i \in DOMAIN sleep_list /\ sleep_list[i] \in Task
      BY DEF SchedTypeOK
    <3> QED BY <3>1 DEF ListsMatchStates, Linked, Waiters, Sleeping
  <2>3. tk \in [Thread -> SignedWord]
    <3>1. \A t \in Thread : ticks[t] \in SignedWord
      BY DEF SchedTypeOK
    <3>2. \A t \in Thread : ticks[t] \in Int
      BY <3>1, WordType
    <3>3. \A t \in Thread : Signed(ticks[t] - 1) \in SignedWord
      <4>1. ASSUME NEW t \in Thread PROVE Signed(ticks[t] - 1) \in SignedWord
        <5>1. ticks[t] - 1 \in Int
          BY <3>2
        <5> QED BY <5>1, WordType
      <4> QED BY <4>1
    <3> QED BY <3>1, <3>3, WordType
  <2>4. CASE tk[current] = 0
    <3>1. schedule(st, tk, lastRun')
      BY <2>1, <2>4
    <3>2. st = Entering(st, current, "RUNNING")
      BY <2>2 DEF Unblocked, Entering, TaskInv, TaskTypeOK, RunningIsCurrent,
                  Waiters, Sleeping
    <3> HIDE DEF woken, tk
    <3>3. WakeAndSwitch
      BY <2>2, <2>3, <3>1, <3>2, SwitchIsTaskStep
    <3> QED BY <3>3 DEF TaskNext
  <2>5. CASE tk[current] # 0
    <3>1. state' = Unblocked(state, woken) /\ current' = current
      BY <2>1, <2>5
    <3>2. woken = {} => Unblocked(state, woken) = state
      BY DEF Unblocked, TaskInv, TaskTypeOK
    <3> QED BY <3>1, <3>2, <2>2 DEF TaskNext, WakeAndReturn, taskVars
  <2> QED BY <2>4, <2>5
<1>2. CASE task_yield
  <2>1. current \in Task
    BY <1>2 DEF task_yield, TaskInv, TaskTypeOK
  <2>2. schedule(Entering(Unblocked(state, {}), current, "RUNNING"), ticks, lastRun)
    BY <1>2, <2>1, RunningEntersNothing DEF task_yield
  <2>3. WakeAndSwitch
    BY <2>2, SwitchIsTaskStep DEF SchedTypeOK
  <2> QED BY <2>3 DEF TaskNext
<1>3. CASE \E ms \in SleepMs : task_sleep(ms)
  <2>1. PICK ms \in SleepMs : task_sleep(ms)
    BY <1>3
  <2> DEFINE tk == [ticks EXCEPT ![current] = Signed(jiffies + SleepLength(ms))]
  <2>2. tk \in [Thread -> SignedWord]
    <3>1. jiffies + SleepLength(ms) \in Int
      BY WordType, SleepLengthType DEF SchedTypeOK
    <3>2. Signed(jiffies + SleepLength(ms)) \in SignedWord
      BY <3>1, WordType
    <3> QED BY <3>2 DEF SchedTypeOK
  <2>3. schedule(Entering(state, current, "SLEEPING"), tk, lastRun)
    BY <2>1 DEF task_sleep
  <2>4. state = Unblocked(state, {})
    BY DEF Unblocked, TaskInv, TaskTypeOK
  <2> HIDE DEF tk
  <2>5. WakeAndSwitch
    BY <2>1, <2>2, <2>3, <2>4, SwitchIsTaskStep DEF task_sleep, Sleeping
  <2> QED BY <2>5 DEF TaskNext
<1>4. CASE task_block
  <2>1. state = Unblocked(state, {})
    BY DEF Unblocked, TaskInv, TaskTypeOK
  <2>2. WakeAndSwitch
    BY <1>4, <2>1, SwitchIsTaskStep DEF task_block, Sleeping, SchedTypeOK
  <2> QED BY <2>2 DEF TaskNext
<1>5. CASE \E t \in Task : task_unblock(t)
  <2>1. PICK t \in Task : task_unblock(t)
    BY <1>5
  <2>2. {t} \in (SUBSET Waiters(state)) \ {{}}
    BY <2>1 DEF task_unblock, ListsMatchStates, Waiters, Sleeping
  <2> QED BY <2>1, <2>2 DEF task_unblock, TaskNext, WakeAndReturn
<1> QED BY <1>1, <1>2, <1>3, <1>4, <1>5 DEF SchedNext

-----------------------------------------------------------------------------
LEMMA ScheduleKeepsWaits ==
    ASSUME SchedTypeOK, NEW st \in [Task -> State], st[Idle] \notin Sleeping,
           NEW tk \in [Thread -> SignedWord], NEW lr,
           schedule(st, tk, lr)
    PROVE  /\ ticks' \in [Thread -> SignedWord]
           /\ \A t \in Thread \ {current} : ticks'[t] = tk[t]
           /\ \A t \in Task : \A s \in Sleeping : state'[t] = s <=> st[t] = s
<1>1. /\ current' \in Candidates(st, current)
      /\ state' = Switched(st, current, current')
      /\ ticks' \in [Thread -> SignedWord]
      /\ \A t \in Thread \ {current} : ticks'[t] = tk[t]
  BY ScheduleFacts
<1>2. current \in Task \cup {Boot}
  BY DEF SchedTypeOK, TaskTypeOK
<1> QED BY <1>1, <1>2, SwitchKeepsWaits

\* clock_handler, with the names of its LET for the proofs below.
LEMMA ClockFacts ==
    ASSUME SchedInv, clock_handler
    PROVE  \E n \in 0..Len(sleep_list) :
             LET woken == {sleep_list[i] : i \in 1..n}
                 st == Unblocked(state, woken)
             IN  /\ DuePrefix(n)
                 /\ sleep_list' = SubSeq(sleep_list, n + 1, Len(sleep_list))
                 /\ woken \in SUBSET Waiters(state)
                 /\ \A t \in Task : \A s \in Sleeping :
                       state'[t] = s <=> st[t] = s
                 /\ ticks' \in [Thread -> SignedWord]
                 /\ \A t \in Task : st[t] \in Sleeping => ticks'[t] = ticks[t]
<1> USE DEF SchedInv
<1>1. PICK n \in 0..Len(sleep_list) :
        LET woken == {sleep_list[i] : i \in 1..n}
            st == Unblocked(state, woken)
            tk == [t \in Thread |-> IF t \in woken THEN 0
                                    ELSE IF t = current
                                    THEN Signed(ticks[t] - 1)
                                    ELSE ticks[t]]
        IN  /\ DuePrefix(n)
            /\ sleep_list' = SubSeq(sleep_list, n + 1, Len(sleep_list))
            /\ IF tk[current] = 0
               THEN schedule(st, tk, lastRun')
               ELSE /\ state' = st
                    /\ ticks' = tk
                    /\ UNCHANGED current
  BY DEF clock_handler
<1> DEFINE woken == {sleep_list[i] : i \in 1..n}
           st == Unblocked(state, woken)
           tk == [t \in Thread |-> IF t \in woken THEN 0
                                   ELSE IF t = current
                                   THEN Signed(ticks[t] - 1)
                                   ELSE ticks[t]]
<1>2. woken \in SUBSET Waiters(state)
  <2>1. \A i \in 1..n : i \in DOMAIN sleep_list /\ sleep_list[i] \in Task
    BY DEF SchedTypeOK
  <2> QED BY <2>1 DEF ListsMatchStates, Linked, Waiters, Sleeping
<1>3. tk \in [Thread -> SignedWord]
  <2>1. \A t \in Thread : ticks[t] \in SignedWord
    BY DEF SchedTypeOK
  <2>2. ASSUME NEW t \in Thread PROVE Signed(ticks[t] - 1) \in SignedWord
    <3>1. ticks[t] \in Int
      BY <2>1, WordType
    <3>2. ticks[t] - 1 \in Int
      BY <3>1
    <3> QED BY <3>2, WordType
  <2> QED BY <2>1, <2>2, WordType
<1>4. st \in [Task -> State] /\ st[Idle] \notin Sleeping
  BY <1>2, TaskAssumption
     DEF Unblocked, TaskInv, TaskTypeOK, State, Sleeping, IdleIsRunnable
<1>5. \A t \in Task : st[t] \in Sleeping => tk[t] = ticks[t] /\ t # current
  BY DEF Unblocked, Thread, Sleeping, TaskInv, RunningIsCurrent
<1>6. /\ \A t \in Task : \A s \in Sleeping : state'[t] = s <=> st[t] = s
      /\ ticks' \in [Thread -> SignedWord]
      /\ \A t \in Task : st[t] \in Sleeping => ticks'[t] = ticks[t]
  <2>1. CASE tk[current] = 0
    <3>1. schedule(st, tk, lastRun')
      BY <1>1, <2>1
    <3> HIDE DEF st, tk
    <3>2. /\ ticks' \in [Thread -> SignedWord]
          /\ \A t \in Thread \ {current} : ticks'[t] = tk[t]
          /\ \A t \in Task : \A s \in Sleeping : state'[t] = s <=> st[t] = s
      BY <3>1, <1>3, <1>4, ScheduleKeepsWaits
    <3> QED BY <3>2, <1>5 DEF Thread
  <2>2. CASE tk[current] # 0
    BY <1>1, <1>3, <1>5, <2>2
  <2> QED BY <2>1, <2>2
<1> QED BY <1>1, <1>2, <1>6

LEMMA StepSchedInv == SchedInv /\ [SchedNext]_vars => SchedInv'
<1> SUFFICES ASSUME SchedInv, [SchedNext]_vars PROVE SchedInv'
  OBVIOUS
<1>1. TaskInv'
  BY StepIsTaskStep, StepTaskInv DEF SchedInv
<1>2. SchedTypeOK' /\ ListsMatchStates'
  <2>1. CASE clock_handler
    <3>1. PICK n \in 0..Len(sleep_list) :
            LET woken == {sleep_list[i] : i \in 1..n}
                st == Unblocked(state, woken)
            IN  /\ sleep_list' = SubSeq(sleep_list, n + 1, Len(sleep_list))
                /\ woken \in SUBSET Waiters(state)
                /\ \A t \in Task : \A s \in Sleeping :
                      state'[t] = s <=> st[t] = s
                /\ ticks' \in [Thread -> SignedWord]
      BY <2>1, ClockFacts
    <3> DEFINE woken == {sleep_list[i] : i \in 1..n}
    <3>2. /\ sleep_list \in Seq(Task) /\ block_list \in Seq(Task)
          /\ IsInjective(sleep_list) /\ IsInjective(block_list)
      BY DEF SchedInv, SchedTypeOK, ListsMatchStates
    <3>3. /\ jiffies' \in Word
          /\ lastRun' \in [Thread -> Word]
          /\ idleWoken' \in BOOLEAN
          /\ block_list' = block_list
      <4>1. jiffies + 1 \in Int
        BY WordType DEF SchedInv, SchedTypeOK
      <4>2. jiffies' \in Word
        BY <2>1, <4>1, WordType DEF clock_handler, Unsigned
      <4> QED BY <2>1, <4>2 DEF clock_handler, SchedInv, SchedTypeOK
    <3>4. SchedTypeOK'
      BY <1>1, <3>1, <3>2, <3>3, DropElements DEF TaskInv, SchedTypeOK
    <3>5. \A t \in Task : /\ state'[t] = "SLEEPING" <=> Linked(sleep_list', t)
                          /\ state'[t] = "BLOCKED" <=> Linked(block_list', t)
      <4>1. \A t \in Task : Linked(sleep_list', t)
                               <=> Linked(sleep_list, t) /\ t \notin woken
        BY <3>1, <3>2, DropUnlinks
      <4>2. \A t \in woken : Linked(sleep_list, t)
        BY <3>2 DEF Linked
      <4>3. \A t \in Task : \A s \in Sleeping :
               state'[t] = s <=> (IF t \in woken THEN "READY" ELSE state[t]) = s
        BY <3>1 DEF Unblocked
      <4> HIDE DEF woken
      <4> QED BY <4>1, <4>2, <4>3, <3>3
              DEF SchedInv, ListsMatchStates, Sleeping
    <3>6. IsInjective(sleep_list')
      BY <3>1, <3>2, DropUnlinks
    <3> QED BY <3>2, <3>3, <3>4, <3>5, <3>6 DEF ListsMatchStates
  <2>2. CASE task_yield
    <3>1. /\ schedule(state, ticks, lastRun)
          /\ UNCHANGED <<lastRun, jiffies, sleep_list, block_list>>
          /\ idleWoken' \in BOOLEAN
      BY <2>2 DEF task_yield, SchedInv, SchedTypeOK
    <3>2. /\ state \in [Task -> State] /\ state[Idle] \notin Sleeping
          /\ ticks \in [Thread -> SignedWord]
      BY DEF SchedInv, SchedTypeOK, TaskInv, TaskTypeOK, IdleIsRunnable, Sleeping
    <3>3. /\ ticks' \in [Thread -> SignedWord]
          /\ \A t \in Task : \A s \in Sleeping : state'[t] = s <=> state[t] = s
      BY <3>1, <3>2, ScheduleKeepsWaits DEF SchedInv
    <3> QED BY <1>1, <3>1, <3>3
            DEF SchedInv, SchedTypeOK, TaskInv, ListsMatchStates, Sleeping
  <2>3. CASE \E ms \in SleepMs : task_sleep(ms)
    <3>1. PICK ms \in SleepMs : task_sleep(ms)
      BY <2>3
    <3> DEFINE tk == [ticks EXCEPT ![current] = Signed(jiffies + SleepLength(ms))]
               st == Entering(state, current, "SLEEPING")
    <3>2. PICK k \in 1..(Len(sleep_list) + 1) :
            sleep_list' = InsertAt(sleep_list, k, current)
      BY <3>1 DEF task_sleep
    <3>3. /\ schedule(st, tk, lastRun)
          /\ current \in Task /\ current # Idle
          /\ UNCHANGED <<lastRun, jiffies, block_list, idleWoken>>
      BY <3>1 DEF task_sleep, SchedInv, SchedTypeOK, TaskTypeOK
    <3>4. tk \in [Thread -> SignedWord]
      <4>1. jiffies + SleepLength(ms) \in Int
        BY WordType, SleepLengthType DEF SchedInv, SchedTypeOK
      <4>2. Signed(jiffies + SleepLength(ms)) \in SignedWord
        BY <4>1, WordType
      <4> QED BY <4>2 DEF SchedInv, SchedTypeOK
    <3>5. /\ st \in [Task -> State] /\ st[Idle] \notin Sleeping
          /\ \A t \in Task : st[t] = IF t = current THEN "SLEEPING" ELSE state[t]
      BY <3>3, TaskAssumption DEF Entering, SchedInv, SchedTypeOK, TaskTypeOK,
                  TaskInv, IdleIsRunnable, State, Sleeping
    <3> HIDE DEF tk, st
    <3>6. /\ ticks' \in [Thread -> SignedWord]
          /\ \A t \in Task : \A s \in Sleeping : state'[t] = s <=> st[t] = s
      BY <3>3, <3>4, <3>5, ScheduleKeepsWaits DEF SchedInv
    <3>7. ~Linked(sleep_list, current) /\ ~Linked(block_list, current)
      BY <3>3 DEF SchedInv, TaskInv, RunningIsCurrent, ListsMatchStates
    <3>8. /\ sleep_list' \in Seq(Task) /\ IsInjective(sleep_list')
          /\ \A t : Linked(sleep_list', t) <=> Linked(sleep_list, t) \/ t = current
      BY <3>2, <3>3, <3>7, InsertAtElements, InsertLinks
         DEF SchedInv, SchedTypeOK, ListsMatchStates
    <3> QED BY <1>1, <3>3, <3>5, <3>6, <3>7, <3>8
            DEF SchedInv, SchedTypeOK, TaskInv, ListsMatchStates, Sleeping
  <2>4. CASE task_block
    <3> DEFINE st == Entering(state, current, "BLOCKED")
    <3>1. /\ block_list' = InsertAt(block_list, 1, current)
          /\ schedule(st, ticks, lastRun)
          /\ current \in Task /\ current # Idle
          /\ UNCHANGED <<lastRun, jiffies, sleep_list, idleWoken>>
      BY <2>4 DEF task_block, list_push, SchedInv, SchedTypeOK, TaskTypeOK
    <3>2. /\ st \in [Task -> State] /\ st[Idle] \notin Sleeping
          /\ \A t \in Task : st[t] = IF t = current THEN "BLOCKED" ELSE state[t]
      BY <3>1, TaskAssumption DEF Entering, SchedInv, SchedTypeOK, TaskTypeOK,
                  TaskInv, IdleIsRunnable, State, Sleeping
    <3> HIDE DEF st
    <3>3. /\ ticks' \in [Thread -> SignedWord]
          /\ \A t \in Task : \A s \in Sleeping : state'[t] = s <=> st[t] = s
      BY <3>1, <3>2, ScheduleKeepsWaits DEF SchedInv, SchedTypeOK
    <3>4. ~Linked(sleep_list, current) /\ ~Linked(block_list, current)
      BY <3>1 DEF SchedInv, TaskInv, RunningIsCurrent, ListsMatchStates
    <3>5. /\ block_list' \in Seq(Task) /\ IsInjective(block_list')
          /\ \A t : Linked(block_list', t) <=> Linked(block_list, t) \/ t = current
      <4>1. block_list \in Seq(Task) /\ IsInjective(block_list)
        BY DEF SchedInv, SchedTypeOK, ListsMatchStates
      <4>2. 1 \in 1..(Len(block_list) + 1)
        BY <4>1
      <4> QED BY <4>1, <4>2, <3>1, <3>4, InsertAtElements, InsertLinks
    <3> QED BY <1>1, <3>1, <3>2, <3>3, <3>4, <3>5
            DEF SchedInv, SchedTypeOK, TaskInv, ListsMatchStates, Sleeping
  <2>5. CASE \E t \in Task : task_unblock(t)
    <3>1. PICK t \in Task : task_unblock(t)
      BY <2>5
    <3>2. /\ Linked(block_list, t)
          /\ block_list' = list_remove(block_list, t)
          /\ state' = Unblocked(state, {t})
          /\ UNCHANGED <<ticks, lastRun, jiffies, sleep_list>>
          /\ idleWoken' \in BOOLEAN
      BY <3>1 DEF task_unblock, SchedInv, SchedTypeOK
    <3>3. /\ block_list' \in Seq(Task) /\ IsInjective(block_list')
          /\ \A x : Linked(block_list', x) <=> Linked(block_list, x) /\ x # t
      BY <3>2, RemoveUnlinks DEF SchedInv, SchedTypeOK, ListsMatchStates
    <3>4. \A x \in Task : state'[x] = IF x = t THEN "READY" ELSE state[x]
      BY <3>2 DEF Unblocked
    <3> QED BY <1>1, <3>2, <3>3, <3>4
            DEF SchedInv, SchedTypeOK, TaskInv, ListsMatchStates
  <2>6. CASE UNCHANGED vars
    BY <1>1, <2>6 DEF vars, taskVars, schedVars, SchedInv, SchedTypeOK,
                      ListsMatchStates, Linked, TaskTypeOK
  <2> QED BY <2>1, <2>2, <2>3, <2>4, <2>5, <2>6 DEF SchedNext
<1> QED BY <1>1, <1>2 DEF SchedInv

(***************************************************************************)
(* The code's scheduler implements TaskSpec, for every number of tasks:    *)
(* whatever its scan prefers, it only switches to a task that can run.     *)
(***************************************************************************)
THEOREM SchedImplementsTasks == SchedSpec => TaskSpec
<1>1. SchedInit => TaskInit
  <2> SUFFICES ASSUME SchedInit PROVE TaskInit
    OBVIOUS
  <2>1. state = [t \in Task |-> IF t = current THEN "RUNNING"
                                ELSE IF t \in Task THEN "READY" ELSE "NONE"]
    BY TaskAssumption DEF SchedInit
  <2> QED BY <2>1 DEF SchedInit, TaskInit
<1> QED BY <1>1, InitSchedInv, StepSchedInv, StepIsTaskStep, PTL
        DEF SchedSpec, TaskSpec

(***************************************************************************)
(* Type correctness, and the agreement of the lists with the task states:  *)
(* the assertions of task_block, task_unblock and list_insert_sort never   *)
(* fail.                                                                   *)
(***************************************************************************)
THEOREM SchedTypeCorrect == SchedSpec => []SchedTypeOK
<1>1. SchedInv => SchedTypeOK
  BY DEF SchedInv
<1> QED BY <1>1, InitSchedInv, StepSchedInv, PTL DEF SchedSpec

\* A task is on sleep_list while it sleeps and on a wait list while it is blocked.
THEOREM SchedLists == SchedSpec => []ListsMatchStates
<1>1. SchedInv => ListsMatchStates
  BY DEF SchedInv
<1> QED BY <1>1, InitSchedInv, StepSchedInv, PTL DEF SchedSpec

-----------------------------------------------------------------------------
(***************************************************************************)
(* Wake-up times.  As long as no wake-up time reaches the sign bit, the    *)
(* signed order of list_insert_sort, the unsigned order of task_wakeup and *)
(* the order of time agree.                                                *)
(***************************************************************************)
NoWrap == MaxWake < WordSize \div 2

\* The order of the list is what makes it safe to stop at the first sleeper
\* that is not due.
TimelyInv ==
    /\ \A t \in Task : state[t] = "SLEEPING"
                       => ticks[t] \in jiffies..(WordSize \div 2 - 1)
    /\ \A i, j \in DOMAIN sleep_list :
          i < j => ticks[sleep_list[i]] <= ticks[sleep_list[j]]

LEMMA TimelyClock ==
    ASSUME NoWrap, SchedInv, TimelyInv, clock_handler
    PROVE  /\ TimelyInv'
           /\ \A t \in Task : state[t] = "SLEEPING" /\ state'[t] # "SLEEPING"
                              => Unsigned(ticks[t]) = jiffies
<1>1. PICK n \in 0..Len(sleep_list) :
        LET woken == {sleep_list[i] : i \in 1..n}
            st == Unblocked(state, woken)
        IN  /\ DuePrefix(n)
            /\ sleep_list' = SubSeq(sleep_list, n + 1, Len(sleep_list))
            /\ \A t \in Task : \A s \in Sleeping : state'[t] = s <=> st[t] = s
            /\ \A t \in Task : st[t] \in Sleeping => ticks'[t] = ticks[t]
  BY ClockFacts
<1> DEFINE woken == {sleep_list[i] : i \in 1..n}
<1>2. /\ sleep_list \in Seq(Task) /\ IsInjective(sleep_list)
      /\ jiffies \in Nat
      /\ \A t \in Task : state[t] = "SLEEPING" <=> Linked(sleep_list, t)
  <2>1. sleep_list \in Seq(Task) /\ jiffies \in Nat
    BY WordType DEF SchedInv, SchedTypeOK
  <2>2. /\ IsInjective(sleep_list)
        /\ \A t \in Task : state[t] = "SLEEPING" <=> Linked(sleep_list, t)
    BY DEF SchedInv, ListsMatchStates
  <2> QED BY <2>1, <2>2
<1>3. jiffies + 1 < WordSize \div 2 => jiffies' = jiffies + 1
  <2>1. jiffies' = Unsigned(jiffies + 1)
    BY DEF clock_handler, Unsigned
  <2> QED BY <2>1, <1>2, SmallWord, WordType
<1>4. \A t \in Task : state[t] = "SLEEPING"
         => /\ ticks[t] \in Int /\ ticks[t] >= jiffies
            /\ ticks[t] \in 0..(WordSize \div 2 - 1)
            /\ Unsigned(ticks[t]) = ticks[t]
  <2> SUFFICES ASSUME NEW t \in Task, state[t] = "SLEEPING"
               PROVE  /\ ticks[t] \in Int /\ ticks[t] >= jiffies
                      /\ ticks[t] \in 0..(WordSize \div 2 - 1)
                      /\ Unsigned(ticks[t]) = ticks[t]
    OBVIOUS
  <2>1. ticks[t] \in jiffies..(WordSize \div 2 - 1)
    BY DEF TimelyInv
  <2>2. WordSize \div 2 \in Nat
    BY WordType
  <2>3. ticks[t] \in 0..(WordSize \div 2 - 1)
    BY <2>1, <2>2, <1>2
  <2>4. Unsigned(ticks[t]) = ticks[t]
    BY <2>3, SmallWord
  <2>5. ticks[t] \in Int /\ ticks[t] >= jiffies
    BY <2>1, <2>2, <1>2
  <2> QED BY <2>3, <2>4, <2>5
<1>5. \A i \in DOMAIN sleep_list :
         sleep_list[i] \in Task /\ state[sleep_list[i]] = "SLEEPING"
  BY <1>2 DEF Linked
<1>6. \A t \in Task : state[t] = "SLEEPING" /\ t \in woken
         => Unsigned(ticks[t]) = jiffies
  <2> SUFFICES ASSUME NEW t \in Task, state[t] = "SLEEPING", t \in woken
               PROVE  Unsigned(ticks[t]) = jiffies
    OBVIOUS
  <2>1. PICK i \in 1..n : t = sleep_list[i]
    OBVIOUS
  <2>2. Due(t)
    BY <1>1, <2>1 DEF DuePrefix
  <2>3. Unsigned(ticks[t]) <= jiffies
    BY <2>2 DEF Due
  <2>4. ticks[t] \in Int /\ ticks[t] >= jiffies /\ Unsigned(ticks[t]) = ticks[t]
    BY <1>4
  <2> QED BY <2>3, <2>4, <1>2
<1>7. \A i \in DOMAIN sleep_list : i > n => ticks[sleep_list[i]] > jiffies
  <2> SUFFICES ASSUME NEW i \in DOMAIN sleep_list, i > n
               PROVE  ticks[sleep_list[i]] > jiffies
    OBVIOUS
  <2>1. n + 1 \in DOMAIN sleep_list /\ n < Len(sleep_list) /\ n + 1 <= i
    BY <1>2
  <2>2. ~Due(sleep_list[n + 1])
    BY <1>1, <2>1 DEF DuePrefix
  <2>3. ticks[sleep_list[n + 1]] > jiffies
    BY <2>1, <2>2, <1>2, <1>4, <1>5 DEF Due
  <2>4. ticks[sleep_list[n + 1]] <= ticks[sleep_list[i]]
    BY <2>1, <1>4, <1>5 DEF TimelyInv
  <2> QED BY <2>1, <2>3, <2>4, <1>2, <1>4, <1>5
<1>8. \A t \in Task : state'[t] = "SLEEPING"
         => state[t] = "SLEEPING" /\ t \notin woken /\ ticks'[t] = ticks[t]
  BY <1>1 DEF Unblocked, Sleeping
<1>9. \A t \in Task : state[t] = "SLEEPING" /\ state'[t] # "SLEEPING" => t \in woken
  BY <1>1 DEF Unblocked, Sleeping
<1>10. ASSUME NEW t \in Task, state'[t] = "SLEEPING"
       PROVE  ticks'[t] \in jiffies'..(WordSize \div 2 - 1)
  <2>1. PICK i \in DOMAIN sleep_list : sleep_list[i] = t
    BY <1>2, <1>8, <1>10 DEF Linked
  <2>2. i > n
    BY <2>1, <1>2, <1>8, <1>10
  <2>3. ticks[t] > jiffies
    BY <2>1, <2>2, <1>7
  <2>4. /\ ticks'[t] = ticks[t]
        /\ ticks[t] \in 0..(WordSize \div 2 - 1)
    BY <1>4, <1>8, <1>10
  <2>5. WordSize \div 2 \in Nat
    BY WordType
  <2>6. jiffies' = jiffies + 1
    BY <2>3, <2>4, <2>5, <1>2, <1>3
  <2> QED BY <2>3, <2>4, <2>5, <2>6, <1>2
<1>11. ASSUME NEW i \in DOMAIN sleep_list', NEW j \in DOMAIN sleep_list', i < j
       PROVE  ticks'[sleep_list'[i]] <= ticks'[sleep_list'[j]]
  <2>1. /\ n + i \in DOMAIN sleep_list /\ sleep_list'[i] = sleep_list[n + i]
        /\ n + j \in DOMAIN sleep_list /\ sleep_list'[j] = sleep_list[n + j]
        /\ n + i < n + j
    BY <1>1, <1>2, <1>11, DropElements
  <2>2. \A t \in Task : Linked(sleep_list', t) => Linked(sleep_list, t) /\ t \notin woken
    BY <1>1, <1>2, DropUnlinks
  <2>3. /\ sleep_list'[i] \in Task /\ Linked(sleep_list', sleep_list'[i])
        /\ sleep_list'[j] \in Task /\ Linked(sleep_list', sleep_list'[j])
    BY <2>1, <1>5 DEF Linked
  <2>4. \A t \in Task : t \notin woken /\ state[t] = "SLEEPING"
                        => ticks'[t] = ticks[t]
    BY <1>1 DEF Unblocked, Sleeping
  <2>5. /\ ticks'[sleep_list'[i]] = ticks[sleep_list[n + i]]
        /\ ticks'[sleep_list'[j]] = ticks[sleep_list[n + j]]
    BY <2>1, <2>2, <2>3, <2>4, <1>5
  <2> QED BY <2>1, <2>5 DEF TimelyInv
<1> QED BY <1>6, <1>9, <1>10, <1>11 DEF TimelyInv

\* A step that leaves every sleeper as it is.
LEMMA TimelyUntouched ==
    ASSUME TimelyInv, SchedInv, UNCHANGED <<jiffies, sleep_list>>,
           \A t \in Task : state'[t] = "SLEEPING" <=> state[t] = "SLEEPING",
           \A t \in Task : state[t] = "SLEEPING" => ticks'[t] = ticks[t]
    PROVE  TimelyInv'
<1>1. \A i \in DOMAIN sleep_list :
         sleep_list[i] \in Task /\ state[sleep_list[i]] = "SLEEPING"
  BY DEF SchedInv, SchedTypeOK, ListsMatchStates, Linked
<1>2. \A t \in Task : state'[t] = "SLEEPING"
                      => ticks'[t] \in jiffies'..(WordSize \div 2 - 1)
  BY DEF TimelyInv
<1>3. \A i, j \in DOMAIN sleep_list' :
         i < j => ticks'[sleep_list'[i]] <= ticks'[sleep_list'[j]]
  BY <1>1 DEF TimelyInv
<1> QED BY <1>2, <1>3 DEF TimelyInv

LEMMA TimelySleep ==
    ASSUME NoWrap, SchedInv, TimelyInv, NEW ms \in SleepMs, task_sleep(ms)
    PROVE  /\ TimelyInv'
           /\ \A t \in Task : state[t] = "SLEEPING" => state'[t] = "SLEEPING"
<1> DEFINE tk == [ticks EXCEPT ![current] = Signed(jiffies + SleepLength(ms))]
           st == Entering(state, current, "SLEEPING")
           keys == [i \in DOMAIN sleep_list |-> ticks[sleep_list[i]]]
<1>1. PICK k \in 1..(Len(sleep_list) + 1) :
        /\ InsertPosition(keys, tk[current], k)
        /\ sleep_list' = InsertAt(sleep_list, k, current)
  BY DEF task_sleep
<1>2. /\ schedule(st, tk, lastRun)
      /\ current \in Task /\ current # Idle /\ current \in Thread
      /\ state[current] = "RUNNING"
      /\ jiffies' = jiffies
  BY DEF task_sleep, SchedInv, SchedTypeOK, TaskTypeOK, Thread, TaskInv,
         RunningIsCurrent
<1>3. /\ sleep_list \in Seq(Task) /\ Len(sleep_list) \in Nat
      /\ jiffies \in Nat
      /\ ticks \in [Thread -> SignedWord]
      /\ \A t \in Task : ticks[t] \in Int
      /\ WordSize \div 2 \in Nat
  <2>1. /\ sleep_list \in Seq(Task) /\ jiffies \in Word
        /\ ticks \in [Thread -> SignedWord]
    BY DEF SchedInv, SchedTypeOK
  <2>2. \A t \in Task : ticks[t] \in SignedWord
    BY <2>1 DEF Thread
  <2>3. \A t \in Task : ticks[t] \in Int
    BY <2>2, WordType
  <2>4. jiffies \in Nat /\ WordSize \div 2 \in Nat
    BY <2>1, WordType
  <2> QED BY <2>1, <2>3, <2>4
<1>4. /\ tk[current] = jiffies + SleepLength(ms)
      /\ tk[current] \in jiffies..(WordSize \div 2 - 1)
  <2>1. SleepLength(ms) \in Nat
    BY SleepLengthType
  <2>2. jiffies + SleepLength(ms) \in 0..(WordSize \div 2 - 1)
    BY <1>3, <2>1, SchedAssumption DEF NoWrap, task_sleep
  <2>3. Signed(jiffies + SleepLength(ms)) = jiffies + SleepLength(ms)
    BY <2>2, SmallWord
  <2>4. tk[current] = jiffies + SleepLength(ms)
    BY <2>3, <1>2, <1>3
  <2> QED BY <2>1, <2>2, <2>4, <1>3
<1>5. tk \in [Thread -> SignedWord]
  <2>1. jiffies + SleepLength(ms) \in Int
    BY SleepLengthType, <1>3
  <2>2. Signed(jiffies + SleepLength(ms)) \in SignedWord
    BY <2>1, WordType
  <2> QED BY <2>2, <1>3
<1>6. /\ st \in [Task -> State] /\ st[Idle] \notin Sleeping
      /\ \A t \in Task : st[t] = IF t = current THEN "SLEEPING" ELSE state[t]
  BY <1>2, TaskAssumption DEF Entering, SchedInv, SchedTypeOK, TaskTypeOK,
              TaskInv, IdleIsRunnable, State, Sleeping
<1>7. \A t \in Task \ {current} : tk[t] = ticks[t]
  BY <1>3 DEF Thread
<1>8. ticks'[current] = tk[current]
  <2>1. tk[current] # 0
    BY <1>3, <1>4, SleepLengthType
  <2> HIDE DEF tk, st
  <2> QED BY <1>2, <1>5, <2>1 DEF schedule
<1>9. /\ \A t \in Thread \ {current} : ticks'[t] = tk[t]
      /\ \A t \in Task : state'[t] = "SLEEPING" <=> st[t] = "SLEEPING"
  <2> HIDE DEF tk, st
  <2> QED BY <1>2, <1>5, <1>6, ScheduleKeepsWaits DEF SchedInv, Sleeping
<1>10. \A t \in Task \ {current} : ticks'[t] = ticks[t]
  BY <1>7, <1>9 DEF Thread
<1> HIDE DEF tk
<1>11. \A t \in Task : state'[t] = "SLEEPING"
                       => ticks'[t] \in jiffies'..(WordSize \div 2 - 1)
  BY <1>2, <1>4, <1>6, <1>8, <1>9, <1>10 DEF TimelyInv
<1>12. \A i \in DOMAIN sleep_list :
          /\ i \in 1..Len(sleep_list)
          /\ sleep_list[i] \in Task /\ sleep_list[i] # current
          /\ ticks'[sleep_list[i]] = ticks[sleep_list[i]]
          /\ ticks[sleep_list[i]] \in Int
  <2>1. \A i \in DOMAIN sleep_list :
           sleep_list[i] \in Task /\ state[sleep_list[i]] = "SLEEPING"
    BY <1>3 DEF SchedInv, ListsMatchStates, Linked
  <2> QED BY <2>1, <1>2, <1>3, <1>10
<1>13. /\ \A i \in 1..Len(sleep_list) : i < k => ticks'[sleep_list[i]] <= ticks'[current]
       /\ k <= Len(sleep_list) => ticks'[sleep_list[k]] > ticks'[current]
  <2>1. /\ \A i \in 1..(k - 1) : keys[i] <= tk[current]
        /\ k <= Len(keys) => keys[k] > tk[current]
    BY <1>1 DEF InsertPosition
  <2>2. Len(keys) = Len(sleep_list) /\ DOMAIN sleep_list = 1..Len(sleep_list)
    BY <1>3
  <2>3. \A i \in 1..Len(sleep_list) : keys[i] = ticks'[sleep_list[i]]
    BY <2>2, <1>12
  <2> HIDE DEF keys
  <2> QED BY <2>1, <2>2, <2>3, <1>3, <1>8
<1>14. ASSUME NEW i \in DOMAIN sleep_list', NEW j \in DOMAIN sleep_list', i < j
       PROVE  ticks'[sleep_list'[i]] <= ticks'[sleep_list'[j]]
  <2>1. /\ DOMAIN sleep_list' = 1..(Len(sleep_list) + 1)
        /\ \A l \in 1..(Len(sleep_list) + 1) :
              sleep_list'[l] = IF l < k THEN sleep_list[l]
                               ELSE IF l = k THEN current
                               ELSE sleep_list[l - 1]
    <3>1. /\ InsertAt(sleep_list, k, current) \in Seq(Task)
          /\ Len(InsertAt(sleep_list, k, current)) = Len(sleep_list) + 1
          /\ \A l \in 1..(Len(sleep_list) + 1) :
                InsertAt(sleep_list, k, current)[l]
                   = IF l < k THEN sleep_list[l]
                     ELSE IF l = k THEN current ELSE sleep_list[l - 1]
      <4>1. sleep_list \in Seq(Task) /\ current \in Task /\ k \in 1..(Len(sleep_list) + 1)
        BY <1>2, <1>3
      <4> QED BY <4>1, InsertAtElements
    <3> QED BY <3>1, <1>1
  <2>2. \A a, b \in 1..Len(sleep_list) :
           a < b => ticks'[sleep_list[a]] <= ticks'[sleep_list[b]]
    BY <1>3, <1>12 DEF TimelyInv
  <2>3. \A a \in 1..Len(sleep_list) : ticks'[sleep_list[a]] \in Int
    BY <1>3, <1>12
  <2>4. ticks'[current] \in Int
    BY <1>3, <1>4, <1>8, SleepLengthType
  <2>5. i \in 1..(Len(sleep_list) + 1) /\ j \in 1..(Len(sleep_list) + 1)
    BY <2>1
  <2>6. CASE i < k /\ j < k
    <3>1. /\ i \in 1..Len(sleep_list) /\ j \in 1..Len(sleep_list)
          /\ sleep_list'[i] = sleep_list[i] /\ sleep_list'[j] = sleep_list[j]
      BY <2>1, <2>5, <2>6, <1>3
    <3> QED BY <3>1, <2>2, <1>14
  <2>7. CASE i < k /\ j = k
    BY <2>1, <2>5, <2>7, <1>3, <1>13
  <2>8. CASE i < k /\ j > k
    <3>1. /\ i \in 1..Len(sleep_list) /\ j - 1 \in 1..Len(sleep_list)
          /\ i < j - 1
          /\ sleep_list'[i] = sleep_list[i] /\ sleep_list'[j] = sleep_list[j - 1]
      BY <2>1, <2>5, <2>8, <1>3
    <3> QED BY <3>1, <2>2
  <2>9. CASE i = k
    <3>1. /\ j - 1 \in 1..Len(sleep_list) /\ k \in 1..Len(sleep_list)
          /\ sleep_list'[i] = current /\ sleep_list'[j] = sleep_list[j - 1]
          /\ j - 1 = k \/ k < j - 1
      BY <2>1, <2>5, <2>9, <1>3, <1>14
    <3>2. ticks'[sleep_list[k]] > ticks'[current]
      BY <3>1, <1>3, <1>13
    <3>3. ticks'[sleep_list[k]] <= ticks'[sleep_list[j - 1]]
      BY <3>1, <2>2, <2>3
    <3> QED BY <3>1, <3>2, <3>3, <2>3, <2>4
  <2>10. CASE i > k
    <3>1. /\ i - 1 \in 1..Len(sleep_list) /\ j - 1 \in 1..Len(sleep_list)
          /\ i - 1 < j - 1
          /\ sleep_list'[i] = sleep_list[i - 1] /\ sleep_list'[j] = sleep_list[j - 1]
      BY <2>1, <2>5, <2>10, <1>3, <1>14
    <3> QED BY <3>1, <2>2
  <2> QED BY <2>5, <2>6, <2>7, <2>8, <2>9, <2>10, <1>3
<1> QED BY <1>2, <1>6, <1>9, <1>11, <1>14 DEF TimelyInv

LEMMA TimelyStep ==
    ASSUME NoWrap, SchedInv, TimelyInv, [SchedNext]_vars
    PROVE  /\ TimelyInv'
           /\ \A t \in Task : state[t] = "SLEEPING" /\ state'[t] # "SLEEPING"
                              => Unsigned(ticks[t]) = jiffies
<1>1. CASE clock_handler
  BY <1>1, TimelyClock
<1>2. CASE \E ms \in SleepMs : task_sleep(ms)
  BY <1>2, TimelySleep
<1>3. /\ state \in [Task -> State] /\ state[Idle] \notin Sleeping
      /\ ticks \in [Thread -> SignedWord]
      /\ current \in Task => state[current] = "RUNNING"
  BY DEF SchedInv, SchedTypeOK, TaskInv, TaskTypeOK, RunningIsCurrent,
         IdleIsRunnable, Sleeping
<1>4. ASSUME \A t \in Task : state'[t] = "SLEEPING" <=> state[t] = "SLEEPING",
             \A t \in Task : state[t] = "SLEEPING" => ticks'[t] = ticks[t],
             UNCHANGED <<jiffies, sleep_list>>
      PROVE  /\ TimelyInv'
             /\ \A t \in Task : state[t] = "SLEEPING" /\ state'[t] # "SLEEPING"
                                => Unsigned(ticks[t]) = jiffies
  BY <1>4, TimelyUntouched
<1>5. CASE task_yield
  <2>1. schedule(state, ticks, lastRun) /\ UNCHANGED <<jiffies, sleep_list>>
    BY <1>5 DEF task_yield
  <2>2. /\ \A t \in Thread \ {current} : ticks'[t] = ticks[t]
        /\ \A t \in Task : \A s \in Sleeping : state'[t] = s <=> state[t] = s
    BY <2>1, <1>3, ScheduleKeepsWaits DEF SchedInv
  <2> QED BY <2>1, <2>2, <1>3, <1>4 DEF Thread, Sleeping
<1>6. CASE task_block
  <2> DEFINE st == Entering(state, current, "BLOCKED")
  <2>1. /\ schedule(st, ticks, lastRun) /\ UNCHANGED <<jiffies, sleep_list>>
        /\ current \in Task /\ current # Idle
    BY <1>6 DEF task_block, SchedInv, SchedTypeOK, TaskTypeOK
  <2>2. /\ st \in [Task -> State] /\ st[Idle] \notin Sleeping
        /\ \A t \in Task : st[t] = IF t = current THEN "BLOCKED" ELSE state[t]
    BY <1>3, <2>1, TaskAssumption DEF Entering, State, Sleeping
  <2> HIDE DEF st
  <2>3. /\ \A t \in Thread \ {current} : ticks'[t] = ticks[t]
        /\ \A t \in Task : \A s \in Sleeping : state'[t] = s <=> st[t] = s
    BY <2>1, <2>2, <1>3, ScheduleKeepsWaits DEF SchedInv
  <2> QED BY <2>1, <2>2, <2>3, <1>3, <1>4 DEF Thread, Sleeping
<1>7. CASE \E t \in Task : task_unblock(t)
  <2>1. PICK t \in Task : task_unblock(t)
    BY <1>7
  <2>2. state[t] = "BLOCKED"
    BY <2>1 DEF task_unblock, SchedInv, ListsMatchStates
  <2>3. \A x \in Task : state'[x] = IF x = t THEN "READY" ELSE state[x]
    BY <2>1 DEF task_unblock, Unblocked
  <2> QED BY <2>1, <2>2, <2>3, <1>4 DEF task_unblock
<1>8. CASE UNCHANGED vars
  BY <1>8, <1>4 DEF vars, taskVars, schedVars
<1> QED BY <1>1, <1>2, <1>5, <1>6, <1>7, <1>8 DEF SchedNext

LEMMA InitTimely == SchedInit => TimelyInv
BY SchedAssumption DEF SchedInit, TimelyInv

(***************************************************************************)
(* For every table of tasks and every load: no sleeper is left past its    *)
(* wake-up time, and each is woken by the tick of that time (task_sleep,   *)
(* task_wakeup).                                                           *)
(***************************************************************************)
THEOREM SchedNoOversleep == ASSUME NoWrap PROVE SchedSpec => []NoOversleep
<1>1. SchedInv /\ TimelyInv /\ [SchedNext]_vars => TimelyInv'
  BY TimelyStep
<1>2. SchedInv /\ TimelyInv => NoOversleep
  <2> SUFFICES ASSUME SchedInv, TimelyInv, NEW t \in Task, state[t] = "SLEEPING"
               PROVE  Unsigned(ticks[t]) >= jiffies
    BY DEF NoOversleep
  <2>1. jiffies \in Nat /\ WordSize \div 2 \in Nat
    BY WordType DEF SchedInv, SchedTypeOK
  <2>2. ticks[t] \in jiffies..(WordSize \div 2 - 1)
    BY DEF TimelyInv
  <2>3. ticks[t] \in 0..(WordSize \div 2 - 1)
    BY <2>1, <2>2
  <2>4. Unsigned(ticks[t]) = ticks[t]
    BY <2>3, SmallWord
  <2> QED BY <2>1, <2>2, <2>4
<1> QED BY <1>1, <1>2, InitSchedInv, StepSchedInv, InitTimely, PTL DEF SchedSpec

\* task_wakeup wakes a sleeper in the tick of its wake-up time, neither before
\* nor after, however the list was built up.
THEOREM SchedWakesOnTime == ASSUME NoWrap PROVE SchedSpec => WakesOnTime
<1>1. SchedInv /\ TimelyInv /\ [SchedNext]_vars => TimelyInv'
  BY TimelyStep
<1>2. SchedInv /\ TimelyInv /\ [SchedNext]_vars
        => [\A t \in Task : state[t] = "SLEEPING" /\ state'[t] # "SLEEPING"
                            => Unsigned(ticks[t]) = jiffies]_vars
  BY TimelyStep
<1> QED BY <1>1, <1>2, InitSchedInv, StepSchedInv, InitTimely, PTL
        DEF SchedSpec, WakesOnTime

-----------------------------------------------------------------------------
(***************************************************************************)
(* The pointers of src/lib/list.c: LinkedList.tla.                         *)
(***************************************************************************)

\* A set of numbers has a least one.
LEMMA LeastOf ==
    ASSUME NEW places \in SUBSET Nat, places # {}
    PROVE  \E i \in places : \A j \in places : i <= j
<1> DEFINE R == {ss \in Nat \X Nat : ss[1] < ss[2]}
<1>1. IsWellFoundedOn(R, Nat)
  BY NatLessThanWellFounded DEF OpToRel
<1>2. PICK i \in places : \A j \in places : <<j, i>> \notin R
  <2> HIDE DEF R
  <2> QED BY <1>1, WFMin
<1>3. \A j \in places : ~(j < i)
  BY <1>2
<1> QED BY <1>3

\* The places of a list whose nodes are nodes: the head, them, and the tail.
Place(l, nodes, i) ==
    IF i = 0 THEN head(l) ELSE IF i = Len(nodes) + 1 THEN tail(l) ELSE nodes[i]

(***************************************************************************)
(* The pointers nx and pv link the nodes of every list l in the order      *)
(* L[l], both ways, and no node twice; the others are unlinked.            *)
(***************************************************************************)
Chains(L, nx, pv) ==
    /\ L \in [List -> Seq(Node)]
    /\ \A l \in List : nx[tail(l)] = NULL /\ pv[head(l)] = NULL
    /\ \A l \in List : \A i \in 0..Len(L[l]) :
          /\ nx[Place(l, L[l], i)] = Place(l, L[l], i + 1)
          /\ pv[Place(l, L[l], i + 1)] = Place(l, L[l], i)
    /\ \A l, m \in List : \A i \in DOMAIN L[l], j \in DOMAIN L[m] :
          L[l][i] = L[m][j] => l = m /\ i = j
    /\ \A n \in Node : (\A l \in List : ~Linked(L[l], n)) => nx[n] = NULL /\ pv[n] = NULL
    /\ DOMAIN nx = Node \cup Sentinel /\ DOMAIN pv = Node \cup Sentinel

\* The first node on the way from "from" to "to", and the one after another.
LEMMA WalkIs ==
    ASSUME NEW nodes \in Seq(Node), Len(nodes) <= Cardinality(Node), Cardinality(Node) \in Nat,
           NEW from, NEW to, to \notin Node, NEW pointer,
           nodes = <<>> => pointer[from] = to,
           nodes # <<>> => pointer[from] = nodes[1] /\ pointer[nodes[Len(nodes)]] = to,
           \A i \in 1..(Len(nodes) - 1) : pointer[nodes[i]] = nodes[i + 1]
    PROVE  Walk(from, to, pointer) = nodes
<1> DEFINE N == Cardinality(Node)
           Upto(k) == [i \in 1..(IF k <= Len(nodes) THEN k ELSE Len(nodes)) |-> nodes[i]]
           After(s) == LET p == pointer[IF s = <<>> THEN from ELSE s[Len(s)]]
                       IN  IF p = to THEN s ELSE Append(s, p)
           Seen(f) == f = [k \in 0..N |-> IF k = 0 THEN <<>> ELSE After(f[k - 1])]
           g == CHOOSE f : Seen(f)
<1>1. Len(nodes) \in Nat /\ \A i \in 1..Len(nodes) : nodes[i] \in Node
  OBVIOUS
<1>2. Walk(from, to, pointer) = g[N]
  BY DEF Walk
<1>3. Upto(0) = <<>>
  BY <1>1
<1>4. ASSUME NEW k \in 1..N PROVE After(Upto(k - 1)) = Upto(k)
  <2>1. CASE k = 1 /\ nodes # <<>>
    <3>1. Upto(k - 1) = <<>> /\ Upto(k) = <<nodes[1]>> /\ nodes[1] \in Node
      BY <1>1, <1>3, <2>1
    <3>2. After(<<>>) = Append(<<>>, nodes[1])
      BY <2>1, <3>1
    <3> QED BY <3>1, <3>2
  <2>2. CASE k > 1 /\ k <= Len(nodes)
    <3>1. PICK s : s = Upto(k - 1)
      OBVIOUS
    <3>2. s = [i \in 1..(k - 1) |-> nodes[i]] /\ k - 1 \in Nat /\ k - 1 >= 1
      BY <1>1, <2>2, <3>1
    <3>6. s \in [1..(k - 1) -> Node]
      BY <1>1, <2>2, <3>2
    <3>7. s \in Seq(Node) /\ Len(s) = k - 1
      BY <3>2, <3>6
    <3>8. s # <<>> /\ s[k - 1] = nodes[k - 1]
      <4>1. k - 1 \in 1..(k - 1)
        BY <3>2
      <4>2. Len(<<>>) = 0 /\ Len(s) # 0
        BY <3>2, <3>7
      <4> QED BY <3>2, <4>1, <4>2
    <3>3. pointer[s[Len(s)]] = nodes[k] /\ nodes[k] # to
      BY <1>1, <2>2, <3>7, <3>8
    <3>4. After(s) = Append(s, nodes[k])
      BY <3>3, <3>7, <3>8
    <3>5. Upto(k) = Append(s, nodes[k])
      <4>1. Upto(k) = [i \in 1..k |-> nodes[i]]
        BY <2>2
      <4> QED BY <1>1, <2>2, <3>2, <3>7, <4>1
    <3> QED BY <3>1, <3>4, <3>5
  <2>3. CASE k > Len(nodes)
    <3>1. Upto(k - 1) = nodes /\ Upto(k) = nodes
      BY <1>1, <2>3
    <3>2. After(nodes) = nodes
      OBVIOUS
    <3> HIDE DEF After, Upto
    <3> QED BY <3>1, <3>2
  <2>4. \/ k = 1 /\ nodes # <<>>
        \/ k > 1 /\ k <= Len(nodes)
        \/ k > Len(nodes)
    <3>1. nodes = <<>> => Len(nodes) = 0
      OBVIOUS
    <3> QED BY <1>1, <3>1
  <2> HIDE DEF After, Upto
  <2> QED BY <2>1, <2>2, <2>3, <2>4
<1>5. Seen([k \in 0..N |-> Upto(k)])
  <2> DEFINE f == [k \in 0..N |-> Upto(k)]
  <2>1. ASSUME NEW k \in 0..N PROVE f[k] = IF k = 0 THEN <<>> ELSE After(f[k - 1])
    <3> HIDE DEF Upto, After
    <3>1. CASE k = 0
      BY <1>3, <3>1
    <3>2. CASE k # 0
      <4>1. k \in 1..N /\ k - 1 \in 0..N
        BY <3>2
      <4> QED BY <1>4, <3>2, <4>1
    <3> QED BY <3>1, <3>2
  <2> HIDE DEF Upto, After
  <2> QED BY <2>1
<1>6. Seen(g)
  BY <1>5
<1> HIDE DEF g, After, Upto
<1>7. \A k \in 0..N : g[k] = Upto(k)
  <2> DEFINE Wrong == {k \in 0..N : g[k] # Upto(k)}
  <2> SUFFICES ASSUME Wrong # {} PROVE FALSE
    OBVIOUS
  <2>1. PICK k \in Wrong : \A j \in Wrong : k <= j
    <3>1. Wrong \in SUBSET Nat
      OBVIOUS
    <3> HIDE DEF Wrong
    <3> QED BY <3>1, LeastOf
  <2>2. k # 0
    BY <1>3, <1>6
  <2>3. k - 1 \in 0..N /\ k \in 1..N /\ k - 1 \notin Wrong
    BY <2>1, <2>2
  <2>4. g[k] = After(g[k - 1]) /\ g[k - 1] = Upto(k - 1)
    BY <1>6, <2>2, <2>3
  <2> QED BY <1>4, <2>3, <2>4
<1>8. Upto(N) = nodes
  BY <1>1 DEF Upto
<1> QED BY <1>2, <1>7, <1>8

\* The sentinels are apart from each other, from the nodes and from NULL.
LEMMA Sentinels ==
    /\ \A l \in List : head(l) \in Sentinel /\ tail(l) \in Sentinel
    /\ \A l, m \in List : head(l) # tail(m)
    /\ \A l, m \in List : l # m => head(l) # head(m) /\ tail(l) # tail(m)
    /\ \A n \in Node : n \notin Sentinel /\ n # NULL
    /\ NULL \notin Sentinel
BY LinkedListAssumption DEF head, tail, Sentinel

LEMMA ChainOf ==
    ASSUME NEW L, NEW nx, NEW pv, Chains(L, nx, pv), NEW l \in List
    PROVE  /\ L[l] \in Seq(Node) /\ IsInjective(L[l])
           /\ Len(L[l]) \in Nat /\ DOMAIN L[l] = 1..Len(L[l])
           /\ Len(L[l]) <= Cardinality(Node) /\ Cardinality(Node) \in Nat
<1>1. L[l] \in Seq(Node)
  BY DEF Chains
<1>2. IsInjective(L[l])
  BY DEF Chains, IsInjective
<1>3. Len(L[l]) \in Nat /\ DOMAIN L[l] = 1..Len(L[l]) /\ L[l] \in [1..Len(L[l]) -> Node]
  BY <1>1, LenProperties
<1>4. PICK n \in Nat : n = Len(L[l])
  BY <1>3
<1>5. L[l] \in Injection(1..n, Node)
  BY <1>2, <1>3, <1>4 DEF Injection
<1>6. Cardinality(1..n) <= Cardinality(Node)
  BY <1>5, LinkedListAssumption, FS_Injection
<1>7. Cardinality(1..n) = n
  <2>1. Cardinality(1..n) = IF 1 > n THEN 0 ELSE n - 1 + 1
    BY 1 \in Int, n \in Int, FS_Interval
  <2> QED BY <2>1
<1>8. Cardinality(Node) \in Nat
  BY LinkedListAssumption, FS_CardinalityType
<1> QED BY <1>1, <1>2, <1>3, <1>4, <1>6, <1>7, <1>8

\* A walk through a list finds its nodes, forward or backward.
LEMMA ForwardIs ==
    ASSUME NEW L, NEW nx, NEW pv, Chains(L, nx, pv), NEW l \in List
    PROVE  Walk(head(l), tail(l), nx) = L[l]
<1>1. PICK nodes \in Seq(Node) : nodes = L[l]
  BY ChainOf
<1>2. /\ Len(nodes) \in Nat /\ Len(nodes) <= Cardinality(Node) /\ Cardinality(Node) \in Nat
  BY <1>1, ChainOf
<1>3. \A i \in 0..Len(nodes) : nx[Place(l, nodes, i)] = Place(l, nodes, i + 1)
  BY <1>1 DEF Chains
<1>4. nx[head(l)] = Place(l, nodes, 1)
  <2>1. 0 \in 0..Len(nodes) /\ 0 + 1 = 1
    BY <1>2
  <2> QED BY <1>3, <2>1 DEF Place
<1>5. nodes = <<>> => nx[head(l)] = tail(l)
  <2>1. ASSUME nodes = <<>> PROVE Place(l, nodes, 1) = tail(l)
    <3>1. Len(nodes) + 1 = 1
      BY <2>1
    <3> QED BY <3>1 DEF Place
  <2> QED BY <1>4, <2>1
<1>6. nodes # <<>> => nx[head(l)] = nodes[1] /\ nx[nodes[Len(nodes)]] = tail(l)
  <2> HAVE nodes # <<>>
  <2>1. Len(nodes) >= 1
    BY <1>2
  <2>2. Place(l, nodes, 1) = nodes[1]
    BY <1>2, <2>1 DEF Place
  <2>3. /\ Place(l, nodes, Len(nodes)) = nodes[Len(nodes)]
        /\ Place(l, nodes, Len(nodes) + 1) = tail(l)
    BY <1>2, <2>1 DEF Place
  <2>4. Len(nodes) \in 0..Len(nodes)
    BY <1>2
  <2> QED BY <1>3, <1>4, <2>2, <2>3, <2>4
<1>7. \A i \in 1..(Len(nodes) - 1) : nx[nodes[i]] = nodes[i + 1]
  <2> TAKE i \in 1..(Len(nodes) - 1)
  <2>1. i \in 0..Len(nodes) /\ i # 0 /\ i # Len(nodes) + 1 /\ i + 1 # 0 /\ i + 1 # Len(nodes) + 1
    BY <1>2
  <2>2. Place(l, nodes, i) = nodes[i] /\ Place(l, nodes, i + 1) = nodes[i + 1]
    BY <2>1 DEF Place
  <2> QED BY <1>3, <2>1, <2>2
<1>8. tail(l) \notin Node
  BY Sentinels
<1>9. Walk(head(l), tail(l), nx) = nodes
  BY <1>2, <1>5, <1>6, <1>7, <1>8, WalkIs
<1> QED BY <1>1, <1>9

LEMMA ReverseIs ==
    ASSUME NEW nodes \in Seq(Node)
    PROVE  /\ Reverse(nodes) \in Seq(Node) /\ Len(Reverse(nodes)) = Len(nodes)
           /\ \A i \in 1..Len(nodes) : Reverse(nodes)[i] = nodes[Len(nodes) + 1 - i]
           /\ Reverse(Reverse(nodes)) = nodes
<1>1. Len(nodes) \in Nat /\ \A i \in 1..Len(nodes) : nodes[i] \in Node
  OBVIOUS
<1>2. \A i \in 1..Len(nodes) : /\ (Len(nodes) - i) + 1 = Len(nodes) + 1 - i
                               /\ Len(nodes) + 1 - i \in 1..Len(nodes)
                               /\ Len(nodes) + 1 - (Len(nodes) + 1 - i) = i
  BY <1>1
<1>3. Reverse(nodes) = [i \in 1..Len(nodes) |-> nodes[Len(nodes) + 1 - i]]
  BY <1>2 DEF Reverse
<1>4. Reverse(nodes) \in [1..Len(nodes) -> Node]
  BY <1>1, <1>2, <1>3
<1>5. Reverse(nodes) \in Seq(Node) /\ Len(Reverse(nodes)) = Len(nodes)
  BY <1>1, <1>3, <1>4
<1>6. \A i \in 1..Len(nodes) : Reverse(nodes)[i] = nodes[Len(nodes) + 1 - i]
  BY <1>3
<1>7. Reverse(Reverse(nodes)) = nodes
  <2>1. PICK back : back = Reverse(nodes)
    OBVIOUS
  <2>2. Reverse(back) = [i \in 1..Len(nodes) |-> back[Len(nodes) + 1 - i]]
    BY <1>2, <1>5, <2>1 DEF Reverse
  <2>3. \A i \in 1..Len(nodes) : back[Len(nodes) + 1 - i] = nodes[i]
    BY <1>2, <1>6, <2>1
  <2>4. nodes = [i \in 1..Len(nodes) |-> nodes[i]]
    BY <1>1
  <2> QED BY <2>1, <2>2, <2>3, <2>4
<1> QED BY <1>5, <1>6, <1>7

LEMMA BackwardIs ==
    ASSUME NEW L, NEW nx, NEW pv, Chains(L, nx, pv), NEW l \in List
    PROVE  Walk(tail(l), head(l), pv) = Reverse(L[l])
<1>1. PICK nodes \in Seq(Node) : nodes = L[l]
  BY ChainOf
<1>2. /\ Len(nodes) \in Nat /\ Len(nodes) <= Cardinality(Node) /\ Cardinality(Node) \in Nat
  BY <1>1, ChainOf
<1>3. \A i \in 0..Len(nodes) : pv[Place(l, nodes, i + 1)] = Place(l, nodes, i)
  BY <1>1 DEF Chains
<1>4. PICK back \in Seq(Node) : back = Reverse(nodes)
  BY ReverseIs
<1>5. PICK n \in Nat : n = Len(nodes) /\ n = Len(back)
  BY <1>2, <1>4, ReverseIs
<1>6. \A i \in 1..n : back[i] = nodes[n + 1 - i]
  BY <1>4, <1>5, ReverseIs
<1>7. pv[tail(l)] = Place(l, nodes, n)
  <2>1. n \in 0..n /\ n + 1 # 0
    BY <1>5
  <2> QED BY <1>3, <1>5, <2>1 DEF Place
<1>8. \A i \in 1..n : pv[nodes[i]] = Place(l, nodes, i - 1)
  <2> TAKE i \in 1..n
  <2>1. i - 1 \in 0..n /\ (i - 1) + 1 = i /\ i # 0 /\ i # n + 1
    BY <1>5
  <2>2. pv[Place(l, nodes, (i - 1) + 1)] = Place(l, nodes, i - 1)
    BY <1>3, <1>5, <2>1
  <2>3. Place(l, nodes, i) = nodes[i]
    BY <1>5, <2>1 DEF Place
  <2> QED BY <2>1, <2>2, <2>3
<1>9. back = <<>> => pv[tail(l)] = head(l)
  <2> HAVE back = <<>>
  <2>1. n = 0
    BY <1>5
  <2> QED BY <1>7, <2>1 DEF Place
<1>10. back # <<>> => pv[tail(l)] = back[1] /\ pv[back[Len(back)]] = head(l)
  <2> HAVE back # <<>>
  <2>1. n # 0
    BY <1>5
  <2>2. 1 \in 1..n /\ n \in 1..n /\ n + 1 - 1 = n /\ n + 1 - n = 1 /\ n # n + 1 /\ 1 - 1 = 0
    BY <1>5, <2>1
  <2>3. back[1] = nodes[n] /\ back[n] = nodes[1]
    BY <1>6, <2>2
  <2>4. Place(l, nodes, n) = nodes[n]
    BY <1>5, <2>1, <2>2 DEF Place
  <2>5. pv[nodes[1]] = head(l)
    BY <1>8, <2>2 DEF Place
  <2> QED BY <1>5, <1>7, <2>3, <2>4, <2>5
<1>11. \A i \in 1..(Len(back) - 1) : pv[back[i]] = back[i + 1]
  <2> TAKE i \in 1..(Len(back) - 1)
  <2>1. /\ i \in 1..n /\ i + 1 \in 1..n /\ n + 1 - i \in 1..n /\ (n + 1 - i) - 1 = n + 1 - (i + 1)
        /\ n + 1 - (i + 1) # 0 /\ n + 1 - (i + 1) # n + 1
    BY <1>5
  <2>2. pv[nodes[n + 1 - i]] = Place(l, nodes, n + 1 - (i + 1))
    BY <1>8, <2>1
  <2>3. Place(l, nodes, n + 1 - (i + 1)) = nodes[n + 1 - (i + 1)]
    BY <1>5, <2>1 DEF Place
  <2> QED BY <1>6, <2>1, <2>2, <2>3
<1>12. head(l) \notin Node
  BY Sentinels
<1>13. Walk(tail(l), head(l), pv) = back
  BY <1>2, <1>5, <1>9, <1>10, <1>11, <1>12, WalkIs
<1> QED BY <1>1, <1>4, <1>13

\* What is at the places of a list.
LEMMA PlaceIs ==
    ASSUME NEW l \in List, NEW nodes \in Seq(Node)
    PROVE  /\ Place(l, nodes, 0) = head(l) /\ Place(l, nodes, Len(nodes) + 1) = tail(l)
           /\ \A i \in 1..Len(nodes) : Place(l, nodes, i) = nodes[i] /\ nodes[i] \in Node
           /\ \A i \in 0..(Len(nodes) + 1) : Place(l, nodes, i) \in Node \cup Sentinel
<1>1. Len(nodes) \in Nat /\ \A i \in 1..Len(nodes) : nodes[i] \in Node
  OBVIOUS
<1>2. Len(nodes) + 1 # 0 /\ \A i \in 1..Len(nodes) : i # 0 /\ i # Len(nodes) + 1
  BY <1>1
<1>3. \A i \in 0..(Len(nodes) + 1) : i = 0 \/ i = Len(nodes) + 1 \/ i \in 1..Len(nodes)
  BY <1>1
<1>4. /\ Place(l, nodes, 0) = head(l) /\ Place(l, nodes, Len(nodes) + 1) = tail(l)
      /\ \A i \in 1..Len(nodes) : Place(l, nodes, i) = nodes[i] /\ nodes[i] \in Node
  BY <1>1, <1>2 DEF Place
<1>5. \A i \in 0..(Len(nodes) + 1) : Place(l, nodes, i) \in Node \cup Sentinel
  BY <1>3, <1>4, Sentinels
<1> QED BY <1>4, <1>5

\* No node and no sentinel is at two places.
LEMMA PlacesApart ==
    ASSUME NEW L, NEW nx, NEW pv, Chains(L, nx, pv), NEW l \in List, NEW m \in List,
           NEW i \in 0..(Len(L[l]) + 1), NEW j \in 0..(Len(L[m]) + 1),
           Place(l, L[l], i) = Place(m, L[m], j)
    PROVE  l = m /\ i = j
<1>1. /\ L[l] \in Seq(Node) /\ L[m] \in Seq(Node)
      /\ Len(L[l]) \in Nat /\ Len(L[m]) \in Nat
      /\ DOMAIN L[l] = 1..Len(L[l]) /\ DOMAIN L[m] = 1..Len(L[m])
  BY ChainOf
<1>2. PICK p : p = Place(l, L[l], i) /\ p = Place(m, L[m], j)
  OBVIOUS
<1>3. \/ i = 0 /\ p = head(l)
      \/ i = Len(L[l]) + 1 /\ p = tail(l)
      \/ i \in 1..Len(L[l]) /\ p = L[l][i] /\ p \in Node
  <2>1. i = 0 \/ i = Len(L[l]) + 1 \/ i \in 1..Len(L[l])
    BY <1>1
  <2> QED BY <1>1, <1>2, <2>1, PlaceIs
<1>4. \/ j = 0 /\ p = head(m)
      \/ j = Len(L[m]) + 1 /\ p = tail(m)
      \/ j \in 1..Len(L[m]) /\ p = L[m][j] /\ p \in Node
  <2>1. j = 0 \/ j = Len(L[m]) + 1 \/ j \in 1..Len(L[m])
    BY <1>1
  <2> QED BY <1>1, <1>2, <2>1, PlaceIs
<1>5. CASE p \in Node
  <2>1. i \in DOMAIN L[l] /\ p = L[l][i] /\ j \in DOMAIN L[m] /\ p = L[m][j]
    BY <1>1, <1>3, <1>4, <1>5, Sentinels
  <2>2. L[l][i] = L[m][j]
    BY <2>1
  <2>3. \A a, b \in List : \A c \in DOMAIN L[a], d \in DOMAIN L[b] : L[a][c] = L[b][d] => a = b /\ c = d
    BY DEF Chains
  <2> QED BY ONLY <2>1, <2>2, <2>3, l \in List, m \in List
<1>6. CASE p \notin Node
  <2>1. \/ i = 0 /\ j = 0 /\ head(l) = head(m)
        \/ i = Len(L[l]) + 1 /\ j = Len(L[m]) + 1 /\ tail(l) = tail(m)
    BY <1>3, <1>4, <1>6, Sentinels
  <2>2. l = m
    BY <2>1, Sentinels
  <2> QED BY <2>1, <2>2
<1> QED BY <1>5, <1>6

\* A node that is in no list is linked between two places of list l.
LEMMA InsertChains ==
    ASSUME NEW L, NEW nx, NEW pv, Chains(L, nx, pv), NEW l \in List,
           NEW k \in 1..(Len(L[l]) + 1), NEW n \in Node, \A m \in List : ~Linked(L[m], n),
           NEW before, before = Place(l, L[l], k - 1), NEW behind, behind = Place(l, L[l], k)
    PROVE  Chains([L EXCEPT ![l] = InsertAt(L[l], k, n)],
                  [nx EXCEPT ![n] = behind, ![before] = n],
                  [pv EXCEPT ![n] = before, ![behind] = n])
<1>1. PICK nodes \in Seq(Node) : nodes = L[l]
  BY ChainOf
<1>2. PICK len \in Nat : len = Len(nodes) /\ DOMAIN nodes = 1..len
  BY <1>1, ChainOf
<1>3. PICK seq \in Seq(Node) : /\ seq = InsertAt(L[l], k, n)
                               /\ Len(seq) = len + 1 /\ DOMAIN seq = 1..(len + 1)
                               /\ \A i \in 1..(len + 1) :
                                     seq[i] = IF i < k THEN nodes[i] ELSE IF i = k THEN n ELSE nodes[i - 1]
  <2>1. k \in 1..(Len(nodes) + 1)
    BY <1>1
  <2>2. /\ InsertAt(nodes, k, n) \in Seq(Node) /\ Len(InsertAt(nodes, k, n)) = Len(nodes) + 1
        /\ \A i \in 1..(Len(nodes) + 1) :
              InsertAt(nodes, k, n)[i] = IF i < k THEN nodes[i] ELSE IF i = k THEN n ELSE nodes[i - 1]
    BY ONLY <2>1, n \in Node, nodes \in Seq(Node), InsertAtElements
  <2>3. PICK s \in Seq(Node) : s = InsertAt(nodes, k, n)
    BY <2>2
  <2>4. DOMAIN s = 1..Len(s)
    OBVIOUS
  <2> QED BY <1>1, <1>2, <2>2, <2>3, <2>4
<1>4. PICK M : M = [L EXCEPT ![l] = seq]
  OBVIOUS
<1>5. PICK nx2, pv2 : /\ nx2 = [nx EXCEPT ![n] = behind, ![before] = n]
                      /\ pv2 = [pv EXCEPT ![n] = before, ![behind] = n]
  OBVIOUS
<1>6. M \in [List -> Seq(Node)] /\ M[l] = seq /\ \A m \in List : m # l => M[m] = L[m]
  BY <1>3, <1>4 DEF Chains
<1>7. k \in Nat /\ k >= 1 /\ k <= len + 1
  BY <1>1, <1>2
<1>8. ASSUME NEW m \in List, NEW i \in 0..(Len(L[m]) + 1) PROVE Place(m, L[m], i) # n
  <2>1. L[m] \in Seq(Node) /\ Len(L[m]) \in Nat /\ DOMAIN L[m] = 1..Len(L[m])
    BY ChainOf
  <2>2. i = 0 \/ i = Len(L[m]) + 1 \/ i \in 1..Len(L[m])
    BY <2>1
  <2>3. \A j \in 1..Len(L[m]) : L[m][j] # n
    BY <2>1 DEF Linked
  <2>4. /\ Place(m, L[m], 0) = head(m) /\ Place(m, L[m], Len(L[m]) + 1) = tail(m)
        /\ \A j \in 1..Len(L[m]) : Place(m, L[m], j) = L[m][j]
    BY <2>1, PlaceIs
  <2> QED BY <2>2, <2>3, <2>4, Sentinels
<1>9. /\ before \in Node \cup Sentinel /\ behind \in Node \cup Sentinel
      /\ before # n /\ behind # n
      /\ k - 1 \in 0..(len + 1) /\ k \in 0..(len + 1)
  <2>1. k - 1 \in 0..(len + 1) /\ k \in 0..(len + 1)
    BY <1>7
  <2> QED BY <1>1, <1>2, <1>8, <2>1, PlaceIs
<1>10. /\ nx2[n] = behind /\ nx2[before] = n /\ \A p \in Node \cup Sentinel : p # n /\ p # before => nx2[p] = nx[p]
       /\ pv2[n] = before /\ pv2[behind] = n /\ \A p \in Node \cup Sentinel : p # n /\ p # behind => pv2[p] = pv[p]
       /\ DOMAIN nx2 = Node \cup Sentinel /\ DOMAIN pv2 = Node \cup Sentinel
  BY <1>5, <1>9 DEF Chains
<1>11. \A i \in 0..(len + 2) : Place(l, seq, i) = IF i < k THEN Place(l, nodes, i)
                                                 ELSE IF i = k THEN n ELSE Place(l, nodes, i - 1)
  <2> TAKE i \in 0..(len + 2)
  <2>1. CASE i = 0
    BY <1>7, <2>1 DEF Place
  <2>2. CASE i = len + 2
    <3>1. i = Len(seq) + 1 /\ i # 0 /\ ~(i < k) /\ i # k /\ i - 1 = Len(nodes) + 1 /\ i - 1 # 0
      BY <1>2, <1>3, <1>7, <2>2
    <3> QED BY <3>1 DEF Place
  <2>3. CASE i \in 1..(len + 1)
    <3>1. i # 0 /\ i # Len(seq) + 1
      BY <1>3, <2>3
    <3>2. Place(l, seq, i) = seq[i]
      BY <3>1 DEF Place
    <3>3. CASE i < k
      <4>1. i # Len(nodes) + 1
        BY <1>2, <1>7, <2>3, <3>3
      <4> QED BY <1>3, <2>3, <3>1, <3>2, <3>3, <4>1 DEF Place
    <3>4. CASE i = k
      BY <1>3, <1>7, <2>3, <3>2, <3>4
    <3>5. CASE i > k
      <4>1. i - 1 # 0 /\ i - 1 # Len(nodes) + 1 /\ ~(i < k) /\ i # k
        BY <1>2, <1>7, <2>3, <3>5
      <4> QED BY <1>3, <2>3, <3>2, <4>1 DEF Place
    <3> QED BY <1>7, <2>3, <3>3, <3>4, <3>5
  <2>4. i = 0 \/ i = len + 2 \/ i \in 1..(len + 1)
    OBVIOUS
  <2> QED BY <2>1, <2>2, <2>3, <2>4
<1>12. ASSUME NEW m \in List, m # l, NEW i \in 0..Len(L[m])
       PROVE  /\ nx2[Place(m, L[m], i)] = Place(m, L[m], i + 1)
              /\ pv2[Place(m, L[m], i + 1)] = Place(m, L[m], i)
  <2>1. L[m] \in Seq(Node) /\ Len(L[m]) \in Nat
    BY ChainOf
  <2>2. i \in 0..(Len(L[m]) + 1) /\ i + 1 \in 0..(Len(L[m]) + 1)
    BY <2>1
  <2>3. /\ Place(m, L[m], i) # n /\ Place(m, L[m], i + 1) # n
        /\ Place(m, L[m], i) \in Node \cup Sentinel /\ Place(m, L[m], i + 1) \in Node \cup Sentinel
    BY <1>8, <2>1, <2>2, PlaceIs
  <2>4. Place(m, L[m], i) # before /\ Place(m, L[m], i + 1) # behind
    BY <1>1, <1>2, <1>9, <1>12, <2>2, PlacesApart
  <2> QED BY <1>10, <2>3, <2>4 DEF Chains
<1>13. ASSUME NEW i \in 0..(len + 1)
       PROVE  /\ nx2[Place(l, seq, i)] = Place(l, seq, i + 1)
              /\ pv2[Place(l, seq, i + 1)] = Place(l, seq, i)
  <2>1. i \in 0..(len + 2) /\ i + 1 \in 0..(len + 2)
    OBVIOUS
  <2>2. \A j \in 0..len : /\ nx[Place(l, nodes, j)] = Place(l, nodes, j + 1)
                          /\ pv[Place(l, nodes, j + 1)] = Place(l, nodes, j)
    BY <1>1, <1>2 DEF Chains
  <2>3. \A j \in 0..(len + 1) : /\ Place(l, nodes, j) # n
                                /\ Place(l, nodes, j) \in Node \cup Sentinel
                                /\ Place(l, nodes, j) = before => j = k - 1
                                /\ Place(l, nodes, j) = behind => j = k
    BY <1>1, <1>2, <1>8, <1>9, PlaceIs, PlacesApart
  <2>4. CASE i + 1 < k
    <3>1. /\ i < k /\ i \in 0..len /\ i \in 0..(len + 1) /\ i + 1 \in 0..(len + 1)
          /\ i # k - 1 /\ i + 1 # k
      BY <1>7, <2>4
    <3>2. Place(l, seq, i) = Place(l, nodes, i) /\ Place(l, seq, i + 1) = Place(l, nodes, i + 1)
      BY <1>11, <2>1, <2>4, <3>1
    <3> QED BY <1>10, <2>2, <2>3, <3>1, <3>2
  <2>5. CASE i + 1 = k
    <3>1. i < k /\ i = k - 1
      BY <1>7, <2>5
    <3>2. Place(l, seq, i) = before /\ Place(l, seq, i + 1) = n
      BY <1>1, <1>11, <2>1, <2>5, <3>1
    <3> QED BY <1>10, <3>2
  <2>6. CASE i = k
    <3>1. ~(i + 1 < k) /\ i + 1 # k /\ (i + 1) - 1 = k /\ ~(i < k)
      BY <1>7, <2>6
    <3>2. Place(l, seq, i) = n /\ Place(l, seq, i + 1) = behind
      BY <1>1, <1>11, <2>1, <2>6, <3>1
    <3> QED BY <1>10, <3>2
  <2>7. CASE i > k
    <3>1. /\ ~(i < k) /\ i # k /\ ~(i + 1 < k) /\ i + 1 # k /\ (i + 1) - 1 = i /\ (i - 1) + 1 = i
          /\ i - 1 \in 0..len /\ i - 1 \in 0..(len + 1) /\ i \in 0..(len + 1) /\ i - 1 # k - 1
      BY <1>7, <2>7
    <3>2. Place(l, seq, i) = Place(l, nodes, i - 1) /\ Place(l, seq, i + 1) = Place(l, nodes, i)
      BY <1>11, <2>1, <3>1
    <3> QED BY <1>10, <2>2, <2>3, <3>1, <3>2
  <2>8. i + 1 < k \/ i + 1 = k \/ i = k \/ i > k
    BY <1>7
  <2> QED BY <2>4, <2>5, <2>6, <2>7, <2>8
<1>14. \A m \in List : \A i \in 0..Len(M[m]) :
          /\ nx2[Place(m, M[m], i)] = Place(m, M[m], i + 1)
          /\ pv2[Place(m, M[m], i + 1)] = Place(m, M[m], i)
  BY <1>3, <1>6, <1>12, <1>13
<1>15. ASSUME NEW m \in List PROVE nx2[tail(m)] = NULL /\ pv2[head(m)] = NULL
  <2>1. /\ Place(m, L[m], 0) = head(m) /\ Place(m, L[m], Len(L[m]) + 1) = tail(m)
        /\ 0 \in 0..(Len(L[m]) + 1) /\ Len(L[m]) + 1 \in 0..(Len(L[m]) + 1)
    <3>1. L[m] \in Seq(Node) /\ Len(L[m]) \in Nat
      BY ChainOf
    <3> QED BY <3>1, PlaceIs
  <2>2. tail(m) # n /\ head(m) # n
    BY <1>8, <2>1
  <2>3. tail(m) # before
    <3>1. ASSUME tail(m) = before PROVE FALSE
      <4>1. m = l /\ Len(L[m]) + 1 = k - 1
        BY <1>1, <1>2, <1>9, <2>1, <3>1, PlacesApart
      <4> QED BY <1>1, <1>2, <1>7, <4>1
    <3> QED BY <3>1
  <2>4. head(m) # behind
    <3>1. ASSUME head(m) = behind PROVE FALSE
      <4>1. m = l /\ 0 = k
        BY <1>1, <1>2, <1>9, <2>1, <3>1, PlacesApart
      <4> QED BY <1>7, <4>1
    <3> QED BY <3>1
  <2> QED BY <1>10, <2>2, <2>3, <2>4, Sentinels DEF Chains
<1>16. \A a \in List : \A i \in DOMAIN M[a] :
          (a = l /\ i = k /\ M[a][i] = n) \/ \E j \in DOMAIN L[a] :
              /\ M[a][i] = L[a][j] /\ M[a][i] # n
              /\ a = l => (i < k /\ j = i) \/ (i > k /\ j = i - 1)
              /\ a # l => i = j
  <2> SUFFICES ASSUME NEW a \in List, NEW i \in DOMAIN M[a]
               PROVE  (a = l /\ i = k /\ M[a][i] = n) \/ \E j \in DOMAIN L[a] :
                         /\ M[a][i] = L[a][j] /\ M[a][i] # n
                         /\ a = l => (i < k /\ j = i) \/ (i > k /\ j = i - 1)
                         /\ a # l => i = j
    OBVIOUS
  <2>1. \A j \in DOMAIN L[a] : L[a][j] # n
    BY DEF Linked
  <2>2. CASE a # l
    BY <1>6, <2>1, <2>2
  <2>3. CASE a = l
    <3>1. i \in 1..(len + 1) /\ M[a][i] = IF i < k THEN nodes[i] ELSE IF i = k THEN n ELSE nodes[i - 1]
      BY <1>3, <1>6, <2>3
    <3>2. CASE i < k
      <4>1. i \in 1..len
        BY <1>7, <3>1, <3>2
      <4> QED BY <1>1, <1>2, <2>1, <2>3, <3>1, <3>2, <4>1
    <3>3. CASE i = k
      <4>1. ~(i < k)
        BY <1>7, <3>3
      <4> QED BY <2>3, <3>1, <3>3, <4>1
    <3>4. CASE i > k
      <4>1. i - 1 \in 1..len /\ ~(i < k) /\ i # k
        BY <1>7, <3>1, <3>4
      <4> QED BY <1>1, <1>2, <2>1, <2>3, <3>1, <3>4, <4>1
    <3> QED BY <1>7, <3>1, <3>2, <3>3, <3>4
  <2> QED BY <2>2, <2>3
<1>17. ASSUME NEW a \in List, NEW b \in List, NEW i \in DOMAIN M[a], NEW j \in DOMAIN M[b], M[a][i] = M[b][j]
       PROVE  a = b /\ i = j
  <2>1. CASE M[a][i] = n
    <3>1. a = l /\ i = k
      BY <1>16, <2>1
    <3>2. M[b][j] = n
      BY <1>17, <2>1
    <3>3. b = l /\ j = k
      BY <1>16, <3>2
    <3> QED BY <3>1, <3>3
  <2>2. CASE M[a][i] # n
    <3>1. PICK i2 \in DOMAIN L[a] : /\ M[a][i] = L[a][i2]
                                    /\ a = l => (i < k /\ i2 = i) \/ (i > k /\ i2 = i - 1)
                                    /\ a # l => i = i2
      BY <1>16, <2>2
    <3>2. PICK j2 \in DOMAIN L[b] : /\ M[b][j] = L[b][j2]
                                    /\ b = l => (j < k /\ j2 = j) \/ (j > k /\ j2 = j - 1)
                                    /\ b # l => j = j2
      <4>1. M[b][j] # n
        BY <1>17, <2>2
      <4> QED BY <1>16, <4>1
    <3>3. a = b /\ i2 = j2
      <4>1. L[a][i2] = L[b][j2]
        BY <1>17, <3>1, <3>2
      <4> QED BY <4>1 DEF Chains
    <3>4. CASE a # l
      BY <3>1, <3>2, <3>3, <3>4
    <3>5. CASE a = l
      <4>1. i \in Nat /\ j \in Nat
        BY <1>3, <1>6, <3>3, <3>5
      <4> QED BY <1>7, <3>1, <3>2, <3>3, <3>5, <4>1
    <3> QED BY <3>4, <3>5
  <2> QED BY <2>1, <2>2
<1>18. ASSUME NEW p \in Node, \A m \in List : ~Linked(M[m], p) PROVE nx2[p] = NULL /\ pv2[p] = NULL
  <2>1. p # n
    <3>1. k \in DOMAIN M[l] /\ M[l][k] = n
      <4>1. k \in 1..(len + 1) /\ ~(k < k)
        BY <1>7
      <4> QED BY <1>3, <1>6, <4>1
    <3> QED BY <1>18, <3>1 DEF Linked
  <2>2. ASSUME NEW m \in List, NEW j \in DOMAIN L[m], L[m][j] = p PROVE FALSE
    <3>1. CASE m # l
      BY <1>6, <1>18, <2>2, <3>1 DEF Linked
    <3>2. CASE m = l
      <4>1. j \in 1..len /\ nodes[j] = p
        BY <1>1, <1>2, <2>2, <3>2
      <4>2. CASE j < k
        <5>1. j \in DOMAIN M[l] /\ M[l][j] = p
          BY <1>3, <1>6, <4>1, <4>2
        <5> QED BY <1>18, <5>1 DEF Linked
      <4>3. CASE j >= k
        <5>1. j + 1 \in 1..(len + 1) /\ ~(j + 1 < k) /\ j + 1 # k /\ (j + 1) - 1 = j
          BY <1>7, <4>1, <4>3
        <5>2. j + 1 \in DOMAIN M[l] /\ M[l][j + 1] = p
          BY <1>3, <1>6, <4>1, <5>1
        <5> QED BY <1>18, <5>2 DEF Linked
      <4> QED BY <1>7, <4>1, <4>2, <4>3
    <3> QED BY <3>1, <3>2
  <2>3. nx[p] = NULL /\ pv[p] = NULL
    BY <2>2 DEF Chains, Linked
  <2>4. \A j \in 0..len : nx[Place(l, nodes, j)] # NULL /\ pv[Place(l, nodes, j + 1)] # NULL
    <3> TAKE j \in 0..len
    <3>1. j \in 0..(len + 1) /\ j + 1 \in 0..(len + 1)
      OBVIOUS
    <3>2. Place(l, nodes, j + 1) # NULL /\ Place(l, nodes, j) # NULL
      BY <1>2, <3>1, PlaceIs, LinkedListAssumption
    <3> QED BY <1>1, <1>2, <3>2 DEF Chains
  <2>5. p # before
    <3>1. k - 1 \in 0..len
      BY <1>7
    <3> QED BY <1>1, <2>3, <2>4, <3>1
  <2>6. p # behind
    <3>1. k - 1 \in 0..len /\ (k - 1) + 1 = k
      BY <1>7
    <3> QED BY <1>1, <2>3, <2>4, <3>1
  <2> QED BY <1>10, <2>1, <2>3, <2>5, <2>6
<1>19. Chains(M, nx2, pv2)
  BY <1>6, <1>10, <1>14, <1>15, <1>17, <1>18 DEF Chains
<1> QED BY <1>3, <1>4, <1>5, <1>19

\* The node at place k of list l is unlinked.
LEMMA RemoveChains ==
    ASSUME NEW L, NEW nx, NEW pv, Chains(L, nx, pv), NEW l \in List,
           NEW k \in 1..Len(L[l]), NEW n, n = L[l][k],
           NEW before, before = Place(l, L[l], k - 1), NEW behind, behind = Place(l, L[l], k + 1)
    PROVE  Chains([L EXCEPT ![l] = RemoveAt(L[l], k)],
                  [nx EXCEPT ![before] = behind, ![n] = NULL],
                  [pv EXCEPT ![behind] = before, ![n] = NULL])
<1>1. PICK nodes \in Seq(Node) : nodes = L[l]
  BY ChainOf
<1>2. PICK len \in Nat : len = Len(nodes) /\ DOMAIN nodes = 1..len
  BY <1>1, ChainOf
<1>3. k \in Nat /\ k >= 1 /\ k <= len /\ k \in 1..len /\ len - 1 \in Nat /\ n = nodes[k]
  BY <1>1, <1>2
<1>4. PICK seq \in Seq(Node) : /\ seq = RemoveAt(L[l], k)
                               /\ Len(seq) = len - 1 /\ DOMAIN seq = 1..(len - 1)
                               /\ \A i \in 1..(len - 1) : seq[i] = IF i < k THEN nodes[i] ELSE nodes[i + 1]
  <2>1. /\ RemoveAt(nodes, k) \in Seq(Node) /\ Len(RemoveAt(nodes, k)) = Len(nodes) - 1
        /\ \A i \in 1..(Len(nodes) - 1) :
              RemoveAt(nodes, k)[i] = IF i < k THEN nodes[i] ELSE nodes[i + 1]
    <3>1. k \in 1..Len(nodes)
      BY <1>1
    <3> QED BY ONLY <3>1, nodes \in Seq(Node), RemoveAtElements
  <2>2. PICK s \in Seq(Node) : s = RemoveAt(nodes, k)
    BY <2>1
  <2>3. DOMAIN s = 1..Len(s)
    OBVIOUS
  <2> QED BY <1>1, <1>2, <2>1, <2>2, <2>3
<1>5. PICK M : M = [L EXCEPT ![l] = seq]
  OBVIOUS
<1>6. PICK nx2, pv2 : /\ nx2 = [nx EXCEPT ![before] = behind, ![n] = NULL]
                      /\ pv2 = [pv EXCEPT ![behind] = before, ![n] = NULL]
  OBVIOUS
<1>7. M \in [List -> Seq(Node)] /\ M[l] = seq /\ \A m \in List : m # l => M[m] = L[m]
  BY <1>4, <1>5 DEF Chains
<1>8. /\ k - 1 \in 0..(len + 1) /\ k \in 0..(len + 1) /\ k + 1 \in 0..(len + 1)
      /\ k - 1 \in 0..len /\ k \in 0..len /\ (k - 1) + 1 = k
  BY ONLY <1>3, len \in Nat
<1>9. n \in Node /\ n = Place(l, nodes, k) /\ before \in Node \cup Sentinel /\ behind \in Node \cup Sentinel
  BY <1>1, <1>2, <1>3, <1>8, PlaceIs
<1>10. before # n /\ behind # n
  <2>1. k - 1 # k /\ k + 1 # k
    BY <1>3
  <2> QED BY <1>1, <1>2, <1>8, <1>9, <2>1, PlacesApart
<1>11. /\ nx2[n] = NULL /\ nx2[before] = behind /\ \A p \in Node \cup Sentinel : p # n /\ p # before => nx2[p] = nx[p]
       /\ pv2[n] = NULL /\ pv2[behind] = before /\ \A p \in Node \cup Sentinel : p # n /\ p # behind => pv2[p] = pv[p]
       /\ DOMAIN nx2 = Node \cup Sentinel /\ DOMAIN pv2 = Node \cup Sentinel
  BY <1>6, <1>9, <1>10 DEF Chains
<1>12. \A i \in 0..len : Place(l, seq, i) = IF i < k THEN Place(l, nodes, i) ELSE Place(l, nodes, i + 1)
  <2> TAKE i \in 0..len
  <2>1. CASE i = 0
    BY <1>3, <2>1 DEF Place
  <2>2. CASE i = len
    <3>1. i = Len(seq) + 1 /\ i # 0 /\ ~(i < k) /\ i + 1 = Len(nodes) + 1 /\ i + 1 # 0
      BY <1>2, <1>3, <1>4, <2>2
    <3> QED BY <3>1 DEF Place
  <2>3. CASE i \in 1..(len - 1)
    <3>1. i # 0 /\ i # Len(seq) + 1 /\ i # Len(nodes) + 1 /\ i + 1 # 0 /\ i + 1 # Len(nodes) + 1
      BY <1>2, <1>3, <1>4, <2>3
    <3>2. Place(l, seq, i) = seq[i] /\ Place(l, nodes, i) = nodes[i] /\ Place(l, nodes, i + 1) = nodes[i + 1]
      BY <3>1 DEF Place
    <3> QED BY <1>4, <2>3, <3>2
  <2>4. i = 0 \/ i = len \/ i \in 1..(len - 1)
    BY <1>3
  <2> QED BY <2>1, <2>2, <2>3, <2>4
<1>13. ASSUME NEW m \in List, m # l, NEW i \in 0..Len(L[m])
       PROVE  /\ nx2[Place(m, L[m], i)] = Place(m, L[m], i + 1)
              /\ pv2[Place(m, L[m], i + 1)] = Place(m, L[m], i)
  <2>1. L[m] \in Seq(Node) /\ Len(L[m]) \in Nat
    BY ChainOf
  <2>2. i \in 0..(Len(L[m]) + 1) /\ i + 1 \in 0..(Len(L[m]) + 1)
    BY <2>1
  <2>3. Place(m, L[m], i) \in Node \cup Sentinel /\ Place(m, L[m], i + 1) \in Node \cup Sentinel
    BY <2>1, <2>2, PlaceIs
  <2>4. /\ Place(m, L[m], i) # before /\ Place(m, L[m], i + 1) # behind
        /\ Place(m, L[m], i) # n /\ Place(m, L[m], i + 1) # n
    BY <1>1, <1>2, <1>8, <1>9, <1>13, <2>2, PlacesApart
  <2> QED BY <1>11, <2>3, <2>4 DEF Chains
<1>14. ASSUME NEW i \in 0..(len - 1)
       PROVE  /\ nx2[Place(l, seq, i)] = Place(l, seq, i + 1)
              /\ pv2[Place(l, seq, i + 1)] = Place(l, seq, i)
  <2>1. i \in 0..len /\ i + 1 \in 0..len
    BY <1>3
  <2>2. \A j \in 0..len : /\ nx[Place(l, nodes, j)] = Place(l, nodes, j + 1)
                          /\ pv[Place(l, nodes, j + 1)] = Place(l, nodes, j)
    BY <1>1, <1>2 DEF Chains
  <2>3. \A j \in 0..(len + 1) : /\ Place(l, nodes, j) \in Node \cup Sentinel
                                /\ Place(l, nodes, j) = before => j = k - 1
                                /\ Place(l, nodes, j) = n => j = k
                                /\ Place(l, nodes, j) = behind => j = k + 1
    <3> TAKE j \in 0..(len + 1)
    <3>1. Place(l, nodes, j) \in Node \cup Sentinel
      BY <1>2, PlaceIs
    <3>2. \A i2 \in 0..(len + 1) : Place(l, nodes, j) = Place(l, nodes, i2) => j = i2
      BY <1>1, <1>2, PlacesApart
    <3> QED BY <1>1, <1>8, <1>9, <3>1, <3>2
  <2>4. CASE i + 1 < k
    <3>1. /\ i < k /\ i \in 0..len /\ i \in 0..(len + 1) /\ i + 1 \in 0..(len + 1)
          /\ i # k - 1 /\ i # k /\ i + 1 # k /\ i + 1 # k + 1
      BY <1>3, <2>4
    <3>2. Place(l, seq, i) = Place(l, nodes, i) /\ Place(l, seq, i + 1) = Place(l, nodes, i + 1)
      BY <1>12, <2>1, <2>4, <3>1
    <3> QED BY <1>11, <2>2, <2>3, <3>1, <3>2
  <2>5. CASE i + 1 = k
    <3>1. i < k /\ i = k - 1 /\ ~(i + 1 < k)
      BY <1>3, <2>5
    <3>2. Place(l, seq, i) = before /\ Place(l, seq, i + 1) = behind
      BY <1>1, <1>12, <2>1, <2>5, <3>1
    <3> QED BY <1>11, <3>2
  <2>6. CASE i + 1 > k
    <3>1. /\ ~(i < k) /\ ~(i + 1 < k) /\ i + 1 \in 0..len /\ i + 1 \in 0..(len + 1) /\ (i + 1) + 1 \in 0..(len + 1)
          /\ i + 1 # k - 1 /\ i + 1 # k /\ (i + 1) + 1 # k /\ (i + 1) + 1 # k + 1
      BY <1>3, <2>6
    <3>2. Place(l, seq, i) = Place(l, nodes, i + 1) /\ Place(l, seq, i + 1) = Place(l, nodes, (i + 1) + 1)
      BY <1>12, <2>1, <3>1
    <3> QED BY <1>11, <2>2, <2>3, <3>1, <3>2
  <2>7. i + 1 < k \/ i + 1 = k \/ i + 1 > k
    BY <1>3
  <2> QED BY <2>4, <2>5, <2>6, <2>7
<1>15. \A m \in List : \A i \in 0..Len(M[m]) :
          /\ nx2[Place(m, M[m], i)] = Place(m, M[m], i + 1)
          /\ pv2[Place(m, M[m], i + 1)] = Place(m, M[m], i)
  <2> TAKE m \in List
  <2>1. CASE m # l
    BY <1>7, <1>13, <2>1
  <2>2. CASE m = l
    <3>1. Len(M[m]) = len - 1
      BY <1>4, <1>7, <2>2
    <3> QED BY <1>7, <1>14, <2>2, <3>1
  <2> QED BY <2>1, <2>2
<1>16. ASSUME NEW m \in List PROVE nx2[tail(m)] = NULL /\ pv2[head(m)] = NULL
  <2>1. /\ Place(m, L[m], 0) = head(m) /\ Place(m, L[m], Len(L[m]) + 1) = tail(m)
        /\ 0 \in 0..(Len(L[m]) + 1) /\ Len(L[m]) + 1 \in 0..(Len(L[m]) + 1)
    <3>1. L[m] \in Seq(Node) /\ Len(L[m]) \in Nat
      BY ChainOf
    <3> QED BY <3>1, PlaceIs
  <2>3. tail(m) # before
    <3>1. ASSUME tail(m) = before PROVE FALSE
      <4>1. m = l /\ Len(L[m]) + 1 = k - 1
        <5>1. k - 1 \in 0..(Len(L[l]) + 1)
          BY <1>1, <1>2, <1>8
        <5>2. Place(m, L[m], Len(L[m]) + 1) = Place(l, L[l], k - 1)
          BY <2>1, <3>1
        <5> QED BY <2>1, <5>1, <5>2, PlacesApart
      <4> QED BY <1>1, <1>2, <1>3, <4>1
    <3> QED BY <3>1
  <2>4. head(m) # behind
    <3>1. ASSUME head(m) = behind PROVE FALSE
      <4>1. m = l /\ 0 = k + 1
        <5>1. k + 1 \in 0..(Len(L[l]) + 1)
          BY <1>1, <1>2, <1>8
        <5>2. Place(m, L[m], 0) = Place(l, L[l], k + 1)
          BY <2>1, <3>1
        <5> QED BY <2>1, <5>1, <5>2, PlacesApart
      <4> QED BY <1>3, <4>1
    <3> QED BY <3>1
  <2> QED BY <1>9, <1>11, <2>3, <2>4, Sentinels DEF Chains
<1>17. \A a \in List : \A i \in DOMAIN M[a] : \E j \in DOMAIN L[a] :
          /\ M[a][i] = L[a][j]
          /\ a = l => (i < k /\ j = i) \/ (~(i < k) /\ j = i + 1)
          /\ a # l => i = j
  <2> SUFFICES ASSUME NEW a \in List, NEW i \in DOMAIN M[a]
               PROVE  \E j \in DOMAIN L[a] :
                         /\ M[a][i] = L[a][j]
                         /\ a = l => (i < k /\ j = i) \/ (~(i < k) /\ j = i + 1)
                         /\ a # l => i = j
    OBVIOUS
  <2>2. CASE a # l
    BY <1>7, <2>2
  <2>3. CASE a = l
    <3>1. i \in 1..(len - 1) /\ M[a][i] = IF i < k THEN nodes[i] ELSE nodes[i + 1]
      BY <1>4, <1>7, <2>3
    <3>2. i \in 1..len /\ i + 1 \in 1..len
      BY <1>3, <3>1
    <3> QED BY <1>1, <1>2, <2>3, <3>1, <3>2
  <2> QED BY <2>2, <2>3
<1>18. ASSUME NEW a \in List, NEW b \in List, NEW i \in DOMAIN M[a], NEW j \in DOMAIN M[b], M[a][i] = M[b][j]
       PROVE  a = b /\ i = j
  <2>1. PICK i2 \in DOMAIN L[a] : /\ M[a][i] = L[a][i2]
                                  /\ a = l => (i < k /\ i2 = i) \/ (~(i < k) /\ i2 = i + 1)
                                  /\ a # l => i = i2
    BY <1>17
  <2>2. PICK j2 \in DOMAIN L[b] : /\ M[b][j] = L[b][j2]
                                  /\ b = l => (j < k /\ j2 = j) \/ (~(j < k) /\ j2 = j + 1)
                                  /\ b # l => j = j2
    BY <1>17
  <2>3. a = b /\ i2 = j2
    <3>1. L[a][i2] = L[b][j2]
      BY <1>18, <2>1, <2>2
    <3> QED BY <3>1 DEF Chains
  <2>4. CASE a # l
    BY <2>1, <2>2, <2>3, <2>4
  <2>5. CASE a = l
    <3>1. i \in Nat /\ j \in Nat
      <4>1. M[a] \in Seq(Node) /\ M[b] \in Seq(Node)
        BY ONLY <1>4, <1>7, a \in List, b \in List
      <4>2. \A x \in DOMAIN M[a] \cup DOMAIN M[b] : x \in Nat
        BY ONLY <4>1
      <4> QED BY ONLY <4>2, i \in DOMAIN M[a], j \in DOMAIN M[b]
    <3> QED BY <1>3, <2>1, <2>2, <2>3, <2>5, <3>1
  <2> QED BY <2>4, <2>5
<1>19. ASSUME NEW p \in Node, \A m \in List : ~Linked(M[m], p) PROVE nx2[p] = NULL /\ pv2[p] = NULL
  <2>1. CASE p = n
    BY <1>11, <2>1
  <2>2. CASE p # n
    <3>1. ASSUME NEW m \in List, NEW j \in DOMAIN L[m], L[m][j] = p PROVE FALSE
      <4>1. CASE m # l
        BY <1>7, <1>19, <3>1, <4>1 DEF Linked
      <4>2. CASE m = l
        <5>1. j \in 1..len /\ nodes[j] = p /\ j # k
          BY <1>1, <1>2, <1>3, <2>2, <3>1, <4>2
        <5>2. CASE j < k
          <6>1. j \in 1..(len - 1)
            BY <1>3, <5>1, <5>2
          <6>2. j \in DOMAIN M[l] /\ M[l][j] = p
            BY <1>4, <1>7, <5>1, <5>2, <6>1
          <6> QED BY <1>19, <6>2 DEF Linked
        <5>3. CASE j > k
          <6>1. j - 1 \in 1..(len - 1) /\ ~(j - 1 < k) /\ (j - 1) + 1 = j
            BY <1>3, <5>1, <5>3
          <6>2. j - 1 \in DOMAIN M[l] /\ M[l][j - 1] = p
            BY <1>4, <1>7, <5>1, <6>1
          <6> QED BY <1>19, <6>2 DEF Linked
        <5> QED BY <1>3, <5>1, <5>2, <5>3
      <4> QED BY <4>1, <4>2
    <3>2. nx[p] = NULL /\ pv[p] = NULL
      BY <3>1 DEF Chains, Linked
    <3>3. \A j \in 0..len : nx[Place(l, nodes, j)] # NULL /\ pv[Place(l, nodes, j + 1)] # NULL
      <4> TAKE j \in 0..len
      <4>1. j \in 0..(len + 1) /\ j + 1 \in 0..(len + 1)
        OBVIOUS
      <4>2. Place(l, nodes, j + 1) # NULL /\ Place(l, nodes, j) # NULL
        BY <1>2, <4>1, PlaceIs, LinkedListAssumption
      <4> QED BY <1>1, <1>2, <4>2 DEF Chains
    <3>4. p # before /\ p # behind
      BY <1>1, <1>8, <3>2, <3>3
    <3> QED BY <1>11, <2>2, <3>2, <3>4
  <2> QED BY <2>1, <2>2
<1>20. Chains(M, nx2, pv2)
  BY <1>7, <1>11, <1>15, <1>16, <1>18, <1>19 DEF Chains
<1> QED BY <1>4, <1>5, <1>6, <1>20

\* A node is in no list iff both its pointers are NULL.
LEMMA UnlinkedIs ==
    ASSUME NEW L, Chains(L, next, prev), NEW n \in Node
    PROVE  IsUnlinked(n) <=> \A l \in List : ~Linked(L[l], n)
<1>1. ASSUME NEW l \in List, NEW i \in DOMAIN L[l], L[l][i] = n PROVE next[n] # NULL
  <2>1. PICK nodes \in Seq(Node) : nodes = L[l]
    BY ChainOf
  <2>2. Len(nodes) \in Nat /\ i \in 1..Len(nodes)
    BY <2>1, ChainOf
  <2>3. i \in 0..Len(nodes) /\ i + 1 \in 0..(Len(nodes) + 1)
    BY <2>2
  <2>4. Place(l, nodes, i) = n /\ Place(l, nodes, i + 1) \in Node \cup Sentinel
    BY <1>1, <2>1, <2>2, <2>3, PlaceIs
  <2>5. next[Place(l, nodes, i)] = Place(l, nodes, i + 1)
    BY <2>1, <2>3 DEF Chains
  <2> QED BY <2>4, <2>5, LinkedListAssumption
<1>2. IsUnlinked(n) => \A l \in List : ~Linked(L[l], n)
  BY <1>1 DEF IsUnlinked, Linked
<1>3. (\A l \in List : ~Linked(L[l], n)) => IsUnlinked(n)
  BY DEF IsUnlinked, Chains
<1> QED BY <1>2, <1>3

\* The chain of a list starts and ends at its sentinels.
LEMMA EndsOf ==
    ASSUME NEW L, Chains(L, next, prev), NEW l \in List
    PROVE  /\ next[head(l)] = Place(l, L[l], 1)
           /\ prev[tail(l)] = Place(l, L[l], Len(L[l]))
           /\ IsEmpty(l) <=> Len(L[l]) = 0
<1>1. PICK nodes \in Seq(Node) : nodes = L[l]
  BY ChainOf
<1>2. PICK len \in Nat : len = Len(nodes)
  BY <1>1, ChainOf
<1>3. \A i \in 0..len : /\ next[Place(l, nodes, i)] = Place(l, nodes, i + 1)
                        /\ prev[Place(l, nodes, i + 1)] = Place(l, nodes, i)
  BY <1>1, <1>2 DEF Chains
<1>4. 0 \in 0..len /\ len \in 0..len /\ 0 + 1 = 1
  OBVIOUS
<1>5. Place(l, nodes, 0) = head(l) /\ Place(l, nodes, len + 1) = tail(l)
  BY <1>2, PlaceIs
<1>6. next[head(l)] = Place(l, nodes, 1) /\ prev[tail(l)] = Place(l, nodes, len)
  BY <1>3, <1>4, <1>5
<1>7. len = 0 => Place(l, nodes, 1) = tail(l)
  BY <1>5
<1>8. len # 0 => Place(l, nodes, 1) # tail(l)
  <2>1. len # 0 => 1 \in 1..len
    OBVIOUS
  <2> QED BY <1>2, <2>1, PlaceIs, Sentinels
<1> QED BY <1>1, <1>2, <1>6, <1>7, <1>8 DEF IsEmpty

\* One list becomes seq, by one of the operators of Lists.tla.
Changed(L, l, seq) ==
    \E n \in Node :
       \/ /\ \A m \in List : ~Linked(L[m], n)
          /\ \/ seq = list_push(L[l], n)
             \/ seq = list_pushback(L[l], n)
             \/ \E k \in 1..(Len(L[l]) + 1) :
                   /\ InsertPosition([i \in DOMAIN L[l] |-> Key[L[l][i]]], Key[n], k)
                   /\ seq = InsertAt(L[l], k, n)
       \/ Linked(L[l], n) /\ seq = list_remove(L[l], n)

LEMMA PushChains ==
    ASSUME NEW L, Chains(L, next, prev), NEW l \in List, NEW n \in Node, push(l, n)
    PROVE  \E seq : Chains([L EXCEPT ![l] = seq], next', prev') /\ Changed(L, l, seq)
<1>1. \A m \in List : ~Linked(L[m], n)
  BY UnlinkedIs DEF push
<1>2. PICK before : before = Place(l, L[l], 1 - 1)
  OBVIOUS
<1>3. PICK behind : behind = Place(l, L[l], 1)
  OBVIOUS
<1>4. L[l] \in Seq(Node) /\ Len(L[l]) \in Nat /\ 1 \in 1..(Len(L[l]) + 1)
  BY ChainOf
<1>5. before = head(l) /\ behind = next[head(l)]
  <2>1. 1 - 1 = 0
    OBVIOUS
  <2> QED BY <1>2, <1>3, <1>4, <2>1, PlaceIs, EndsOf
<1>6. Chains([L EXCEPT ![l] = InsertAt(L[l], 1, n)],
             [next EXCEPT ![n] = behind, ![before] = n], [prev EXCEPT ![n] = before, ![behind] = n])
  BY <1>1, <1>2, <1>3, <1>4, InsertChains
<1>7. /\ next' = [next EXCEPT ![n] = behind, ![before] = n]
      /\ prev' = [prev EXCEPT ![n] = before, ![behind] = n]
  BY <1>5 DEF push, list_insert_after
<1>8. Changed(L, l, InsertAt(L[l], 1, n))
  BY <1>1 DEF Changed, list_push
<1> QED BY <1>6, <1>7, <1>8

\* n is linked before the place k of list l.
LEMMA BeforeChains ==
    ASSUME NEW L, Chains(L, next, prev), NEW l \in List, NEW n \in Node, IsUnlinked(n),
           NEW k \in 1..(Len(L[l]) + 1), NEW anchor, anchor = Place(l, L[l], k),
           list_insert_before(anchor, n)
    PROVE  Chains([L EXCEPT ![l] = InsertAt(L[l], k, n)], next', prev')
<1>1. \A m \in List : ~Linked(L[m], n)
  BY UnlinkedIs
<1>2. PICK before : before = Place(l, L[l], k - 1)
  OBVIOUS
<1>3. before = prev[anchor]
  <2>1. Len(L[l]) \in Nat
    BY ChainOf
  <2>2. k - 1 \in 0..Len(L[l]) /\ (k - 1) + 1 = k
    BY <2>1
  <2>3. \A i \in 0..Len(L[l]) : prev[Place(l, L[l], i + 1)] = Place(l, L[l], i)
    BY DEF Chains
  <2> QED BY <1>2, <2>2, <2>3
<1>4. Chains([L EXCEPT ![l] = InsertAt(L[l], k, n)],
             [next EXCEPT ![n] = anchor, ![before] = n], [prev EXCEPT ![n] = before, ![anchor] = n])
  BY <1>1, <1>2, InsertChains
<1>5. /\ next' = [next EXCEPT ![n] = anchor, ![before] = n]
      /\ prev' = [prev EXCEPT ![n] = before, ![anchor] = n]
  BY <1>3 DEF list_insert_before
<1> QED BY <1>4, <1>5

LEMMA PushbackChains ==
    ASSUME NEW L, Chains(L, next, prev), NEW l \in List, NEW n \in Node, pushback(l, n)
    PROVE  \E seq : Chains([L EXCEPT ![l] = seq], next', prev') /\ Changed(L, l, seq)
<1>1. \A m \in List : ~Linked(L[m], n)
  BY UnlinkedIs DEF pushback
<1>2. L[l] \in Seq(Node) /\ Len(L[l]) \in Nat /\ Len(L[l]) + 1 \in 1..(Len(L[l]) + 1)
  BY ChainOf
<1>3. tail(l) = Place(l, L[l], Len(L[l]) + 1)
  BY <1>2, PlaceIs
<1>4. Chains([L EXCEPT ![l] = InsertAt(L[l], Len(L[l]) + 1, n)], next', prev')
  BY <1>2, <1>3, BeforeChains DEF pushback
<1>5. InsertAt(L[l], Len(L[l]) + 1, n) = list_pushback(L[l], n)
  <2>1. PICK nodes \in Seq(Node) : nodes = L[l]
    BY <1>2
  <2>2. SubSeq(nodes, 1, (Len(nodes) + 1) - 1) = nodes /\ SubSeq(nodes, Len(nodes) + 1, Len(nodes)) = <<>>
    OBVIOUS
  <2>3. InsertAt(nodes, Len(nodes) + 1, n) = nodes \o <<n>> \o <<>>
    BY <2>2 DEF InsertAt
  <2> QED BY <2>1, <2>3 DEF list_pushback
<1>6. Changed(L, l, InsertAt(L[l], Len(L[l]) + 1, n))
  BY <1>1, <1>5 DEF Changed
<1> QED BY <1>4, <1>6

\* list_insert_sort finds the place of the key.
LEMMA AnchorIs ==
    ASSUME NEW L, Chains(L, next, prev), NEW l \in List, NEW n \in Node
    PROVE  \E k \in 1..(Len(L[l]) + 1) :
              /\ Anchor(l, n) = Place(l, L[l], k)
              /\ InsertPosition([i \in DOMAIN L[l] |-> Key[L[l][i]]], Key[n], k)
<1>1. PICK nodes \in Seq(Node) : nodes = L[l]
  BY ChainOf
<1>2. PICK len \in Nat : len = Len(nodes) /\ DOMAIN nodes = 1..len
  BY <1>1, ChainOf
<1>3. Forward(l) = nodes
  BY <1>1, ForwardIs DEF Forward
<1>4. \A i \in 1..len : Key[nodes[i]] \in Int
  BY <1>2, LinkedListAssumption
<1>5. Key[n] \in Int
  BY LinkedListAssumption
<1>6. PICK keys : keys = [i \in 1..len |-> Key[nodes[i]]]
  OBVIOUS
<1>7. keys \in Seq(Int) /\ Len(keys) = len /\ \A i \in 1..len : keys[i] = Key[nodes[i]] /\ keys[i] \in Int
  <2>1. keys \in [1..len -> Int]
    BY <1>4, <1>6
  <2> QED BY <1>6, <2>1
<1>8. PICK places : places = {i \in 1..len : Key[nodes[i]] > Key[n]}
  OBVIOUS
<1>9. Anchor(l, n) = FirstOf(l, places)
  BY <1>2, <1>3, <1>8 DEF Anchor
<1>10. CASE places = {}
  <2>1. Anchor(l, n) = tail(l)
    BY <1>9, <1>10 DEF FirstOf
  <2>2. Place(l, nodes, len + 1) = tail(l)
    BY <1>2, PlaceIs
  <2>3. \A i \in 1..len : keys[i] <= Key[n]
    <3> TAKE i \in 1..len
    <3>1. ~(Key[nodes[i]] > Key[n])
      BY <1>8, <1>10
    <3>2. keys[i] = Key[nodes[i]] /\ Key[nodes[i]] \in Int
      BY <1>4, <1>7
    <3> QED BY <1>5, <3>1, <3>2
  <2>4. len + 1 \in 1..(len + 1) /\ (len + 1) - 1 = len /\ ~(len + 1 <= len)
    OBVIOUS
  <2>5. InsertPosition(keys, Key[n], len + 1)
    BY <1>7, <2>3, <2>4 DEF InsertPosition
  <2> QED BY <1>1, <1>2, <1>6, <2>1, <2>2, <2>4, <2>5
<1>11. CASE places # {}
  <2>1. places \in SUBSET Nat
    BY <1>8
  <2>2. PICK k : k = CHOOSE i \in places : \A j \in places : i <= j
    OBVIOUS
  <2>3. k \in places /\ \A j \in places : k <= j
    BY <1>11, <2>1, <2>2, LeastOf
  <2>4. k \in 1..len /\ k \in 1..(len + 1) /\ keys[k] > Key[n]
    BY <1>7, <1>8, <2>3
  <2>5. Anchor(l, n) = Place(l, nodes, k)
    BY <1>2, <1>3, <1>9, <1>11, <2>2, <2>4, PlaceIs DEF FirstOf
  <2>6. \A i \in 1..(k - 1) : keys[i] <= Key[n]
    <3> TAKE i \in 1..(k - 1)
    <3>1. i \in 1..len /\ ~(k <= i)
      BY <2>4
    <3>2. i \notin places
      BY <2>3, <3>1
    <3> QED BY <1>4, <1>5, <1>7, <1>8, <3>1, <3>2
  <2>7. InsertPosition(keys, Key[n], k)
    BY <1>7, <2>4, <2>6 DEF InsertPosition
  <2> QED BY <1>1, <1>2, <1>6, <2>4, <2>5, <2>7
<1> QED BY <1>10, <1>11

LEMMA InsertSortChains ==
    ASSUME NEW L, Chains(L, next, prev), NEW l \in List, NEW n \in Node, list_insert_sort(l, n)
    PROVE  \E seq : Chains([L EXCEPT ![l] = seq], next', prev') /\ Changed(L, l, seq)
<1>1. \A m \in List : ~Linked(L[m], n)
  BY UnlinkedIs DEF list_insert_sort
<1>2. PICK k \in 1..(Len(L[l]) + 1) :
          /\ Anchor(l, n) = Place(l, L[l], k)
          /\ InsertPosition([i \in DOMAIN L[l] |-> Key[L[l][i]]], Key[n], k)
  BY AnchorIs
<1>3. Chains([L EXCEPT ![l] = InsertAt(L[l], k, n)], next', prev')
  BY <1>2, BeforeChains DEF list_insert_sort
<1>4. Changed(L, l, InsertAt(L[l], k, n))
  BY <1>1, <1>2 DEF Changed
<1> QED BY <1>3, <1>4

LEMMA UnlinkChains ==
    ASSUME NEW L, Chains(L, next, prev), NEW l \in List, NEW k \in 1..Len(L[l]), NEW n, n = L[l][k],
           Unlink(n)
    PROVE  \E seq : Chains([L EXCEPT ![l] = seq], next', prev') /\ Changed(L, l, seq)
<1>1. L[l] \in Seq(Node) /\ IsInjective(L[l]) /\ Len(L[l]) \in Nat /\ DOMAIN L[l] = 1..Len(L[l])
  BY ChainOf
<1>2. n \in Node /\ Place(l, L[l], k) = n
  BY <1>1, PlaceIs
<1>3. PICK before, behind : before = Place(l, L[l], k - 1) /\ behind = Place(l, L[l], k + 1)
  OBVIOUS
<1>4. before = prev[n] /\ behind = next[n]
  <2>1. \A i \in 0..Len(L[l]) : /\ next[Place(l, L[l], i)] = Place(l, L[l], i + 1)
                                /\ prev[Place(l, L[l], i + 1)] = Place(l, L[l], i)
    BY DEF Chains
  <2>2. k \in 0..Len(L[l]) /\ k - 1 \in 0..Len(L[l]) /\ (k - 1) + 1 = k
    BY <1>1
  <2> QED BY <1>2, <1>3, <2>1, <2>2
<1>5. Chains([L EXCEPT ![l] = RemoveAt(L[l], k)],
             [next EXCEPT ![before] = behind, ![n] = NULL], [prev EXCEPT ![behind] = before, ![n] = NULL])
  BY <1>3, RemoveChains
<1>6. /\ next' = [next EXCEPT ![before] = behind, ![n] = NULL]
      /\ prev' = [prev EXCEPT ![behind] = before, ![n] = NULL]
  BY <1>4 DEF Unlink
<1>7. Linked(L[l], n)
  BY <1>1 DEF Linked
<1>8. RemoveAt(L[l], k) = list_remove(L[l], n)
  <2>1. \A i \in DOMAIN L[l] : L[l][i] = n => i = k
    BY <1>1 DEF IsInjective
  <2>2. k \in DOMAIN L[l]
    BY <1>1
  <2>3. k = CHOOSE i \in DOMAIN L[l] : L[l][i] = n
    BY <2>1, <2>2
  <2> QED BY <2>3 DEF list_remove
<1>9. Changed(L, l, RemoveAt(L[l], k))
  BY <1>2, <1>7, <1>8 DEF Changed
<1> QED BY <1>5, <1>6, <1>9

\* The chains after a step: one list is changed.
LEMMA StepChains ==
    ASSUME NEW L, Chains(L, next, prev), LinkedListNext
    PROVE  \E l \in List : \E seq : Chains([L EXCEPT ![l] = seq], next', prev') /\ Changed(L, l, seq)
<1>1. ASSUME NEW l \in List, list_pop(l)
      PROVE  \E seq : Chains([L EXCEPT ![l] = seq], next', prev') /\ Changed(L, l, seq)
  <2>1. L[l] \in Seq(Node) /\ Len(L[l]) \in Nat /\ Len(L[l]) # 0
    BY <1>1, ChainOf, EndsOf DEF list_pop
  <2>2. 1 \in 1..Len(L[l])
    BY <2>1
  <2>3. next[head(l)] = L[l][1]
    BY <2>1, <2>2, EndsOf, PlaceIs
  <2> QED BY <1>1, <2>2, <2>3, UnlinkChains DEF list_pop
<1>2. ASSUME NEW l \in List, list_popback(l)
      PROVE  \E seq : Chains([L EXCEPT ![l] = seq], next', prev') /\ Changed(L, l, seq)
  <2>1. L[l] \in Seq(Node) /\ Len(L[l]) \in Nat /\ Len(L[l]) # 0
    BY <1>2, ChainOf, EndsOf DEF list_popback
  <2>2. Len(L[l]) \in 1..Len(L[l])
    BY <2>1
  <2>3. prev[tail(l)] = L[l][Len(L[l])]
    BY <2>1, <2>2, EndsOf, PlaceIs
  <2> QED BY <1>2, <2>2, <2>3, UnlinkChains DEF list_popback
<1>3. ASSUME NEW n \in Node, remove(n)
      PROVE  \E l \in List : \E seq : Chains([L EXCEPT ![l] = seq], next', prev') /\ Changed(L, l, seq)
  <2>1. PICK l \in List : Linked(L[l], n)
    BY <1>3, UnlinkedIs DEF remove
  <2>2. PICK k \in DOMAIN L[l] : L[l][k] = n
    BY <2>1 DEF Linked
  <2>3. k \in 1..Len(L[l])
    BY ChainOf
  <2> QED BY <1>3, <2>2, <2>3, UnlinkChains DEF remove
<1> QED BY <1>1, <1>2, <1>3, PushChains, PushbackChains, InsertSortChains DEF LinkedListNext

(***************************************************************************)
(* The inductive invariant of the pointers: there are sequences whose      *)
(* chains they are.                                                        *)
(***************************************************************************)
ChainInv == \E L : Chains(L, next, prev)

LEMMA InitChains == LinkedListInit => Chains([l \in List |-> <<>>], next, prev)
<1> SUFFICES ASSUME LinkedListInit PROVE Chains([l \in List |-> <<>>], next, prev)
  OBVIOUS
<1>1. PICK L : L = [l \in List |-> <<>>]
  OBVIOUS
<1>2. L \in [List -> Seq(Node)] /\ \A l \in List : L[l] = <<>> /\ DOMAIN L[l] = {} /\ Len(L[l]) = 0
  BY <1>1
<1>3. \A l \in List : /\ next[head(l)] = tail(l) /\ prev[tail(l)] = head(l)
                      /\ next[tail(l)] = NULL /\ prev[head(l)] = NULL
  BY Sentinels DEF LinkedListInit, head, tail
<1>4. \A n \in Node : next[n] = NULL /\ prev[n] = NULL
  BY Sentinels DEF LinkedListInit
<1>5. ASSUME NEW l \in List, NEW i \in 0..Len(L[l])
      PROVE  /\ next[Place(l, L[l], i)] = Place(l, L[l], i + 1)
             /\ prev[Place(l, L[l], i + 1)] = Place(l, L[l], i)
  <2>1. i = 0 /\ i + 1 # 0 /\ i + 1 = Len(L[l]) + 1
    BY <1>2
  <2> QED BY <1>3, <2>1 DEF Place
<1>6. DOMAIN next = Node \cup Sentinel /\ DOMAIN prev = Node \cup Sentinel
  BY DEF LinkedListInit
<1>7. Chains(L, next, prev)
  BY <1>2, <1>3, <1>4, <1>5, <1>6 DEF Chains
<1> QED BY <1>1, <1>7

LEMMA StepChainInv == ChainInv /\ [LinkedListNext]_pointers => ChainInv'
<1> SUFFICES ASSUME ChainInv, [LinkedListNext]_pointers PROVE ChainInv'
  OBVIOUS
<1>1. PICK L : Chains(L, next, prev)
  BY DEF ChainInv
<1>2. CASE LinkedListNext
  <2>1. \E l \in List : \E seq : Chains([L EXCEPT ![l] = seq], next', prev')
    BY <1>1, <1>2, StepChains
  <2>2. \E M : Chains(M, next', prev')
    BY <2>1
  <2> QED BY <2>2 DEF ChainInv, Chains, Place
<1>3. CASE UNCHANGED pointers
  <2>1. Chains(L, next', prev')
    BY <1>1, <1>3 DEF pointers
  <2> QED BY <2>1 DEF ChainInv, Chains, Place
<1> QED BY <1>2, <1>3

LEMMA ChainsTwoWays == ChainInv => TwoWays
<1> SUFFICES ASSUME NEW L, Chains(L, next, prev) PROVE TwoWays
  BY DEF ChainInv
<1>1. ASSUME NEW l \in List PROVE Forward(l) = L[l] /\ Forward(l) = Reverse(Walk(tail(l), head(l), prev))
  <2>1. Forward(l) = L[l]
    BY ForwardIs DEF Forward
  <2>2. PICK nodes \in Seq(Node) : nodes = L[l]
    BY ChainOf
  <2>3. Walk(tail(l), head(l), prev) = Reverse(nodes)
    BY <2>2, BackwardIs
  <2>4. Reverse(Reverse(nodes)) = nodes
    BY ReverseIs
  <2> QED BY <2>1, <2>2, <2>3, <2>4
<1>2. \A l \in List : next[tail(l)] = NULL /\ prev[head(l)] = NULL
  BY DEF Chains
<1>3. \A n \in Node : IsUnlinked(n) <=> \A l \in List : ~Linked(Forward(l), n)
  BY <1>1, UnlinkedIs
<1> QED BY <1>1, <1>2, <1>3 DEF TwoWays

(***************************************************************************)
(* After any calls of src/lib/list.c each list reads the same both ways,   *)
(* and a node's pointers are NULL exactly while it is in no list: what     *)
(* IS_UNLINKED_NODE tests in list_push, list_remove and task_block.        *)
(***************************************************************************)
THEOREM ListsTwoWays == LinkedListSpec => []TwoWays
<1>1. LinkedListInit => ChainInv
  BY InitChains DEF ChainInv
<1> QED BY <1>1, StepChainInv, ChainsTwoWays, PTL DEF LinkedListSpec

\* The sequence the walk reads is the sequence of the chain, also after a step.
LEMMA ForwardAll ==
    ASSUME NEW L, NEW nx, NEW pv, Chains(L, nx, pv)
    PROVE  [l \in List |-> Walk(head(l), tail(l), nx)] = L
<1>1. \A l \in List : Walk(head(l), tail(l), nx) = L[l]
  BY ForwardIs
<1>2. L = [l \in List |-> L[l]]
  BY DEF Chains
<1> QED BY <1>1, <1>2

\* The operators of Lists.tla are the same in the instance.
LEMMA SameOperators ==
    /\ \A s, n : /\ Abstract!Linked(s, n) <=> Linked(s, n)
                 /\ Abstract!list_push(s, n) = list_push(s, n)
                 /\ Abstract!list_pushback(s, n) = list_pushback(s, n)
                 /\ Abstract!list_remove(s, n) = list_remove(s, n)
    /\ \A s, x, k : Abstract!InsertPosition(s, x, k) <=> InsertPosition(s, x, k)
    /\ \A s, k, n : Abstract!InsertAt(s, k, n) = InsertAt(s, k, n)
<1>1. \A s, n : Abstract!Linked(s, n) <=> Linked(s, n)
  BY DEF Abstract!Linked, Linked
<1>2. \A s, k, n : Abstract!InsertAt(s, k, n) = InsertAt(s, k, n)
  BY DEF Abstract!InsertAt, InsertAt
<1>3. \A s, n : Abstract!list_push(s, n) = list_push(s, n)
  BY <1>2 DEF Abstract!list_push, list_push
<1>4. \A s, n : Abstract!list_pushback(s, n) = list_pushback(s, n)
  BY DEF Abstract!list_pushback, list_pushback
<1>5. \A s, k : Abstract!RemoveAt(s, k) = RemoveAt(s, k)
  BY DEF Abstract!RemoveAt, RemoveAt
<1>6. \A s, n : Abstract!list_remove(s, n) = list_remove(s, n)
  BY <1>5 DEF Abstract!list_remove, list_remove
<1>7. \A s, x, k : Abstract!InsertPosition(s, x, k) <=> InsertPosition(s, x, k)
  BY DEF Abstract!InsertPosition, InsertPosition
<1> QED BY <1>1, <1>2, <1>3, <1>4, <1>6, <1>7

(***************************************************************************)
(* Every call of src/lib/list.c is, on the sequences between the           *)
(* sentinels, an operator of Lists.tla: the modules that use these         *)
(* operators for the kernel's lists use what the pointers do.              *)
(***************************************************************************)
THEOREM PointersImplementLists == LinkedListSpec => ImplementsLists
<1>1. LinkedListInit => ChainInv /\ Abstract!ListInit
  <2> SUFFICES ASSUME LinkedListInit PROVE ChainInv /\ Abstract!ListInit
    OBVIOUS
  <2>1. PICK L : L = [l \in List |-> <<>>] /\ Chains(L, next, prev)
    BY InitChains
  <2>2. [l \in List |-> Walk(head(l), tail(l), next)] = L
    BY <2>1, ForwardAll
  <2> QED BY <2>1, <2>2 DEF ChainInv, Abstract!ListInit, lists, Forward
<1>2. ChainInv /\ [LinkedListNext]_pointers =>
          ChainInv' /\ [Abstract!ListNext]_lists
  <2> SUFFICES ASSUME ChainInv, [LinkedListNext]_pointers
               PROVE  [Abstract!ListNext]_lists
    BY StepChainInv
  <2>1. CASE UNCHANGED pointers
    <3>1. next' = next
      BY <2>1 DEF pointers
    <3>2. [l \in List |-> Walk(head(l), tail(l), next')] = [l \in List |-> Walk(head(l), tail(l), next)]
      BY <3>1
    <3> QED BY <3>2 DEF Forward, lists
  <2>2. CASE LinkedListNext
    <3>1. Chains(lists, next, prev)
      BY ForwardAll DEF ChainInv, Forward, lists
    <3>2. PICK l \in List :
             \E seq : Chains([lists EXCEPT ![l] = seq], next', prev') /\ Changed(lists, l, seq)
      BY <2>2, <3>1, StepChains
    <3>3. PICK seq : Chains([lists EXCEPT ![l] = seq], next', prev') /\ Changed(lists, l, seq)
      BY <3>2
    <3>4. [m \in List |-> Walk(head(m), tail(m), next')] = [lists EXCEPT ![l] = seq]
      BY <3>3, ForwardAll
    <3>5. lists' = [lists EXCEPT ![l] = seq]
      BY <3>4 DEF lists, Forward
    <3>6. Abstract!Becomes(l, seq)
      BY <3>5 DEF Abstract!Becomes
    <3>7. \A n \in Node : (\A m \in List : ~Linked(lists[m], n)) => Abstract!Unlinked(n)
      BY SameOperators DEF Abstract!Unlinked
    <3>8. PICK n \in Node :
             \/ /\ Abstract!Unlinked(n)
                /\ \/ seq = list_push(lists[l], n)
                   \/ seq = list_pushback(lists[l], n)
                   \/ \E k \in 1..(Len(lists[l]) + 1) :
                         /\ InsertPosition([i \in DOMAIN lists[l] |-> Key[lists[l][i]]], Key[n], k)
                         /\ seq = InsertAt(lists[l], k, n)
             \/ Linked(lists[l], n) /\ seq = list_remove(lists[l], n)
      BY <3>3, <3>7 DEF Changed
    <3> QED BY <3>6, <3>8, SameOperators DEF Abstract!ListNext
  <2> QED BY <2>1, <2>2
<1> QED BY <1>1, <1>2, PTL DEF LinkedListSpec, ImplementsLists, Abstract!ListSpec
=============================================================================
