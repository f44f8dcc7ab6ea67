---------------------------- MODULE BufferProofs ----------------------------
(***************************************************************************)
(* Proofs about BufferCache.tla, for every number of tasks, buffers and    *)
(* blocks: one buffer for a block, the locks of the buffers, the count of  *)
(* their users, and the contents they return.                              *)
(***************************************************************************)
EXTENDS BufferCache, TaskProofs, FiniteSetTheorems

Label == {"user", "fs", "get_free_buffer", "lock", "bread", "bwrite", "brelse", "panic"}

\* The calls in which a task has a buffer.
About == {"lock", "bread", "bwrite", "brelse"}

KernelOK ==
    /\ TaskInv
    /\ current \in Task
    /\ pc \in [Task -> Label]
    /\ pc[Idle] = "user"
    /\ buf \in [Task -> Buffer \cup {0}]
    /\ \A t \in Task : pc[t] \in About => buf[t] \in Buffer

CacheOK ==
    /\ free_list \in Seq(Buffer)
    /\ buffer_count \in 0..BufferCount
    /\ block \in [Buffer -> Block \cup {NoBlock}]
    /\ OneBufferPerBlock

\* The holder of a buffer's lock is the task that reads it.
ReaderIsHolder ==
    \A bf \in Buffer, t \in Task :
       lock[bf].holder = t <=> pc[t] = "bread" /\ buf[t] = bf

\* The list of a lock holds the tasks blocked in lock_acquire of it.
LockWaiters ==
    \A bf \in Buffer :
       /\ IsInjective(lock[bf].waiters)
       /\ \A t \in Task : Linked(lock[bf].waiters, t)
                            <=> pc[t] = "lock" /\ buf[t] = bf /\ state[t] = "BLOCKED"

WokenWaiter ==
    \A bf \in Buffer :
       lock[bf].waiters # <<>> /\ lock[bf].holder = Boot
          => \E t \in Task : pc[t] = "lock" /\ buf[t] = bf /\ state[t] # "BLOCKED"

LockType == lock \in [Buffer -> [holder : Task \cup {Boot}, waiters : Seq(Task)]]

LockOK == LockType /\ ReaderIsHolder /\ LockWaiters /\ WokenWaiter

BufferInv == KernelOK /\ CacheOK /\ LockOK

LEMMA InitBufferInv == BufferInit => BufferInv
<1> SUFFICES ASSUME BufferInit PROVE BufferInv
  OBVIOUS
<1> USE TaskAssumption, BufferAssumption DEF BufferInit, KernelInit
<1>1. KernelOK
  <2>1. TaskTypeOK
    BY DEF TaskTypeOK, State
  <2>2. TaskInv
    BY <2>1 DEF TaskInv, RunningIsCurrent, IdleIsRunnable
  <2> QED BY <2>2 DEF KernelOK, Label, About
<1>2. CacheOK
  BY DEF CacheOK, OneBufferPerBlock
<1>3. LockType
  BY DEF LockType
<1>4. \A bf \in Buffer : lock[bf].holder = Boot /\ lock[bf].waiters = <<>>
  OBVIOUS
<1>5. ReaderIsHolder /\ LockWaiters /\ WokenWaiter
  BY <1>4 DEF ReaderIsHolder, LockWaiters, WokenWaiter, Linked, IsInjective
<1> QED BY <1>1, <1>2, <1>3, <1>5 DEF BufferInv, LockOK

-----------------------------------------------------------------------------
(***************************************************************************)
(* What a call of schedule() does: cur enters state s and W is awake.      *)
(***************************************************************************)
LEMMA CurrentRuns ==
    ASSUME KernelOK
    PROVE  current \in Task /\ state[current] = "RUNNING"
BY DEF KernelOK, TaskInv, RunningIsCurrent

LEMMA ScheduleStates ==
    ASSUME KernelOK, NEW W \in SUBSET Waiters(state),
           NEW s \in {"RUNNING", "BLOCKED"}, s # "RUNNING" => current # Idle,
           schedule(Entering(Unblocked(state, W), current, s))
    PROVE  /\ TaskNext
           /\ current' \in Task
           /\ \A t \in Task : state'[t] = "BLOCKED"
                 <=> IF t = current THEN s = "BLOCKED"
                     ELSE state[t] = "BLOCKED" /\ t \notin W
<1> DEFINE st == Entering(Unblocked(state, W), current, s)
<1>1. /\ st = [t \in Task |-> IF t = current THEN s
                              ELSE IF t \in W THEN "READY" ELSE state[t]]
      /\ current \in Task
      /\ state \in [Task -> State]
      /\ st[Idle] \in {"READY", "RUNNING"}
  BY TaskAssumption DEF Entering, Unblocked, KernelOK, TaskTypeOK, TaskInv,
     IdleIsRunnable
<1>2. st \in [Task -> State]
  BY <1>1 DEF State, Sleeping
<1> HIDE DEF st
<1>3. /\ current' \in Candidates(st, current)
      /\ state' = Switched(st, current, current')
  BY DEF schedule, st
<1>4. st[Idle] \notin Sleeping
  BY <1>1 DEF Sleeping
<1>5. current' \in Task
  BY <1>1, <1>2, <1>3, CandidatesCanRun
<1>6. \A t \in Task : state'[t] = "BLOCKED" <=> st[t] = "BLOCKED"
  BY <1>1, <1>2, <1>3, <1>4, SwitchKeepsWaits DEF Sleeping
<1>7. WakeAndSwitch
  BY <1>1, <1>3, TaskAssumption DEF st, WakeAndSwitch, Sleeping
<1> QED BY <1>1, <1>5, <1>6, <1>7 DEF TaskNext

\* Tasks are woken, and the current one yields.
LEMMA WakeStates ==
    ASSUME KernelOK, NEW W \in SUBSET Waiters(state), schedule(Unblocked(state, W))
    PROVE  /\ TaskNext
           /\ current' \in Task
           /\ \A t \in Task : state'[t] = "BLOCKED" <=> state[t] = "BLOCKED" /\ t \notin W
<1>1. current \notin W
  BY CurrentRuns DEF Waiters, Sleeping
<1>2. Unblocked(state, W) = Entering(Unblocked(state, W), current, "RUNNING")
  BY <1>1, CurrentRuns DEF Unblocked, Entering
<1> QED BY <1>2, CurrentRuns, ScheduleStates

(***************************************************************************)
(* Task t goes to label l with buffer b.                                   *)
(***************************************************************************)
Moves(t, l, b) ==
    /\ t # Idle
    /\ l \in Label /\ b \in Buffer \cup {0}
    /\ l \in About => b \in Buffer
    /\ pc' = [pc EXCEPT ![t] = l]
    /\ buf' = [buf EXCEPT ![t] = b]

Scheduled == [TaskNext]_taskVars /\ current' \in Task

LEMMA MoveKeepsKernel ==
    ASSUME KernelOK, Scheduled, NEW t \in Task, NEW l, NEW b, Moves(t, l, b)
    PROVE  KernelOK'
<1>1. TaskInv'
  BY StepTaskInv DEF Scheduled, KernelOK
<1>2. current' \in Task
  BY DEF Scheduled
<1>3. pc' \in [Task -> Label] /\ buf' \in [Task -> Buffer \cup {0}]
  BY DEF Moves, KernelOK
<1>4. pc'[Idle] = "user"
  BY DEF Moves, KernelOK
<1>5. \A u \in Task : pc'[u] \in About => buf'[u] \in Buffer
  BY DEF Moves, KernelOK
<1> QED BY <1>1, <1>2, <1>3, <1>4, <1>5 DEF KernelOK

LEMMA StayKeepsKernel ==
    ASSUME KernelOK, Scheduled, UNCHANGED <<pc, buf>>
    PROVE  KernelOK'
<1>1. TaskInv'
  BY StepTaskInv DEF Scheduled, KernelOK
<1> QED BY <1>1 DEF Scheduled, KernelOK

LEMMA StayIsScheduled == ASSUME KernelOK, Stay PROVE Scheduled /\ UNCHANGED state
BY DEF KernelOK, Stay, Scheduled, taskVars

LEMMA BlockAtMoves ==
    ASSUME KernelOK, NEW t \in Task, t = current, t # Idle,
           NEW l \in Label, NEW b \in Buffer \cup {0}, l \in About => b \in Buffer,
           BlockAt(t, l, b)
    PROVE  /\ Scheduled
           /\ Moves(t, l, b)
           /\ \A u \in Task : state'[u] = "BLOCKED" <=> u = t \/ state[u] = "BLOCKED"
<1>1. {} \in SUBSET Waiters(state)
  OBVIOUS
<1>2. state = Unblocked(state, {})
  BY DEF KernelOK, TaskInv, TaskTypeOK, Unblocked
<1>3. schedule(Entering(Unblocked(state, {}), current, "BLOCKED"))
  BY <1>2 DEF BlockAt
<1>4. /\ TaskNext /\ current' \in Task
      /\ \A u \in Task : state'[u] = "BLOCKED"
            <=> IF u = current THEN "BLOCKED" = "BLOCKED"
                ELSE state[u] = "BLOCKED" /\ u \notin {}
  BY <1>1, <1>3, ScheduleStates
<1>5. Moves(t, l, b)
  BY DEF BlockAt, Goto, Moves
<1> QED BY <1>4, <1>5 DEF Scheduled

-----------------------------------------------------------------------------
(***************************************************************************)
(* The locks of the buffers.  A step that is not about a lock keeps LockOK *)
(* when nobody comes to, leaves or is woken in "lock" and "bread".         *)
(***************************************************************************)
LEMMA QuietKeepsLock ==
    ASSUME LockOK, UNCHANGED lock,
           \A u \in Task :
              \/ /\ pc'[u] = pc[u] /\ buf'[u] = buf[u]
                 /\ pc[u] = "lock" => (state'[u] = "BLOCKED" <=> state[u] = "BLOCKED")
              \/ pc[u] \notin {"lock", "bread"} /\ pc'[u] \notin {"lock", "bread"}
    PROVE  LockOK'
<1>1. LockType' /\ ReaderIsHolder'
  BY DEF LockOK, LockType, ReaderIsHolder
<1>2. \A u \in Task, bf \in Buffer :
         pc'[u] = "lock" /\ buf'[u] = bf <=> pc[u] = "lock" /\ buf[u] = bf
  OBVIOUS
<1>3. \A u \in Task : pc[u] = "lock" => (state'[u] = "BLOCKED" <=> state[u] = "BLOCKED")
  OBVIOUS
<1>4. LockWaiters'
  BY <1>2, <1>3 DEF LockOK, LockWaiters, Linked
<1>5. WokenWaiter'
  BY <1>2, <1>3 DEF LockOK, WokenWaiter
<1> QED BY <1>1, <1>4, <1>5 DEF LockOK

\* A task that is at neither label moves to neither.
LEMMA MoveKeepsLock ==
    ASSUME KernelOK, LockOK, NEW t \in Task, NEW l, NEW b, Moves(t, l, b),
           pc[t] \notin {"lock", "bread"}, l \notin {"lock", "bread"},
           UNCHANGED lock,
           \A u \in Task : u # t => (state'[u] = "BLOCKED" <=> state[u] = "BLOCKED")
    PROVE  LockOK'
<1>1. \A u \in Task : u # t => pc'[u] = pc[u] /\ buf'[u] = buf[u]
  BY DEF Moves, KernelOK
<1>2. pc'[t] = l
  BY DEF Moves, KernelOK
<1> QED BY <1>1, <1>2, QuietKeepsLock

\* The lock of bf is free: t takes it and blocks until its block is read.
LEMMA LockTaken ==
    ASSUME KernelOK, LockOK, NEW t \in Task, NEW bf \in Buffer, t = current, t # Idle,
           pc[t] = "fs" \/ (pc[t] = "lock" /\ buf[t] = bf),
           lock[bf].holder = Boot,
           lock' = [lock EXCEPT ![bf].holder = t],
           Moves(t, "bread", bf),
           \A u \in Task : state'[u] = "BLOCKED" <=> u = t \/ state[u] = "BLOCKED"
    PROVE  LockOK'
<1>1. LockType'
  <2>1. lock \in [Buffer -> [holder : Task \cup {Boot}, waiters : Seq(Task)]]
    BY DEF LockOK, LockType
  <2>2. lock' = [lock EXCEPT ![bf].holder = t] /\ t \in Task \cup {Boot}
    OBVIOUS
  <2> QED BY ONLY <2>1, <2>2 DEF LockType
<1>2. /\ lock'[bf].holder = t /\ lock'[bf].waiters = lock[bf].waiters
      /\ \A bg \in Buffer : bg # bf => lock'[bg] = lock[bg]
  BY DEF LockOK, LockType
<1>3. /\ pc'[t] = "bread" /\ buf'[t] = bf
      /\ \A u \in Task : u # t => pc'[u] = pc[u] /\ buf'[u] = buf[u]
  BY DEF Moves, KernelOK
<1>4. state[t] # "BLOCKED"
  BY CurrentRuns
<1>5. ReaderIsHolder'
  <2> SUFFICES ASSUME NEW bg \in Buffer, NEW u \in Task
               PROVE  lock'[bg].holder = u <=> pc'[u] = "bread" /\ buf'[u] = bg
    BY DEF ReaderIsHolder
  <2>1. lock[bg].holder = u <=> pc[u] = "bread" /\ buf[u] = bg
    BY DEF LockOK, ReaderIsHolder
  <2>2. CASE bg = bf
    BY <1>2, <1>3, <2>1, <2>2, TaskAssumption
  <2>3. CASE bg # bf
    BY <1>2, <1>3, <2>1, <2>3
  <2> QED BY <2>2, <2>3
<1>6. LockWaiters'
  <2> SUFFICES ASSUME NEW bg \in Buffer
               PROVE  /\ IsInjective(lock'[bg].waiters)
                      /\ \A u \in Task : Linked(lock'[bg].waiters, u)
                            <=> pc'[u] = "lock" /\ buf'[u] = bg /\ state'[u] = "BLOCKED"
    BY DEF LockWaiters
  <2>1. lock'[bg].waiters = lock[bg].waiters
    BY <1>2
  <2>2. /\ IsInjective(lock[bg].waiters)
        /\ \A u \in Task : Linked(lock[bg].waiters, u)
              <=> pc[u] = "lock" /\ buf[u] = bg /\ state[u] = "BLOCKED"
    BY DEF LockOK, LockWaiters
  <2> QED BY <1>3, <1>4, <2>1, <2>2
<1>7. WokenWaiter'
  <2> SUFFICES ASSUME NEW bg \in Buffer,
                      lock'[bg].waiters # <<>>, lock'[bg].holder = Boot
               PROVE  \E u \in Task : pc'[u] = "lock" /\ buf'[u] = bg /\ state'[u] # "BLOCKED"
    BY DEF WokenWaiter
  <2>1. bg # bf
    BY <1>2, TaskAssumption
  <2>2. PICK u \in Task : pc[u] = "lock" /\ buf[u] = bg /\ state[u] # "BLOCKED"
    BY <1>2, <2>1 DEF LockOK, WokenWaiter
  <2>3. u # t
    BY <2>1, <2>2
  <2> QED BY <1>3, <2>2, <2>3
<1> QED BY <1>1, <1>5, <1>6, <1>7 DEF LockOK

\* The lock of bf is taken: t blocks in its list.
LEMMA LockWaited ==
    ASSUME KernelOK, LockOK, NEW t \in Task, NEW bf \in Buffer, t = current, t # Idle,
           pc[t] = "fs" \/ (pc[t] = "lock" /\ buf[t] = bf),
           lock[bf].holder # Boot,
           lock' = [lock EXCEPT ![bf].waiters = list_push(@, t)],
           Moves(t, "lock", bf),
           \A u \in Task : state'[u] = "BLOCKED" <=> u = t \/ state[u] = "BLOCKED"
    PROVE  LockOK'
<1> DEFINE w == lock[bf].waiters
<1>1. /\ pc'[t] = "lock" /\ buf'[t] = bf
      /\ \A u \in Task : u # t => pc'[u] = pc[u] /\ buf'[u] = buf[u]
  BY DEF Moves, KernelOK
<1>2. state[t] # "BLOCKED"
  BY CurrentRuns
<1>3. w \in Seq(Task) /\ IsInjective(w) /\ ~Linked(w, t)
  BY <1>2 DEF LockOK, LockType, LockWaiters
<1> HIDE DEF w
<1>4. 1 \in 1..(Len(w) + 1)
  BY <1>3
<1>5. /\ list_push(w, t) \in Seq(Task) /\ IsInjective(list_push(w, t))
      /\ \A u : Linked(list_push(w, t), u) <=> Linked(w, u) \/ u = t
  BY <1>3, <1>4, InsertAtElements, InsertLinks DEF list_push
<1>6. /\ lock'[bf].waiters = list_push(w, t)
      /\ \A bg \in Buffer : lock'[bg].holder = lock[bg].holder
      /\ \A bg \in Buffer : bg # bf => lock'[bg] = lock[bg]
  BY DEF LockOK, LockType, w
<1>7. LockType'
  BY <1>5 DEF LockOK, LockType, w
<1>8. ReaderIsHolder'
  BY <1>1, <1>6 DEF LockOK, ReaderIsHolder
<1>9. LockWaiters'
  <2> SUFFICES ASSUME NEW bg \in Buffer
               PROVE  /\ IsInjective(lock'[bg].waiters)
                      /\ \A u \in Task : Linked(lock'[bg].waiters, u)
                            <=> pc'[u] = "lock" /\ buf'[u] = bg /\ state'[u] = "BLOCKED"
    BY DEF LockWaiters
  <2>1. /\ IsInjective(lock[bg].waiters)
        /\ \A u \in Task : Linked(lock[bg].waiters, u)
              <=> pc[u] = "lock" /\ buf[u] = bg /\ state[u] = "BLOCKED"
    BY DEF LockOK, LockWaiters
  <2>2. CASE bg = bf
    BY <1>1, <1>5, <1>6, <2>1, <2>2 DEF w
  <2>3. CASE bg # bf
    BY <1>1, <1>2, <1>6, <2>1, <2>3
  <2> QED BY <2>2, <2>3
<1>10. WokenWaiter'
  <2> SUFFICES ASSUME NEW bg \in Buffer,
                      lock'[bg].waiters # <<>>, lock'[bg].holder = Boot
               PROVE  \E u \in Task : pc'[u] = "lock" /\ buf'[u] = bg /\ state'[u] # "BLOCKED"
    BY DEF WokenWaiter
  <2>1. bg # bf
    BY <1>6
  <2>2. PICK u \in Task : pc[u] = "lock" /\ buf[u] = bg /\ state[u] # "BLOCKED"
    BY <1>6, <2>1 DEF LockOK, WokenWaiter
  <2>3. u # t
    BY <2>1, <2>2
  <2> QED BY <1>1, <2>2, <2>3
<1> QED BY <1>7, <1>8, <1>9, <1>10 DEF LockOK

\* The lock of bf becomes free and W, one of its waiters if there are any, wakes.
Frees(bf, W) ==
    /\ lock' = [lock EXCEPT ![bf] = lock'[bf]]
    /\ lock'[bf].holder = Boot
    /\ IsInjective(lock'[bf].waiters)
    /\ W \subseteq Task
    /\ \A u \in W : pc[u] = "lock" /\ buf[u] = bf
    /\ \A u \in Task : Linked(lock'[bf].waiters, u)
                          <=> Linked(lock[bf].waiters, u) /\ u \notin W
    /\ \A u \in Task : state'[u] = "BLOCKED" <=> state[u] = "BLOCKED" /\ u \notin W
    /\ lock'[bf].waiters # <<>> => W # {}

\* Task t has read its buffer, or was woken and found it valid.
LEMMA LockFreed ==
    ASSUME KernelOK, LockOK, NEW t \in Task, NEW bf \in Buffer, t = current,
           buf[t] = bf, pc[t] = "bread" \/ (pc[t] = "lock" /\ lock[bf].holder = Boot),
           Moves(t, "fs", 0), LockType', NEW W, t \notin W, Frees(bf, W)
    PROVE  LockOK'
<1>1. /\ pc'[t] = "fs" /\ buf'[t] = 0 /\ 0 \notin Buffer
      /\ \A u \in Task : u # t => pc'[u] = pc[u] /\ buf'[u] = buf[u]
  BY DEF Moves, KernelOK, Buffer
<1>2. state[t] # "BLOCKED"
  BY CurrentRuns
<1>3. \A bg \in Buffer : bg # bf => lock'[bg] = lock[bg]
  BY DEF Frees, LockOK, LockType
<1>4. ReaderIsHolder'
  <2> SUFFICES ASSUME NEW bg \in Buffer, NEW u \in Task
               PROVE  lock'[bg].holder = u <=> pc'[u] = "bread" /\ buf'[u] = bg
    BY DEF ReaderIsHolder
  <2>1. /\ lock[bg].holder = u <=> pc[u] = "bread" /\ buf[u] = bg
        /\ lock[bg].holder = t <=> pc[t] = "bread" /\ buf[t] = bg
    BY DEF LockOK, ReaderIsHolder
  <2>2. CASE bg = bf
    <3>1. lock'[bg].holder = Boot
      BY <2>2 DEF Frees
    <3> QED BY <1>1, <2>1, <2>2, <3>1, TaskAssumption
  <2>3. CASE bg # bf
    BY <1>1, <1>3, <2>1, <2>3
  <2> QED BY <2>2, <2>3
<1>5. LockWaiters'
  <2> SUFFICES ASSUME NEW bg \in Buffer
               PROVE  /\ IsInjective(lock'[bg].waiters)
                      /\ \A u \in Task : Linked(lock'[bg].waiters, u)
                            <=> pc'[u] = "lock" /\ buf'[u] = bg /\ state'[u] = "BLOCKED"
    BY DEF LockWaiters
  <2>1. /\ IsInjective(lock[bg].waiters)
        /\ \A u \in Task : Linked(lock[bg].waiters, u)
              <=> pc[u] = "lock" /\ buf[u] = bg /\ state[u] = "BLOCKED"
    BY DEF LockOK, LockWaiters
  <2>2. CASE bg = bf
    BY <1>1, <1>2, <2>1, <2>2 DEF Frees
  <2>3. CASE bg # bf
    BY <1>1, <1>2, <1>3, <2>1, <2>3 DEF Frees
  <2> QED BY <2>2, <2>3
<1>6. WokenWaiter'
  <2> SUFFICES ASSUME NEW bg \in Buffer,
                      lock'[bg].waiters # <<>>, lock'[bg].holder = Boot
               PROVE  \E u \in Task : pc'[u] = "lock" /\ buf'[u] = bg /\ state'[u] # "BLOCKED"
    BY DEF WokenWaiter
  <2>1. CASE bg = bf
    <3>1. PICK u \in W : TRUE
      BY <2>1 DEF Frees
    <3>2. /\ u \in Task /\ u # t
          /\ pc[u] = "lock" /\ buf[u] = bf /\ state'[u] # "BLOCKED"
      BY <3>1 DEF Frees
    <3> QED BY <1>1, <2>1, <3>2
  <2>2. CASE bg # bf
    <3>1. PICK u \in Task : pc[u] = "lock" /\ buf[u] = bg /\ state[u] # "BLOCKED"
      BY <1>3, <2>2 DEF LockOK, WokenWaiter
    <3>2. u # t
      BY <2>2, <3>1
    <3>3. state'[u] # "BLOCKED"
      BY <3>1 DEF Frees
    <3> QED BY <1>1, <3>1, <3>2, <3>3
  <2> QED BY <2>1, <2>2
<1> QED BY <1>4, <1>5, <1>6 DEF LockOK

-----------------------------------------------------------------------------
\* The operators of BufferCache that lock and unlock.
LEMMA LockToReadStep ==
    ASSUME KernelOK, LockOK, NEW t \in Task, NEW bf \in Buffer, t = current, t # Idle,
           pc[t] = "fs" \/ (pc[t] = "lock" /\ buf[t] = bf),
           LockToRead(t, bf)
    PROVE  KernelOK' /\ LockOK' /\ [TaskNext]_taskVars
<1>1. CASE lock[bf].holder = Boot
  <2>1. /\ lock' = [lock EXCEPT ![bf].holder = t]
        /\ BlockAt(t, "bread", bf)
    BY <1>1 DEF LockToRead
  <2>2. /\ Scheduled /\ Moves(t, "bread", bf)
        /\ \A u \in Task : state'[u] = "BLOCKED" <=> u = t \/ state[u] = "BLOCKED"
    BY <2>1, BlockAtMoves DEF Label
  <2> QED BY <1>1, <2>1, <2>2, LockTaken, MoveKeepsKernel DEF Scheduled
<1>2. CASE lock[bf].holder # Boot
  <2>1. /\ lock' = [lock EXCEPT ![bf].waiters = list_push(@, t)]
        /\ BlockAt(t, "lock", bf)
    BY <1>2 DEF LockToRead
  <2>2. /\ Scheduled /\ Moves(t, "lock", bf)
        /\ \A u \in Task : state'[u] = "BLOCKED" <=> u = t \/ state[u] = "BLOCKED"
    BY <2>1, BlockAtMoves DEF Label
  <2> QED BY <1>2, <2>1, <2>2, LockWaited, MoveKeepsKernel DEF Scheduled
<1> QED BY <1>1, <1>2

LEMMA UnlockStep ==
    ASSUME KernelOK, LockOK, NEW t \in Task, NEW bf \in Buffer, t = current, t # Idle,
           buf[t] = bf, pc[t] = "bread" \/ (pc[t] = "lock" /\ lock[bf].holder = Boot),
           Unlock(bf), BackToFs(t)
    PROVE  KernelOK' /\ LockOK' /\ [TaskNext]_taskVars
<1> DEFINE w == lock[bf].waiters
<1>1. Moves(t, "fs", 0)
  BY DEF BackToFs, Goto, Moves, Label, About
<1>2. w \in Seq(Task) /\ IsInjective(w)
  BY DEF LockOK, LockType, LockWaiters
<1>3. CASE list_empty(w)
  <2>1. lock' = [lock EXCEPT ![bf].holder = Boot] /\ Stay
    BY <1>3 DEF Unlock
  <2>2. /\ lock' = [lock EXCEPT ![bf] = lock'[bf]]
        /\ lock'[bf].holder = Boot /\ lock'[bf].waiters = w /\ LockType'
    BY <2>1 DEF LockOK, LockType
  <2>3. w = <<>>
    BY <1>3 DEF list_empty
  <2>4. Scheduled /\ UNCHANGED state
    BY <2>1, StayIsScheduled
  <2> HIDE DEF w
  <2>5. LockOK'
    <3>1. Frees(bf, {})
      BY <1>2, <2>2, <2>3, <2>4 DEF w, Frees
    <3> QED BY <1>1, <2>2, <3>1, LockFreed
  <2> QED BY <1>1, <2>4, <2>5, MoveKeepsKernel DEF Scheduled
<1>4. CASE ~list_empty(w)
  <2> DEFINE v == list_last(w)
             removed == list_remove(w, v)
  <2>1. /\ lock' = [lock EXCEPT ![bf] = [holder |-> Boot, waiters |-> removed]]
        /\ schedule(Unblocked(state, {v}))
    BY <1>4 DEF Unlock
  <2>2. v \in Task /\ Linked(w, v)
    BY <1>2, <1>4 DEF list_empty, list_last, Linked
  <2> HIDE DEF w, v
  <2>3. /\ removed \in Seq(Task) /\ IsInjective(removed)
        /\ \A u : Linked(removed, u) <=> Linked(w, u) /\ u # v
    BY <1>2, <2>2, RemoveUnlinks
  <2> HIDE DEF removed
  <2>4. /\ lock' = [lock EXCEPT ![bf] = lock'[bf]]
        /\ lock'[bf].holder = Boot /\ lock'[bf].waiters = removed
    BY <2>1 DEF LockOK, LockType
  <2>5. LockType'
    BY <2>1, <2>3 DEF LockOK, LockType
  <2>6. pc[v] = "lock" /\ buf[v] = bf /\ state[v] = "BLOCKED"
    BY <2>2 DEF LockOK, LockWaiters, w
  <2>7. {v} \in SUBSET Waiters(state) /\ {v} \in SUBSET Task /\ t \notin {v}
    BY <2>2, <2>6, CurrentRuns DEF Waiters, Sleeping
  <2>8. /\ TaskNext /\ current' \in Task
        /\ \A u \in Task : state'[u] = "BLOCKED" <=> state[u] = "BLOCKED" /\ u \notin {v}
    BY <2>1, <2>7, WakeStates
  <2>9. LockOK'
    <3>1. Frees(bf, {v})
      BY <2>3, <2>4, <2>6, <2>7, <2>8 DEF w, Frees
    <3> QED BY <1>1, <2>5, <2>7, <3>1, LockFreed
  <2>10. Scheduled
    BY <2>8 DEF Scheduled
  <2> QED BY <1>1, <2>9, <2>10, MoveKeepsKernel DEF Scheduled
<1> QED BY <1>3, <1>4

-----------------------------------------------------------------------------
(***************************************************************************)
(* One lemma for each kind of step.                                        *)
(***************************************************************************)
StepResult == BufferInv' /\ [TaskNext]_taskVars

LEMMA SameCache ==
    ASSUME CacheOK, UNCHANGED <<table, free_list>> PROVE CacheOK'
BY DEF CacheOK, table, OneBufferPerBlock

\* Steps after which every task is where it was.
LEMMA StayStep ==
    ASSUME BufferInv, Scheduled, UNCHANGED <<pc, buf, lock, table, free_list>>,
           \A u \in Task : pc[u] = "lock"
              => (state'[u] = "BLOCKED" <=> state[u] = "BLOCKED")
    PROVE  StepResult
<1>1. KernelOK'
  BY StayKeepsKernel DEF BufferInv
<1>2. LockOK'
  BY QuietKeepsLock DEF BufferInv
<1> QED BY <1>1, <1>2, SameCache DEF BufferInv, StepResult, Scheduled

LEMMA PreemptStep == ASSUME BufferInv, Preempt PROVE StepResult
<1>1. schedule(state) /\ UNCHANGED <<pc, buf, lock, table, free_list>>
  BY DEF Preempt, Preempted, cacheVars
<1>2. {} \in SUBSET Waiters(state) /\ state = Unblocked(state, {})
  BY DEF BufferInv, KernelOK, TaskInv, TaskTypeOK, Unblocked
<1>3. schedule(Unblocked(state, {}))
  BY <1>1, <1>2
<1>4. /\ TaskNext /\ current' \in Task
      /\ \A u \in Task : state'[u] = "BLOCKED" <=> state[u] = "BLOCKED" /\ u \notin {}
  BY <1>2, <1>3, WakeStates DEF BufferInv
<1> QED BY <1>1, <1>4, StayStep DEF Scheduled

LEMMA InterruptStep ==
    ASSUME BufferInv, NEW t \in Task, disk_interrupt(t) PROVE StepResult
<1>1. /\ pc[t] \in {"bread", "bwrite", "brelse"} /\ state[t] = "BLOCKED"
      /\ state' = Unblocked(state, {t})
      /\ UNCHANGED <<current, pc, buf, lock, table, free_list>>
  BY DEF disk_interrupt
<1>2. TaskNext
  BY <1>1 DEF TaskNext, WakeAndReturn, Waiters, Sleeping
<1>3. \A u \in Task : u # t => state'[u] = state[u]
  BY <1>1 DEF Unblocked
<1>4. Scheduled
  BY <1>1, <1>2 DEF Scheduled, BufferInv, KernelOK
<1> QED BY <1>1, <1>3, <1>4, StayStep

\* Steps of a task that does not block and is at neither "lock" nor "bread".
LEMMA RunStep ==
    ASSUME BufferInv, NEW t \in Task, NEW l, NEW b, Moves(t, l, b), Stay,
           pc[t] \notin {"lock", "bread"}, l \notin {"lock", "bread"},
           UNCHANGED lock, CacheOK'
    PROVE  StepResult
<1>1. Scheduled /\ UNCHANGED state
  BY StayIsScheduled DEF BufferInv
<1>2. LockOK'
  BY <1>1, MoveKeepsLock DEF BufferInv
<1> QED BY <1>1, <1>2, MoveKeepsKernel DEF BufferInv, StepResult, Scheduled

\* The steps that block for no lock.
LEMMA BlockStep ==
    ASSUME BufferInv, NEW t \in Task, t = current, t # Idle,
           NEW l \in {"get_free_buffer", "bwrite", "brelse"}, NEW b \in Buffer \cup {0},
           l # "get_free_buffer" => b \in Buffer,
           BlockAt(t, l, b), pc[t] = "fs",
           UNCHANGED <<lock, table, free_list>>
    PROVE  StepResult
<1>1. l \in Label /\ (l \in About => b \in Buffer) /\ l \notin {"lock", "bread"}
  BY DEF Label, About
<1>2. /\ Scheduled /\ Moves(t, l, b)
      /\ \A u \in Task : state'[u] = "BLOCKED" <=> u = t \/ state[u] = "BLOCKED"
  BY <1>1, BlockAtMoves DEF BufferInv
<1>3. LockOK'
  BY <1>1, <1>2, MoveKeepsLock DEF BufferInv
<1> QED BY <1>2, <1>3, MoveKeepsKernel, SameCache DEF BufferInv, StepResult, Scheduled

\* Kernel code of a task other than the idle one.
LEMMA NotIdle ==
    ASSUME KernelOK, NEW t \in Task, pc[t] # "user" PROVE t # Idle
BY DEF KernelOK

LEMMA EnterLeaveStep ==
    ASSUME BufferInv, NEW t \in Task, enter(t) \/ leave(t) PROVE StepResult
<1>1. PICK l \in {"user", "fs"} : pc' = [pc EXCEPT ![t] = l]
  BY DEF enter, leave, Goto
<1>2. /\ t # Idle /\ pc[t] \in {"user", "fs"} /\ Stay
      /\ UNCHANGED <<buf, lock, table, free_list>>
  BY NotIdle DEF enter, leave, cacheVars, BufferInv
<1>3. buf' = [buf EXCEPT ![t] = buf[t]] /\ buf[t] \in Buffer \cup {0}
  BY <1>2 DEF BufferInv, KernelOK
<1>4. Moves(t, l, buf[t])
  BY <1>1, <1>2, <1>3 DEF Moves, Label, About
<1>5. CacheOK'
  BY <1>2, SameCache DEF BufferInv
<1>6. pc[t] \notin {"lock", "bread"} /\ l \notin {"lock", "bread"}
  BY <1>2
<1> QED BY <1>2, <1>4, <1>5, <1>6, RunStep

-----------------------------------------------------------------------------
\* The free list keeps its type, whatever it holds.
LEMMA RemoveKeepsType ==
    ASSUME NEW list \in Seq(Buffer), NEW bf, Linked(list, bf)
    PROVE  list_remove(list, bf) \in Seq(Buffer)
<1> DEFINE i == CHOOSE i \in DOMAIN list : list[i] = bf
<1>1. i \in 1..Len(list)
  BY DEF Linked
<1> HIDE DEF i
<1>2. RemoveAt(list, i) \in Seq(Buffer)
  BY <1>1, RemoveAtElements
<1> QED BY <1>2 DEF list_remove, i

\* Block b gets buffer bf, when no buffer has it.
LEMMA HashedOnce ==
    ASSUME CacheOK, NEW b \in Block, NEW bf \in Buffer, NotCached(b),
           block' = [block EXCEPT ![bf] = b],
           buffer_count' \in 0..BufferCount, free_list' \in Seq(Buffer)
    PROVE  CacheOK'
<1>1. block' \in [Buffer -> Block \cup {NoBlock}]
  BY DEF CacheOK
<1>2. \A bg \in Buffer : block'[bg] = IF bg = bf THEN b ELSE block[bg]
  BY DEF CacheOK
<1>3. OneBufferPerBlock'
  BY <1>2 DEF CacheOK, OneBufferPerBlock, NotCached
<1> QED BY <1>1, <1>3 DEF CacheOK

\* getblk returns bf: bread returns it, reads it or waits for its lock.
LEMMA ReadStep ==
    ASSUME BufferInv, NEW t \in Task, NEW bf \in Buffer, t = current, pc[t] = "fs",
           ReadIfInvalid(t, bf), CacheOK'
    PROVE  StepResult
<1>1. t # Idle
  BY NotIdle DEF BufferInv
<1>2. CASE Stay /\ UNCHANGED <<pc, buf, lock>>
  <2>1. Scheduled /\ UNCHANGED state
    BY <1>2, StayIsScheduled DEF BufferInv
  <2>2. KernelOK' /\ LockOK'
    BY <1>2, <2>1, StayKeepsKernel, QuietKeepsLock DEF BufferInv
  <2> QED BY <2>1, <2>2 DEF StepResult, BufferInv, Scheduled
<1>3. CASE LockToRead(t, bf)
  <2>1. KernelOK /\ LockOK /\ (pc[t] = "fs" \/ (pc[t] = "lock" /\ buf[t] = bf))
    BY DEF BufferInv
  <2>2. KernelOK' /\ LockOK' /\ [TaskNext]_taskVars
    BY <1>1, <1>3, <2>1, LockToReadStep
  <2> QED BY <2>2 DEF StepResult, BufferInv
<1> QED BY <1>2, <1>3 DEF ReadIfInvalid

LEMMA BreadStep ==
    ASSUME BufferInv, NEW t \in Task, NEW b \in Block, bread(t, b) PROVE StepResult
<1>1. t = current /\ pc[t] = "fs"
  BY DEF bread
<1>2. CASE bread_cached(t, b)
  <2>1. PICK bf \in Buffer : /\ OffFreeList(bf) /\ UNCHANGED table
                             /\ ReadIfInvalid(t, bf)
    BY <1>2 DEF bread_cached
  <2>2. free_list' \in Seq(Buffer)
    BY <2>1, RemoveKeepsType DEF OffFreeList, BufferInv, CacheOK
  <2>3. CacheOK'
    BY <2>1, <2>2 DEF BufferInv, CacheOK, table, OneBufferPerBlock
  <2> QED BY <1>1, <2>1, <2>3, ReadStep
<1>3. CASE NotCached(b) /\ bread_new(t, b)
  <2> DEFINE bf == buffer_count + 1
  <2>1. /\ buffer_count < BufferCount /\ buffer_count' = bf
        /\ block' = [block EXCEPT ![bf] = b] /\ UNCHANGED free_list
        /\ ReadIfInvalid(t, bf)
    BY <1>3 DEF bread_new
  <2>2. bf \in Buffer /\ buffer_count' \in 0..BufferCount
    BY <2>1, BufferAssumption DEF BufferInv, CacheOK, Buffer
  <2> HIDE DEF bf
  <2>3. free_list' \in Seq(Buffer)
    BY <2>1 DEF BufferInv, CacheOK
  <2>4. CacheOK'
    BY <1>3, <2>1, <2>2, <2>3, HashedOnce DEF BufferInv
  <2> QED BY <1>1, <2>1, <2>2, <2>4, ReadStep
<1>4. CASE NotCached(b) /\ bread_recycled(t, b)
  <2> DEFINE bf == list_last(free_list)
  <2>1. /\ ~list_empty(free_list) /\ UNCHANGED buffer_count
        /\ free_list' = list_remove(free_list, bf)
        /\ block' = [block EXCEPT ![bf] = b]
        /\ ReadIfInvalid(t, bf)
    BY <1>4 DEF bread_recycled
  <2>2. bf \in Buffer /\ Linked(free_list, bf)
    BY <2>1 DEF BufferInv, CacheOK, list_empty, list_last, Linked
  <2> HIDE DEF bf
  <2>3. free_list' \in Seq(Buffer) /\ buffer_count' \in 0..BufferCount
    BY <2>1, <2>2, RemoveKeepsType DEF BufferInv, CacheOK
  <2>4. CacheOK'
    BY <1>4, <2>1, <2>2, <2>3, HashedOnce DEF BufferInv
  <2> QED BY <1>1, <2>1, <2>2, <2>4, ReadStep
<1>5. CASE bread_waits(t)
  <2>1. BlockAt(t, "get_free_buffer", 0) /\ UNCHANGED <<lock, table, free_list>>
    BY <1>5 DEF bread_waits
  <2>2. t # Idle
    BY <1>1, NotIdle DEF BufferInv
  <2> QED BY <1>1, <2>1, <2>2, BlockStep
<1> QED BY <1>2, <1>3, <1>4, <1>5 DEF bread

LEMMA BreadAgainStep ==
    ASSUME BufferInv, NEW t \in Task, bread_again(t) \/ bread_done(t)
    PROVE  StepResult
<1> DEFINE bf == buf[t]
<1>1. /\ t = current /\ pc[t] \in {"lock", "bread"}
      /\ UNCHANGED <<table, free_list>>
  BY DEF bread_again, bread_done
<1>2. t # Idle /\ bf \in Buffer /\ CacheOK'
  BY <1>1, NotIdle, SameCache DEF BufferInv, KernelOK, About
<1>3. CASE Unlock(bf) /\ BackToFs(t)
           /\ (pc[t] = "bread" \/ (pc[t] = "lock" /\ lock[bf].holder = Boot))
  <2>1. KernelOK' /\ LockOK' /\ [TaskNext]_taskVars
    BY <1>1, <1>2, <1>3, UnlockStep DEF BufferInv
  <2> QED BY <1>2, <2>1 DEF BufferInv, StepResult
<1>4. CASE LockToRead(t, bf) /\ pc[t] = "lock"
  <2>1. KernelOK' /\ LockOK' /\ [TaskNext]_taskVars
    BY <1>1, <1>2, <1>4, LockToReadStep DEF BufferInv
  <2> QED BY <1>2, <2>1 DEF BufferInv, StepResult
<1>5. CASE bread_done(t)
  <2>1. pc[t] = "bread" /\ Unlock(bf) /\ BackToFs(t)
    BY <1>5 DEF bread_done
  <2> QED BY <1>3, <2>1
<1>6. CASE bread_again(t) /\ lock[bf].holder = Boot /\ valid[bf]
  <2>1. pc[t] = "lock" /\ Unlock(bf) /\ BackToFs(t)
    BY <1>6 DEF bread_again
  <2> QED BY <1>3, <1>6, <2>1
<1>7. CASE bread_again(t) /\ ~(lock[bf].holder = Boot /\ valid[bf])
  <2>1. pc[t] = "lock" /\ LockToRead(t, bf)
    BY <1>7 DEF bread_again
  <2> QED BY <1>4, <2>1
<1> QED BY <1>5, <1>6, <1>7

-----------------------------------------------------------------------------
LEMMA ChangeStep ==
    ASSUME BufferInv, NEW t \in Task, NEW bf \in Buffer, change(t, bf)
    PROVE  StepResult
<1>1. Stay /\ UNCHANGED <<pc, buf, lock, table, free_list>>
  BY DEF change
<1> QED BY <1>1, StayIsScheduled, StayStep DEF BufferInv

LEMMA WriteStep ==
    ASSUME BufferInv, NEW t \in Task, NEW bf \in Buffer, bwrite(t, bf)
    PROVE  StepResult
<1>1. /\ t = current /\ pc[t] = "fs" /\ BlockAt(t, "bwrite", bf)
      /\ UNCHANGED <<lock, table, free_list>>
  BY DEF bwrite, cacheVars
<1> QED BY <1>1, NotIdle, BlockStep DEF BufferInv

LEMMA WrittenStep ==
    ASSUME BufferInv, NEW t \in Task, bwrite_done(t) PROVE StepResult
<1>1. /\ pc[t] = "bwrite" /\ BackToFs(t) /\ Stay
      /\ UNCHANGED <<lock, table, free_list>>
  BY DEF bwrite_done
<1>2. Moves(t, "fs", 0)
  BY <1>1, NotIdle DEF BackToFs, Goto, Moves, Label, About, BufferInv
<1>3. CacheOK'
  BY <1>1, SameCache DEF BufferInv
<1> QED BY <1>1, <1>2, <1>3, RunStep

\* The end of brelse, also where it fails the assertion.
LEMMA DropStep ==
    ASSUME BufferInv, NEW t \in Task, NEW bf \in Buffer, Drop(t, bf),
           pc[t] \in {"fs", "brelse"}, UNCHANGED <<table, lock>>
    PROVE  StepResult
<1>1. PICK l \in {"fs", "panic"} : pc' = [pc EXCEPT ![t] = l]
  BY DEF Drop, Goto
<1>2. Stay /\ buf' = [buf EXCEPT ![t] = 0]
  BY DEF Drop
<1>3. Moves(t, l, 0)
  BY <1>1, <1>2, NotIdle DEF Moves, Label, About, BufferInv
<1>4. free_list' \in Seq(Buffer)
  <2>1. free_list \in Seq(Buffer) /\ 1 \in 1..(Len(free_list) + 1)
    BY DEF BufferInv, CacheOK
  <2>2. list_push(free_list, bf) \in Seq(Buffer)
    BY <2>1, InsertAtElements DEF list_push
  <2> QED BY <2>1, <2>2 DEF Drop
<1>5. CacheOK'
  BY <1>4 DEF BufferInv, CacheOK, table, OneBufferPerBlock
<1>6. pc[t] \notin {"lock", "bread"} /\ l \notin {"lock", "bread"}
  OBVIOUS
<1> QED BY <1>2, <1>3, <1>5, <1>6, RunStep

LEMMA ReleaseStep ==
    ASSUME BufferInv, NEW t \in Task, NEW bf \in Buffer, brelse(t, bf)
    PROVE  StepResult
<1>1. t = current /\ pc[t] = "fs" /\ UNCHANGED <<lock, table>>
  BY DEF brelse
<1>2. CASE BlockAt(t, "brelse", bf) /\ UNCHANGED free_list
  BY <1>1, <1>2, NotIdle, BlockStep DEF BufferInv
<1>3. CASE Drop(t, bf)
  BY <1>1, <1>3, DropStep
<1> QED BY <1>2, <1>3 DEF brelse

LEMMA ReleasedStep ==
    ASSUME BufferInv, NEW t \in Task, brelse_written(t) PROVE StepResult
<1>1. pc[t] = "brelse" /\ Drop(t, buf[t]) /\ UNCHANGED <<table, lock>>
  BY DEF brelse_written
<1>2. buf[t] \in Buffer
  BY <1>1 DEF BufferInv, KernelOK, About
<1> QED BY <1>1, <1>2, DropStep

LEMMA StepBufferInv ==
    BufferInv /\ [BufferNext]_vars => BufferInv' /\ [TaskNext]_taskVars
<1> SUFFICES ASSUME BufferInv, [BufferNext]_vars PROVE StepResult
  BY DEF StepResult
<1>1. CASE Preempt
  BY <1>1, PreemptStep
<1>2. ASSUME NEW t \in Task,
             \/ enter(t) \/ leave(t) \/ bread_again(t) \/ bread_done(t)
             \/ bwrite_done(t) \/ brelse_written(t) \/ disk_interrupt(t)
      PROVE  StepResult
  BY <1>2, EnterLeaveStep, BreadAgainStep, WrittenStep, ReleasedStep, InterruptStep
<1>3. ASSUME NEW t \in Task, NEW b \in Block, bread(t, b) PROVE StepResult
  BY <1>3, BreadStep
<1>4. ASSUME NEW t \in Task, NEW bf \in Buffer,
             change(t, bf) \/ bwrite(t, bf) \/ brelse(t, bf)
      PROVE  StepResult
  BY <1>4, ChangeStep, WriteStep, ReleaseStep
<1>5. CASE UNCHANGED vars
  <2>1. UNCHANGED <<state, current, pc, buf, lock, table, free_list>>
    BY <1>5 DEF vars, taskVars, cacheVars
  <2>2. Scheduled
    BY <2>1 DEF Scheduled, taskVars, BufferInv, KernelOK
  <2> QED BY <2>1, <2>2, StayStep
<1> QED BY <1>1, <1>2, <1>3, <1>4, <1>5 DEF BufferNext

-----------------------------------------------------------------------------
(***************************************************************************)
(* getblk gives no block two buffers, although it may wait for a free one  *)
(* after its search: it searches again.                                    *)
(***************************************************************************)
THEOREM BufferOnePerBlock == BufferSpec => []OneBufferPerBlock
<1>1. BufferInv => OneBufferPerBlock
  BY DEF BufferInv, CacheOK
<1> QED BY <1>1, InitBufferInv, StepBufferInv, PTL DEF BufferSpec

(***************************************************************************)
(* A buffer is locked exactly while a task reads it, and a lock that has   *)
(* waiters is held, or one of them has been woken: no reader of a block    *)
(* is left waiting for a buffer that nobody reads.                         *)
(***************************************************************************)
THEOREM BufferLocks == BufferSpec => []BufferLockHeld
<1>1. BufferInv => BufferLockHeld
  <2> SUFFICES ASSUME BufferInv, NEW bf \in Buffer
               PROVE  /\ lock[bf].holder # Boot
                            <=> \E t \in Task : pc[t] = "bread" /\ buf[t] = bf
                      /\ lock[bf].waiters # <<>> /\ lock[bf].holder = Boot
                            => \E t \in Task : /\ pc[t] = "lock" /\ buf[t] = bf
                                               /\ state[t] # "BLOCKED"
    BY DEF BufferLockHeld
  <2>1. lock[bf].holder \in Task \cup {Boot}
    BY DEF BufferInv, LockOK, LockType
  <2>2. \A t \in Task : lock[bf].holder = t <=> pc[t] = "bread" /\ buf[t] = bf
    BY DEF BufferInv, LockOK, ReaderIsHolder
  <2>3. lock[bf].holder # Boot <=> \E t \in Task : pc[t] = "bread" /\ buf[t] = bf
    BY <2>1, <2>2, TaskAssumption
  <2> QED BY <2>3 DEF BufferInv, LockOK, WokenWaiter
<1> QED BY <1>1, InitBufferInv, StepBufferInv, PTL DEF BufferSpec

\* The cache blocks and wakes tasks as the scheduler allows.
THEOREM BufferImplementsTasks == BufferSpec => TaskSpec
<1>1. BufferInit => TaskInit
  <2> SUFFICES ASSUME BufferInit PROVE TaskInit
    OBVIOUS
  <2>1. state = [t \in Task |-> IF t = current THEN "RUNNING"
                                ELSE IF t \in Task THEN "READY" ELSE "NONE"]
    BY TaskAssumption DEF BufferInit, KernelInit
  <2> QED BY <2>1, TaskAssumption DEF BufferInit, KernelInit, TaskInit
<1> QED BY <1>1, InitBufferInv, StepBufferInv, PTL DEF BufferSpec, TaskSpec

-----------------------------------------------------------------------------
(***************************************************************************)
(* The users of the buffers.                                               *)
(***************************************************************************)
\* May t have one more buffer?
HasRoom(t) == Cardinality(HeldBy(t)) < MaxHeld

UseType ==
    /\ held \in [Task -> [Buffer -> 0..MaxHeld]]
    /\ count \in [Buffer -> Nat]
    /\ dirty \in [Buffer -> BOOLEAN] /\ valid \in [Buffer -> BOOLEAN]

\* What a call that waits knows of its buffer.
CallsOK ==
    \A t \in Task :
       /\ pc[t] \in {"lock", "bread"} => HasRoom(t)
       /\ pc[t] \in {"bwrite", "brelse"} => held[t][buf[t]] > 0
       /\ pc[t] = "bread" => ~valid[buf[t]]

\* The buffers in the hash table are those that have been made.
MadeAreHashed ==
    \A bf \in Buffer :
       IF bf <= buffer_count
       THEN block[bf] \in Block
       ELSE block[bf] = NoBlock /\ count[bf] = 0 /\ ~valid[bf]

ValidOK ==
    \A bf \in Buffer :
       /\ \A t \in Task : held[t][bf] > 0 => valid[bf]
       /\ dirty[bf] => valid[bf]

UseInv == UseType /\ CallsOK /\ MadeAreHashed /\ ValidOK /\ CountsUsers

LEMMA UsersFinite ==
    ASSUME NEW bf \in Buffer
    PROVE  IsFiniteSet(Users(bf)) /\ IsFiniteSet(Users(bf)')
<1>1. IsFiniteSet(Task \X (0..MaxHeld))
  <2>1. 0 \in Int /\ MaxHeld \in Int /\ IsFiniteSet(Task)
    BY BufferAssumption
  <2>2. IsFiniteSet(0..MaxHeld)
    BY <2>1, FS_Interval
  <2> QED BY <2>1, <2>2, FS_Product
<1>2. Users(bf) \in SUBSET (Task \X (0..MaxHeld)) /\ Users(bf)' \in SUBSET (Task \X (0..MaxHeld))
  BY DEF Users
<1> QED BY <1>1, <1>2, FS_Subset

LEMMA RoomForOne ==
    ASSUME UseType, NEW t \in Task, NEW bf \in Buffer, HasRoom(t)
    PROVE  held[t][bf] + 1 \in 1..MaxHeld
<1>1. held[t][bf] \in 0..MaxHeld /\ MaxHeld \in Nat
  BY BufferAssumption DEF UseType
<1>2. SUFFICES ASSUME held[t][bf] = MaxHeld PROVE FALSE
  BY <1>1
<1>3. {bf} \X (1..MaxHeld) \in SUBSET HeldBy(t)
  BY <1>1, <1>2 DEF HeldBy
<1>4. Cardinality({bf} \X (1..MaxHeld)) = MaxHeld
  <2>1. IsFiniteSet({bf}) /\ Cardinality({bf}) = 1
    BY FS_Singleton
  <2>2. IsFiniteSet(1..MaxHeld) /\ Cardinality(1..MaxHeld) = MaxHeld
    BY <1>1, FS_Interval
  <2> QED BY <1>1, <2>1, <2>2, FS_Product
<1>5. IsFiniteSet(HeldBy(t))
  <2>1. IsFiniteSet(Buffer \X (1..MaxHeld))
    <3>1. 1 \in Int /\ MaxHeld \in Int /\ BufferCount \in Int
      BY BufferAssumption
    <3>2. IsFiniteSet(1..MaxHeld) /\ IsFiniteSet(Buffer)
      BY <3>1, FS_Interval DEF Buffer
    <3> QED BY <3>2, FS_Product
  <2>2. HeldBy(t) \in SUBSET (Buffer \X (1..MaxHeld))
    BY DEF HeldBy
  <2> QED BY <2>1, <2>2, FS_Subset
<1>6. Cardinality({bf} \X (1..MaxHeld)) <= Cardinality(HeldBy(t))
  BY <1>3, <1>5, FS_Subset
<1>7. Cardinality(HeldBy(t)) \in Nat
  BY <1>5, FS_CardinalityType
<1> QED BY <1>1, <1>4, <1>6, <1>7 DEF HasRoom

\* bread or bread_again returns bf to t.
LEMMA HoldUsers ==
    ASSUME UseType, NEW t \in Task, NEW bf \in Buffer, held[t][bf] + 1 \in 1..MaxHeld,
           Holds(t, bf), pc'[t] = "fs",
           \A u \in Task : u # t => pc'[u] = pc[u] /\ buf'[u] = buf[u],
           pc[t] \in {"lock", "bread"} => buf[t] = bf
    PROVE  /\ held' \in [Task -> [Buffer -> 0..MaxHeld]]
           /\ <<t, held[t][bf] + 1>> \notin Users(bf)
           /\ Users(bf)' = (Users(bf) \ {<<t, 0>>}) \cup {<<t, held[t][bf] + 1>>}
           /\ \A bg \in Buffer : bg # bf => Users(bg)' = Users(bg)
<1>1. /\ held' \in [Task -> [Buffer -> 0..MaxHeld]]
      /\ held'[t][bf] = held[t][bf] + 1
      /\ \A u \in Task, bg \in Buffer :
            u # t \/ bg # bf => held'[u][bg] = held[u][bg]
  BY DEF UseType, Holds
<1>2. <<t, held[t][bf] + 1>> \notin Users(bf)
  BY DEF UseType, Users
<1>3. Users(bf)' = (Users(bf) \ {<<t, 0>>}) \cup {<<t, held[t][bf] + 1>>}
  <2>1. ASSUME NEW u \in Task, NEW k \in 0..MaxHeld
        PROVE  <<u, k>> \in Users(bf)'
                  <=> <<u, k>> \in (Users(bf) \ {<<t, 0>>}) \cup {<<t, held[t][bf] + 1>>}
    <3>1. CASE u = t
      <4>1. held[t][bf] \in Nat /\ held'[t][bf] = held[t][bf] + 1
        BY <1>1 DEF UseType
      <4>2. CASE k = 0
        BY <3>1, <4>1, <4>2 DEF Users
      <4>3. CASE k # 0
        <5>1. k <= held[t][bf] + 1 <=> k <= held[t][bf] \/ k = held[t][bf] + 1
          BY <4>1
        <5> QED BY <3>1, <4>1, <4>3, <5>1 DEF Users
      <4> QED BY <4>2, <4>3
    <3>2. CASE u # t
      BY <1>1, <3>2 DEF Users
    <3> QED BY <3>1, <3>2
  <2> QED BY <2>1 DEF Users
<1>4. ASSUME NEW bg \in Buffer, bg # bf PROVE Users(bg)' = Users(bg)
  BY <1>1, <1>4 DEF Users
<1> QED BY <1>1, <1>2, <1>3, <1>4

LEMMA WaitUsers ==
    ASSUME UseType, NEW t \in Task, NEW bf \in Buffer, UNCHANGED held,
           pc'[t] \in {"lock", "bread"}, buf'[t] = bf,
           \A u \in Task : u # t => pc'[u] = pc[u] /\ buf'[u] = buf[u],
           pc[t] \in {"lock", "bread"} => buf[t] = bf
    PROVE  /\ Users(bf)' = Users(bf) \cup {<<t, 0>>}
           /\ \A bg \in Buffer : bg # bf => Users(bg)' = Users(bg)
<1>1. Users(bf)' = Users(bf) \cup {<<t, 0>>}
  <2>1. ASSUME NEW u \in Task, NEW k \in 0..MaxHeld
        PROVE  <<u, k>> \in Users(bf)' <=> <<u, k>> \in Users(bf) \cup {<<t, 0>>}
    BY DEF Users
  <2>2. <<t, 0>> \in Task \X (0..MaxHeld)
    BY BufferAssumption
  <2> QED BY <2>1, <2>2 DEF Users
<1>2. ASSUME NEW bg \in Buffer, bg # bf PROVE Users(bg)' = Users(bg)
  BY <1>2 DEF Users
<1> QED BY <1>1, <1>2

LEMMA DropUsers ==
    ASSUME UseType, NEW t \in Task, NEW bf \in Buffer, held[t][bf] > 0,
           held' = [held EXCEPT ![t][bf] = @ - 1],
           pc[t] \notin {"lock", "bread"}, pc'[t] \notin {"lock", "bread"},
           \A u \in Task : u # t => pc'[u] = pc[u] /\ buf'[u] = buf[u]
    PROVE  /\ held' \in [Task -> [Buffer -> 0..MaxHeld]]
           /\ <<t, held[t][bf]>> \in Users(bf)
           /\ Users(bf)' = Users(bf) \ {<<t, held[t][bf]>>}
           /\ \A bg \in Buffer : bg # bf => Users(bg)' = Users(bg)
<1>1. /\ held[t][bf] \in 1..MaxHeld
      /\ held' \in [Task -> [Buffer -> 0..MaxHeld]]
      /\ held'[t][bf] = held[t][bf] - 1
      /\ \A u \in Task, bg \in Buffer :
            u # t \/ bg # bf => held'[u][bg] = held[u][bg]
  BY BufferAssumption DEF UseType
<1>2. <<t, held[t][bf]>> \in Users(bf)
  BY <1>1 DEF UseType, Users
<1>3. Users(bf)' = Users(bf) \ {<<t, held[t][bf]>>}
  <2>1. ASSUME NEW u \in Task, NEW k \in 0..MaxHeld
        PROVE  <<u, k>> \in Users(bf)' <=> <<u, k>> \in Users(bf) \ {<<t, held[t][bf]>>}
    BY <1>1 DEF Users, UseType
  <2> QED BY <2>1 DEF Users
<1>4. ASSUME NEW bg \in Buffer, bg # bf PROVE Users(bg)' = Users(bg)
  BY <1>1, <1>4 DEF Users
<1> QED BY <1>1, <1>2, <1>3, <1>4

LEMMA SameUsers ==
    ASSUME UNCHANGED held,
           \A u \in Task : \/ pc'[u] = pc[u] /\ buf'[u] = buf[u]
                           \/ /\ pc[u] \notin {"lock", "bread"}
                              /\ pc'[u] \notin {"lock", "bread"}
    PROVE  \A bg \in Buffer : Users(bg)' = Users(bg)
BY DEF Users

LEMMA UseIsCounted ==
    ASSUME UseInv, NEW t \in Task, NEW bf \in Buffer,
           held[t][bf] > 0 \/ (pc[t] \in {"lock", "bread"} /\ buf[t] = bf)
    PROVE  count[bf] > 0
<1>1. PICK k \in {0, 1} : <<t, k>> \in Users(bf)
  <2>1. CASE held[t][bf] > 0
    <3>1. held[t][bf] \in 1..MaxHeld
      BY <2>1, BufferAssumption DEF UseInv, UseType
    <3>2. <<t, 1>> \in Users(bf)
      BY <3>1, BufferAssumption DEF Users
    <3> QED BY <3>2
  <2>2. CASE pc[t] \in {"lock", "bread"} /\ buf[t] = bf
    <3>1. <<t, 0>> \in Users(bf)
      BY <2>2, BufferAssumption DEF Users
    <3> QED BY <3>1
  <2> QED BY <2>1, <2>2
<1>2. IsFiniteSet(Users(bf)) /\ Users(bf) # {}
  BY <1>1, UsersFinite
<1>3. Cardinality(Users(bf)) # 0
  BY <1>2, FS_EmptySet
<1> QED BY <1>3 DEF UseInv, CountsUsers, UseType

\* Nobody has or waits for a buffer whose count is 0.
LEMMA NotInUse ==
    ASSUME UseInv, NEW bf \in Buffer, count[bf] = 0
    PROVE  /\ ~dirty[bf]
           /\ \A t \in Task : /\ held[t][bf] = 0
                              /\ pc[t] \in {"lock", "bread"} => buf[t] # bf
<1>1. ~dirty[bf]
  BY DEF UseInv, CountsUsers
<1>2. ASSUME NEW t \in Task
      PROVE  held[t][bf] = 0 /\ (pc[t] \in {"lock", "bread"} => buf[t] # bf)
  <2>1. ~(held[t][bf] > 0) /\ ~(pc[t] \in {"lock", "bread"} /\ buf[t] = bf)
    BY UseIsCounted
  <2> QED BY <2>1 DEF UseInv, UseType
<1> QED BY <1>1, <1>2

-----------------------------------------------------------------------------
\* The counts after bf has got one user more, lost one, or swapped one.
LEMMA GainKeepsCounts ==
    ASSUME UseInv, NEW bf \in Buffer, NEW x, x \notin Users(bf),
           Users(bf)' = Users(bf) \cup {x},
           \A bg \in Buffer : bg # bf => Users(bg)' = Users(bg),
           count' = [count EXCEPT ![bf] = @ + 1],
           UNCHANGED dirty,
           IsInjective(free_list'),
           \A bg \in Buffer : Linked(free_list', bg) <=> Linked(free_list, bg) /\ bg # bf,
           \A bg \in Buffer : bg # bf => (bg <= buffer_count' <=> bg <= buffer_count)
    PROVE  CountsUsers'
<1>1. /\ count'[bf] = count[bf] + 1 /\ count[bf] \in Nat
      /\ \A bg \in Buffer : bg # bf => count'[bg] = count[bg]
  BY DEF UseInv, UseType
<1>2. Cardinality(Users(bf)') = Cardinality(Users(bf)) + 1
  BY UsersFinite, FS_AddElement
<1>3. \A bg \in Buffer : count'[bg] = Cardinality(Users(bg)')
  BY <1>1, <1>2 DEF UseInv, CountsUsers
<1>4. \A bg \in Buffer : count'[bg] = 0 => bg # bf /\ count[bg] = 0
  BY <1>1
<1>5. \A bg \in Buffer : Linked(free_list', bg) <=> count'[bg] = 0 /\ bg <= buffer_count'
  BY <1>1, <1>4 DEF UseInv, CountsUsers
<1>6. \A bg \in Buffer : count'[bg] = 0 => ~dirty'[bg]
  BY <1>4 DEF UseInv, CountsUsers
<1> QED BY <1>3, <1>5, <1>6 DEF CountsUsers

LEMMA LoseKeepsCounts ==
    ASSUME UseInv, NEW bf \in Buffer, NEW x, x \in Users(bf),
           Users(bf)' = Users(bf) \ {x},
           \A bg \in Buffer : bg # bf => Users(bg)' = Users(bg),
           count' = [count EXCEPT ![bf] = @ - 1], count'[bf] \in Nat,
           UNCHANGED buffer_count,
           \A bg \in Buffer : bg # bf => dirty'[bg] = dirty[bg],
           ~dirty'[bf],
           bf <= buffer_count,
           IsInjective(free_list'),
           \A bg \in Buffer : Linked(free_list', bg)
                                 <=> Linked(free_list, bg) \/ (bg = bf /\ count'[bf] = 0)
    PROVE  CountsUsers'
<1>1. /\ count'[bf] = count[bf] - 1 /\ count[bf] \in Nat
      /\ \A bg \in Buffer : bg # bf => count'[bg] = count[bg]
  BY DEF UseInv, UseType
<1>2. Cardinality(Users(bf)') = Cardinality(Users(bf)) - 1
  BY UsersFinite, FS_RemoveElement
<1>3. \A bg \in Buffer : count'[bg] = Cardinality(Users(bg)')
  BY <1>1, <1>2 DEF UseInv, CountsUsers
<1>4. count[bf] # 0
  BY <1>1
<1>5. \A bg \in Buffer : Linked(free_list', bg) <=> count'[bg] = 0 /\ bg <= buffer_count'
  BY <1>1, <1>4 DEF UseInv, CountsUsers
<1>6. \A bg \in Buffer : count'[bg] = 0 => ~dirty'[bg]
  BY <1>1 DEF UseInv, CountsUsers
<1> QED BY <1>3, <1>5, <1>6 DEF CountsUsers

LEMMA SwapKeepsCounts ==
    ASSUME UseInv, NEW bf \in Buffer, NEW x, NEW y, x \in Users(bf), y \notin Users(bf),
           Users(bf)' = (Users(bf) \ {x}) \cup {y},
           \A bg \in Buffer : bg # bf => Users(bg)' = Users(bg),
           UNCHANGED <<count, buffer_count, free_list>>,
           \A bg \in Buffer : dirty'[bg] => dirty[bg]
    PROVE  CountsUsers'
<1>1. Cardinality(Users(bf) \ {x}) = Cardinality(Users(bf)) - 1 /\ IsFiniteSet(Users(bf) \ {x})
  BY UsersFinite, FS_RemoveElement
<1>2. Cardinality(Users(bf)') = Cardinality(Users(bf)) - 1 + 1
  <2> DEFINE rest == Users(bf) \ {x}
  <2>1. y \notin rest /\ IsFiniteSet(rest)
    BY <1>1
  <2>2. Cardinality(rest \cup {y}) = Cardinality(rest) + 1
    <3> HIDE DEF rest
    <3> QED BY <2>1, FS_AddElement
  <2>3. Users(bf)' = rest \cup {y}
    OBVIOUS
  <2> QED BY <1>1, <2>2, <2>3
<1>3. Cardinality(Users(bf)) \in Nat
  BY UsersFinite, FS_CardinalityType
<1>4. Cardinality(Users(bf)') = Cardinality(Users(bf))
  BY <1>2, <1>3
<1>5. \A bg \in Buffer : Cardinality(Users(bg)') = Cardinality(Users(bg))
  BY <1>4
<1> QED BY <1>5 DEF UseInv, CountsUsers

LEMMA QuietKeepsCounts ==
    ASSUME UseInv, \A bg \in Buffer : Users(bg)' = Users(bg),
           UNCHANGED <<count, buffer_count, free_list>>,
           \A bg \in Buffer : dirty'[bg] => dirty[bg] \/ count[bg] > 0
    PROVE  CountsUsers'
<1>1. \A bg \in Buffer : count[bg] = 0 => ~dirty'[bg]
  BY DEF UseInv, CountsUsers
<1> QED BY <1>1 DEF UseInv, CountsUsers

-----------------------------------------------------------------------------
\* Steps in which no task comes to or leaves "lock" and "bread", or holds
\* another buffer than before.
LEMMA QuietUse ==
    ASSUME BufferInv, UseInv, UNCHANGED <<held, table, count, valid, free_list>>,
           dirty' \in [Buffer -> BOOLEAN],
           \A bf \in Buffer : dirty'[bf] => dirty[bf] \/ \E u \in Task : held[u][bf] > 0,
           \A u \in Task : \/ pc'[u] = pc[u] /\ buf'[u] = buf[u]
                           \/ /\ pc[u] \notin {"lock", "bread"}
                              /\ pc'[u] \notin {"lock", "bread"}
                              /\ pc'[u] \in {"bwrite", "brelse"} => held[u][buf'[u]] > 0
    PROVE  UseInv'
<1>1. UseType'
  BY DEF UseInv, UseType
<1>2. \A u \in Task : HasRoom(u)' <=> HasRoom(u)
  BY DEF HasRoom, HeldBy
<1>3. CallsOK'
  BY <1>2 DEF UseInv, CallsOK
<1>4. MadeAreHashed'
  BY DEF UseInv, MadeAreHashed, table
<1>5. ValidOK'
  BY DEF UseInv, ValidOK
<1>6. \A bf \in Buffer : dirty'[bf] => dirty[bf] \/ count[bf] > 0
  BY UseIsCounted
<1>7. CountsUsers'
  BY <1>6, SameUsers, QuietKeepsCounts DEF table
<1> QED BY <1>1, <1>3, <1>4, <1>5, <1>7 DEF UseInv

\* A buffer has one reader: the holder of its lock.
LEMMA OneReader ==
    ASSUME BufferInv, NEW t \in Task, NEW u \in Task,
           pc[t] = "bread", pc[u] = "bread", buf[t] = buf[u]
    PROVE  t = u
BY DEF BufferInv, LockOK, ReaderIsHolder, KernelOK, About

\* getblk has returned bf to bread.
LEMMA ReadUse ==
    ASSUME BufferInv, UseInv, NEW t \in Task, NEW bf \in Buffer, pc[t] = "fs",
           HasRoom(t), ReadIfInvalid(t, bf),
           count' = [count EXCEPT ![bf] = @ + 1], UNCHANGED dirty,
           valid' \in [Buffer -> BOOLEAN],
           \A bg \in Buffer : valid'[bg] = valid[bg]
                                 \/ (bg = bf /\ count[bf] = 0 /\ ~valid'[bf]),
           MadeAreHashed', IsInjective(free_list'),
           \A bg \in Buffer : Linked(free_list', bg) <=> Linked(free_list, bg) /\ bg # bf,
           \A bg \in Buffer : bg # bf => (bg <= buffer_count' <=> bg <= buffer_count)
    PROVE  UseInv'
<1>1. held[t][bf] + 1 \in 1..MaxHeld
  BY RoomForOne DEF UseInv
<1>2. count' \in [Buffer -> Nat]
  BY DEF UseInv, UseType
<1>3. \A u \in Task, bg \in Buffer : held[u][bg] > 0 => valid'[bg]
  BY NotInUse DEF UseInv, ValidOK
<1>4. \A bg \in Buffer : dirty[bg] => valid'[bg]
  BY NotInUse DEF UseInv, ValidOK
<1>5. \A bg \in Buffer : valid'[bg] => valid[bg]
  OBVIOUS
<1>6. \A u \in Task : pc[u] \in About => buf[u] \in Buffer
  BY DEF BufferInv, KernelOK
<1>7. CASE valid'[bf]
  <2>1. Holds(t, bf) /\ UNCHANGED <<pc, buf>>
    BY <1>7 DEF ReadIfInvalid
  <2>2. /\ held' \in [Task -> [Buffer -> 0..MaxHeld]]
        /\ <<t, held[t][bf] + 1>> \notin Users(bf)
        /\ Users(bf)' = (Users(bf) \ {<<t, 0>>}) \cup {<<t, held[t][bf] + 1>>}
        /\ \A bg \in Buffer : bg # bf => Users(bg)' = Users(bg)
    BY <1>1, <2>1, HoldUsers DEF UseInv
  <2>3. Users(bf)' = Users(bf) \cup {<<t, held[t][bf] + 1>>}
    <3>1. <<t, 0>> \notin Users(bf)
      BY DEF Users
    <3> QED BY <2>2, <3>1
  <2>4. CountsUsers'
    <3> DEFINE x == <<t, held[t][bf] + 1>>
    <3>1. x \notin Users(bf) /\ Users(bf)' = Users(bf) \cup {x}
      BY <2>2, <2>3
    <3> HIDE DEF x
    <3> QED BY <2>2, <3>1, GainKeepsCounts
  <2>5. /\ \A u \in Task : u # t => held'[u] = held[u]
        /\ \A u \in Task, bg \in Buffer :
              held'[u][bg] > 0 => held[u][bg] > 0 \/ bg = bf
        /\ \A u \in Task, bg \in Buffer : held[u][bg] > 0 => held'[u][bg] > 0
    BY <2>1 DEF Holds, UseInv, UseType
  <2>6. \A u \in Task : u # t => (HasRoom(u)' <=> HasRoom(u))
    BY <2>5 DEF HasRoom, HeldBy
  <2>7. CallsOK'
    <3> SUFFICES ASSUME NEW u \in Task
                 PROVE  /\ pc'[u] \in {"lock", "bread"} => HasRoom(u)'
                        /\ pc'[u] \in {"bwrite", "brelse"} => held'[u][buf'[u]] > 0
                        /\ pc'[u] = "bread" => ~valid'[buf'[u]]
      BY DEF CallsOK
    <3>1. /\ pc[u] \in {"lock", "bread"} => HasRoom(u)
          /\ pc[u] \in {"bwrite", "brelse"} => held[u][buf[u]] > 0
          /\ pc[u] = "bread" => ~valid[buf[u]]
          /\ pc[u] \in About => buf[u] \in Buffer
      BY <1>6 DEF UseInv, CallsOK
    <3> QED BY <1>5, <2>1, <2>5, <2>6, <3>1 DEF About
  <2>8. ValidOK'
    BY <1>3, <1>4, <1>7, <2>5 DEF ValidOK
  <2> QED BY <1>2, <2>2, <2>4, <2>7, <2>8 DEF UseInv, UseType
<1>8. CASE ~valid'[bf]
  <2>1. LockToRead(t, bf) /\ UNCHANGED held
    BY <1>8 DEF ReadIfInvalid
  <2>2. /\ pc'[t] \in {"lock", "bread"} /\ buf'[t] = bf
        /\ \A u \in Task : u # t => pc'[u] = pc[u] /\ buf'[u] = buf[u]
    BY <2>1 DEF LockToRead, BlockAt, Goto, BufferInv, KernelOK
  <2>3. /\ Users(bf)' = Users(bf) \cup {<<t, 0>>}
        /\ \A bg \in Buffer : bg # bf => Users(bg)' = Users(bg)
    BY <2>1, <2>2, WaitUsers DEF UseInv
  <2>4. <<t, 0>> \notin Users(bf)
    BY DEF Users
  <2>5. CountsUsers'
    BY <2>3, <2>4, GainKeepsCounts
  <2>6. \A u \in Task : HasRoom(u)' <=> HasRoom(u)
    BY <2>1 DEF HasRoom, HeldBy
  <2>7. CallsOK'
    <3> SUFFICES ASSUME NEW u \in Task
                 PROVE  /\ pc'[u] \in {"lock", "bread"} => HasRoom(u)'
                        /\ pc'[u] \in {"bwrite", "brelse"} => held'[u][buf'[u]] > 0
                        /\ pc'[u] = "bread" => ~valid'[buf'[u]]
      BY DEF CallsOK
    <3>1. /\ pc[u] \in {"lock", "bread"} => HasRoom(u)
          /\ pc[u] \in {"bwrite", "brelse"} => held[u][buf[u]] > 0
          /\ pc[u] = "bread" => ~valid[buf[u]]
          /\ pc[u] \in About => buf[u] \in Buffer
      BY <1>6 DEF UseInv, CallsOK
    <3> QED BY <1>5, <1>8, <2>1, <2>2, <2>6, <3>1 DEF About
  <2>8. ValidOK'
    BY <1>3, <1>4, <2>1 DEF ValidOK
  <2> QED BY <1>2, <2>1, <2>5, <2>7, <2>8 DEF UseInv, UseType
<1> QED BY <1>7, <1>8

\* t has read bf or found it valid, and returns with it.
LEMMA ReadDoneUse ==
    ASSUME BufferInv, UseInv, NEW t \in Task, NEW bf \in Buffer,
           pc[t] \in {"lock", "bread"}, buf[t] = bf,
           Holds(t, bf), BackToFs(t), UNCHANGED <<table, count, free_list>>,
           dirty' \in [Buffer -> BOOLEAN], valid' \in [Buffer -> BOOLEAN],
           \A bg \in Buffer : dirty'[bg] => dirty[bg],
           \A bg \in Buffer : bg # bf => valid'[bg] = valid[bg],
           valid'[bf], pc[t] = "bread" \/ valid[bf]
    PROVE  UseInv'
<1>1. HasRoom(t) /\ held[t][bf] + 1 \in 1..MaxHeld
  BY RoomForOne DEF UseInv, CallsOK
<1>2. /\ pc'[t] = "fs"
      /\ \A u \in Task : u # t => pc'[u] = pc[u] /\ buf'[u] = buf[u]
  BY DEF BackToFs, Goto, BufferInv, KernelOK
<1>3. /\ held' \in [Task -> [Buffer -> 0..MaxHeld]]
      /\ <<t, held[t][bf] + 1>> \notin Users(bf)
      /\ Users(bf)' = (Users(bf) \ {<<t, 0>>}) \cup {<<t, held[t][bf] + 1>>}
      /\ \A bg \in Buffer : bg # bf => Users(bg)' = Users(bg)
  BY <1>1, <1>2, HoldUsers DEF UseInv
<1>4. <<t, 0>> \in Users(bf)
  BY BufferAssumption DEF Users
<1>5. CountsUsers'
  BY <1>3, <1>4, SwapKeepsCounts DEF table
<1>6. /\ \A u \in Task : u # t => held'[u] = held[u]
      /\ \A u \in Task, bg \in Buffer :
            held'[u][bg] > 0 => held[u][bg] > 0 \/ bg = bf
  BY DEF Holds, UseInv, UseType
<1>7. \A u \in Task : u # t => (HasRoom(u)' <=> HasRoom(u))
  BY <1>6 DEF HasRoom, HeldBy
<1>8. CallsOK'
  <2> SUFFICES ASSUME NEW u \in Task
               PROVE  /\ pc'[u] \in {"lock", "bread"} => HasRoom(u)'
                      /\ pc'[u] \in {"bwrite", "brelse"} => held'[u][buf'[u]] > 0
                      /\ pc'[u] = "bread" => ~valid'[buf'[u]]
    BY DEF CallsOK
  <2>1. /\ pc[u] \in {"lock", "bread"} => HasRoom(u)
        /\ pc[u] \in {"bwrite", "brelse"} => held[u][buf[u]] > 0
        /\ pc[u] = "bread" => ~valid[buf[u]]
        /\ pc[u] \in About => buf[u] \in Buffer
    BY DEF UseInv, CallsOK, BufferInv, KernelOK
  <2>2. CASE u = t
    BY <1>2, <2>2
  <2>3. CASE u # t
    <3>1. pc[u] = "bread" => buf[u] # bf
      BY <2>1, <2>3, OneReader
    <3> QED BY <1>2, <1>6, <1>7, <2>1, <2>3, <3>1 DEF About
  <2> QED BY <2>2, <2>3
<1>9. ValidOK'
  BY <1>6 DEF UseInv, ValidOK
<1>10. MadeAreHashed'
  <2>1. bf <= buffer_count
    <3>1. count[bf] > 0
      BY UseIsCounted
    <3> QED BY <3>1 DEF UseInv, MadeAreHashed
  <2> QED BY <2>1 DEF UseInv, MadeAreHashed, table
<1> QED BY <1>3, <1>5, <1>8, <1>9, <1>10 DEF UseInv, UseType

LEMMA InitUseInv == BufferInit => UseInv
<1> SUFFICES ASSUME BufferInit PROVE UseInv
  OBVIOUS
<1> USE BufferAssumption DEF BufferInit, KernelInit
<1>1. UseType
  BY DEF UseType
<1>2. \A t \in Task : pc[t] = "user"
  BY TaskAssumption
<1>3. CallsOK
  BY <1>2 DEF CallsOK
<1>4. MadeAreHashed
  BY DEF MadeAreHashed, Buffer
<1>5. ValidOK
  BY DEF ValidOK
<1>6. \A bf \in Buffer : Cardinality(Users(bf)) = 0
  <2>1. \A bf \in Buffer : Users(bf) = {}
    BY <1>2 DEF Users
  <2> QED BY <2>1, FS_EmptySet
<1>7. CountsUsers
  BY <1>6 DEF CountsUsers, Linked, IsInjective, Buffer
<1> QED BY <1>1, <1>3, <1>4, <1>5, <1>7 DEF UseInv

\* Where the free list is after a buffer has left it.
LEMMA LeavesFreeList ==
    ASSUME BufferInv, UseInv, NEW bf \in Buffer, Linked(free_list, bf),
           free_list' = list_remove(free_list, bf)
    PROVE  /\ IsInjective(free_list')
           /\ \A bg \in Buffer : Linked(free_list', bg) <=> Linked(free_list, bg) /\ bg # bf
<1>1. free_list \in Seq(Buffer) /\ IsInjective(free_list)
  BY DEF BufferInv, CacheOK, UseInv, CountsUsers
<1> QED BY <1>1, RemoveUnlinks

LEMMA BreadUse ==
    ASSUME BufferInv, UseInv, NEW t \in Task, NEW b \in Block, bread(t, b)
    PROVE  UseInv'
<1>1. t = current /\ pc[t] = "fs" /\ HasRoom(t)
  BY DEF bread, HasRoom
<1>2. CASE bread_cached(t, b)
  <2>1. PICK bf \in Buffer : /\ block[bf] = b /\ Counted(bf) /\ OffFreeList(bf)
                             /\ UNCHANGED <<table, dirty, valid>>
                             /\ ReadIfInvalid(t, bf)
    BY <1>2 DEF bread_cached
  <2>2. /\ IsInjective(free_list')
        /\ \A bg \in Buffer : Linked(free_list', bg) <=> Linked(free_list, bg) /\ bg # bf
    <3>1. CASE Linked(free_list, bf)
      BY <2>1, <3>1, LeavesFreeList DEF OffFreeList
    <3>2. CASE ~Linked(free_list, bf)
      BY <2>1, <3>2 DEF OffFreeList, UseInv, CountsUsers
    <3> QED BY <3>1, <3>2
  <2>3. bf <= buffer_count
    BY <2>1, BufferAssumption DEF UseInv, MadeAreHashed
  <2>4. MadeAreHashed'
    BY <2>1, <2>3 DEF UseInv, MadeAreHashed, table, Counted, UseType
  <2>5. UNCHANGED <<block, buffer_count>> /\ valid' \in [Buffer -> BOOLEAN]
    BY <2>1 DEF table, UseInv, UseType
  <2> QED BY <1>1, <2>1, <2>2, <2>4, <2>5, ReadUse DEF Counted
<1>3. CASE NotCached(b) /\ bread_new(t, b)
  <2> DEFINE bf == buffer_count + 1
  <2>1. /\ buffer_count < BufferCount /\ buffer_count' = bf
        /\ block' = [block EXCEPT ![bf] = b] /\ UNCHANGED <<free_list, dirty, valid>>
        /\ count' = [count EXCEPT ![bf] = 1]
        /\ ReadIfInvalid(t, bf)
    BY <1>3 DEF bread_new
  <2>2. bf \in Buffer /\ ~(bf <= buffer_count)
        /\ \A bg \in Buffer : bg # bf => (bg <= bf <=> bg <= buffer_count)
    BY <2>1, BufferAssumption DEF BufferInv, CacheOK, Buffer
  <2> HIDE DEF bf
  <2>3. count[bf] = 0 /\ block \in [Buffer -> Block \cup {NoBlock}]
    BY <2>2 DEF UseInv, MadeAreHashed, BufferInv, CacheOK
  <2>4. count' = [count EXCEPT ![bf] = @ + 1]
    BY <2>1, <2>2, <2>3
  <2>5. MadeAreHashed'
    <3> SUFFICES ASSUME NEW bg \in Buffer
                 PROVE  IF bg <= buffer_count' THEN block'[bg] \in Block
                        ELSE block'[bg] = NoBlock /\ count'[bg] = 0 /\ ~valid'[bg]
      BY DEF MadeAreHashed
    <3>1. CASE bg = bf
      <4>1. bf <= bf
        BY <2>2 DEF Buffer
      <4> QED BY <2>1, <2>2, <2>3, <3>1, <4>1
    <3>2. CASE bg # bf
      <4>1. block'[bg] = block[bg] /\ count'[bg] = count[bg]
        BY <2>1, <2>3, <3>2 DEF UseInv, UseType
      <4> QED BY <2>1, <2>2, <3>2, <4>1 DEF UseInv, MadeAreHashed
    <3> QED BY <3>1, <3>2
  <2>6. \A bg \in Buffer : Linked(free_list', bg) <=> Linked(free_list, bg) /\ bg # bf
    BY <2>1, <2>2 DEF UseInv, CountsUsers
  <2>7. /\ IsInjective(free_list') /\ valid' \in [Buffer -> BOOLEAN]
        /\ \A bg \in Buffer : bg # bf => (bg <= buffer_count' <=> bg <= buffer_count)
    BY <2>1, <2>2 DEF UseInv, UseType, CountsUsers
  <2> QED BY <1>1, <2>1, <2>2, <2>4, <2>5, <2>6, <2>7, ReadUse
<1>4. CASE NotCached(b) /\ bread_recycled(t, b)
  <2> DEFINE bf == list_last(free_list)
  <2>1. /\ ~list_empty(free_list) /\ UNCHANGED <<buffer_count, dirty>>
        /\ free_list' = list_remove(free_list, bf)
        /\ block' = [block EXCEPT ![bf] = b]
        /\ count' = [count EXCEPT ![bf] = 1]
        /\ Invalidated(bf)
        /\ ReadIfInvalid(t, bf)
    BY <1>4 DEF bread_recycled
  <2>2. bf \in Buffer /\ Linked(free_list, bf)
    BY <2>1 DEF BufferInv, CacheOK, list_empty, list_last, Linked
  <2> HIDE DEF bf
  <2>3. count[bf] = 0 /\ bf <= buffer_count /\ block \in [Buffer -> Block \cup {NoBlock}]
    BY <2>2 DEF UseInv, CountsUsers, BufferInv, CacheOK
  <2>4. count' = [count EXCEPT ![bf] = @ + 1]
    BY <2>1, <2>2, <2>3
  <2>5. /\ valid' \in [Buffer -> BOOLEAN] /\ ~valid'[bf]
        /\ \A bg \in Buffer : bg # bf => valid'[bg] = valid[bg]
    BY <2>1, <2>2 DEF Invalidated, UseInv, UseType
  <2>6. MadeAreHashed'
    <3> SUFFICES ASSUME NEW bg \in Buffer
                 PROVE  IF bg <= buffer_count' THEN block'[bg] \in Block
                        ELSE block'[bg] = NoBlock /\ count'[bg] = 0 /\ ~valid'[bg]
      BY DEF MadeAreHashed
    <3>1. CASE bg = bf
      BY <2>1, <2>2, <2>3, <3>1
    <3>2. CASE bg # bf
      <4>1. block'[bg] = block[bg] /\ count'[bg] = count[bg]
        BY <2>1, <2>3, <3>2 DEF UseInv, UseType
      <4> QED BY <2>1, <2>5, <3>2, <4>1 DEF UseInv, MadeAreHashed
    <3> QED BY <3>1, <3>2
  <2>7. /\ IsInjective(free_list')
        /\ \A bg \in Buffer : Linked(free_list', bg) <=> Linked(free_list, bg) /\ bg # bf
    BY <2>1, <2>2, LeavesFreeList
  <2>8. \A bg \in Buffer : valid'[bg] = valid[bg] \/ (bg = bf /\ count[bf] = 0 /\ ~valid'[bf])
    BY <2>3, <2>5
  <2> QED BY <1>1, <2>1, <2>2, <2>4, <2>5, <2>6, <2>7, <2>8, ReadUse
<1>5. CASE bread_waits(t)
  <2>1. /\ BlockAt(t, "get_free_buffer", 0)
        /\ UNCHANGED <<held, table, count, dirty, valid, free_list>>
    BY <1>5 DEF bread_waits, fields
  <2>2. /\ pc'[t] = "get_free_buffer"
        /\ \A u \in Task : u # t => pc'[u] = pc[u] /\ buf'[u] = buf[u]
    BY <2>1 DEF BlockAt, Goto, BufferInv, KernelOK
  <2>3. dirty' \in [Buffer -> BOOLEAN]
    BY <2>1 DEF UseInv, UseType
  <2> QED BY <1>1, <2>1, <2>2, <2>3, QuietUse
<1> QED BY <1>2, <1>3, <1>4, <1>5 DEF bread

\* A task that was woken finds the buffer locked or invalid, and waits on.
LEMMA WaitOnUse ==
    ASSUME BufferInv, UseInv, NEW t \in Task, pc[t] = "lock",
           ~(lock[buf[t]].holder = Boot /\ valid[buf[t]]),
           LockToRead(t, buf[t]),
           UNCHANGED <<held, table, count, dirty, valid, free_list>>
    PROVE  UseInv'
<1>1. /\ pc'[t] \in {"lock", "bread"} /\ buf'[t] = buf[t]
      /\ pc'[t] = "bread" => ~valid[buf[t]]
      /\ \A u \in Task : u # t => pc'[u] = pc[u] /\ buf'[u] = buf[u]
  BY DEF LockToRead, BlockAt, Goto, BufferInv, KernelOK
<1>2. \A bg \in Buffer : Users(bg)' = Users(bg)
  BY <1>1 DEF Users
<1>3. UseType' /\ MadeAreHashed' /\ ValidOK'
  BY DEF UseInv, UseType, MadeAreHashed, ValidOK, table
<1>4. \A u \in Task : HasRoom(u)' <=> HasRoom(u)
  BY DEF HasRoom, HeldBy
<1>5. CallsOK'
  BY <1>1, <1>4 DEF UseInv, CallsOK
<1>6. CountsUsers'
  BY <1>2 DEF UseInv, CountsUsers, table
<1> QED BY <1>3, <1>5, <1>6 DEF UseInv

LEMMA BreadAgainUse ==
    ASSUME BufferInv, UseInv, NEW t \in Task, bread_again(t) \/ bread_done(t)
    PROVE  UseInv'
<1> DEFINE bf == buf[t]
<1>1. /\ pc[t] \in {"lock", "bread"}
      /\ UNCHANGED <<table, count, free_list>>
  BY DEF bread_again, bread_done, fields
<1>2. bf \in Buffer /\ dirty \in [Buffer -> BOOLEAN] /\ valid \in [Buffer -> BOOLEAN]
  BY <1>1 DEF BufferInv, KernelOK, About, UseInv, UseType
<1>3. CASE bread_done(t)
  <2>1. /\ pc[t] = "bread" /\ Holds(t, bf) /\ BackToFs(t)
        /\ dirty' = [dirty EXCEPT ![bf] = FALSE]
        /\ valid' = [valid EXCEPT ![bf] = TRUE]
    BY <1>3 DEF bread_done
  <2> HIDE DEF bf
  <2>2. /\ dirty' \in [Buffer -> BOOLEAN] /\ valid' \in [Buffer -> BOOLEAN]
        /\ \A bg \in Buffer : dirty'[bg] => dirty[bg]
        /\ \A bg \in Buffer : bg # bf => valid'[bg] = valid[bg]
        /\ valid'[bf]
    BY <1>2, <2>1
  <2> QED BY <1>1, <1>2, <2>1, <2>2, ReadDoneUse DEF bf
<1>4. CASE bread_again(t) /\ lock[bf].holder = Boot /\ valid[bf]
  <2>1. pc[t] = "lock" /\ Holds(t, bf) /\ BackToFs(t) /\ UNCHANGED <<dirty, valid>>
    BY <1>4 DEF bread_again, fields
  <2> QED BY <1>1, <1>2, <1>4, <2>1, ReadDoneUse
<1>5. CASE bread_again(t) /\ ~(lock[bf].holder = Boot /\ valid[bf])
  <2>1. pc[t] = "lock" /\ LockToRead(t, bf) /\ UNCHANGED <<held, dirty, valid>>
    BY <1>5 DEF bread_again, fields
  <2> QED BY <1>1, <1>5, <2>1, WaitOnUse
<1> QED BY <1>3, <1>4, <1>5

-----------------------------------------------------------------------------
\* The steps that change no use: a change, the start of a write, a task that
\* enters or leaves the file system, a switch and an interrupt.
LEMMA QuietSteps ==
    ASSUME BufferInv, UseInv,
           \/ Preempt
           \/ \E t \in Task : enter(t) \/ leave(t) \/ disk_interrupt(t)
           \/ \E t \in Task, bf \in Buffer : change(t, bf) \/ bwrite(t, bf)
           \/ UNCHANGED vars
    PROVE  UseInv'
<1>1. CASE Preempt \/ (\E t \in Task : disk_interrupt(t)) \/ UNCHANGED vars
  <2>1. UNCHANGED <<pc, buf, held, table, count, dirty, valid, free_list>>
    BY <1>1 DEF Preempt, Preempted, disk_interrupt, vars, cacheVars, fields
  <2>2. dirty' \in [Buffer -> BOOLEAN]
    BY <2>1 DEF UseInv, UseType
  <2> QED BY <2>1, <2>2, QuietUse
<1>2. ASSUME NEW t \in Task, enter(t) \/ leave(t) PROVE UseInv'
  <2>1. /\ UNCHANGED <<buf, held, table, count, dirty, valid, free_list>>
        /\ pc[t] \in {"user", "fs"}
        /\ \E l \in {"user", "fs"} : pc' = [pc EXCEPT ![t] = l]
    BY <1>2 DEF enter, leave, Goto, cacheVars, fields
  <2>2. pc'[t] \in {"user", "fs"} /\ \A u \in Task : u # t => pc'[u] = pc[u]
    BY <2>1 DEF BufferInv, KernelOK
  <2>3. dirty' \in [Buffer -> BOOLEAN]
    BY <2>1 DEF UseInv, UseType
  <2> QED BY <2>1, <2>2, <2>3, QuietUse
<1>3. ASSUME NEW t \in Task, NEW bf \in Buffer, change(t, bf) PROVE UseInv'
  <2>1. /\ UNCHANGED <<pc, buf, held, table, count, valid, free_list>>
        /\ held[t][bf] > 0
        /\ dirty' = [dirty EXCEPT ![bf] = TRUE]
    BY <1>3 DEF change
  <2>2. /\ dirty' \in [Buffer -> BOOLEAN]
        /\ \A bg \in Buffer : dirty'[bg] => dirty[bg] \/ \E u \in Task : held[u][bg] > 0
    BY <2>1 DEF UseInv, UseType
  <2> QED BY <2>1, <2>2, QuietUse
<1>4. ASSUME NEW t \in Task, NEW bf \in Buffer, bwrite(t, bf) PROVE UseInv'
  <2>1. /\ UNCHANGED <<held, table, count, dirty, valid, free_list>>
        /\ pc[t] = "fs" /\ held[t][bf] > 0
        /\ BlockAt(t, "bwrite", bf)
    BY <1>4 DEF bwrite, cacheVars, fields
  <2>2. /\ pc'[t] = "bwrite" /\ buf'[t] = bf
        /\ \A u \in Task : u # t => pc'[u] = pc[u] /\ buf'[u] = buf[u]
    BY <2>1 DEF BlockAt, Goto, BufferInv, KernelOK
  <2>3. dirty' \in [Buffer -> BOOLEAN]
    BY <2>1 DEF UseInv, UseType
  <2> QED BY <2>1, <2>2, <2>3, QuietUse
<1> QED BY <1>1, <1>2, <1>3, <1>4

\* t has written bf: it is clean, and valid as before.
LEMMA WrittenUse ==
    ASSUME BufferInv, UseInv, NEW t \in Task, pc[t] \in {"bwrite", "brelse"},
           valid' = [valid EXCEPT ![buf[t]] = TRUE]
    PROVE  UNCHANGED valid /\ held[t][buf[t]] > 0 /\ buf[t] \in Buffer
<1>1. held[t][buf[t]] > 0 /\ buf[t] \in Buffer
  BY DEF BufferInv, KernelOK, About, UseInv, CallsOK
<1>2. valid \in [Buffer -> BOOLEAN] /\ valid[buf[t]]
  BY <1>1 DEF UseInv, UseType, ValidOK
<1>3. valid[buf[t]] = TRUE
  BY <1>1, <1>2
<1> QED BY <1>1, <1>2, <1>3

LEMMA WrittenDoneUse ==
    ASSUME BufferInv, UseInv, NEW t \in Task, bwrite_done(t) PROVE UseInv'
<1>1. /\ pc[t] = "bwrite" /\ BackToFs(t)
      /\ dirty' = [dirty EXCEPT ![buf[t]] = FALSE]
      /\ valid' = [valid EXCEPT ![buf[t]] = TRUE]
      /\ UNCHANGED <<held, table, count, free_list>>
  BY DEF bwrite_done
<1>2. UNCHANGED valid /\ buf[t] \in Buffer
  BY <1>1, WrittenUse
<1>3. /\ pc'[t] = "fs"
      /\ \A u \in Task : u # t => pc'[u] = pc[u] /\ buf'[u] = buf[u]
  BY <1>1 DEF BackToFs, Goto, BufferInv, KernelOK
<1>4. /\ dirty' \in [Buffer -> BOOLEAN]
      /\ \A bg \in Buffer : dirty'[bg] => dirty[bg]
  BY <1>1, <1>2 DEF UseInv, UseType
<1> QED BY <1>1, <1>2, <1>3, <1>4, QuietUse

\* The end of brelse: a buffer that nobody uses any more becomes free.
LEMMA DropUse ==
    ASSUME BufferInv, UseInv, NEW t \in Task, NEW bf \in Buffer, Drop(t, bf),
           held[t][bf] > 0, pc[t] \in {"fs", "brelse"},
           UNCHANGED <<table, valid>>, dirty' \in [Buffer -> BOOLEAN], ~dirty'[bf],
           \A bg \in Buffer : bg # bf => dirty'[bg] = dirty[bg]
    PROVE  UseInv'
<1>1. /\ held' = [held EXCEPT ![t][bf] = @ - 1]
      /\ count' = [count EXCEPT ![bf] = @ - 1]
      /\ buf' = [buf EXCEPT ![t] = 0]
      /\ free_list' = IF count'[bf] > 0 THEN free_list ELSE list_push(free_list, bf)
  BY DEF Drop
<1>2. /\ pc'[t] \in {"fs", "panic"}
      /\ \A u \in Task : u # t => pc'[u] = pc[u] /\ buf'[u] = buf[u]
  BY <1>1 DEF Drop, Goto, BufferInv, KernelOK
<1>3. count[bf] > 0
  BY UseIsCounted
<1>4. bf <= buffer_count
  BY <1>3 DEF UseInv, MadeAreHashed
<1>5. /\ count' \in [Buffer -> Nat] /\ count'[bf] = count[bf] - 1
      /\ \A bg \in Buffer : bg # bf => count'[bg] = count[bg]
  <2>1. count \in [Buffer -> Nat] /\ count[bf] - 1 \in Nat
    BY <1>3 DEF UseInv, UseType
  <2> QED BY <1>1, <2>1
<1>6. /\ held' \in [Task -> [Buffer -> 0..MaxHeld]]
      /\ <<t, held[t][bf]>> \in Users(bf)
      /\ Users(bf)' = Users(bf) \ {<<t, held[t][bf]>>}
      /\ \A bg \in Buffer : bg # bf => Users(bg)' = Users(bg)
  BY <1>1, <1>2, DropUsers DEF UseInv
<1>7. free_list \in Seq(Buffer) /\ IsInjective(free_list) /\ ~Linked(free_list, bf)
  BY <1>3 DEF BufferInv, CacheOK, UseInv, CountsUsers
<1>8. /\ IsInjective(free_list')
      /\ \A bg \in Buffer : Linked(free_list', bg)
            <=> Linked(free_list, bg) \/ (bg = bf /\ count'[bf] = 0)
  <2>1. CASE count'[bf] > 0
    BY <1>1, <1>7, <2>1
  <2>2. CASE ~(count'[bf] > 0)
    <3>1. count'[bf] = 0 /\ free_list' = list_push(free_list, bf)
      <4>1. count'[bf] \in Nat
        BY <1>5
      <4>2. count'[bf] = 0
        BY <2>2, <4>1
      <4>3. free_list' = list_push(free_list, bf)
        BY <1>1, <2>2
      <4> QED BY <4>2, <4>3
    <3>2. 1 \in 1..(Len(free_list) + 1)
      BY <1>7
    <3>3. /\ IsInjective(list_push(free_list, bf))
          /\ \A n : Linked(list_push(free_list, bf), n) <=> Linked(free_list, n) \/ n = bf
      BY <1>7, <3>2, InsertLinks DEF list_push
    <3> QED BY <3>1, <3>3
  <2> QED BY <2>1, <2>2
<1>9. CountsUsers'
  <2> DEFINE x == <<t, held[t][bf]>>
  <2>1. x \in Users(bf) /\ Users(bf)' = Users(bf) \ {x}
    BY <1>6
  <2>2. count'[bf] \in Nat /\ UNCHANGED buffer_count
    BY <1>5 DEF table
  <2> HIDE DEF x
  <2> QED BY <1>1, <1>4, <1>6, <1>8, <2>1, <2>2, LoseKeepsCounts
<1>10. /\ \A u \in Task : u # t => held'[u] = held[u]
       /\ \A u \in Task, bg \in Buffer : held'[u][bg] > 0 => held[u][bg] > 0
  BY <1>1 DEF UseInv, UseType
<1>11. \A u \in Task : u # t => (HasRoom(u)' <=> HasRoom(u))
  BY <1>10 DEF HasRoom, HeldBy
<1>12. CallsOK'
  <2> SUFFICES ASSUME NEW u \in Task
               PROVE  /\ pc'[u] \in {"lock", "bread"} => HasRoom(u)'
                      /\ pc'[u] \in {"bwrite", "brelse"} => held'[u][buf'[u]] > 0
                      /\ pc'[u] = "bread" => ~valid'[buf'[u]]
    BY DEF CallsOK
  <2>1. /\ pc[u] \in {"lock", "bread"} => HasRoom(u)
        /\ pc[u] \in {"bwrite", "brelse"} => held[u][buf[u]] > 0
        /\ pc[u] = "bread" => ~valid[buf[u]]
    BY DEF UseInv, CallsOK
  <2> QED BY <1>2, <1>10, <1>11, <2>1
<1>13. ValidOK'
  BY <1>10 DEF UseInv, ValidOK
<1>14. MadeAreHashed'
  BY <1>4, <1>5 DEF UseInv, MadeAreHashed, table
<1>15. UseType'
  BY <1>5, <1>6 DEF UseInv, UseType
<1> QED BY <1>9, <1>12, <1>13, <1>14, <1>15 DEF UseInv

LEMMA ReleaseUse ==
    ASSUME BufferInv, UseInv, NEW t \in Task, NEW bf \in Buffer, brelse(t, bf)
    PROVE  UseInv'
<1>1. /\ pc[t] = "fs" /\ held[t][bf] > 0 /\ UNCHANGED <<table, dirty, valid>>
      /\ dirty' \in [Buffer -> BOOLEAN]
  BY DEF brelse, UseInv, UseType
<1>2. CASE dirty[bf]
  <2>1. BlockAt(t, "brelse", bf) /\ UNCHANGED <<held, count, free_list>>
    BY <1>2 DEF brelse
  <2>2. /\ pc'[t] = "brelse" /\ buf'[t] = bf
        /\ \A u \in Task : u # t => pc'[u] = pc[u] /\ buf'[u] = buf[u]
    BY <2>1 DEF BlockAt, Goto, BufferInv, KernelOK
  <2> QED BY <1>1, <2>1, <2>2, QuietUse
<1>3. CASE ~dirty[bf]
  <2>1. Drop(t, bf) /\ ~dirty'[bf]
    BY <1>1, <1>3 DEF brelse
  <2> QED BY <1>1, <2>1, DropUse
<1> QED BY <1>2, <1>3

LEMMA ReleasedUse ==
    ASSUME BufferInv, UseInv, NEW t \in Task, brelse_written(t) PROVE UseInv'
<1> DEFINE bf == buf[t]
<1>1. /\ pc[t] = "brelse" /\ Drop(t, bf) /\ UNCHANGED table
      /\ dirty' = [dirty EXCEPT ![bf] = FALSE]
      /\ valid' = [valid EXCEPT ![bf] = TRUE]
  BY DEF brelse_written
<1>2. UNCHANGED valid /\ held[t][bf] > 0 /\ bf \in Buffer
  BY <1>1, WrittenUse
<1>3. /\ dirty' \in [Buffer -> BOOLEAN] /\ ~dirty'[bf]
      /\ \A bg \in Buffer : bg # bf => dirty'[bg] = dirty[bg]
  BY <1>1, <1>2 DEF UseInv, UseType
<1> QED BY <1>1, <1>2, <1>3, DropUse

LEMMA StepUseInv == BufferInv /\ UseInv /\ [BufferNext]_vars => UseInv'
<1> SUFFICES ASSUME BufferInv, UseInv, [BufferNext]_vars PROVE UseInv'
  OBVIOUS
<1>1. CASE UNCHANGED vars
  BY <1>1, QuietSteps
<1>2. CASE BufferNext
  BY <1>2, QuietSteps, BreadUse, BreadAgainUse, WrittenDoneUse, ReleaseUse,
     ReleasedUse DEF BufferNext
<1> QED BY <1>1, <1>2

-----------------------------------------------------------------------------
(***************************************************************************)
(* The contents of the buffers and of the disk.                            *)
(***************************************************************************)
ContentType ==
    /\ data \in [Buffer -> Content]
    /\ disk \in [Block -> Content] /\ latest \in [Block -> Content]

\* A change is in a valid buffer until it is on the disk.
ContentOK ==
    /\ \A bf \in Buffer : valid[bf] => data[bf] = latest[block[bf]]
    /\ \A b \in Block : disk[b] = latest[b] \/ \E bf \in Buffer : block[bf] = b /\ dirty[bf]

\* The disk has served the request for which t waited.
Served(t) == pc[t] \in {"bread", "bwrite", "brelse"} /\ state[t] # "BLOCKED"

ServedOK ==
    \A t \in Task : Served(t) =>
       LET b == block[buf[t]]
       IN  latest[b] = IF pc[t] = "bread" THEN data[buf[t]] ELSE disk[b]

ContentInv == ContentOK /\ ServedOK

\* No request is served in this step.
NoneServed ==
    \A t \in Task : Served(t)' => Served(t) /\ pc'[t] = pc[t] /\ buf'[t] = buf[t]

LEMMA MoveServes ==
    ASSUME KernelOK, NEW t \in Task, NEW l, NEW b, Moves(t, l, b),
           l \in {"bread", "bwrite", "brelse"} => state'[t] = "BLOCKED",
           \A u \in Task : u # t /\ pc[u] # "lock"
              => (state'[u] = "BLOCKED" <=> state[u] = "BLOCKED")
    PROVE  NoneServed
<1>1. /\ pc'[t] = l
      /\ \A u \in Task : u # t => pc'[u] = pc[u] /\ buf'[u] = buf[u]
  BY DEF Moves, KernelOK
<1> QED BY <1>1 DEF NoneServed, Served

LEMMA StayServes ==
    ASSUME UNCHANGED <<pc, buf>>,
           \A u \in Task : state'[u] = "BLOCKED" <=> state[u] = "BLOCKED"
    PROVE  NoneServed
BY DEF NoneServed, Served

LEMMA BlockAtServes ==
    ASSUME KernelOK, NEW t \in Task, t = current, t # Idle,
           NEW l \in Label, NEW b \in Buffer \cup {0}, l \in About => b \in Buffer,
           BlockAt(t, l, b)
    PROVE  NoneServed
<1>1. /\ Moves(t, l, b)
      /\ \A u \in Task : state'[u] = "BLOCKED" <=> u = t \/ state[u] = "BLOCKED"
  BY BlockAtMoves
<1> QED BY <1>1, MoveServes

LEMMA LockToReadServes ==
    ASSUME KernelOK, NEW t \in Task, t = current, t # Idle, NEW bf \in Buffer,
           LockToRead(t, bf)
    PROVE  NoneServed
<1>1. PICK l \in {"bread", "lock"} : BlockAt(t, l, bf)
  BY DEF LockToRead
<1>2. l \in Label
  BY DEF Label
<1> QED BY <1>1, <1>2, BlockAtServes

LEMMA UnlockServes ==
    ASSUME BufferInv, NEW t \in Task, NEW bf \in Buffer, t # Idle, Unlock(bf), BackToFs(t)
    PROVE  NoneServed
<1> DEFINE w == lock[bf].waiters
<1>1. Moves(t, "fs", 0)
  BY DEF BackToFs, Goto, Moves, Label, About
<1>2. w \in Seq(Task)
  BY DEF BufferInv, LockOK, LockType
<1>3. \A u \in Task : pc[u] # "lock" => (state'[u] = "BLOCKED" <=> state[u] = "BLOCKED")
  <2>1. CASE list_empty(w)
    BY <2>1 DEF Unlock, Stay, taskVars
  <2>2. CASE ~list_empty(w)
    <3> DEFINE v == list_last(w)
    <3>1. schedule(Unblocked(state, {v}))
      BY <2>2 DEF Unlock
    <3>2. v \in Task /\ Linked(w, v)
      BY <1>2, <2>2 DEF list_empty, list_last, Linked
    <3> HIDE DEF v
    <3>3. pc[v] = "lock" /\ state[v] = "BLOCKED"
      BY <3>2 DEF BufferInv, LockOK, LockWaiters
    <3>4. {v} \in SUBSET Waiters(state)
      BY <3>2, <3>3 DEF Waiters, Sleeping
    <3>5. \A u \in Task : state'[u] = "BLOCKED" <=> state[u] = "BLOCKED" /\ u \notin {v}
      BY <3>1, <3>4, WakeStates DEF BufferInv
    <3> QED BY <3>3, <3>5
  <2> QED BY <2>1, <2>2
<1> QED BY <1>1, <1>3, MoveServes DEF BufferInv

-----------------------------------------------------------------------------
\* The contents are as they were and no buffer with a change becomes clean,
\* unless its block has been written.
LEMMA QuietContent ==
    ASSUME BufferInv, UseInv, UseInv', ContentInv, NoneServed,
           UNCHANGED <<data, contents>>,
           \A bf \in Buffer : block'[bf] = block[bf] \/ (count[bf] = 0 /\ ~valid'[bf]),
           \A bf \in Buffer : valid'[bf] => valid[bf] \/ data[bf] = latest[block[bf]],
           \A bf \in Buffer : dirty[bf] => dirty'[bf]
                                 \/ disk[block[bf]] = latest[block[bf]]
    PROVE  ContentInv'
<1>1. \A bf \in Buffer : valid'[bf] => data'[bf] = latest'[block'[bf]]
  BY DEF ContentInv, ContentOK, contents
<1>2. ASSUME NEW b \in Block
      PROVE  disk'[b] = latest'[b] \/ \E bf \in Buffer : block'[bf] = b /\ dirty'[bf]
  <2>1. CASE disk[b] = latest[b]
    BY <2>1 DEF contents
  <2>2. CASE disk[b] # latest[b]
    <3>1. PICK bf \in Buffer : block[bf] = b /\ dirty[bf]
      BY <2>2 DEF ContentInv, ContentOK
    <3>2. block'[bf] = block[bf]
      BY <3>1, NotInUse
    <3> QED BY <2>2, <3>1, <3>2
  <2> QED BY <2>1, <2>2
<1>3. ServedOK'
  <2> SUFFICES ASSUME NEW t \in Task, Served(t)'
               PROVE  latest'[block'[buf'[t]]] = IF pc'[t] = "bread" THEN data'[buf'[t]]
                                                 ELSE disk'[block'[buf'[t]]]
    BY DEF ServedOK
  <2>1. Served(t) /\ pc'[t] = pc[t] /\ buf'[t] = buf[t]
    BY DEF NoneServed
  <2>2. buf[t] \in Buffer /\ pc[t] \in {"bread", "bwrite", "brelse"}
    BY <2>1 DEF Served, About, BufferInv, KernelOK
  <2>3. count[buf[t]] > 0
    BY <2>2, UseIsCounted DEF UseInv, CallsOK
  <2>4. block'[buf[t]] = block[buf[t]]
    BY <2>2, <2>3
  <2> QED BY <2>1, <2>4 DEF ContentInv, ServedOK, contents
<1> QED BY <1>1, <1>2, <1>3 DEF ContentInv, ContentOK

LEMMA BreadContent ==
    ASSUME BufferInv, UseInv, UseInv', ContentInv, NEW t \in Task, NEW b \in Block,
           bread(t, b)
    PROVE  ContentInv'
<1>1. t = current /\ pc[t] = "fs" /\ t # Idle /\ UNCHANGED contents
  BY NotIdle DEF bread, BufferInv
<1>2. ASSUME NEW bf \in Buffer, ReadIfInvalid(t, bf) PROVE NoneServed
  <2>1. CASE Stay /\ UNCHANGED <<pc, buf>>
    BY <2>1, StayServes DEF Stay, taskVars
  <2>2. CASE LockToRead(t, bf)
    BY <1>1, <2>2, LockToReadServes DEF BufferInv
  <2> QED BY <1>2, <2>1, <2>2 DEF ReadIfInvalid
<1>3. CASE bread_cached(t, b)
  BY <1>1, <1>2, <1>3, QuietContent DEF bread_cached, table
<1>4. CASE bread_new(t, b)
  <2> DEFINE bf == buffer_count + 1
  <2>1. /\ buffer_count < BufferCount /\ block' = [block EXCEPT ![bf] = b]
        /\ UNCHANGED <<data, dirty, valid>> /\ ReadIfInvalid(t, bf)
    BY <1>4 DEF bread_new
  <2>2. bf \in Buffer /\ ~(bf <= buffer_count)
    BY <2>1, BufferAssumption DEF BufferInv, CacheOK, Buffer
  <2> HIDE DEF bf
  <2>3. count[bf] = 0 /\ ~valid[bf] /\ block \in [Buffer -> Block \cup {NoBlock}]
    BY <2>2 DEF UseInv, MadeAreHashed, BufferInv, CacheOK
  <2>4. \A bg \in Buffer : block'[bg] = block[bg] \/ (count[bg] = 0 /\ ~valid'[bg])
    BY <2>1, <2>3
  <2> QED BY <1>1, <1>2, <2>1, <2>2, <2>4, QuietContent
<1>5. CASE bread_recycled(t, b)
  <2> DEFINE bf == list_last(free_list)
  <2>1. /\ ~list_empty(free_list) /\ block' = [block EXCEPT ![bf] = b]
        /\ UNCHANGED <<data, dirty>> /\ Invalidated(bf) /\ ReadIfInvalid(t, bf)
    BY <1>5 DEF bread_recycled
  <2>2. bf \in Buffer /\ Linked(free_list, bf)
    BY <2>1 DEF BufferInv, CacheOK, list_empty, list_last, Linked
  <2> HIDE DEF bf
  <2>3. count[bf] = 0 /\ block \in [Buffer -> Block \cup {NoBlock}]
    BY <2>2 DEF UseInv, CountsUsers, BufferInv, CacheOK
  <2>4. /\ ~valid'[bf]
        /\ \A bg \in Buffer : valid'[bg] => valid[bg]
    BY <2>1, <2>2 DEF Invalidated, UseInv, UseType
  <2>5. \A bg \in Buffer : block'[bg] = block[bg] \/ (count[bg] = 0 /\ ~valid'[bg])
    BY <2>1, <2>3, <2>4
  <2> QED BY <1>1, <1>2, <2>1, <2>2, <2>4, <2>5, QuietContent
<1>6. CASE bread_waits(t)
  <2>1. /\ BlockAt(t, "get_free_buffer", 0)
        /\ UNCHANGED <<data, dirty, valid, block>>
    BY <1>6 DEF bread_waits, fields, table
  <2>2. NoneServed
    BY <1>1, <2>1, BlockAtServes DEF Label, About, BufferInv
  <2> QED BY <1>1, <2>1, <2>2, QuietContent
<1> QED BY <1>3, <1>4, <1>5, <1>6 DEF bread

LEMMA BreadAgainContent ==
    ASSUME BufferInv, UseInv, UseInv', ContentInv, NEW t \in Task,
           bread_again(t) \/ bread_done(t)
    PROVE  ContentInv'
<1> DEFINE bf == buf[t]
<1>1. /\ t = current /\ pc[t] \in {"lock", "bread"}
      /\ UNCHANGED <<block, data, contents>>
  BY DEF bread_again, bread_done, table, fields
<1>2. t # Idle /\ bf \in Buffer
  BY <1>1, NotIdle DEF BufferInv, KernelOK, About
<1>3. NoneServed
  <2>1. CASE Unlock(bf) /\ BackToFs(t)
    BY <1>2, <2>1, UnlockServes
  <2>2. CASE LockToRead(t, bf)
    BY <1>1, <1>2, <2>2, LockToReadServes DEF BufferInv
  <2> QED BY <2>1, <2>2 DEF bread_again, bread_done
<1>4. CASE bread_again(t)
  <2>1. UNCHANGED <<dirty, valid>>
    BY <1>4 DEF bread_again, fields
  <2> QED BY <1>1, <1>3, <2>1, QuietContent
<1>5. CASE bread_done(t)
  <2>1. /\ pc[t] = "bread"
        /\ dirty' = [dirty EXCEPT ![bf] = FALSE]
        /\ valid' = [valid EXCEPT ![bf] = TRUE]
    BY <1>5 DEF bread_done
  <2>2. ~valid[bf] /\ ~dirty[bf]
    BY <1>2, <2>1 DEF UseInv, CallsOK, ValidOK
  <2>3. data[bf] = latest[block[bf]]
    <3>1. state[t] # "BLOCKED"
      BY <1>1, CurrentRuns DEF BufferInv
    <3> QED BY <2>1, <3>1 DEF ContentInv, ServedOK, Served
  <2>4. \A bg \in Buffer : valid'[bg] => valid[bg] \/ data[bg] = latest[block[bg]]
    BY <2>1, <2>3 DEF UseInv, UseType
  <2>5. \A bg \in Buffer : dirty[bg] => dirty'[bg]
    BY <2>1, <2>2 DEF UseInv, UseType
  <2> QED BY <1>1, <1>3, <2>4, <2>5, QuietContent
<1> QED BY <1>4, <1>5

LEMMA QuietContentSteps ==
    ASSUME BufferInv, UseInv, UseInv', ContentInv,
           \/ Preempt
           \/ \E t \in Task : enter(t) \/ leave(t) \/ bwrite_done(t) \/ brelse_written(t)
           \/ \E t \in Task, bf \in Buffer : bwrite(t, bf) \/ brelse(t, bf)
           \/ UNCHANGED vars
    PROVE  ContentInv'
<1>1. CASE Preempt \/ UNCHANGED vars
  <2>1. UNCHANGED <<pc, buf, block, data, dirty, valid, contents>>
    BY <1>1 DEF Preempt, Preempted, vars, cacheVars, fields, table
  <2>2. \A u \in Task : state'[u] = "BLOCKED" <=> state[u] = "BLOCKED"
    <3>1. CASE UNCHANGED vars
      BY <3>1 DEF vars, taskVars
    <3>2. CASE Preempt
      <4>1. {} \in SUBSET Waiters(state) /\ state = Unblocked(state, {})
        BY DEF BufferInv, KernelOK, TaskInv, TaskTypeOK, Unblocked
      <4>2. schedule(Unblocked(state, {}))
        BY <3>2, <4>1 DEF Preempt, Preempted
      <4> QED BY <4>1, <4>2, WakeStates DEF BufferInv
    <3> QED BY <1>1, <3>1, <3>2
  <2> QED BY <2>1, <2>2, StayServes, QuietContent
<1>2. ASSUME NEW t \in Task, enter(t) \/ leave(t) PROVE ContentInv'
  <2>1. /\ UNCHANGED <<state, buf, block, data, dirty, valid, contents>>
        /\ \E l \in {"user", "fs"} : pc' = [pc EXCEPT ![t] = l]
    BY <1>2 DEF enter, leave, Goto, Stay, taskVars, cacheVars, fields, table
  <2>2. NoneServed
    BY <2>1 DEF NoneServed, Served, BufferInv, KernelOK
  <2> QED BY <2>1, <2>2, QuietContent
<1>3. ASSUME NEW t \in Task, NEW bf \in Buffer, t = current, pc[t] = "fs",
             NEW l \in {"bwrite", "brelse"}, BlockAt(t, l, bf),
             UNCHANGED <<block, data, dirty, valid, contents>>
      PROVE  ContentInv'
  <2>1. NoneServed
    BY <1>3, NotIdle, BlockAtServes DEF Label, BufferInv
  <2> QED BY <1>3, <2>1, QuietContent
<1>4. ASSUME NEW t \in Task, pc[t] \in {"bwrite", "brelse"}, t = current,
             Stay, UNCHANGED <<block, data, contents>>, NoneServed,
             dirty' = [dirty EXCEPT ![buf[t]] = FALSE],
             valid' = [valid EXCEPT ![buf[t]] = TRUE]
      PROVE  ContentInv'
  <2>1. UNCHANGED valid /\ buf[t] \in Buffer
    BY <1>4, WrittenUse
  <2>2. disk[block[buf[t]]] = latest[block[buf[t]]]
    <3>1. state[t] # "BLOCKED"
      BY <1>4, CurrentRuns DEF BufferInv
    <3> QED BY <1>4, <3>1 DEF ContentInv, ServedOK, Served
  <2>3. \A bf \in Buffer : dirty[bf] => dirty'[bf] \/ disk[block[bf]] = latest[block[bf]]
    BY <1>4, <2>2 DEF UseInv, UseType
  <2> QED BY <1>4, <2>1, <2>3, QuietContent
<1>5. ASSUME NEW t \in Task, Stay, NEW l \in {"fs", "panic"},
             pc' = [pc EXCEPT ![t] = l], buf' = [buf EXCEPT ![t] = 0]
      PROVE  NoneServed
  BY <1>5 DEF Stay, taskVars, NoneServed, Served, BufferInv, KernelOK
<1>6. ASSUME NEW t \in Task, NEW bf \in Buffer, Drop(t, bf) PROVE NoneServed
  <2>1. /\ Stay /\ buf' = [buf EXCEPT ![t] = 0]
        /\ \E l \in {"fs", "panic"} : pc' = [pc EXCEPT ![t] = l]
    BY <1>6 DEF Drop, Goto
  <2> QED BY <1>5, <2>1
<1>7. ASSUME NEW t \in Task, bwrite_done(t) PROVE ContentInv'
  <2>1. NoneServed
    BY <1>5, <1>7 DEF bwrite_done, BackToFs, Goto
  <2> QED BY <1>4, <1>7, <2>1 DEF bwrite_done, table
<1>8. ASSUME NEW t \in Task, brelse_written(t) PROVE ContentInv'
  <2>1. pc[t] = "brelse" /\ buf[t] \in Buffer
    BY <1>8 DEF brelse_written, BufferInv, KernelOK, About
  <2>2. NoneServed
    BY <1>6, <1>8, <2>1 DEF brelse_written
  <2> QED BY <1>4, <1>8, <2>1, <2>2 DEF brelse_written, table, Drop
<1>9. ASSUME NEW t \in Task, NEW bf \in Buffer, bwrite(t, bf) PROVE ContentInv'
  <2>1. /\ t = current /\ pc[t] = "fs" /\ BlockAt(t, "bwrite", bf)
        /\ UNCHANGED <<block, data, dirty, valid, contents>>
    BY <1>9 DEF bwrite, cacheVars, fields, table
  <2> QED BY <1>3, <2>1
<1>10. ASSUME NEW t \in Task, NEW bf \in Buffer, brelse(t, bf) PROVE ContentInv'
  <2>1. t = current /\ pc[t] = "fs" /\ UNCHANGED <<block, data, dirty, valid, contents>>
    BY <1>10 DEF brelse, table
  <2>2. CASE BlockAt(t, "brelse", bf)
    BY <1>3, <2>1, <2>2
  <2>3. CASE Drop(t, bf)
    <3>1. NoneServed
      BY <1>6, <2>3
    <3> QED BY <2>1, <3>1, QuietContent
  <2> QED BY <1>10, <2>2, <2>3 DEF brelse
<1> QED BY <1>1, <1>2, <1>7, <1>8, <1>9, <1>10

\* The buffer that is changed is valid, and its block is not being written.
LEMMA ChangeContent ==
    ASSUME ~WhileWritten, BufferInv, UseInv, ContentInv, ContentType,
           NEW t \in Task, NEW bf \in Buffer, change(t, bf)
    PROVE  ContentInv'
<1> DEFINE b == block[bf]
<1>1. /\ \A u \in Task : ~(pc[u] \in {"bwrite", "brelse"} /\ buf[u] = bf)
      /\ latest' = [latest EXCEPT ![b] = @ + 1]
      /\ data' = [data EXCEPT ![bf] = latest'[b]]
      /\ dirty' = [dirty EXCEPT ![bf] = TRUE]
      /\ UNCHANGED <<state, pc, buf, block, valid, disk>>
      /\ held[t][bf] > 0
  BY DEF change, Stay, taskVars, table
<1>2. valid[bf] /\ b \in Block
  <2>1. count[bf] > 0
    BY <1>1, UseIsCounted
  <2> QED BY <1>1, <2>1 DEF UseInv, ValidOK, MadeAreHashed
<1>3. \A bg \in Buffer : bg # bf => block[bg] # b
  BY <1>2, BufferAssumption DEF BufferInv, CacheOK, OneBufferPerBlock
<1> HIDE DEF b
<1>4. /\ data'[bf] = latest'[b] /\ dirty'[bf]
      /\ \A bg \in Buffer : bg # bf => data'[bg] = data[bg] /\ dirty'[bg] = dirty[bg]
      /\ \A c \in Block : c # b => latest'[c] = latest[c]
  BY <1>1, <1>2 DEF ContentType, UseInv, UseType
<1>5. ASSUME NEW bg \in Buffer, valid'[bg] PROVE data'[bg] = latest'[block'[bg]]
  <2>1. CASE bg = bf
    BY <1>1, <1>4, <2>1 DEF b
  <2>2. CASE bg # bf
    <3>1. block[bg] \in Block
      BY <1>1, <1>5 DEF UseInv, MadeAreHashed
    <3> QED BY <1>1, <1>3, <1>4, <1>5, <2>2, <3>1 DEF ContentInv, ContentOK
  <2> QED BY <2>1, <2>2
<1>6. ASSUME NEW c \in Block
      PROVE  disk'[c] = latest'[c] \/ \E bg \in Buffer : block'[bg] = c /\ dirty'[bg]
  <2>1. CASE c = b
    BY <1>1, <1>4, <2>1 DEF b
  <2>2. CASE c # b
    <3>1. CASE disk[c] = latest[c]
      BY <1>1, <1>4, <2>2, <3>1
    <3>2. CASE disk[c] # latest[c]
      <4>1. PICK bg \in Buffer : block[bg] = c /\ dirty[bg]
        BY <3>2 DEF ContentInv, ContentOK
      <4>2. bg # bf
        BY <2>2, <4>1 DEF b
      <4> QED BY <1>1, <1>4, <4>1, <4>2
    <3> QED BY <3>1, <3>2
  <2> QED BY <2>1, <2>2
<1>7. ASSUME NEW u \in Task, Served(u)'
      PROVE  latest'[block'[buf'[u]]] = IF pc'[u] = "bread" THEN data'[buf'[u]]
                                        ELSE disk'[block'[buf'[u]]]
  <2> DEFINE bg == buf[u]
  <2>1. Served(u) /\ bg \in Buffer
    BY <1>1, <1>7 DEF Served, About, BufferInv, KernelOK
  <2>2. bg # bf
    BY <1>1, <1>2, <2>1 DEF Served, UseInv, CallsOK
  <2>3. block[bg] \in Block
    <3>1. count[bg] > 0
      BY <2>1, UseIsCounted DEF Served, UseInv, CallsOK
    <3> QED BY <2>1, <3>1 DEF UseInv, MadeAreHashed
  <2>4. latest[block[bg]] = IF pc[u] = "bread" THEN data[bg] ELSE disk[block[bg]]
    BY <2>1 DEF ContentInv, ServedOK
  <2>5. block[bg] # b /\ latest'[block[bg]] = latest[block[bg]] /\ data'[bg] = data[bg]
    BY <1>3, <1>4, <2>1, <2>2, <2>3
  <2> QED BY <1>1, <2>4, <2>5
<1> QED BY <1>5, <1>6, <1>7 DEF ContentInv, ContentOK, ServedOK

\* What the disk reads is up to date, and so is what it writes.
LEMMA InterruptContent ==
    ASSUME BufferInv, UseInv, ContentInv, ContentType,
           NEW t \in Task, disk_interrupt(t)
    PROVE  ContentInv'
<1> DEFINE bf == buf[t]
           b == block[bf]
<1>1. /\ pc[t] \in {"bread", "bwrite", "brelse"}
      /\ state' = Unblocked(state, {t})
      /\ UNCHANGED <<pc, buf, block, dirty, valid, latest>>
      /\ IF pc[t] = "bread"
         THEN data' = [data EXCEPT ![bf] = disk[b]] /\ UNCHANGED disk
         ELSE disk' = [disk EXCEPT ![b] = data[bf]] /\ UNCHANGED data
  BY DEF disk_interrupt, table
<1>2. bf \in Buffer /\ b \in Block
  <2>1. bf \in Buffer
    BY <1>1 DEF About, BufferInv, KernelOK
  <2>2. count[bf] > 0
    BY <1>1, <2>1, UseIsCounted DEF UseInv, CallsOK
  <2> QED BY <2>1, <2>2 DEF UseInv, MadeAreHashed
<1>3. ASSUME NEW u \in Task, Served(u)', u # t PROVE Served(u)
  BY <1>1, <1>3 DEF Served, Unblocked
<1>4. CASE pc[t] = "bread"
  <2>1. ~valid[bf] /\ ~dirty[bf]
    BY <1>2, <1>4 DEF UseInv, CallsOK, ValidOK
  <2>2. \A bg \in Buffer : block[bg] = b => bg = bf
    BY <1>2, BufferAssumption DEF BufferInv, CacheOK, OneBufferPerBlock
  <2>3. disk[b] = latest[b]
    BY <1>2, <2>1, <2>2 DEF ContentInv, ContentOK
  <2> HIDE DEF bf
  <2>4. /\ data'[bf] = latest[b] /\ UNCHANGED disk
        /\ \A bg \in Buffer : bg # bf => data'[bg] = data[bg]
    BY <1>1, <1>2, <1>4, <2>3 DEF ContentType
  <2>5. ContentOK'
    BY <1>1, <2>1, <2>4 DEF ContentInv, ContentOK
  <2>6. ASSUME NEW u \in Task, Served(u)'
        PROVE  latest[block[buf[u]]] = IF pc[u] = "bread" THEN data'[buf[u]]
                                       ELSE disk[block[buf[u]]]
    <3>1. CASE u = t
      BY <1>4, <2>4, <3>1 DEF bf
    <3>2. CASE u # t
      <4>1. Served(u) /\ buf[u] \in Buffer
        BY <1>3, <2>6, <3>2 DEF Served, About, BufferInv, KernelOK
      <4>2. pc[u] = "bread" => buf[u] # bf
        BY <1>4, <3>2, OneReader DEF bf
      <4> QED BY <2>4, <4>1, <4>2 DEF ContentInv, ServedOK
    <3> QED BY <3>1, <3>2
  <2> QED BY <1>1, <2>4, <2>5, <2>6 DEF ContentInv, ServedOK
<1>5. CASE pc[t] # "bread"
  <2>1. valid[bf]
    BY <1>1, <1>2, <1>5 DEF UseInv, CallsOK, ValidOK
  <2>2. data[bf] = latest[b]
    BY <1>2, <2>1 DEF ContentInv, ContentOK
  <2> HIDE DEF b
  <2>3. /\ disk'[b] = latest[b] /\ UNCHANGED data
        /\ \A c \in Block : c # b => disk'[c] = disk[c]
    BY <1>1, <1>2, <1>5, <2>2 DEF ContentType
  <2>4. ContentOK'
    BY <1>1, <2>3 DEF ContentInv, ContentOK
  <2>5. ASSUME NEW u \in Task, Served(u)'
        PROVE  latest[block[buf[u]]] = IF pc[u] = "bread" THEN data[buf[u]]
                                       ELSE disk'[block[buf[u]]]
    <3>1. CASE u = t
      BY <1>5, <2>3, <3>1 DEF b
    <3>2. CASE u # t
      <4>1. Served(u) /\ buf[u] \in Buffer
        BY <1>3, <2>5, <3>2 DEF Served, About, BufferInv, KernelOK
      <4>2. block[buf[u]] \in Block
        <5>1. count[buf[u]] > 0
          BY <4>1, UseIsCounted DEF Served, UseInv, CallsOK
        <5> QED BY <4>1, <5>1 DEF UseInv, MadeAreHashed
      <4>3. latest[block[buf[u]]] = IF pc[u] = "bread" THEN data[buf[u]]
                                    ELSE disk[block[buf[u]]]
        BY <4>1 DEF ContentInv, ServedOK
      <4> QED BY <2>3, <4>2, <4>3
    <3> QED BY <3>1, <3>2
  <2> QED BY <1>1, <2>3, <2>4, <2>5 DEF ContentInv, ServedOK
<1> QED BY <1>4, <1>5

LEMMA StepContentInv ==
    ASSUME ~WhileWritten, BufferInv, UseInv, UseInv', ContentType, ContentInv,
           [BufferNext]_vars
    PROVE  ContentInv'
<1>1. CASE UNCHANGED vars
  BY <1>1, QuietContentSteps
<1>2. CASE BufferNext
  BY <1>2, QuietContentSteps, BreadContent, BreadAgainContent, ChangeContent,
     InterruptContent DEF BufferNext
<1> QED BY <1>1, <1>2

-----------------------------------------------------------------------------
TypeInv == ContentType /\ wait_list \in Seq(Task)

LEMMA StepTypeInv ==
    BufferInv /\ UseInv /\ TypeInv /\ [BufferNext]_vars => TypeInv'
<1> SUFFICES ASSUME BufferInv, UseInv, TypeInv, [BufferNext]_vars PROVE TypeInv'
  OBVIOUS
<1>1. CASE UNCHANGED <<data, contents, wait_list>>
  BY <1>1 DEF TypeInv, ContentType, contents
<1>2. ASSUME NEW t \in Task, NEW b \in Block, bread(t, b) PROVE TypeInv'
  <2>1. CASE bread_waits(t)
    <3>1. wait_list \in Seq(Task) /\ 1 \in 1..(Len(wait_list) + 1)
      BY DEF TypeInv
    <3>2. list_push(wait_list, t) \in Seq(Task)
      BY <3>1, InsertAtElements DEF list_push
    <3> QED BY <1>2, <2>1, <3>2 DEF bread, bread_waits, fields, TypeInv, ContentType, contents
  <2>2. CASE bread_cached(t, b) \/ bread_new(t, b) \/ bread_recycled(t, b)
    BY <1>1, <1>2, <2>2 DEF bread, bread_cached, bread_new, bread_recycled
  <2> QED BY <1>2, <2>1, <2>2 DEF bread
<1>3. ASSUME NEW t \in Task, NEW bf \in Buffer, Drop(t, bf), UNCHANGED <<data, contents>>
      PROVE  TypeInv'
  <2>1. CASE UNCHANGED wait_list
    BY <1>1, <1>3, <2>1
  <2>2. CASE /\ ~list_empty(wait_list)
             /\ wait_list' = list_remove(wait_list, list_last(wait_list))
    <3> DEFINE i == CHOOSE i \in DOMAIN wait_list : wait_list[i] = list_last(wait_list)
    <3>1. wait_list \in Seq(Task) /\ wait_list # <<>>
      BY <2>2 DEF TypeInv, list_empty
    <3>2. i \in 1..Len(wait_list)
      BY <3>1 DEF list_last
    <3>3. wait_list' = RemoveAt(wait_list, i)
      BY <2>2 DEF list_remove
    <3> HIDE DEF i
    <3>4. wait_list' \in Seq(Task)
      BY <3>1, <3>2, <3>3, RemoveAtElements
    <3> QED BY <1>3, <3>4 DEF TypeInv, ContentType, contents
  <2> QED BY <1>3, <2>1, <2>2 DEF Drop
<1>4. ASSUME NEW t \in Task, NEW bf \in Buffer, change(t, bf) PROVE TypeInv'
  <2> DEFINE b == block[bf]
  <2>1. /\ latest[b] < MaxChanges
        /\ latest' = [latest EXCEPT ![b] = @ + 1]
        /\ data' = [data EXCEPT ![bf] = latest'[b]]
        /\ UNCHANGED <<disk, wait_list>> /\ held[t][bf] > 0
    BY <1>4 DEF change
  <2>2. b \in Block
    <3>1. count[bf] > 0
      BY <2>1, UseIsCounted
    <3> QED BY <3>1 DEF UseInv, MadeAreHashed
  <2>3. latest[b] + 1 \in Content
    BY <2>1, <2>2, BufferAssumption DEF TypeInv, ContentType, Content
  <2> HIDE DEF b
  <2>4. latest' \in [Block -> Content] /\ latest'[b] = latest[b] + 1
    BY <2>1, <2>2, <2>3 DEF TypeInv, ContentType
  <2>5. data' \in [Buffer -> Content]
    BY <2>1, <2>3, <2>4 DEF TypeInv, ContentType
  <2> QED BY <2>1, <2>4, <2>5 DEF TypeInv, ContentType
<1>5. ASSUME NEW t \in Task, disk_interrupt(t) PROVE TypeInv'
  <2>1. /\ pc[t] \in {"bread", "bwrite", "brelse"} /\ UNCHANGED <<latest, wait_list>>
        /\ IF pc[t] = "bread"
           THEN data' = [data EXCEPT ![buf[t]] = disk[block[buf[t]]]] /\ UNCHANGED disk
           ELSE disk' = [disk EXCEPT ![block[buf[t]]] = data[buf[t]]] /\ UNCHANGED data
    BY <1>5 DEF disk_interrupt
  <2>2. buf[t] \in Buffer
    BY <2>1 DEF About, BufferInv, KernelOK
  <2>3. block[buf[t]] \in Block
    <3>1. count[buf[t]] > 0
      BY <2>1, <2>2, UseIsCounted DEF UseInv, CallsOK
    <3> QED BY <2>2, <3>1 DEF UseInv, MadeAreHashed
  <2> QED BY <2>1, <2>2, <2>3 DEF TypeInv, ContentType
<1>6. ASSUME NEW t \in Task, NEW bf \in Buffer, bwrite(t, bf) \/ brelse(t, bf) PROVE TypeInv'
  BY <1>1, <1>3, <1>6 DEF bwrite, brelse, cacheVars, fields
<1>7. ASSUME NEW t \in Task,
             \/ enter(t) \/ leave(t) \/ bread_again(t) \/ bread_done(t) \/ bwrite_done(t)
             \/ brelse_written(t)
      PROVE  TypeInv'
  <2>1. CASE brelse_written(t)
    <3>1. buf[t] \in Buffer
      BY <2>1 DEF brelse_written, BufferInv, KernelOK, About
    <3> QED BY <1>3, <2>1, <3>1 DEF brelse_written
  <2> QED BY <1>1, <1>7, <2>1 DEF enter, leave, bread_again, bread_done, bwrite_done,
             cacheVars, fields
<1>8. CASE Preempt \/ UNCHANGED vars
  BY <1>1, <1>8 DEF Preempt, vars, cacheVars, fields
<1> QED BY <1>2, <1>4, <1>5, <1>6, <1>7, <1>8 DEF BufferNext

-----------------------------------------------------------------------------
UsedInv == BufferInv /\ UseInv /\ TypeInv

LEMMA InitUsedInv == BufferInit => UsedInv
<1> SUFFICES ASSUME BufferInit PROVE UsedInv
  OBVIOUS
<1>1. TypeInv
  BY BufferAssumption DEF BufferInit, TypeInv, ContentType, Content
<1> QED BY <1>1, InitBufferInv, InitUseInv DEF UsedInv

LEMMA StepUsedInv == UsedInv /\ [BufferNext]_vars => UsedInv'
BY StepBufferInv, StepUseInv, StepTypeInv DEF UsedInv

\* Every field of every buffer, every list and every block keep their types.
THEOREM BufferTypes == BufferSpec => []BufferTypeOK
<1>1. UsedInv => BufferTypeOK
  BY DEF UsedInv, BufferInv, KernelOK, TaskInv, Label, CacheOK, LockOK, LockType,
     UseInv, UseType, TypeInv, ContentType, BufferTypeOK
<1> QED BY <1>1, InitUsedInv, StepUsedInv, PTL DEF BufferSpec

(***************************************************************************)
(* The count of a buffer is the number of its users, those included that   *)
(* wait in bread while others return it, and exactly the clean buffers     *)
(* without one are on the free list: none is recycled under a user.        *)
(***************************************************************************)
THEOREM BufferCounts == BufferSpec => []CountsUsers
<1>1. UsedInv => CountsUsers
  BY DEF UsedInv, UseInv
<1> QED BY <1>1, InitUsedInv, StepUsedInv, PTL DEF BufferSpec

(***************************************************************************)
(* bread returns a buffer that has been read, with the latest contents of  *)
(* its block, when no block is changed while it is being written: bwrite   *)
(* and brelse clear "dirty" after the write they wait for.                 *)
(***************************************************************************)
THEOREM BufferCoherent == ASSUME ~WhileWritten PROVE BufferSpec => []CacheIsCoherent
<1>1. BufferInit => ContentInv
  BY BufferAssumption DEF BufferInit, KernelInit, ContentInv, ContentOK, ServedOK, Served
<1>2. UsedInv /\ ContentInv /\ [BufferNext]_vars => ContentInv'
  BY StepUsedInv, StepContentInv DEF UsedInv, TypeInv
<1>3. UsedInv /\ ContentInv => CacheIsCoherent
  BY DEF UsedInv, UseInv, ValidOK, ContentInv, ContentOK, CacheIsCoherent
<1> QED BY <1>1, <1>2, <1>3, InitUsedInv, StepUsedInv, PTL DEF BufferSpec
=============================================================================
