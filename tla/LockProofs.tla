----------------------------- MODULE LockProofs -----------------------------
(***************************************************************************)
(* Proofs about the lock of Mutex.tla, for every set of tasks and every    *)
(* depth of nesting; then about Keyboard.tla, whose readers use the lock,  *)
(* for every set of keys and every length of the ring.                     *)
(***************************************************************************)
EXTENDS Keyboard, TaskProofs

(***************************************************************************)
(* Which states go with which program counters.  A task is blocked only in *)
(* mutex_lock or on a device, and the idle task takes no lock.             *)
(***************************************************************************)
PcStates ==
    /\ current \in Task
    /\ pc[Idle] = "user"
    /\ \A t \in Task : /\ state[t] \in {"READY", "RUNNING", "BLOCKED"}
                       /\ state[t] = "BLOCKED" => pc[t] \in {"mutex_lock", "device"}
                       /\ pc[t] = "device" => state[t] = "BLOCKED"

MutexInv ==
    MutexTypeOK /\ TaskInv /\ PcStates /\ LockInv /\ WaitersAreBlocked
    /\ NoLostWakeup

LEMMA InitMutexInv == MutexInit => MutexInv
<1> SUFFICES ASSUME MutexInit PROVE MutexInv
  OBVIOUS
<1> USE TaskAssumption, MutexAssumption DEF MutexInit, KernelInit
<1>1. MutexTypeOK
  <2>1. TaskTypeOK
    BY DEF TaskTypeOK, State
  <2>2. waiters \in Seq(Task) /\ repeat \in 0..MaxRepeat
    OBVIOUS
  <2> QED BY <2>1, <2>2 DEF MutexTypeOK
<1>2. TaskInv
  BY <1>1 DEF MutexTypeOK, TaskInv, RunningIsCurrent, IdleIsRunnable
<1>3. PcStates /\ NoLostWakeup
  BY DEF PcStates, NoLostWakeup
<1>4. LockInv /\ WaitersAreBlocked
  BY DEF LockInv, Holding, WaitersAreBlocked, Linked, IsInjective
<1> QED BY <1>1, <1>2, <1>3, <1>4 DEF MutexInv

(***************************************************************************)
(* A call of schedule() after which cur is in state s and W is awake.      *)
(***************************************************************************)
LEMMA ScheduleStates ==
    ASSUME MutexInv, NEW W \in SUBSET Waiters(state),
           NEW s \in {"RUNNING", "BLOCKED"}, s # "RUNNING" => current # Idle,
           schedule(Entering(Unblocked(state, W), current, s))
    PROVE  /\ WakeAndSwitch
           /\ current' \in Task
           /\ state' \in [Task -> {"READY", "RUNNING", "BLOCKED"}]
           /\ \A t \in Task : state'[t] = "BLOCKED"
                 <=> IF t = current THEN s = "BLOCKED"
                     ELSE state[t] = "BLOCKED" /\ t \notin W
<1> DEFINE st == Entering(Unblocked(state, W), current, s)
<1>1. /\ st = [t \in Task |-> IF t = current THEN s
                              ELSE IF t \in W THEN "READY" ELSE state[t]]
      /\ current \in Task
      /\ st \in [Task -> {"READY", "RUNNING", "BLOCKED"}]
      /\ st[Idle] \in {"READY", "RUNNING"}
  BY TaskAssumption DEF Entering, Unblocked, MutexInv, PcStates, MutexTypeOK,
     TaskTypeOK, TaskInv, IdleIsRunnable
<1> HIDE DEF st
<1>2. /\ current' \in Candidates(st, current)
      /\ state' = Switched(st, current, current')
  BY DEF schedule, st
<1>3. st \in [Task -> State] /\ st[Idle] \notin Sleeping
  BY <1>1 DEF State, Sleeping
<1>4. current' \in Task
  BY <1>1, <1>2, <1>3, CandidatesCanRun
<1>5. state' \in [Task -> {"READY", "RUNNING", "BLOCKED"}]
  BY <1>1, <1>2 DEF Switched
<1>6. \A t \in Task : state'[t] = "BLOCKED" <=> st[t] = "BLOCKED"
  BY <1>1, <1>2, <1>3, SwitchKeepsWaits DEF Sleeping
<1>7. WakeAndSwitch
  BY <1>1, <1>2, TaskAssumption DEF st, WakeAndSwitch, Sleeping
<1> QED BY <1>1, <1>4, <1>5, <1>6, <1>7

\* The same for a call that wakes nobody.
LEMMA ScheduleAlone ==
    ASSUME MutexInv, NEW s \in {"RUNNING", "BLOCKED"},
           s # "RUNNING" => current # Idle,
           schedule(Entering(state, current, s))
    PROVE  /\ WakeAndSwitch
           /\ current' \in Task
           /\ state' \in [Task -> {"READY", "RUNNING", "BLOCKED"}]
           /\ \A t \in Task : state'[t] = "BLOCKED"
                 <=> IF t = current THEN s = "BLOCKED" ELSE state[t] = "BLOCKED"
<1>1. state = Unblocked(state, {})
  BY DEF MutexInv, TaskInv, TaskTypeOK, Unblocked
<1>2. {} \in SUBSET Waiters(state)
  OBVIOUS
<1> QED BY <1>1, <1>2, ScheduleStates

\* The current task is running.
LEMMA CurrentRuns ==
    ASSUME MutexInv
    PROVE  /\ current \in Task /\ state[current] = "RUNNING"
           /\ \A W \in SUBSET Waiters(state) :
                 Unblocked(state, W)
                    = Entering(Unblocked(state, W), current, "RUNNING")
           /\ state = Entering(state, current, "RUNNING")
<1>1. current \in Task /\ state[current] = "RUNNING"
  BY DEF MutexInv, PcStates, TaskInv, RunningIsCurrent
<1>2. ASSUME NEW W \in SUBSET Waiters(state)
      PROVE  Unblocked(state, W) = Entering(Unblocked(state, W), current, "RUNNING")
  <2>1. current \notin W
    BY <1>1 DEF Waiters, Sleeping
  <2> QED BY <2>1, <1>1 DEF Unblocked, Entering
<1>3. state = Entering(state, current, "RUNNING")
  BY <1>1 DEF Entering, MutexInv, TaskInv, TaskTypeOK
<1> QED BY <1>1, <1>2, <1>3

-----------------------------------------------------------------------------
(***************************************************************************)
(* One lemma for each kind of step.  Each proves the whole invariant but   *)
(* TaskInv, which follows from the step being one of TaskSpec.             *)
(***************************************************************************)
StepResult ==
    /\ TaskNext \/ UNCHANGED taskVars
    /\ MutexTypeOK' /\ PcStates' /\ LockInv' /\ WaitersAreBlocked'
    /\ NoLostWakeup'

LEMMA PreemptStep == ASSUME MutexInv, Preempt PROVE StepResult
<1>1. schedule(Entering(state, current, "RUNNING")) /\ UNCHANGED <<pc, lockVars>>
  BY CurrentRuns DEF Preempt, Preempted
<1>2. /\ WakeAndSwitch
      /\ current' \in Task
      /\ state' \in [Task -> {"READY", "RUNNING", "BLOCKED"}]
      /\ \A t \in Task : state'[t] = "BLOCKED" <=> state[t] = "BLOCKED"
  BY <1>1, ScheduleAlone, CurrentRuns
<1>3. MutexTypeOK' /\ PcStates'
  BY <1>1, <1>2 DEF lockVars, MutexInv, MutexTypeOK, TaskTypeOK, PcStates, State,
                    Sleeping
<1>4. LockInv' /\ WaitersAreBlocked' /\ NoLostWakeup'
  BY <1>1, <1>2 DEF lockVars, MutexInv, LockInv, Holding, WaitersAreBlocked, Linked,
                    NoLostWakeup, Woken
<1> QED BY <1>2, <1>3, <1>4 DEF StepResult, TaskNext

LEMMA TakeStep ==
    ASSUME MutexInv, NEW t \in Task, t = current, t # Idle, Take(t),
           pc[t] \in {"user", "mutex_lock"}
    PROVE  StepResult
<1>1. /\ value = FALSE /\ value' = TRUE /\ holder' = t /\ repeat' = 1
      /\ pc' = [pc EXCEPT ![t] = "held"]
      /\ UNCHANGED <<state, current, waiters>>
      /\ state[t] = "RUNNING"
  BY CurrentRuns DEF Take, Goto, Stay, taskVars
<1>2. MutexTypeOK' /\ PcStates'
  BY <1>1, MutexAssumption DEF MutexInv, MutexTypeOK, TaskTypeOK, PcStates
<1>3. Holding = {} /\ Holding' = {t}
  BY <1>1 DEF MutexInv, LockInv, Holding, MutexTypeOK
<1>4. LockInv' /\ WaitersAreBlocked' /\ NoLostWakeup'
  BY <1>1, <1>3 DEF MutexInv, MutexTypeOK, LockInv, WaitersAreBlocked, Linked,
                    NoLostWakeup
<1> QED BY <1>1, <1>2, <1>4 DEF StepResult, taskVars

LEMMA WaitStep ==
    ASSUME MutexInv, NEW t \in Task, t = current, t # Idle, Wait(t),
           pc[t] \in {"user", "mutex_lock"}
    PROVE  StepResult
<1>1. /\ value = TRUE /\ UNCHANGED <<value, holder, repeat>>
      /\ pc' = [pc EXCEPT ![t] = "mutex_lock"]
      /\ waiters' = InsertAt(waiters, 1, t)
      /\ schedule(Entering(state, current, "BLOCKED"))
      /\ state[t] = "RUNNING"
  BY CurrentRuns DEF Wait, Goto, list_push
<1>2. /\ WakeAndSwitch
      /\ current' \in Task
      /\ state' \in [Task -> {"READY", "RUNNING", "BLOCKED"}]
      /\ \A u \in Task : state'[u] = "BLOCKED" <=> u = t \/ state[u] = "BLOCKED"
  BY <1>1, ScheduleAlone
<1>3. ~Linked(waiters, t)
  BY <1>1 DEF MutexInv, WaitersAreBlocked
<1>4. /\ waiters' \in Seq(Task) /\ IsInjective(waiters')
      /\ \A u : Linked(waiters', u) <=> Linked(waiters, u) \/ u = t
  <2>1. waiters \in Seq(Task) /\ IsInjective(waiters) /\ 1 \in 1..(Len(waiters) + 1)
    BY DEF MutexInv, MutexTypeOK, WaitersAreBlocked
  <2> QED BY <1>1, <1>3, <2>1, InsertAtElements, InsertLinks
<1>5. MutexTypeOK' /\ PcStates'
  <2>1. TaskTypeOK'
    BY <1>2 DEF TaskTypeOK, State, Sleeping
  <2>2. pc' \in [Task -> {"user", "mutex_lock", "held", "device"}]
    BY <1>1 DEF MutexInv, MutexTypeOK
  <2>3. value' \in BOOLEAN /\ holder' \in Task \cup {Boot} /\ repeat' \in 0..MaxRepeat
    BY <1>1 DEF MutexInv, MutexTypeOK
  <2>4. PcStates'
    <3>1. PcStates /\ \A u \in Task : pc'[u] = IF u = t THEN "mutex_lock" ELSE pc[u]
      BY <1>1 DEF MutexInv, MutexTypeOK
    <3> QED BY <1>1, <1>2, <3>1 DEF PcStates
  <2> QED BY <1>4, <2>1, <2>2, <2>3, <2>4 DEF MutexTypeOK
<1>6. Holding' = Holding
  BY <1>1 DEF MutexInv, MutexTypeOK, Holding
<1>7. LockInv' /\ NoLostWakeup'
  BY <1>1, <1>6 DEF MutexInv, LockInv, NoLostWakeup
<1>8. WaitersAreBlocked'
  BY <1>1, <1>2, <1>4 DEF MutexInv, MutexTypeOK, WaitersAreBlocked
<1> QED BY <1>2, <1>5, <1>7, <1>8 DEF StepResult, TaskNext

\* Steps of the holder that only count.
LEMMA RepeatStep ==
    ASSUME MutexInv, NEW t \in Task, lock_reenter(t) \/ lock_release_nested(t)
    PROVE  StepResult
<1>1. /\ UNCHANGED <<state, current, pc, value, waiters, holder>>
      /\ repeat' \in 1..MaxRepeat
      /\ t \in Holding
  <2>1. repeat \in 0..MaxRepeat
    BY DEF MutexInv, MutexTypeOK
  <2>2. CASE lock_reenter(t)
    BY <2>1, <2>2, MutexAssumption DEF lock_reenter, Stay, taskVars, Holding
  <2>3. CASE lock_release_nested(t)
    BY <2>1, <2>3, MutexAssumption DEF lock_release_nested, Stay, taskVars, Holding
  <2> QED BY <2>2, <2>3
<1>2. MutexTypeOK' /\ PcStates'
  BY <1>1 DEF MutexInv, MutexTypeOK, TaskTypeOK, PcStates
<1>3. LockInv' /\ WaitersAreBlocked' /\ NoLostWakeup'
  BY <1>1 DEF MutexInv, LockInv, Holding, WaitersAreBlocked, Linked, NoLostWakeup,
              Woken
<1> QED BY <1>1, <1>2, <1>3 DEF StepResult, taskVars

LEMMA ReleaseStep ==
    ASSUME MutexInv, NEW t \in Task, lock_release(t)
    PROVE  StepResult
<1>1. /\ t = current /\ pc[t] = "held" /\ t # Idle
      /\ holder' = Boot /\ repeat' = 0 /\ value' = FALSE
      /\ pc' = [pc EXCEPT ![t] = "user"]
      /\ state[t] = "RUNNING"
  BY CurrentRuns DEF lock_release, Freed, WakeWaiter, Goto, MutexInv, PcStates
<1>2. Holding = {t} /\ Holding' = {}
  BY <1>1 DEF MutexInv, MutexTypeOK, LockInv, Holding
<1>3. LockInv'
  BY <1>1, <1>2 DEF LockInv
<1>4. CASE list_empty(waiters)
  <2>1. UNCHANGED <<state, current, waiters>> /\ waiters = <<>>
    BY <1>4 DEF lock_release, Freed, WakeWaiter, Stay, taskVars, list_empty
  <2>2. MutexTypeOK' /\ PcStates'
    <3>1. TaskTypeOK' /\ waiters' \in Seq(Task)
      BY <2>1 DEF MutexInv, MutexTypeOK, TaskTypeOK
    <3>2. pc' \in [Task -> {"user", "mutex_lock", "held", "device"}]
      BY <1>1 DEF MutexInv, MutexTypeOK
    <3>3. value' \in BOOLEAN /\ holder' \in Task \cup {Boot}
      BY <1>1
    <3>4. repeat' \in 0..MaxRepeat
      BY <1>1, MutexAssumption
    <3>5. PcStates'
      BY <1>1, <2>1 DEF MutexInv, MutexTypeOK, PcStates
    <3> QED BY <3>1, <3>2, <3>3, <3>4, <3>5 DEF MutexTypeOK
  <2>3. WaitersAreBlocked' /\ NoLostWakeup'
    BY <1>1, <2>1 DEF MutexInv, MutexTypeOK, WaitersAreBlocked, Linked, NoLostWakeup
  <2> QED BY <1>3, <2>1, <2>2, <2>3 DEF StepResult, taskVars
<1>5. CASE ~list_empty(waiters)
  <2> DEFINE w == list_last(waiters)
  <2>1. /\ waiters' = list_remove(waiters, w)
        /\ schedule(Unblocked(state, {w}))
    BY <1>5 DEF lock_release, Freed, WakeWaiter
  <2>2. waiters \in Seq(Task) /\ IsInjective(waiters) /\ waiters # <<>>
    BY <1>5 DEF MutexInv, MutexTypeOK, WaitersAreBlocked, list_empty
  <2>3. w \in Task /\ Linked(waiters, w)
    BY <2>2 DEF list_last, Linked
  <2> HIDE DEF w
  <2>4. pc[w] = "mutex_lock" /\ state[w] = "BLOCKED" /\ w # t
    BY <2>3, <1>1 DEF MutexInv, WaitersAreBlocked
  <2>5. {w} \in SUBSET Waiters(state)
    BY <2>3, <2>4 DEF Waiters, Sleeping
  <2>6. schedule(Entering(Unblocked(state, {w}), current, "RUNNING"))
    BY <2>1, <2>5, CurrentRuns
  <2>7. /\ WakeAndSwitch
        /\ current' \in Task
        /\ state' \in [Task -> {"READY", "RUNNING", "BLOCKED"}]
        /\ \A u \in Task : state'[u] = "BLOCKED" <=> state[u] = "BLOCKED" /\ u # w
    BY <2>5, <2>6, <1>1, ScheduleStates
  <2>8. /\ waiters' \in Seq(Task) /\ IsInjective(waiters')
        /\ \A u : Linked(waiters', u) <=> Linked(waiters, u) /\ u # w
    BY <2>1, <2>2, <2>3, RemoveUnlinks
  <2>9. MutexTypeOK' /\ PcStates'
    <3>1. TaskTypeOK'
      BY <2>7 DEF TaskTypeOK, State, Sleeping
    <3>2. pc' \in [Task -> {"user", "mutex_lock", "held", "device"}]
      BY <1>1 DEF MutexInv, MutexTypeOK
    <3>3. value' \in BOOLEAN /\ holder' \in Task \cup {Boot}
      BY <1>1
    <3>4. repeat' \in 0..MaxRepeat
      BY <1>1, MutexAssumption
    <3>5. PcStates'
      <4>1. PcStates /\ \A u \in Task : pc'[u] = IF u = t THEN "user" ELSE pc[u]
        BY <1>1 DEF MutexInv, MutexTypeOK
      <4> QED BY <1>1, <2>4, <2>7, <4>1 DEF PcStates
    <3> QED BY <2>8, <3>1, <3>2, <3>3, <3>4, <3>5 DEF MutexTypeOK
  <2>10. WaitersAreBlocked'
    BY <1>1, <2>7, <2>8 DEF MutexInv, MutexTypeOK, WaitersAreBlocked
  <2>11. NoLostWakeup'
    BY <1>1, <2>3, <2>4, <2>7 DEF NoLostWakeup, Woken, MutexInv, MutexTypeOK
  <2> QED BY <1>3, <2>7, <2>9, <2>10, <2>11 DEF StepResult, TaskNext
<1> QED BY <1>4, <1>5

LEMMA DeviceWaitStep ==
    ASSUME MutexInv, NEW t \in Task, device_wait(t)
    PROVE  StepResult
<1>1. /\ t = current /\ pc[t] = "held" /\ t # Idle
      /\ pc' = [pc EXCEPT ![t] = "device"]
      /\ UNCHANGED <<value, waiters, holder, repeat>>
      /\ schedule(Entering(state, current, "BLOCKED"))
      /\ state[t] = "RUNNING"
  BY CurrentRuns DEF device_wait, Goto, lockVars, MutexInv, PcStates
<1>2. /\ WakeAndSwitch
      /\ current' \in Task
      /\ state' \in [Task -> {"READY", "RUNNING", "BLOCKED"}]
      /\ \A u \in Task : state'[u] = "BLOCKED" <=> u = t \/ state[u] = "BLOCKED"
  BY <1>1, ScheduleAlone
<1>3. MutexTypeOK' /\ PcStates'
  <2>1. TaskTypeOK'
    BY <1>2 DEF TaskTypeOK, State, Sleeping
  <2>2. pc' \in [Task -> {"user", "mutex_lock", "held", "device"}]
    BY <1>1 DEF MutexInv, MutexTypeOK
  <2>3. /\ value' \in BOOLEAN /\ waiters' \in Seq(Task)
        /\ holder' \in Task \cup {Boot} /\ repeat' \in 0..MaxRepeat
    BY <1>1 DEF MutexInv, MutexTypeOK
  <2>4. PcStates'
    <3>1. PcStates /\ \A u \in Task : pc'[u] = IF u = t THEN "device" ELSE pc[u]
      BY <1>1 DEF MutexInv, MutexTypeOK
    <3> QED BY <1>1, <1>2, <3>1 DEF PcStates
  <2> QED BY <2>1, <2>2, <2>3, <2>4 DEF MutexTypeOK
<1>4. Holding' = Holding /\ t \in Holding
  BY <1>1 DEF MutexInv, MutexTypeOK, Holding
<1>5. LockInv' /\ NoLostWakeup'
  BY <1>1, <1>4 DEF MutexInv, LockInv, NoLostWakeup
<1>6. WaitersAreBlocked'
  BY <1>1, <1>2 DEF MutexInv, MutexTypeOK, WaitersAreBlocked, Linked
<1> QED BY <1>2, <1>3, <1>5, <1>6 DEF StepResult, TaskNext

LEMMA InterruptStep ==
    ASSUME MutexInv, NEW t \in Task, device_interrupt(t)
    PROVE  StepResult
<1>1. /\ pc[t] = "device" /\ state[t] = "BLOCKED"
      /\ pc' = [pc EXCEPT ![t] = "held"]
      /\ UNCHANGED <<current, value, waiters, holder, repeat>>
      /\ state' = Unblocked(state, {t})
  BY DEF device_interrupt, Goto, lockVars
<1>2. /\ \A u \in Task : state'[u] = IF u = t THEN "READY" ELSE state[u]
      /\ DOMAIN state' = Task
  BY <1>1 DEF Unblocked
<1>3. TaskNext
  BY <1>1 DEF TaskNext, WakeAndReturn, Waiters, Sleeping
<1>4. MutexTypeOK' /\ PcStates'
  <2>1. state' \in [Task -> State]
    BY <1>1 DEF Unblocked, MutexInv, MutexTypeOK, TaskTypeOK, State
  <2>2. TaskTypeOK'
    BY <1>1, <2>1 DEF MutexInv, MutexTypeOK, TaskTypeOK
  <2>3. pc' \in [Task -> {"user", "mutex_lock", "held", "device"}]
    BY <1>1 DEF MutexInv, MutexTypeOK
  <2>4. /\ value' \in BOOLEAN /\ waiters' \in Seq(Task)
        /\ holder' \in Task \cup {Boot} /\ repeat' \in 0..MaxRepeat
    BY <1>1 DEF MutexInv, MutexTypeOK
  <2>5. PcStates'
    <3>1. PcStates /\ \A u \in Task : pc'[u] = IF u = t THEN "held" ELSE pc[u]
      BY <1>1 DEF MutexInv, MutexTypeOK
    <3> QED BY <1>1, <1>2, <3>1 DEF PcStates
  <2> QED BY <2>2, <2>3, <2>4, <2>5 DEF MutexTypeOK
<1>5. Holding' = Holding /\ t \in Holding
  BY <1>1 DEF MutexInv, MutexTypeOK, Holding
<1>6. LockInv' /\ NoLostWakeup'
  BY <1>1, <1>5 DEF MutexInv, LockInv, NoLostWakeup
<1>7. WaitersAreBlocked'
  <2>1. pc \in [Task -> {"user", "mutex_lock", "held", "device"}]
    BY DEF MutexInv, MutexTypeOK
  <2>2. \A u \in Task : pc'[u] = "mutex_lock" /\ state'[u] = "BLOCKED"
                          <=> pc[u] = "mutex_lock" /\ state[u] = "BLOCKED"
    BY <1>1, <1>2, <2>1
  <2>3. waiters' = waiters
    BY <1>1
  <2> QED BY <2>2, <2>3 DEF MutexInv, WaitersAreBlocked, Linked
<1> QED BY <1>3, <1>4, <1>6, <1>7 DEF StepResult

LEMMA StepMutexInv ==
    MutexInv /\ [MutexNext]_vars => MutexInv' /\ [TaskNext]_taskVars
<1> SUFFICES ASSUME MutexInv, [MutexNext]_vars
             PROVE  MutexInv' /\ [TaskNext]_taskVars
  OBVIOUS
<1>1. ASSUME StepResult PROVE MutexInv' /\ [TaskNext]_taskVars
  BY <1>1, StepTaskInv DEF StepResult, MutexInv
<1>2. CASE Preempt
  BY <1>1, <1>2, PreemptStep
<1>3. ASSUME NEW t \in Task, lock_acquire(t)
      PROVE  MutexInv' /\ [TaskNext]_taskVars
  BY <1>1, <1>3, TakeStep, WaitStep DEF lock_acquire
<1>4. ASSUME NEW t \in Task, mutex_lock_again(t)
      PROVE  MutexInv' /\ [TaskNext]_taskVars
  <2>1. t # Idle
    BY <1>4 DEF mutex_lock_again, MutexInv, PcStates
  <2> QED BY <1>1, <1>4, <2>1, TakeStep, WaitStep DEF mutex_lock_again
<1>5. ASSUME NEW t \in Task, lock_reenter(t) \/ lock_release_nested(t)
      PROVE  MutexInv' /\ [TaskNext]_taskVars
  BY <1>1, <1>5, RepeatStep
<1>6. ASSUME NEW t \in Task, lock_release(t)
      PROVE  MutexInv' /\ [TaskNext]_taskVars
  BY <1>1, <1>6, ReleaseStep
<1>7. ASSUME NEW t \in Task, device_wait(t)
      PROVE  MutexInv' /\ [TaskNext]_taskVars
  BY <1>1, <1>7, DeviceWaitStep
<1>8. ASSUME NEW t \in Task, device_interrupt(t)
      PROVE  MutexInv' /\ [TaskNext]_taskVars
  BY <1>1, <1>8, InterruptStep
<1>9. CASE UNCHANGED vars
  <2>1. UNCHANGED <<state, current, pc, value, waiters, holder, repeat>>
    BY <1>9 DEF vars, taskVars, lockVars
  <2> QED BY <2>1 DEF taskVars, MutexInv, MutexTypeOK, TaskTypeOK, TaskInv,
                  RunningIsCurrent, IdleIsRunnable, PcStates, LockInv, Holding,
                  WaitersAreBlocked, Linked, NoLostWakeup, Woken
<1> QED BY <1>2, <1>3, <1>4, <1>5, <1>6, <1>7, <1>8, <1>9 DEF MutexNext

(***************************************************************************)
(* For every number of tasks: one holder at a time, and lock fields that   *)
(* name it; none of the assertions in mutex.c fails.                       *)
(***************************************************************************)
THEOREM MutualExclusion == MutexSpec => []LockInv
<1>1. MutexInv => LockInv
  BY DEF MutexInv
<1> QED BY <1>1, InitMutexInv, StepMutexInv, PTL DEF MutexSpec

(***************************************************************************)
(* No wake-up is lost although mutex_unlock wakes one waiter and lets any  *)
(* task take the mutex first: tasks never all wait for a free mutex.       *)
(***************************************************************************)
THEOREM MutexNoLostWakeup == MutexSpec => []NoLostWakeup
<1>1. MutexInv => NoLostWakeup
  BY DEF MutexInv
<1> QED BY <1>1, InitMutexInv, StepMutexInv, PTL DEF MutexSpec

\* mutex_lock keeps exactly its blocked waiters on the list, once each, which is
\* why list_push never links a node twice and task_unblock finds a blocked task.
THEOREM MutexWaiters == MutexSpec => []WaitersAreBlocked
<1>1. MutexInv => WaitersAreBlocked
  BY DEF MutexInv
<1> QED BY <1>1, InitMutexInv, StepMutexInv, PTL DEF MutexSpec

\* The counter of nested acquisitions stays in its range, as do the other fields.
THEOREM MutexTypeCorrect == MutexSpec => []MutexTypeOK
<1>1. MutexInv => MutexTypeOK
  BY DEF MutexInv
<1> QED BY <1>1, InitMutexInv, StepMutexInv, PTL DEF MutexSpec

\* The lock's steps are steps of the scheduler.
THEOREM MutexImplementsTasks == MutexSpec => TaskSpec
<1>1. MutexInit => TaskInit
  <2> SUFFICES ASSUME MutexInit PROVE TaskInit
    OBVIOUS
  <2>1. state = [t \in Task |-> IF t = current THEN "RUNNING"
                                ELSE IF t \in Task THEN "READY" ELSE "NONE"]
    BY TaskAssumption DEF MutexInit, KernelInit
  <2> QED BY <2>1, TaskAssumption DEF MutexInit, KernelInit, TaskInit
<1> QED BY <1>1, InitMutexInv, StepMutexInv, PTL DEF MutexSpec, TaskSpec

(***************************************************************************)
(* The lock implements AbstractLock: it is taken by a task only while no   *)
(* other has it, however deep the nesting and whoever is woken first.      *)
(***************************************************************************)
THEOREM MutexImplementsLock == MutexSpec => ImplementsLock
<1>1. MutexInit => Lock!LockInit
  BY DEF MutexInit, KernelInit, Lock!LockInit, depthOf, Holding
<1>2. MutexInv /\ MutexInv' /\ [MutexNext]_vars => [Lock!LockNext]_depthOf
  <2> SUFFICES ASSUME MutexInv, MutexInv', [MutexNext]_vars, depthOf' # depthOf
               PROVE  Lock!LockNext
    OBVIOUS
  <2>3. ASSUME NEW t \in Task, Take(t), pc[t] \in {"user", "mutex_lock"}
        PROVE  Lock!LockNext
    <3>1. /\ Holding = {} /\ Holding' = {t} /\ repeat' = 1
      BY <2>3 DEF MutexInv, LockInv, Holding, MutexTypeOK, Take, Goto
    <3>2. depthOf = [u \in Task |-> 0] /\ depthOf' = [u \in Task |-> IF u = t THEN 1 ELSE 0]
      BY <3>1 DEF depthOf
    <3>3. Lock!Acquire(t)
      BY <3>2 DEF Lock!Acquire, Lock!Free
    <3> QED BY <3>3 DEF Lock!LockNext
  <2>4. ASSUME NEW t \in Task, lock_reenter(t) \/ lock_release_nested(t)
        PROVE  Lock!LockNext
    <3>1. /\ t \in Holding /\ Holding' = Holding /\ Holding = {t}
          /\ repeat \in Nat /\ repeat > 0
      BY <2>4 DEF lock_reenter, lock_release_nested, Holding, MutexInv, LockInv,
                  MutexTypeOK
    <3>2. /\ depthOf = [u \in Task |-> IF u = t THEN repeat ELSE 0]
          /\ depthOf' = [u \in Task |-> IF u = t THEN repeat' ELSE 0]
      BY <3>1 DEF depthOf
    <3>3. CASE lock_reenter(t)
      <4>1. Lock!Acquire(t)
        BY <3>2, <3>3 DEF lock_reenter, Lock!Acquire, Lock!Free
      <4> QED BY <4>1 DEF Lock!LockNext
    <3>4. CASE lock_release_nested(t)
      <4>1. Lock!Release(t)
        BY <3>1, <3>2, <3>4 DEF lock_release_nested, Lock!Release
      <4> QED BY <4>1 DEF Lock!LockNext
    <3> QED BY <2>4, <3>3, <3>4
  <2>5. ASSUME NEW t \in Task, lock_release(t)
        PROVE  Lock!LockNext
    <3>1. Holding = {t} /\ Holding' = {} /\ repeat = 1
      BY <2>5 DEF lock_release, Freed, WakeWaiter, Goto, Holding, MutexInv, LockInv, MutexTypeOK
    <3>2. depthOf = [u \in Task |-> IF u = t THEN 1 ELSE 0] /\ depthOf' = [u \in Task |-> 0]
      BY <3>1 DEF depthOf
    <3>3. Lock!Release(t)
      BY <3>2 DEF Lock!Release
    <3> QED BY <3>3 DEF Lock!LockNext
  <2>6. ASSUME UNCHANGED repeat, Holding' = Holding PROVE FALSE
    BY <2>6 DEF depthOf
  <2>7. ASSUME NEW t \in Task, Wait(t), pc[t] \in {"user", "mutex_lock"}
        PROVE  FALSE
    BY <2>6, <2>7 DEF Wait, Goto, Holding, MutexInv, MutexTypeOK
  <2>8. ASSUME NEW t \in Task, device_wait(t) \/ device_interrupt(t)
        PROVE  FALSE
    BY <2>6, <2>8 DEF device_wait, device_interrupt, Goto, lockVars, Holding,
                      MutexInv, MutexTypeOK
  <2>9. CASE Preempt \/ UNCHANGED vars
    BY <2>6, <2>9 DEF Preempt, Preempted, vars, lockVars, Holding
  <2> QED BY <2>3, <2>4, <2>5, <2>7, <2>8, <2>9
          DEF MutexNext, lock_acquire, mutex_lock_again
<1> QED BY <1>1, <1>2, InitMutexInv, StepMutexInv, PTL
        DEF MutexSpec, ImplementsLock, Lock!LockSpec

-----------------------------------------------------------------------------
(***************************************************************************)
(* The field waiter names exactly the task that is blocked in              *)
(* keyboard_read, and it is set only while there is no character: this is  *)
(* what lets keyboard_handler unblock it without a test of its state.      *)
(***************************************************************************)
WaiterWaits ==
    /\ \A t \in Task : pc[t] = "device" <=> waiter = t
    /\ waiter \in Task \cup {Boot}
    /\ waiter # Boot => fifo_empty

\* Only a task that has the lock has read characters.
ReaderHolds ==
    /\ got = [t \in Task |-> got[t]]
    /\ \A t \in Task : got[t] # <<>> => t \in Holding

KeyboardInv == MutexInv /\ WaiterWaits /\ ReaderHolds

LEMMA InitKeyboardInv == KeyboardInit => KeyboardInv
<1> SUFFICES ASSUME KeyboardInit PROVE KeyboardInv
  OBVIOUS
<1>1. MutexInv
  BY InitMutexInv DEF KeyboardInit
<1>2. WaiterWaits
  BY TaskAssumption DEF KeyboardInit, MutexInit, KernelInit, WaiterWaits, fifo_empty
<1>3. ReaderHolds
  BY DEF KeyboardInit, ReaderHolds
<1> QED BY <1>1, <1>2, <1>3 DEF KeyboardInv

\* The lock has one holder, also while it waits for a key.
LEMMA OnlyOneHolds ==
    ASSUME MutexInv, NEW t \in Holding, NEW u \in Holding
    PROVE  t = u
BY DEF MutexInv, LockInv

-----------------------------------------------------------------------------
(***************************************************************************)
(* Every step is a step of the lock, or none: keyboard_handler wakes the   *)
(* waiter as the interrupt of a device does.                               *)
(***************************************************************************)
LEMMA HandlerWakes ==
    ASSUME KeyboardInv, keyboard_handler
    PROVE  /\ [MutexNext]_vars
           /\ UNCHANGED got
           /\ \/ UNCHANGED <<pc, waiter, fifo>>
              \/ /\ waiter' = Boot
                 /\ pc' = IF waiter = Boot THEN pc ELSE [pc EXCEPT ![waiter] = "held"]
<1>1. InUserMode /\ UNCHANGED <<current, lockVars, got>>
  BY DEF keyboard_handler, calls
<1>2. UNCHANGED <<state, pc, waiter, fifo>> \/ WaiterWoken
  BY DEF keyboard_handler, extended, breakcode, makecode
<1>3. CASE UNCHANGED <<state, pc, waiter, fifo>>
  BY <1>1, <1>3 DEF vars, taskVars
<1>4. CASE WaiterWoken /\ waiter = Boot
  BY <1>1, <1>4 DEF WaiterWoken, vars, taskVars
<1>5. CASE WaiterWoken /\ waiter # Boot
  <2>1. /\ waiter \in Task /\ pc[waiter] = "device" /\ state[waiter] = "BLOCKED"
    BY <1>5 DEF KeyboardInv, WaiterWaits, MutexInv, PcStates
  <2>2. /\ state' = Unblocked(state, {waiter}) /\ Goto(waiter, "held")
        /\ waiter' = Boot
    BY <1>5 DEF WaiterWoken
  <2>3. device_interrupt(waiter)
    BY <1>1, <2>1, <2>2 DEF device_interrupt
  <2>4. MutexNext
    BY <2>1, <2>3 DEF MutexNext
  <2> QED BY <1>1, <1>5, <2>2, <2>4 DEF Goto
<1> QED BY <1>2, <1>3, <1>4, <1>5

LEMMA StepIsOfLock ==
    ASSUME KeyboardInv, [KeyboardNext]_allVars
    PROVE  [MutexNext]_vars
<1>1. ASSUME NEW t \in Task,
             keyboard_read(t) \/ keyboard_lock_again(t) \/ keyboard_wait(t)
                \/ keyboard_return(t)
      PROVE  MutexNext
  <2>1. lock_acquire(t) \/ mutex_lock_again(t) \/ device_wait(t) \/ lock_release(t)
    BY <1>1 DEF keyboard_read, keyboard_lock_again, keyboard_wait, keyboard_return
  <2> QED BY <2>1 DEF MutexNext
<1>2. ASSUME NEW t \in Task, keyboard_get(t) PROVE UNCHANGED vars
  BY <1>2 DEF keyboard_get
<1>3. CASE Press \/ Release
  BY <1>3 DEF Press, Release, Send
<1>4. CASE keyboard_handler
  BY <1>4, HandlerWakes
<1>5. CASE Preempt
  BY <1>5 DEF MutexNext
<1>6. CASE UNCHANGED allVars
  BY <1>6 DEF allVars
<1> QED BY <1>1, <1>2, <1>3, <1>4, <1>5, <1>6 DEF KeyboardNext

-----------------------------------------------------------------------------
\* One lemma for each kind of step: what waiter and got say stays true.
KeyboardResult == WaiterWaits' /\ ReaderHolds'

\* Steps that move no task into or out of the wait for a key.
LEMMA SameWaiter ==
    ASSUME KeyboardInv, UNCHANGED waiter,
           \A t \in Task : pc'[t] = "device" <=> pc[t] = "device",
           fifo_empty => fifo_empty'
    PROVE  WaiterWaits'
BY DEF KeyboardInv, WaiterWaits

LEMMA SameKeys ==
    ASSUME KeyboardInv, UNCHANGED got,
           \A t \in Task : t \in Holding /\ got[t] # <<>> => t \in Holding'
    PROVE  ReaderHolds'
BY DEF KeyboardInv, ReaderHolds

LEMMA QuietStep ==
    ASSUME KeyboardInv, UNCHANGED <<pc, waiter, fifo, got>>
    PROVE  KeyboardResult
BY SameWaiter, SameKeys DEF KeyboardResult, fifo, fifo_empty, Holding

LEMMA HandlerStep ==
    ASSUME KeyboardInv, keyboard_handler
    PROVE  KeyboardResult
<1>1. CASE UNCHANGED <<pc, waiter, fifo>>
  BY <1>1, HandlerWakes, QuietStep
<1>2. CASE /\ waiter' = Boot
           /\ pc' = IF waiter = Boot THEN pc ELSE [pc EXCEPT ![waiter] = "held"]
  <2>1. UNCHANGED got /\ pc \in [Task -> {"user", "mutex_lock", "held", "device"}]
    BY HandlerWakes DEF KeyboardInv, MutexInv, MutexTypeOK
  <2>2. \A t \in Task : pc'[t] = IF t = waiter THEN "held" ELSE pc[t]
    BY <1>2, <2>1, TaskAssumption
  <2>3. \A t \in Task : pc'[t] # "device"
    BY <2>2 DEF KeyboardInv, WaiterWaits
  <2>4. WaiterWaits'
    BY <1>2, <2>3, TaskAssumption DEF WaiterWaits
  <2>5. ReaderHolds'
    BY <2>1, <2>2, SameKeys DEF Holding
  <2> QED BY <2>4, <2>5 DEF KeyboardResult
<1> QED BY <1>1, <1>2, HandlerWakes

LEMMA LockStep ==
    ASSUME KeyboardInv, NEW t \in Task, keyboard_read(t) \/ keyboard_lock_again(t)
    PROVE  KeyboardResult
<1>1. /\ UNCHANGED <<waiter, fifo, got>>
      /\ Take(t) \/ Wait(t)
      /\ pc[t] \in {"user", "mutex_lock"}
  BY DEF keyboard_read, keyboard_lock_again, lock_acquire, mutex_lock_again,
         keyboardVars, calls
<1>2. pc' = [pc EXCEPT ![t] = "held"] \/ pc' = [pc EXCEPT ![t] = "mutex_lock"]
  BY <1>1 DEF Take, Wait, Goto
<1>3. pc \in [Task -> {"user", "mutex_lock", "held", "device"}]
  BY DEF KeyboardInv, MutexInv, MutexTypeOK
<1>4. \A u \in Task : pc'[u] = "device" <=> pc[u] = "device"
  BY <1>1, <1>2, <1>3
<1>5. \A u \in Task : u \in Holding => u \in Holding'
  BY <1>1, <1>2, <1>3 DEF Holding
<1> QED BY <1>1, <1>4, <1>5, SameWaiter, SameKeys DEF KeyboardResult, fifo, fifo_empty

LEMMA WaitForKeyStep ==
    ASSUME KeyboardInv, NEW t \in Task, keyboard_wait(t)
    PROVE  KeyboardResult
<1>1. /\ pc[t] = "held" /\ pc' = [pc EXCEPT ![t] = "device"]
      /\ waiter' = t /\ fifo_empty /\ UNCHANGED <<fifo, got>>
  BY DEF keyboard_wait, device_wait, Goto, calls
<1>2. pc \in [Task -> {"user", "mutex_lock", "held", "device"}] /\ t \in Holding
  BY <1>1 DEF KeyboardInv, MutexInv, MutexTypeOK, Holding
<1>3. \A u \in Task : pc[u] # "device"
  BY <1>1, <1>2, OnlyOneHolds DEF KeyboardInv, Holding
<1>4. WaiterWaits'
  BY <1>1, <1>2, <1>3 DEF WaiterWaits, fifo, fifo_empty
<1>5. \A u \in Task : u \in Holding => u \in Holding'
  BY <1>1, <1>2 DEF Holding
<1> QED BY <1>1, <1>4, <1>5, SameKeys DEF KeyboardResult

\* The queue was not empty, so that no task is waiting for a key.
LEMMA GetStep ==
    ASSUME KeyboardInv, NEW t \in Task, keyboard_get(t)
    PROVE  KeyboardResult
<1>1. /\ pc[t] = "held" /\ ~fifo_empty /\ UNCHANGED <<pc, waiter>>
      /\ got' = [got EXCEPT ![t] = Append(@, buf[tail])]
  BY DEF keyboard_get, vars
<1>2. WaiterWaits'
  BY <1>1 DEF KeyboardInv, WaiterWaits
<1>3. ReaderHolds'
  <2>1. got' = [u \in Task |-> got'[u]]
    BY <1>1 DEF KeyboardInv, ReaderHolds
  <2>2. \A u \in Task : u # t => got'[u] = got[u]
    BY <1>1 DEF KeyboardInv, ReaderHolds
  <2>3. t \in Holding' /\ Holding' = Holding
    BY <1>1 DEF Holding
  <2> QED BY <2>1, <2>2, <2>3 DEF KeyboardInv, ReaderHolds
<1> QED BY <1>2, <1>3 DEF KeyboardResult

LEMMA ReturnStep ==
    ASSUME KeyboardInv, NEW t \in Task, keyboard_return(t)
    PROVE  KeyboardResult
<1>1. /\ pc[t] = "held" /\ pc' = [pc EXCEPT ![t] = "user"]
      /\ UNCHANGED <<waiter, fifo>>
      /\ got' = [got EXCEPT ![t] = <<>>]
  BY DEF keyboard_return, lock_release, Goto
<1>2. pc \in [Task -> {"user", "mutex_lock", "held", "device"}]
  BY DEF KeyboardInv, MutexInv, MutexTypeOK
<1>3. \A u \in Task : pc'[u] = "device" <=> pc[u] = "device"
  BY <1>1, <1>2
<1>4. WaiterWaits'
  BY <1>1, <1>3, SameWaiter DEF fifo, fifo_empty
<1>5. ReaderHolds'
  <2>1. /\ got' = [u \in Task |-> got'[u]] /\ got'[t] = <<>>
        /\ \A u \in Task : u # t => got'[u] = got[u]
    BY <1>1 DEF KeyboardInv, ReaderHolds
  <2>2. \A u \in Holding : u # t => u \in Holding'
    BY <1>1, <1>2 DEF Holding
  <2> QED BY <2>1, <2>2 DEF KeyboardInv, ReaderHolds
<1> QED BY <1>4, <1>5 DEF KeyboardResult

LEMMA StepKeyboardInv == KeyboardInv /\ [KeyboardNext]_allVars => KeyboardInv'
<1> SUFFICES ASSUME KeyboardInv, [KeyboardNext]_allVars PROVE KeyboardInv'
  OBVIOUS
<1>1. MutexInv'
  BY StepIsOfLock, StepMutexInv DEF KeyboardInv
<1>2. CASE Preempt /\ UNCHANGED keyboardVars
  <2>1. UNCHANGED <<pc, waiter, fifo, got>>
    BY <1>2 DEF Preempt, Preempted, keyboardVars, calls
  <2> QED BY <1>1, <2>1, QuietStep DEF KeyboardInv, KeyboardResult
<1>3. CASE Press \/ Release
  <2>1. UNCHANGED <<pc, waiter, fifo, got>>
    BY <1>3 DEF Press, Release, Send, vars, calls
  <2> QED BY <1>1, <2>1, QuietStep DEF KeyboardInv, KeyboardResult
<1>4. CASE keyboard_handler
  BY <1>1, <1>4, HandlerStep DEF KeyboardInv, KeyboardResult
<1>5. ASSUME NEW t \in Task,
             \/ keyboard_read(t) \/ keyboard_lock_again(t)
             \/ keyboard_wait(t) \/ keyboard_get(t) \/ keyboard_return(t)
      PROVE  KeyboardInv'
  <2>1. KeyboardResult
    BY <1>5, LockStep, WaitForKeyStep, GetStep, ReturnStep
  <2> QED BY <1>1, <2>1 DEF KeyboardInv, KeyboardResult
<1>6. CASE UNCHANGED allVars
  <2>1. UNCHANGED <<pc, waiter, fifo, got>>
    BY <1>6 DEF allVars, vars, keyboardVars, calls
  <2> QED BY <1>1, <2>1, QuietStep DEF KeyboardInv, KeyboardResult
<1> QED BY <1>2, <1>3, <1>4, <1>5, <1>6 DEF KeyboardNext

-----------------------------------------------------------------------------
(***************************************************************************)
(* keyboard_read and its interrupt use the lock as Mutex.tla allows, so    *)
(* that what is proved of the lock holds of the readers: the handler's     *)
(* task_unblock is the interrupt that a holder waits for.                  *)
(***************************************************************************)
THEOREM KeyboardUsesLock == KeyboardSpec => MutexSpec
<1>1. KeyboardInit => MutexInit
  BY DEF KeyboardInit
<1>2. KeyboardInv /\ [KeyboardNext]_allVars => [MutexNext]_vars
  BY StepIsOfLock
<1> QED BY <1>1, <1>2, InitKeyboardInv, StepKeyboardInv, PTL
        DEF KeyboardSpec, MutexSpec

(***************************************************************************)
(* A task that sleeps in keyboard_read has nothing to read and will be     *)
(* woken by the next character, for any number of readers.                 *)
(***************************************************************************)
THEOREM KeyboardReaderIsWoken == KeyboardSpec => []ReaderIsWoken
<1>1. KeyboardInv => ReaderIsWoken
  <2> SUFFICES ASSUME KeyboardInv, NEW t \in Task
               PROVE  pc[t] = "device" /\ state[t] = "BLOCKED"
                         <=> waiter = t /\ holder = t /\ fifo_empty
    BY DEF ReaderIsWoken
  <2>1. pc[t] = "device" => state[t] = "BLOCKED" /\ t \in Holding
    BY DEF KeyboardInv, MutexInv, PcStates, Holding
  <2>2. pc[t] = "device" => holder = t
    BY <2>1 DEF KeyboardInv, MutexInv, LockInv
  <2>3. pc[t] = "device" <=> waiter = t
    BY DEF KeyboardInv, WaiterWaits
  <2>4. waiter = t => fifo_empty
    BY TaskAssumption DEF KeyboardInv, WaiterWaits
  <2> QED BY <2>1, <2>2, <2>3, <2>4
<1> QED BY <1>1, InitKeyboardInv, StepKeyboardInv, PTL DEF KeyboardSpec

\* The characters of one keyboard_read follow each other.
THEOREM KeyboardOneReader == KeyboardSpec => []OneReader
<1>1. KeyboardInv => OneReader
  <2> SUFFICES ASSUME KeyboardInv, NEW t \in Task, NEW u \in Task,
                      got[t] # <<>>, got[u] # <<>>
               PROVE  t = u
    BY DEF OneReader
  <2>1. t \in Holding /\ u \in Holding
    BY DEF KeyboardInv, ReaderHolds
  <2> QED BY <2>1, OnlyOneHolds DEF KeyboardInv
<1> QED BY <1>1, InitKeyboardInv, StepKeyboardInv, PTL DEF KeyboardSpec

-----------------------------------------------------------------------------
(***************************************************************************)
(* The ring.  Its arithmetic modulo Length, case by case.                  *)
(***************************************************************************)
LEMMA Remainders ==
    ASSUME NEW L \in Nat \ {0}, NEW x \in Int
    PROVE  /\ x \in 0..(L - 1) => x % L = x
           /\ x \in L..(2 * L - 1) => x % L = x - L
           /\ x \in (-L)..(-1) => x % L = x + L
<1>1. x \in 0..(L - 1) => x % L = x
  BY SMTT(20)
<1>2. x \in L..(2 * L - 1) => x % L = x - L
  BY SMTT(20)
<1>3. x \in (-L)..(-1) => x % L = x + L
  BY SMTT(20)
<1> QED BY <1>1, <1>2, <1>3

NextPosition(pos) == IF pos + 1 = Length THEN 0 ELSE pos + 1

\* How many characters wait between tail t and head h.
Filled(h, t) == IF h >= t THEN h - t ELSE h - t + Length

\* Where the i-th of them is.
Place(t, i) == IF t + i - 1 < Length THEN t + i - 1 ELSE t + i - 1 - Length

LEMMA RingPlaces ==
    ASSUME NEW h \in Position, NEW t \in Position
    PROVE  /\ fifo_next(h) = NextPosition(h) /\ NextPosition(h) \in Position
           /\ (h - t) % Length = Filled(h, t) /\ Filled(h, t) \in 0..(Length - 1)
           /\ \A i \in 1..Filled(h, t) : /\ (t + i - 1) % Length = Place(t, i)
                                         /\ Place(t, i) \in Position
<1> USE KeyboardAssumption DEF Position
<1>1. /\ Length \in Nat \ {0, 1} /\ h \in 0..(Length - 1) /\ t \in 0..(Length - 1)
      /\ Length \in Nat \ {0}
  OBVIOUS
<1>2. fifo_next(h) = NextPosition(h)
  <2>1. h + 1 \in Int /\ h + 1 \in 0..(2 * Length - 1)
    BY <1>1
  <2>2. CASE h + 1 = Length
    BY <2>1, <2>2, <1>1, Remainders DEF fifo_next, NextPosition
  <2>3. CASE h + 1 \in 0..(Length - 1)
    BY <2>1, <2>3, <1>1, Remainders DEF fifo_next, NextPosition
  <2> QED BY <1>1, <2>2, <2>3
<1>3. (h - t) % Length = Filled(h, t) /\ Filled(h, t) \in 0..(Length - 1)
  <2>1. h - t \in Int
    BY <1>1
  <2>2. CASE h >= t
    <3>1. h - t \in 0..(Length - 1)
      BY <1>1, <2>2
    <3> QED BY <1>1, <2>1, <2>2, <3>1, Remainders DEF Filled
  <2>3. CASE h < t
    <3>1. h - t \in (-Length)..(-1)
      BY <1>1, <2>3
    <3>2. (h - t) % Length = h - t + Length
      BY <1>1, <2>1, <3>1, Remainders
    <3> QED BY <1>1, <2>3, <3>1, <3>2 DEF Filled
  <2> QED BY <1>1, <2>2, <2>3
<1>4. ASSUME NEW i \in 1..Filled(h, t)
      PROVE  (t + i - 1) % Length = Place(t, i) /\ Place(t, i) \in Position
  <2>1. i \in Nat /\ i >= 1 /\ i <= Length - 1
    BY <1>1, <1>3, <1>4
  <2>2. t + i - 1 \in Int /\ t + i - 1 \in 0..(2 * Length - 1)
    BY <1>1, <2>1
  <2>3. CASE t + i - 1 < Length
    <3>1. t + i - 1 \in 0..(Length - 1)
      BY <2>2, <2>3, <1>1
    <3>2. (t + i - 1) % Length = t + i - 1
      BY <1>1, <2>2, <3>1, Remainders
    <3>3. Place(t, i) = t + i - 1
      BY <2>3 DEF Place
    <3> QED BY <3>1, <3>2, <3>3
  <2>4. CASE t + i - 1 >= Length
    <3>1. t + i - 1 \in Length..(2 * Length - 1)
      BY <1>1, <2>2, <2>4
    <3>2. (t + i - 1) % Length = t + i - 1 - Length
      <4>1. \A x \in Int : x \in Length..(2 * Length - 1) => x % Length = x - Length
        BY <1>1, Remainders
      <4> DEFINE x == t + i - 1
      <4>2. x \in Int /\ x \in Length..(2 * Length - 1)
        BY <2>2, <3>1
      <4> HIDE DEF x
      <4>3. x % Length = x - Length
        BY ONLY <4>1, <4>2
      <4> QED BY <4>3 DEF x
    <3>3. Place(t, i) = t + i - 1 - Length
      BY <1>1, <2>1, <2>4 DEF Place
    <3>4. t + i - 1 - Length \in 0..(Length - 1)
      BY <1>1, <2>1, <2>4
    <3> QED BY <3>2, <3>3, <3>4
  <2> QED BY <1>1, <2>2, <2>3, <2>4
<1> QED BY <1>1, <1>2, <1>3, <1>4 DEF NextPosition

-----------------------------------------------------------------------------
\* queue, without the arithmetic modulo Length.
RingOK ==
    /\ head \in Position /\ tail \in Position
    /\ buf \in [Position -> Visible \cup {INV}]
    /\ \A i \in 1..Filled(head, tail) : buf[Place(tail, i)] \in Visible

Characters(b, h, t) == [i \in 1..Filled(h, t) |-> b[Place(t, i)]]

LEMMA QueueIs ==
    ASSUME NEW h \in Position, NEW t \in Position, NEW b
    PROVE  [i \in 1..((h - t) % Length) |-> b[(t + i - 1) % Length]] = Characters(b, h, t)
<1>1. (h - t) % Length = Filled(h, t)
  BY RingPlaces
<1>2. \A i \in 1..Filled(h, t) : b[(t + i - 1) % Length] = b[Place(t, i)]
  BY RingPlaces
<1>3. [i \in 1..Filled(h, t) |-> b[(t + i - 1) % Length]]
         = [i \in 1..Filled(h, t) |-> b[Place(t, i)]]
  BY <1>2
<1> QED BY <1>1, <1>3 DEF Characters

LEMMA CharactersAre ==
    ASSUME NEW b, NEW h \in Position, NEW t \in Position,
           \A i \in 1..Filled(h, t) : b[Place(t, i)] \in Visible
    PROVE  /\ Characters(b, h, t) \in Seq(Visible)
           /\ Len(Characters(b, h, t)) = Filled(h, t)
           /\ \A i \in 1..Filled(h, t) : Characters(b, h, t)[i] = b[Place(t, i)]
<1>1. Filled(h, t) \in Nat
  BY RingPlaces, KeyboardAssumption DEF Position
<1> QED BY <1>1 DEF Characters

\* A character that is read is the first of the queue.
LEMMA GetIsTail ==
    ASSUME RingOK, ~fifo_empty, tail' = fifo_next(tail), UNCHANGED <<buf, head>>
    PROVE  /\ RingOK' /\ queue # <<>> /\ Head(queue) = buf[tail]
           /\ queue' = Tail(queue) /\ buf[tail] \in Visible
<1> USE KeyboardAssumption DEF Position
<1>1. /\ tail' = NextPosition(tail) /\ tail' \in Position
      /\ head \in Position /\ tail \in Position /\ head # tail
  BY RingPlaces DEF RingOK, fifo_empty
<1>2. Filled(head, tail') = Filled(head, tail) - 1 /\ Filled(head, tail) \in 1..(Length - 1)
  BY <1>1 DEF Filled, NextPosition
<1>3. /\ Place(tail, 1) = tail
      /\ \A i \in 1..Filled(head, tail') : Place(tail', i) = Place(tail, i + 1)
  <2>1. Place(tail, 1) = tail
    BY <1>1 DEF Place
  <2>2. PICK n \in 0..(Length - 2) : n = Filled(head, tail')
    BY <1>2
  <2>3. ASSUME NEW i \in 1..n PROVE Place(tail', i) = Place(tail, i + 1)
    <3>1. CASE tail + 1 = Length
      <4>1. tail' = 0 /\ 0 + i - 1 < Length /\ tail + (i + 1) - 1 - Length = i - 1
            /\ ~(tail + (i + 1) - 1 < Length)
        BY <1>1, <2>2, <3>1 DEF NextPosition
      <4> QED BY <4>1 DEF Place
    <3>2. CASE tail + 1 # Length
      <4>1. tail' = tail + 1
        BY <1>1, <3>2 DEF NextPosition
      <4>2. tail \in Int /\ i \in Int /\ Length \in Int
        BY <1>1
      <4>3. (tail + 1) + i - 1 = tail + (i + 1) - 1
        BY ONLY <4>2
      <4>4. Place(tail + 1, i) = Place(tail, i + 1)
        <5>1. PICK a \in Int : a = tail + i
          BY ONLY <4>2
        <5>2. (tail + 1) + i - 1 = a /\ tail + (i + 1) - 1 = a
          BY ONLY <4>2, <5>1
        <5>3. Place(tail + 1, i) = IF a < Length THEN a ELSE a - Length
          BY ONLY <4>2, <5>2 DEF Place
        <5>4. Place(tail, i + 1) = IF a < Length THEN a ELSE a - Length
          BY ONLY <4>2, <5>2 DEF Place
        <5> QED BY ONLY <5>3, <5>4
      <4> QED BY ONLY <4>1, <4>4
    <3> QED BY <3>1, <3>2
  <2> QED BY <2>1, <2>2, <2>3
<1>4. buf[tail] \in Visible /\ RingOK'
  <2>1. buf[Place(tail, 1)] \in Visible
    BY <1>1, <1>2 DEF RingOK
  <2>2. PICK n \in 0..(Length - 2) : n = Filled(head, tail') /\ n + 1 = Filled(head, tail)
    BY <1>2
  <2>3. \A i \in 1..n : i + 1 \in 1..(n + 1)
    BY ONLY <2>2, n \in Nat
  <2>4. \A i \in 1..Filled(head, tail') : buf[Place(tail', i)] \in Visible
    BY <1>1, <1>3, <2>2, <2>3 DEF RingOK
  <2>5. /\ head' \in Position /\ tail' \in Position
        /\ buf' \in [Position -> Visible \cup {INV}]
    BY <1>1 DEF RingOK
  <2>6. \A i \in 1..Filled(head', tail') : buf'[Place(tail', i)] \in Visible
    BY ONLY <2>4, UNCHANGED <<buf, head>>
  <2>7. RingOK'
    BY ONLY <2>5, <2>6 DEF RingOK
  <2>8. buf[tail] \in Visible
    <3>1. Place(tail, 1) = tail
      BY <1>3
    <3> QED BY ONLY <2>1, <3>1
  <2> QED BY ONLY <2>7, <2>8
<1>5. queue = Characters(buf, head, tail) /\ queue' = Characters(buf', head', tail')
  <2>1. head \in Position /\ tail \in Position /\ head' \in Position /\ tail' \in Position
    BY <1>1
  <2>2. queue = Characters(buf, head, tail)
    BY ONLY <2>1, QueueIs DEF queue
  <2>3. queue' = Characters(buf', head', tail')
    BY ONLY <2>1, QueueIs DEF queue
  <2> QED BY ONLY <2>2, <2>3
<1>6. queue \in Seq(Visible) /\ Len(queue) = Filled(head, tail)
  BY <1>1, <1>5, CharactersAre DEF RingOK
<1>7. Head(queue) = buf[tail] /\ queue # <<>>
  BY <1>2, <1>3, <1>5, <1>6 DEF Characters
<1>8. queue' = Tail(queue)
  <2>1. /\ Tail(queue) \in Seq(Visible) /\ Len(Tail(queue)) = Filled(head, tail')
        /\ \A i \in 1..Filled(head, tail') : Tail(queue)[i] = queue[i + 1]
    BY <1>2, <1>6, <1>7, HeadTailProperties
  <2>2. \A i \in 1..Filled(head, tail') : queue[i + 1] = buf[Place(tail', i)]
    BY <1>2, <1>3, <1>5 DEF Characters
  <2>3. queue' = Characters(buf, head, tail')
    BY <1>5
  <2>4. /\ queue' \in Seq(Visible) /\ Len(queue') = Filled(head, tail')
        /\ \A i \in 1..Filled(head, tail') : queue'[i] = buf[Place(tail', i)]
    <3>1. \A i \in 1..Filled(head, tail') : buf[Place(tail', i)] \in Visible
      BY <1>4 DEF RingOK
    <3> DEFINE last == tail'
    <3>2. last \in Position /\ head \in Position
      BY <1>1
    <3>3. \A i \in 1..Filled(head, last) : buf[Place(last, i)] \in Visible
      BY <3>1
    <3> HIDE DEF last
    <3>4. /\ Characters(buf, head, last) \in Seq(Visible)
          /\ Len(Characters(buf, head, last)) = Filled(head, last)
          /\ \A i \in 1..Filled(head, last) :
                Characters(buf, head, last)[i] = buf[Place(last, i)]
      BY ONLY <3>2, <3>3, CharactersAre
    <3> QED BY <2>3, <3>4 DEF last
  <2>5. \A i \in 1..Len(Tail(queue)) : Tail(queue)[i] = queue'[i]
    BY <2>1, <2>2, <2>4
  <2> HIDE DEF queue
  <2> QED BY <2>1, <2>4, <2>5, SeqEqual
<1> QED BY <1>4, <1>7, <1>8

\* A character that comes is the last one, and the first one gives way.
LEMMA PutIsAppend ==
    ASSUME RingOK, NEW ch \in Visible, fifo_put(ch)
    PROVE  /\ RingOK'
           /\ queue' = Append(IF Len(queue) = Length - 1 THEN Tail(queue) ELSE queue, ch)
<1> DEFINE rest == IF Len(queue) = Length - 1 THEN Tail(queue) ELSE queue
           skipped == IF fifo_full THEN 1 ELSE 0
           h == head'
           t == tail'
<1>1. /\ head \in Position /\ tail \in Position
      /\ head' = NextPosition(head) /\ head' \in Position
      /\ tail' \in Position
      /\ tail' = IF NextPosition(head) = tail THEN NextPosition(tail) ELSE tail
      /\ fifo_full <=> NextPosition(head) = tail
  BY RingPlaces DEF RingOK, fifo_put, fifo_full
<1>2. buf' = [buf EXCEPT ![head] = ch] /\ buf \in [Position -> Visible \cup {INV}]
  BY DEF RingOK, fifo_put
<1>3. /\ Filled(head, tail) \in 0..(Length - 1)
      /\ Filled(h, t) = Filled(head, tail) - skipped + 1
      /\ Filled(head, tail) = Length - 1 <=> fifo_full
  BY <1>1, KeyboardAssumption DEF Filled, NextPosition, Position
<1>4. /\ \A i \in 1..(Filled(h, t) - 1) : /\ Place(t, i) = Place(tail, i + skipped)
                                         /\ Place(t, i) # head
      /\ Place(t, Filled(h, t)) = head
  BY <1>1, <1>3, KeyboardAssumption DEF Filled, NextPosition, Position, Place
<1>5. /\ Len(queue) = Filled(head, tail) /\ queue \in Seq(Visible)
      /\ \A i \in 1..Filled(head, tail) : queue[i] = buf[Place(tail, i)]
  <2>1. queue = Characters(buf, head, tail)
    BY <1>1, QueueIs DEF queue
  <2> HIDE DEF queue
  <2> QED BY <1>1, <2>1, CharactersAre DEF RingOK
<1> HIDE DEF queue
<1>6. /\ Len(rest) = Filled(h, t) - 1 /\ rest \in Seq(Visible)
      /\ \A i \in 1..Len(rest) : rest[i] = buf[Place(t, i)]
  <2>1. CASE fifo_full
    <3>1. queue # <<>>
      BY <1>3, <1>5, <2>1, KeyboardAssumption
    <3>2. rest = Tail(queue) /\ skipped = 1
      BY <1>3, <1>5, <2>1
    <3>3. \A i \in 1..(Filled(h, t) - 1) : i + 1 \in 1..Filled(head, tail)
      BY <1>3, <3>2
    <3> QED BY <1>3, <1>4, <1>5, <3>1, <3>2, <3>3, HeadTailProperties
  <2>2. CASE ~fifo_full
    <3>1. rest = queue /\ skipped = 0
      BY <1>3, <1>5, <2>2
    <3> QED BY <1>3, <1>4, <1>5, <3>1
  <2> QED BY <2>1, <2>2
<1> HIDE DEF rest
<1>7. /\ Len(Append(rest, ch)) = Filled(h, t) /\ Append(rest, ch) \in Seq(Visible)
      /\ \A i \in 1..Filled(h, t) : Append(rest, ch)[i] = buf'[Place(t, i)]
  <2>1. Filled(h, t) \in 1..(Length - 1)
    BY <1>3, KeyboardAssumption
  <2>2. \A i \in 1..(Filled(h, t) - 1) : Place(t, i) \in Position
    BY <1>1, RingPlaces
  <2>3. \A i \in 1..Filled(h, t) : i = Filled(h, t) \/ i \in 1..(Filled(h, t) - 1)
    BY <2>1
  <2> QED BY <1>1, <1>2, <1>4, <1>6, <2>1, <2>2, <2>3, AppendProperties
<1>8. \A i \in 1..Filled(h, t) : buf'[Place(t, i)] \in Visible
  BY <1>7
<1>9. RingOK'
  <2>1. buf' \in [Position -> Visible \cup {INV}]
    BY <1>2
  <2> QED BY <1>1, <1>8, <2>1 DEF RingOK
<1>10. queue' = Characters(buf', h, t)
  <2> DEFINE b == buf'
             Q(p, l) == [i \in 1..((p - l) % Length) |-> b[(l + i - 1) % Length]]
  <2>1. queue' = Q(h, t)
    BY DEF queue
  <2>2. h \in Position /\ t \in Position
    BY <1>1
  <2> HIDE DEF h, t, b
  <2>3. Q(h, t) = Characters(b, h, t)
    BY ONLY <2>2, QueueIs
  <2> QED BY <2>1, <2>3 DEF b
<1>11. /\ queue' \in Seq(Visible) /\ Len(queue') = Filled(h, t)
       /\ \A i \in 1..Filled(h, t) : queue'[i] = buf'[Place(t, i)]
  <2> DEFINE b == buf'
  <2>1. h \in Position /\ t \in Position
    BY <1>1
  <2> HIDE DEF h, t, b
  <2> QED BY <1>8, <1>10, <2>1, CharactersAre DEF b
<1>12. Append(rest, ch) = queue'
  BY <1>7, <1>11, SeqEqual
<1> QED BY <1>9, <1>12 DEF rest

-----------------------------------------------------------------------------
(***************************************************************************)
(* The bytes that wait.  What the driver will know once it has read them   *)
(* is told by the last byte of each key: ExtendedAt(i) is whether the i-th *)
(* byte follows an E0, and Of(i, k) that it is a code of key k.            *)
(***************************************************************************)
ExtendedAt(i) == IF i = 1 THEN extcode_state ELSE port[i - 1] = E0

Of(i, k) == port[i] # E0 /\ port[i][1] = k[1] /\ (ExtendedAt(i) <=> k[2])

LastOf(i, k) == Of(i, k) /\ \A j \in DOMAIN port : j > i => ~Of(j, k)

KeysType ==
    /\ keymap \in SUBSET (Code \X BOOLEAN)
    /\ extcode_state \in BOOLEAN
    /\ down \subseteq Key
    /\ port \in Seq(Byte)

\* An E0 is followed by a code, and nothing by bytes the driver will drop.
PortOK ==
    /\ extcode_state => port # <<>>
    /\ \A i \in DOMAIN port : port[i] = E0 => ~ExtendedAt(i) /\ i < Len(port)
    /\ \A i \in DOMAIN port : port[i] \in Led \X {FALSE} => i = Len(port)

KeysOK ==
    \A k \in Code \X BOOLEAN :
       /\ (\A i \in DOMAIN port : ~Of(i, k)) => (k \in keymap <=> k \in down)
       /\ \A i \in DOMAIN port : LastOf(i, k) => (k \in down <=> ~port[i][2])

DecodesInv == KeysType /\ PortOK /\ KeysOK

LEMMA Bytes ==
    /\ \A x \in Byte : x # E0 => /\ x[1] \in Code /\ x[2] \in BOOLEAN
                                 /\ x = <<x[1], x[2]>>
    /\ \A c, up : <<c, up>> # E0
    /\ \A k \in Key : k[1] \in Code /\ k[2] \in BOOLEAN /\ k = <<k[1], k[2]>>
    /\ \A k \in Code \X BOOLEAN : k[1] \in Code /\ k[2] \in BOOLEAN /\ k = <<k[1], k[2]>>
<1>1. \A c, up : <<c, up>> # E0
  <2>1. \A c, up : Len(<<c, up>>) = 2
    OBVIOUS
  <2>2. Len(E0) = 1
    BY DEF E0
  <2> QED BY <2>1, <2>2
<1> QED BY <1>1, KeyboardAssumption DEF Byte

\* The driver takes a byte.
LEMMA TakenByte ==
    ASSUME DecodesInv, port # <<>>, port' = Tail(port), UNCHANGED down,
           extcode_state' \in BOOLEAN, extcode_state' <=> Head(port) = E0,
           keymap' \in SUBSET (Code \X BOOLEAN),
           \A k \in Code \X BOOLEAN :
              k \in keymap' <=> IF Of(1, k) THEN ~port[1][2] ELSE k \in keymap
    PROVE  DecodesInv'
<1>1. /\ port \in Seq(Byte) /\ Len(port) \in Nat \ {0} /\ DOMAIN port = 1..Len(port)
      /\ Head(port) = port[1] /\ 1 \in DOMAIN port
  BY DEF DecodesInv, KeysType
<1>2. /\ port' \in Seq(Byte) /\ Len(port') = Len(port) - 1 /\ DOMAIN port' = 1..(Len(port) - 1)
      /\ \A i \in DOMAIN port' : port'[i] = port[i + 1]
  BY <1>1, HeadTailProperties
<1>3. KeysType'
  BY <1>2 DEF DecodesInv, KeysType
<1>4. \A i \in DOMAIN port' : ExtendedAt(i)' <=> ExtendedAt(i + 1)
  BY <1>1, <1>2 DEF ExtendedAt
<1>5. \A i \in DOMAIN port' : \A k : Of(i, k)' <=> Of(i + 1, k)
  BY <1>1, <1>2, <1>4 DEF Of
<1>6. \A i \in DOMAIN port' : i \in Nat /\ i + 1 \in DOMAIN port
  BY <1>1, <1>2
<1>7. \A i \in DOMAIN port : i \in Nat /\ (i = 1 \/ (i - 1 \in DOMAIN port' /\ i = (i - 1) + 1))
  BY <1>1, <1>2
<1>8. PortOK'
  <2>1. extcode_state' => port' # <<>>
    <3>1. ASSUME port[1] = E0 PROVE 1 < Len(port)
      BY <1>1, <3>1 DEF DecodesInv, PortOK
    <3>2. ASSUME 1 < Len(port) PROVE port' # <<>>
      BY ONLY <1>1, <1>2, <3>2
    <3> QED BY <1>1, <3>1, <3>2
  <2>2. \A i \in DOMAIN port' : port'[i] = E0 => ~ExtendedAt(i)' /\ i < Len(port')
    BY <1>1, <1>2, <1>4, <1>6 DEF DecodesInv, PortOK
  <2>3. \A i \in DOMAIN port' : port'[i] \in Led \X {FALSE} => i = Len(port')
    <3>1. \A i \in DOMAIN port' : port[i + 1] \in Led \X {FALSE} => i + 1 = Len(port)
      BY <1>6 DEF DecodesInv, PortOK
    <3>2. \A i \in DOMAIN port' : i + 1 = Len(port) => i = Len(port')
      BY ONLY <1>1, <1>2
    <3>3. \A i \in DOMAIN port' : port'[i] = port[i + 1]
      BY <1>2
    <3> QED BY ONLY <3>1, <3>2, <3>3, Zenon
  <2> QED BY <2>1, <2>2, <2>3 DEF PortOK
<1>9. ASSUME NEW k \in Code \X BOOLEAN
      PROVE  /\ (\A i \in DOMAIN port' : ~Of(i, k)') => (k \in keymap' <=> k \in down')
             /\ \A i \in DOMAIN port' : LastOf(i, k)' => (k \in down' <=> ~port'[i][2])
  <2>1. /\ (\A i \in DOMAIN port : ~Of(i, k)) => (k \in keymap <=> k \in down)
        /\ \A i \in DOMAIN port : LastOf(i, k) => (k \in down <=> ~port[i][2])
    BY DEF DecodesInv, KeysOK
  <2>2. ASSUME \A i \in DOMAIN port' : ~Of(i, k)'
        PROVE  k \in keymap' <=> k \in down'
    <3>1. \A i \in DOMAIN port : i # 1 => ~Of(i, k)
      BY <1>5, <1>7, <2>2
    <3>2. CASE Of(1, k)
      <4>1. LastOf(1, k)
        BY <3>1, <3>2, <1>7 DEF LastOf
      <4> QED BY <1>1, <2>1, <3>2, <4>1
    <3>3. CASE ~Of(1, k)
      BY <2>1, <3>1, <3>3
    <3> QED BY <3>2, <3>3
  <2>3. ASSUME NEW i \in DOMAIN port', LastOf(i, k)'
        PROVE  k \in down' <=> ~port'[i][2]
    <3>1. Of(i, k)' /\ \A j \in DOMAIN port' : j > i => ~Of(j, k)'
      BY <2>3 DEF LastOf
    <3>2. \A j \in DOMAIN port : j > i + 1 => j - 1 \in DOMAIN port' /\ j - 1 > i
      BY ONLY <1>1, <1>2, <2>3
    <3>3. \A j \in DOMAIN port : j > i + 1 => ~Of(j, k)
      BY <1>5, <1>7, <3>1, <3>2
    <3>4. LastOf(i + 1, k)
      BY <1>5, <3>1, <3>3 DEF LastOf
    <3> QED BY <1>2, <1>6, <2>1, <3>4
  <2> QED BY <2>2, <2>3
<1>10. KeysOK'
  BY <1>9 DEF KeysOK
<1> QED BY <1>3, <1>8, <1>10 DEF DecodesInv

SentBy(k, up) == port' = port \o (IF k[2] THEN <<E0>> ELSE <<>>) \o << <<k[1], up>> >>

\* A key goes down or up.
LEMMA SentBytes ==
    ASSUME DecodesInv, NEW k \in Key, NEW up \in BOOLEAN,
           down' = IF up THEN down \ {k} ELSE down \cup {k},
           SentBy(k, up),
           UNCHANGED <<keymap, extcode_state>>,
           \A i \in DOMAIN port : port[i] \notin Led \X {FALSE}
    PROVE  DecodesInv'
<1>0. port \in Seq(Byte) /\ Len(port) \in Nat /\ DOMAIN port = 1..Len(port)
  BY DEF DecodesInv, KeysType
<1>n. PICK n \in Nat : n = Len(port)
  BY <1>0
<1>m. PICK m \in Nat : (k[2] => m = n + 2) /\ (~k[2] => m = n + 1)
  <2>1. n + 1 \in Nat /\ n + 2 \in Nat
    OBVIOUS
  <2> QED BY <2>1
<1>1. port \in Seq(Byte) /\ n \in Nat /\ n = Len(port) /\ DOMAIN port = 1..n
  BY <1>0, <1>n
<1>a. m \in Nat /\ (k[2] => m = n + 2) /\ (~k[2] => m = n + 1)
  BY <1>m
<1>2. k[1] \in Code /\ k[2] \in BOOLEAN /\ <<k[1], up>> # E0 /\ k \in Code \X BOOLEAN
  BY Bytes, KeyboardAssumption
<1>3. <<k[1], up>> \in Byte /\ E0 \in Byte
  BY <1>2 DEF Byte
<1>4. /\ port' \in Seq(Byte) /\ Len(port') = m /\ DOMAIN port' = 1..m
      /\ \A i \in 1..n : port'[i] = port[i]
      /\ k[2] => port'[n + 1] = E0
      /\ port'[m] = <<k[1], up>>
  <2>1. CASE k[2]
    <3>1. port' = (port \o <<E0>>) \o << <<k[1], up>> >>
      BY <2>1 DEF SentBy
    <3> QED BY ONLY <2>1, <3>1, <1>1, <1>a, <1>3
  <2>2. CASE ~k[2]
    <3>1. port' = port \o << <<k[1], up>> >>
      BY <2>2, <1>1 DEF SentBy
    <3> QED BY ONLY <2>2, <3>1, <1>1, <1>a, <1>3
  <2> QED BY <2>1, <2>2
<1>5. KeysType'
  BY <1>4 DEF DecodesInv, KeysType
<1>6. n > 0 => port[n] # E0
  BY <1>1 DEF DecodesInv, PortOK
<1>7. n = 0 => ~extcode_state
  BY <1>1 DEF DecodesInv, PortOK
<1>8. /\ \A i \in 1..n : ExtendedAt(i)' <=> ExtendedAt(i)
      /\ ~ExtendedAt(n + 1)'
      /\ k[2] => ExtendedAt(m)'
  <2>1. \A i \in 1..n : ExtendedAt(i)' <=> ExtendedAt(i)
    <3> SUFFICES ASSUME NEW i \in 1..n PROVE ExtendedAt(i)' <=> ExtendedAt(i)
      OBVIOUS
    <3>1. i = 1 \/ i - 1 \in 1..n
      BY ONLY <1>1, <1>a
    <3> QED BY <1>4, <3>1 DEF ExtendedAt
  <2>2. ~ExtendedAt(n + 1)'
    <3>1. CASE n = 0
      BY <1>7, <3>1 DEF ExtendedAt
    <3>2. CASE n > 0
      <4>1. n \in 1..n /\ n + 1 # 1 /\ (n + 1) - 1 = n
        BY ONLY <1>1, <1>a, <3>2
      <4> QED BY <1>4, <1>6, <3>2, <4>1 DEF ExtendedAt
    <3> QED BY ONLY <1>1, <1>a, <3>1, <3>2
  <2>3. k[2] => ExtendedAt(m)'
    <3>1. k[2] => m # 1 /\ m - 1 = n + 1
      BY ONLY <1>1, <1>a
    <3> QED BY <1>4, <3>1 DEF ExtendedAt
  <2> QED BY <2>1, <2>2, <2>3
<1>9. ExtendedAt(m)' <=> k[2]
  <2>1. CASE k[2]
    BY <1>8, <2>1
  <2>2. CASE ~k[2]
    <3>1. m = n + 1
      BY <1>a, <2>2
    <3> QED BY <1>8, <2>2, <3>1
  <2> QED BY <2>1, <2>2
\* The new code is the last one, and of k alone.
<1>10. /\ \A i \in 1..n : \A x : Of(i, x)' <=> Of(i, x)
       /\ \A x \in Code \X BOOLEAN : Of(m, x)' <=> x = k
       /\ \A i \in 1..m : i # m /\ i \notin 1..n => \A x : ~Of(i, x)'
       /\ m \in 1..m /\ \A i \in 1..n : i < m
  <2>1. \A i \in 1..n : \A x : Of(i, x)' <=> Of(i, x)
    BY <1>4, <1>8 DEF Of
  <2>2. \A x \in Code \X BOOLEAN : Of(m, x)' <=> x = k
    <3>1. port'[m] # E0 /\ port'[m][1] = k[1]
      BY <1>2, <1>4
    <3>2. \A x \in Code \X BOOLEAN : x = k <=> x[1] = k[1] /\ x[2] = k[2]
      BY <1>2, Bytes
    <3>3. \A x \in Code \X BOOLEAN : x[2] \in BOOLEAN
      BY Bytes
    <3> QED BY <1>2, <1>9, <3>1, <3>2, <3>3 DEF Of
  <2>3. \A i \in 1..m : i # m /\ i \notin 1..n => k[2] /\ i = n + 1
    BY ONLY <1>1, <1>a
  <2>4. m \in 1..m /\ \A i \in 1..n : i < m
    BY ONLY <1>1, <1>a
  <2> QED BY <1>4, <2>1, <2>2, <2>3, <2>4 DEF Of
<1>11. PortOK'
  <2>1. extcode_state' => port' # <<>>
    BY ONLY <1>1, <1>a, <1>4
  <2>2. ASSUME NEW i \in DOMAIN port', port'[i] = E0
        PROVE  ~ExtendedAt(i)' /\ i < Len(port')
    <3>1. CASE i \in 1..n
      <4>1. port[i] = E0 /\ i < m
        BY <1>4, <1>10, <2>2, <3>1
      <4> QED BY <1>1, <1>4, <1>8, <3>1, <4>1 DEF DecodesInv, PortOK
    <3>2. CASE i \notin 1..n
      <4>1. i # m
        BY <1>2, <1>4, <2>2
      <4>2. i = n + 1 /\ i < m
        BY ONLY <1>1, <1>a, <1>4, <2>2, <3>2, <4>1
      <4> QED BY <1>4, <1>8, <4>2
    <3> QED BY <3>1, <3>2
  <2>3. ASSUME NEW i \in DOMAIN port', port'[i] \in Led \X {FALSE}
        PROVE  i = Len(port')
    <3>1. i \notin 1..n
      BY <1>1, <1>4, <2>3
    <3>2. E0 \notin Led \X {FALSE}
      <4>1. ASSUME E0 \in Led \X {FALSE} PROVE E0 = <<E0[1], E0[2]>>
        BY ONLY <4>1
      <4> QED BY <4>1, Bytes
    <3>3. k[2] => i # n + 1
      BY <1>4, <2>3, <3>2
    <3> QED BY ONLY <1>1, <1>a, <1>4, <2>3, <3>1, <3>3
  <2> QED BY <2>1, <2>2, <2>3 DEF PortOK
<1>12. ASSUME NEW x \in Code \X BOOLEAN
       PROVE  /\ (\A i \in DOMAIN port' : ~Of(i, x)') => (x \in keymap' <=> x \in down')
              /\ \A i \in DOMAIN port' : LastOf(i, x)' => (x \in down' <=> ~port'[i][2])
  <2>1. /\ (\A i \in 1..n : ~Of(i, x)) => (x \in keymap <=> x \in down)
        /\ \A i \in 1..n : LastOf(i, x) => (x \in down <=> ~port[i][2])
    BY <1>1 DEF DecodesInv, KeysOK
  <2>2. CASE x = k
    <3>1. Of(m, x)' /\ m \in DOMAIN port'
      BY <1>4, <1>10, <2>2
    <3>2. ASSUME NEW i \in DOMAIN port', LastOf(i, x)' PROVE i = m
      <4>1. i = m \/ m > i
        BY ONLY <1>1, <1>a, <1>4, <3>2
      <4> QED BY <3>1, <3>2, <4>1 DEF LastOf
    <3>3. port'[m][2] = up
      BY <1>4
    <3>4. x \in down' <=> ~up
      BY <2>2
    <3> QED BY <3>1, <3>2, <3>3, <3>4
  <2>3. CASE x # k
    <3>1. x \in down' <=> x \in down
      BY <2>3
    <3>2. \A i \in 1..m : i \notin 1..n => ~Of(i, x)'
      BY <1>10, <2>3
    <3>3. ASSUME NEW i \in 1..m, LastOf(i, x)'
          PROVE  i \in 1..n /\ LastOf(i, x)
      <4>1. i \in 1..n
        BY <3>2, <3>3 DEF LastOf
      <4>2. \A j \in 1..n : j \in 1..m
        BY ONLY <1>1, <1>a
      <4> QED BY <1>1, <1>4, <1>10, <3>3, <4>1, <4>2 DEF LastOf
    <3>4. \A j \in 1..n : j \in 1..m
      BY ONLY <1>1, <1>a
    <3> QED BY <1>4, <1>10, <2>1, <3>1, <3>3, <3>4
  <2> QED BY <2>2, <2>3
<1>13. KeysOK'
  BY <1>12 DEF KeysOK
<1> QED BY <1>5, <1>11, <1>13 DEF DecodesInv

-----------------------------------------------------------------------------
(***************************************************************************)
(* The fields of the driver, the keyboard and the readers.                 *)
(***************************************************************************)
CallsOK ==
    /\ capslock_state \in BOOLEAN
    /\ Len(port) <= MaxPort
    /\ count \in [Task -> 0..MaxCount]
    /\ got \in [Task -> Seq(Visible)]

ReadInv == KeyboardInv /\ RingOK /\ KeysType /\ CallsOK

\* What RingIsQueue says of one step.
RingStep ==
    \/ queue' = queue
    \/ /\ queue # <<>> /\ queue' = Tail(queue)
       /\ \E t \in Task : got'[t] = Append(got[t], Head(queue))
    \/ \E ch \in Visible :
          queue' = Append(IF Len(queue) = Length - 1 THEN Tail(queue) ELSE queue, ch)

ReadResult == RingOK' /\ KeysType' /\ CallsOK' /\ RingStep

LEMMA SameRing == ASSUME RingOK, UNCHANGED fifo PROVE RingOK' /\ RingStep
<1>1. UNCHANGED <<buf, head, tail>>
  BY DEF fifo
<1> QED BY <1>1 DEF RingOK, RingStep, queue

\* The keyboard sends a byte or two.
LEMMA SendResult ==
    ASSUME ReadInv, Press \/ Release
    PROVE  /\ ReadResult
           /\ \E k \in Key, up \in BOOLEAN :
                 /\ SentBy(k, up)
                 /\ down' = IF up THEN down \ {k} ELSE down \cup {k}
                 /\ UNCHANGED <<keymap, extcode_state>>
                 /\ QuietLeds => \A i \in DOMAIN port : port[i] \notin Led \X {FALSE}
<1>1. PICK k \in Key, up \in BOOLEAN :
         Send(k, up) /\ down' = IF up THEN down \ {k} ELSE down \cup {k}
  <2>1. CASE Press
    <3>1. PICK k \in Key : down' = down \cup {k} /\ Send(k, FALSE)
      BY <2>1 DEF Press
    <3> WITNESS k \in Key, FALSE \in BOOLEAN
    <3> QED BY <3>1
  <2>2. CASE Release
    <3>1. PICK k \in down : down' = down \ {k} /\ Send(k, TRUE)
      BY <2>2 DEF Release
    <3>2. k \in Key
      BY <3>1 DEF ReadInv, KeysType
    <3> WITNESS k \in Key, TRUE \in BOOLEAN
    <3> QED BY <3>1
  <2> QED BY <2>1, <2>2
<1>2. /\ UNCHANGED <<fifo, keymap, capslock_state, extcode_state, calls>>
      /\ SentBy(k, up) /\ Len(port') <= MaxPort
      /\ QuietLeds => \A i \in DOMAIN port : port[i] \notin Led \X {FALSE}
  BY <1>1 DEF Send, SentBy, keys
<1>3. KeysType'
  <2>1. down' \subseteq Key
    BY <1>1 DEF ReadInv, KeysType
  <2>2. port' \in Seq(Byte)
    <3>1. <<k[1], up>> \in Byte /\ E0 \in Byte
      BY Bytes, <1>1 DEF Byte
    <3>2. port \in Seq(Byte)
      BY DEF ReadInv, KeysType
    <3>3. CASE k[2]
      <4>1. port' = (port \o <<E0>>) \o << <<k[1], up>> >>
        BY <1>2, <3>3 DEF SentBy
      <4> QED BY ONLY <3>1, <3>2, <4>1
    <3>4. CASE ~k[2]
      <4>1. port' = (port \o <<>>) \o << <<k[1], up>> >>
        BY <1>2, <3>4 DEF SentBy
      <4> QED BY ONLY <3>1, <3>2, <4>1
    <3> QED BY <3>3, <3>4
  <2>3. UNCHANGED <<keymap, extcode_state>>
    BY <1>2
  <2> QED BY <2>1, <2>2, <2>3 DEF ReadInv, KeysType
<1>4. CallsOK'
  BY <1>2 DEF ReadInv, CallsOK, calls
<1> QED BY <1>1, <1>2, <1>3, <1>4, SameRing DEF ReadInv, ReadResult

\* The driver takes a byte, and what it then knows of the keys.
LEMMA HandlerResult ==
    ASSUME ReadInv, keyboard_handler
    PROVE  /\ ReadResult
           /\ port # <<>> /\ UNCHANGED down
           /\ extcode_state' \in BOOLEAN /\ (extcode_state' <=> Head(port) = E0)
           /\ keymap' \in SUBSET (Code \X BOOLEAN)
           /\ \A k \in Code \X BOOLEAN :
                 k \in keymap' <=> IF Of(1, k) THEN ~port[1][2] ELSE k \in keymap
           /\ port' = Tail(port) \/ (port' = <<>> /\ port[1] \in Led \X {FALSE})
<1> DEFINE b == port[1]
<1>1. /\ port # <<>> /\ UNCHANGED <<down, count, got>> /\ Head(port) = b /\ b \in Byte
      /\ port \in Seq(Byte) /\ extcode_state \in BOOLEAN
      /\ \/ b = E0 /\ extended
         \/ b # E0 /\ b[2] /\ breakcode(b[1])
         \/ b # E0 /\ ~b[2] /\ makecode(b[1])
  BY DEF keyboard_handler, calls, ReadInv, KeysType
<1>2. \A k : Of(1, k) <=> b # E0 /\ b[1] = k[1] /\ (extcode_state <=> k[2])
  BY DEF Of, ExtendedAt
<1>3. \A k \in Code \X BOOLEAN :
         b # E0 => (Of(1, k) <=> k = <<b[1], extcode_state>>)
  <2>1. \A k \in Code \X BOOLEAN : k[2] \in BOOLEAN /\ k = <<k[1], k[2]>>
    BY Bytes
  <2> QED BY <1>1, <1>2, <2>1
<1>4. /\ port' = Tail(port) \/ (port' = <<>> /\ b \in Led \X {FALSE})
      /\ extcode_state' \in BOOLEAN /\ (extcode_state' <=> b = E0)
      /\ keymap' = IF b = E0 THEN keymap
                   ELSE IF b[2] THEN keymap \ {<<b[1], extcode_state>>}
                   ELSE keymap \cup {<<b[1], extcode_state>>}
      /\ \/ UNCHANGED <<fifo, waiter>>
         \/ \E ch \in Visible : fifo_put(ch)
  <2>1. CASE b = E0 /\ extended
    BY <2>1 DEF extended
  <2>2. CASE b # E0 /\ b[2] /\ breakcode(b[1])
    BY <2>2 DEF breakcode, ExtendedOnce
  <2>3. CASE b # E0 /\ ~b[2] /\ makecode(b[1])
    <3>1. b = <<b[1], FALSE>>
      BY <1>1, <2>3, Bytes
    <3>2. port' = Tail(port) \/ (port' = <<>> /\ b[1] \in Led)
      BY <2>3 DEF makecode
    <3>3. UNCHANGED <<fifo, waiter>> \/ \E ch \in Visible : fifo_put(ch)
      BY <2>3 DEF makecode
    <3>4. b[1] \in Led => b \in Led \X {FALSE}
      <4>1. ASSUME NEW c \in Led PROVE <<c, FALSE>> \in Led \X {FALSE}
        OBVIOUS
      <4> QED BY <3>1, <4>1
    <3> HIDE DEF b
    <3> QED BY <2>3, <3>2, <3>3, <3>4 DEF makecode, ExtendedOnce
  <2> QED BY <1>1, <2>1, <2>2, <2>3
<1> HIDE DEF b
<1>5. keymap' \in SUBSET (Code \X BOOLEAN)
  <2>1. b # E0 => b[1] \in Code
    BY <1>1, Bytes
  <2>2. keymap \in SUBSET (Code \X BOOLEAN)
    BY DEF ReadInv, KeysType
  <2> QED BY <1>1, <1>4, <2>1, <2>2
<1>6. \A k \in Code \X BOOLEAN :
         k \in keymap' <=> IF Of(1, k) THEN ~b[2] ELSE k \in keymap
  <2>1. CASE b = E0
    BY <1>2, <1>4, <2>1
  <2>2. CASE b # E0
    BY <1>3, <1>4, <2>2
  <2> QED BY <2>1, <2>2
<1>7. RingOK' /\ RingStep
  <2>1. CASE UNCHANGED fifo
    BY <2>1, SameRing DEF ReadInv
  <2>2. ASSUME NEW ch \in Visible, fifo_put(ch) PROVE RingOK' /\ RingStep
    BY <2>2, PutIsAppend DEF ReadInv, RingStep
  <2> QED BY <1>4, <2>1, <2>2
<1>8. port' \in Seq(Byte) /\ Len(port') <= MaxPort
  <2>1. Len(port) \in Nat /\ Len(port) <= MaxPort /\ MaxPort \in Nat
    BY <1>1, KeyboardAssumption DEF ReadInv, CallsOK
  <2>2. CASE port' = Tail(port)
    <3>1. port' \in Seq(Byte) /\ Len(port') = Len(port) - 1
      BY <1>1, <2>2, HeadTailProperties
    <3> QED BY ONLY <2>1, <3>1
  <2>3. CASE port' = <<>>
    BY ONLY <2>1, <2>3
  <2> QED BY <1>4, <2>2, <2>3
<1>9. KeysType'
  BY <1>1, <1>4, <1>5, <1>8 DEF KeysType, ReadInv
<1>10. capslock_state' \in BOOLEAN
  BY <1>1 DEF extended, breakcode, makecode, ReadInv, CallsOK
<1>11. CallsOK'
  BY <1>1, <1>8, <1>10 DEF ReadInv, CallsOK
<1> QED BY <1>1, <1>4, <1>5, <1>6, <1>7, <1>9, <1>11 DEF ReadResult, b

LEMMA ReaderResult ==
    ASSUME ReadInv, NEW t \in Task,
           \/ keyboard_read(t) \/ keyboard_lock_again(t)
           \/ keyboard_wait(t) \/ keyboard_get(t) \/ keyboard_return(t)
    PROVE  ReadResult /\ UNCHANGED <<keymap, extcode_state, down, port>>
<1>1. /\ UNCHANGED <<keymap, extcode_state, capslock_state, down, port>>
      /\ UNCHANGED fifo \/ keyboard_get(t)
  BY DEF keyboard_read, keyboard_lock_again, keyboard_wait, keyboard_get,
         keyboard_return, keyboardVars, keys, hardware
<1>2. KeysType'
  BY <1>1 DEF ReadInv, KeysType
<1>3. /\ count \in [Task -> 0..MaxCount] /\ got \in [Task -> Seq(Visible)]
      /\ MaxCount \in Nat \ {0}
  BY KeyboardAssumption DEF ReadInv, CallsOK
<1>4. CASE keyboard_get(t)
  <2>1. /\ ~fifo_empty /\ tail' = fifo_next(tail) /\ UNCHANGED <<buf, head, count>>
        /\ got' = [got EXCEPT ![t] = Append(@, buf[tail])]
    BY <1>4 DEF keyboard_get
  <2>2. /\ RingOK' /\ queue # <<>> /\ Head(queue) = buf[tail]
        /\ queue' = Tail(queue) /\ buf[tail] \in Visible
    BY <2>1, GetIsTail DEF ReadInv
  <2>3. got' \in [Task -> Seq(Visible)] /\ got'[t] = Append(got[t], Head(queue))
    BY <1>3, <2>1, <2>2
  <2> HIDE DEF queue
  <2>4. RingStep
    BY <2>2, <2>3 DEF RingStep
  <2>5. CallsOK'
    BY <1>1, <1>3, <2>1, <2>3 DEF ReadInv, CallsOK
  <2> QED BY <1>1, <1>2, <2>2, <2>4, <2>5 DEF ReadResult
<1>5. CASE UNCHANGED fifo /\ ~keyboard_get(t)
  <2>1. count' \in [Task -> 0..MaxCount]
    <3>1. CASE keyboard_read(t)
      <4>1. PICK n \in 1..MaxCount : count' = [count EXCEPT ![t] = n]
        BY <3>1 DEF keyboard_read
      <4> QED BY <1>3, <4>1
    <3>2. CASE keyboard_return(t)
      <4>1. count' = [count EXCEPT ![t] = 0]
        BY <3>2 DEF keyboard_return
      <4> QED BY <1>3, <4>1
    <3>3. CASE keyboard_lock_again(t) \/ keyboard_wait(t)
      BY <1>3, <3>3 DEF keyboard_lock_again, keyboard_wait, keyboardVars, calls
    <3> QED BY <1>5, <3>1, <3>2, <3>3
  <2>2. got' \in [Task -> Seq(Visible)]
    <3>1. got' = got \/ got' = [got EXCEPT ![t] = <<>>]
      BY <1>5 DEF keyboard_read, keyboard_return, keyboard_lock_again, keyboard_wait,
                  keyboardVars, calls
    <3>2. <<>> \in Seq(Visible)
      OBVIOUS
    <3>3. CASE got' = [got EXCEPT ![t] = <<>>]
      BY <1>3, <3>2, <3>3
    <3> QED BY <1>3, <3>1, <3>3
  <2>3. CallsOK'
    BY <1>1, <2>1, <2>2 DEF ReadInv, CallsOK
  <2> QED BY <1>1, <1>2, <1>5, <2>3, SameRing DEF ReadInv, ReadResult
<1> QED BY <1>1, <1>4, <1>5

LEMMA StepReadInv ==
    ReadInv /\ [KeyboardNext]_allVars => ReadInv' /\ [RingStep]_allVars
<1> SUFFICES ASSUME ReadInv, [KeyboardNext]_allVars PROVE ReadInv' /\ RingStep
  OBVIOUS
<1>1. KeyboardInv'
  BY StepKeyboardInv DEF ReadInv
<1>2. CASE (Preempt /\ UNCHANGED keyboardVars) \/ UNCHANGED allVars
  <2>1. UNCHANGED keyboardVars
    BY <1>2 DEF allVars
  <2>2. UNCHANGED <<fifo, keymap, capslock_state, extcode_state, down, port, count, got>>
    BY <2>1 DEF keyboardVars, keys, hardware, calls
  <2> QED BY <1>1, <2>2, SameRing DEF ReadInv, KeysType, CallsOK
<1>3. ASSUME ReadResult PROVE ReadInv' /\ RingStep
  BY <1>1, <1>3 DEF ReadResult, ReadInv
<1>4. ASSUME NEW t \in Task,
             \/ keyboard_read(t) \/ keyboard_lock_again(t)
             \/ keyboard_wait(t) \/ keyboard_get(t) \/ keyboard_return(t)
      PROVE  ReadResult
  BY <1>4, ReaderResult
<1> QED BY <1>2, <1>3, <1>4, SendResult, HandlerResult DEF KeyboardNext

LEMMA InitReadInv == KeyboardInit => ReadInv
<1> SUFFICES ASSUME KeyboardInit PROVE ReadInv
  OBVIOUS
<1> USE KeyboardAssumption DEF KeyboardInit
<1>1. KeyboardInv
  BY InitKeyboardInv
<1>2. RingOK
  <2>1. 0 \in Position /\ Filled(0, 0) = 0
    BY DEF Position, Filled
  <2>2. buf \in [Position -> Visible \cup {INV}]
    OBVIOUS
  <2> QED BY <2>1, <2>2 DEF RingOK
<1>3. KeysType
  <2>1. port \in Seq(Byte)
    OBVIOUS
  <2>2. keymap = {} /\ down = {} /\ extcode_state = FALSE
    OBVIOUS
  <2> HIDE DEF KeyboardInit
  <2> QED BY ONLY <2>1, <2>2 DEF KeysType
<1>4. CallsOK
  <2>1. count \in [Task -> 0..MaxCount] /\ got \in [Task -> Seq(Visible)]
    OBVIOUS
  <2>2. Len(port) = 0 /\ MaxPort \in Nat /\ capslock_state = FALSE
    OBVIOUS
  <2>3. Len(port) <= MaxPort
    BY ONLY <2>2
  <2>4. capslock_state \in BOOLEAN
    BY ONLY <2>2
  <2> HIDE DEF KeyboardInit
  <2> QED BY ONLY <2>1, <2>3, <2>4, Zenon DEF CallsOK
<1> QED BY <1>1, <1>2, <1>3, <1>4 DEF ReadInv

LEMMA InitDecodes == KeyboardInit => DecodesInv
<1> SUFFICES ASSUME KeyboardInit PROVE DecodesInv
  OBVIOUS
<1>1. KeysType
  BY InitReadInv DEF ReadInv
<1>2. DOMAIN port = {} /\ ~extcode_state /\ keymap = down
  BY DEF KeyboardInit
<1> QED BY <1>1, <1>2 DEF DecodesInv, PortOK, KeysOK

LEMMA StepDecodes ==
    ASSUME QuietLeds, ReadInv, DecodesInv, [KeyboardNext]_allVars
    PROVE  DecodesInv'
<1>1. CASE UNCHANGED <<keymap, extcode_state, down, port>>
  <2>1. KeysType' /\ \A i : ExtendedAt(i)' <=> ExtendedAt(i)
    BY <1>1 DEF DecodesInv, KeysType, ExtendedAt
  <2>2. \A i, k : Of(i, k)' <=> Of(i, k)
    BY <1>1, <2>1 DEF Of
  <2>3. \A i, k : LastOf(i, k)' <=> LastOf(i, k)
    BY <1>1, <2>2 DEF LastOf
  <2>4. PortOK'
    BY <1>1, <2>1 DEF DecodesInv, PortOK
  <2>5. KeysOK'
    BY <1>1, <2>2, <2>3 DEF DecodesInv, KeysOK
  <2> QED BY <2>1, <2>4, <2>5 DEF DecodesInv
<1>2. CASE Press \/ Release
  BY <1>2, SendResult, SentBytes
<1>3. CASE keyboard_handler
  <2>1. port \in Seq(Byte) /\ port # <<>>
    BY <1>3, HandlerResult DEF ReadInv, KeysType
  <2>2. port' = Tail(port)
    <3>1. CASE port' = <<>> /\ port[1] \in Led \X {FALSE}
      <4>1. 1 \in DOMAIN port
        BY ONLY <2>1
      <4>2. Len(port) = 1
        BY <3>1, <4>1 DEF DecodesInv, PortOK
      <4>3. Len(Tail(port)) = 0 /\ Tail(port) \in Seq(Byte)
        BY ONLY <2>1, <4>2, HeadTailProperties
      <4>4. \A s \in Seq(Byte) : Len(s) = 0 => s = <<>>
        OBVIOUS
      <4> QED BY ONLY <3>1, <4>3, <4>4
    <3> QED BY <1>3, <3>1, HandlerResult
  <2> QED BY <1>3, <2>1, <2>2, HandlerResult, TakenByte
<1>4. ASSUME NEW t \in Task,
             \/ keyboard_read(t) \/ keyboard_lock_again(t)
             \/ keyboard_wait(t) \/ keyboard_get(t) \/ keyboard_return(t)
      PROVE  UNCHANGED <<keymap, extcode_state, down, port>>
  BY <1>4, ReaderResult
<1>5. CASE (Preempt /\ UNCHANGED keyboardVars) \/ UNCHANGED allVars
  BY <1>1, <1>5 DEF allVars, keyboardVars, keys, hardware
<1> QED BY <1>1, <1>2, <1>3, <1>4, <1>5 DEF KeyboardNext

\* The characters that are read are visible ones, and no index leaves the ring.
THEOREM KeyboardTypes == KeyboardSpec => []KeyboardTypeOK
<1>1. ReadInv => KeyboardTypeOK
  BY DEF ReadInv, KeyboardInv, MutexInv, WaiterWaits, RingOK, KeysType, CallsOK,
         KeyboardTypeOK
<1> QED BY <1>1, InitReadInv, StepReadInv, PTL DEF KeyboardSpec

(***************************************************************************)
(* The ring of fifo.c is a queue for every length of the buffer, wherever  *)
(* head and tail wrap: fifo_put and fifo_get lose only the oldest          *)
(* character of a full ring.                                               *)
(***************************************************************************)
THEOREM KeyboardRing == KeyboardSpec => RingIsQueue
<1>1. ReadInv /\ [KeyboardNext]_allVars => [RingStep]_allVars
  BY StepReadInv
<1> QED BY <1>1, InitReadInv, StepReadInv, PTL DEF KeyboardSpec, RingIsQueue, RingStep

(***************************************************************************)
(* keyboard_handler knows which keys are down, for any keys and any number *)
(* of bytes that wait, as long as none of them waits behind the press of a *)
(* lock key: set_leds would drop it.                                       *)
(***************************************************************************)
THEOREM KeyboardKnowsKeys ==
    ASSUME QuietLeds
    PROVE  KeyboardSpec => []KnowsKeys
<1>1. DecodesInv => KnowsKeys
  <2> SUFFICES ASSUME DecodesInv, port = <<>> PROVE keymap = down
    BY DEF KnowsKeys
  <2>1. \A k \in Code \X BOOLEAN : k \in keymap <=> k \in down
    BY DEF DecodesInv, KeysOK
  <2>2. keymap \subseteq Code \X BOOLEAN /\ down \subseteq Code \X BOOLEAN
    BY KeyboardAssumption DEF DecodesInv, KeysType
  <2> QED BY <2>1, <2>2
<1>2. ReadInv /\ DecodesInv /\ [KeyboardNext]_allVars => ReadInv' /\ DecodesInv'
  BY StepReadInv, StepDecodes
<1> QED BY <1>1, <1>2, InitReadInv, InitDecodes, PTL DEF KeyboardSpec
=============================================================================
