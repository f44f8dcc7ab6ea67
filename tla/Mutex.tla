------------------------------- MODULE Mutex -------------------------------
(***************************************************************************)
(* The sleeping mutex and the re-entrant lock of src/kernel/mutex.c, used  *)
(* by tasks that the scheduler of Tasks.tla switches in any order.         *)
(*                                                                         *)
(* pc[t] is in the loop of "mutex_lock", or in kernel code that holds the  *)
(* lock ("held"), where it may wait for a device ("device").               *)
(***************************************************************************)
EXTENDS Kernel

CONSTANT MaxRepeat      \* bound: how often a task nests lock_acquire

ASSUME MutexAssumption == MaxRepeat \in Nat \ {0}

VARIABLES
    value,      \* mutex->value
    waiters,    \* mutex->waiters
    holder,     \* lock->holder, Boot for NULL
    repeat      \* lock->repeat

lockVars == <<value, waiters, holder, repeat>>
vars == <<taskVars, pc, lockVars>>

MutexTypeOK ==
    /\ TaskTypeOK
    /\ pc \in [Task -> {"user", "mutex_lock", "held", "device"}]
    /\ value \in BOOLEAN
    /\ waiters \in Seq(Task)
    /\ holder \in Task \cup {Boot}
    /\ repeat \in 0..MaxRepeat

MutexInit ==
    /\ KernelInit
    /\ value = FALSE
    /\ waiters = <<>>
    /\ holder = Boot
    /\ repeat = 0

\* A slice ends, or a task calls yield().
Preempt == Preempted /\ UNCHANGED lockVars

-----------------------------------------------------------------------------
\* mutex_lock takes the free mutex and lock_acquire makes t its holder.
Take(t) ==
    /\ value = FALSE
    /\ value' = TRUE
    /\ holder' = t
    /\ repeat' = 1
    /\ Goto(t, "held")
    /\ Stay
    /\ UNCHANGED waiters

\* mutex_lock finds the mutex taken and blocks the task at the head.
Wait(t) ==
    /\ value = TRUE
    /\ waiters' = list_push(waiters, t)
    /\ schedule(Entering(state, t, "BLOCKED"))
    /\ Goto(t, "mutex_lock")
    /\ UNCHANGED <<value, holder, repeat>>

\* A system call whose code takes the lock.
lock_acquire(t) ==
    /\ current = t /\ t # Idle
    /\ pc[t] = "user"
    /\ holder # t
    /\ Take(t) \/ Wait(t)

\* Faulty variant: "if" for "while", the test is not repeated.
LockWithoutTest(t) ==
    /\ current = t
    /\ pc[t] = "mutex_lock"
    /\ value' = TRUE
    /\ holder' = t
    /\ repeat' = 1
    /\ Goto(t, "held")
    /\ Stay
    /\ UNCHANGED waiters

\* A task that waited runs again: the loop of mutex_lock tests once more.
mutex_lock_again(t) ==
    /\ current = t
    /\ pc[t] = "mutex_lock"
    /\ Take(t) \/ Wait(t)

\* The holder calls code that takes the lock again.
lock_reenter(t) ==
    /\ current = t
    /\ pc[t] = "held"
    /\ holder = t
    /\ repeat < MaxRepeat
    /\ repeat' = repeat + 1
    /\ Stay
    /\ UNCHANGED <<pc, value, waiters, holder>>

\* Faulty variant: it counts below zero.
ReleaseTooOften(t) ==
    /\ current = t
    /\ pc[t] = "held"
    /\ repeat' = repeat - 1
    /\ Stay
    /\ UNCHANGED <<pc, value, waiters, holder>>

\* lock_release of a nested acquisition.
lock_release_nested(t) ==
    /\ current = t
    /\ pc[t] = "held"
    /\ repeat > 1
    /\ repeat' = repeat - 1
    /\ Stay
    /\ UNCHANGED <<pc, value, waiters, holder>>

\* Faulty variant: the holder is not reset.
FreedKeepingHolder == repeat' = 0 /\ value' = FALSE /\ UNCHANGED holder

Freed == holder' = Boot /\ repeat' = 0 /\ value' = FALSE

\* Faulty variant: nobody is woken.
WakeNobody == Stay /\ UNCHANGED waiters

\* The task that has waited longest is woken, and the releasing one yields.
WakeWaiter ==
    IF list_empty(waiters)
    THEN Stay /\ UNCHANGED waiters
    ELSE /\ waiters' = list_remove(waiters, list_last(waiters))
         /\ schedule(Unblocked(state, {list_last(waiters)}))

(***************************************************************************)
(* The last lock_release: mutex_unlock frees the mutex and wakes a waiter. *)
(***************************************************************************)
lock_release(t) ==
    /\ current = t
    /\ pc[t] = "held"
    /\ repeat <= 1
    /\ Freed
    /\ Goto(t, "user")
    /\ WakeWaiter

\* The holder waits for a device (ide_pio_read, keyboard_read) ...
device_wait(t) ==
    /\ current = t
    /\ pc[t] = "held"
    /\ schedule(Entering(state, t, "BLOCKED"))
    /\ Goto(t, "device")
    /\ UNCHANGED lockVars

\* ... until its interrupt comes.
device_interrupt(t) ==
    /\ InUserMode
    /\ pc[t] = "device" /\ state[t] = "BLOCKED"
    /\ state' = Unblocked(state, {t})
    /\ Goto(t, "held")
    /\ UNCHANGED <<current, lockVars>>

MutexNext ==
    \/ Preempt
    \/ \E t \in Task : \/ lock_acquire(t) \/ mutex_lock_again(t)
                       \/ lock_reenter(t) \/ lock_release_nested(t)
                       \/ lock_release(t)
                       \/ device_wait(t) \/ device_interrupt(t)

MutexSpec == MutexInit /\ [][MutexNext]_vars

-----------------------------------------------------------------------------
Holding == {t \in Task : pc[t] \in {"held", "device"}}

\* Tasks in the loop of mutex_lock that can run: they will test it again.
Woken == {t \in Task : pc[t] = "mutex_lock" /\ state[t] # "BLOCKED"}

(***************************************************************************)
(* One task at a time is between lock_acquire and lock_release, also while *)
(* it waits for a device, and the fields of the lock say which: what the   *)
(* assertions of mutex_lock, mutex_unlock, lock_acquire and lock_release   *)
(* test.                                                                   *)
(***************************************************************************)
LockInv ==
    /\ \A t \in Holding : holder = t /\ value = TRUE /\ repeat >= 1
    /\ Holding = {} => holder = Boot /\ value = FALSE /\ repeat = 0

\* The wait list holds exactly the tasks that mutex_lock has blocked.
WaitersAreBlocked ==
    /\ \A t \in Task : Linked(waiters, t)
                          <=> pc[t] = "mutex_lock" /\ state[t] = "BLOCKED"
    /\ IsInjective(waiters)

(***************************************************************************)
(* mutex_unlock wakes one waiter and forgets it, and any task may take the *)
(* mutex before that one runs.  Still no wake-up is lost: whenever the     *)
(* mutex is free and tasks wait in its list, one that has been woken is on *)
(* its way to take it.                                                     *)
(***************************************************************************)
NoLostWakeup == waiters # <<>> /\ value = FALSE => Woken # {}

\* The lock seen from its users: how often each has taken it.
depthOf == [t \in Task |-> IF t \in Holding THEN repeat ELSE 0]

Lock == INSTANCE AbstractLock WITH Owner <- Task, depth <- depthOf

\* The lock is a re-entrant lock of one owner.
ImplementsLock == Lock!LockSpec
=============================================================================
