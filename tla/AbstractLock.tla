---------------------------- MODULE AbstractLock ----------------------------
(***************************************************************************)
(* What lock_acquire and lock_release of src/kernel/mutex.c promise: a     *)
(* lock that one task at a time owns, and that its owner may take again.   *)
(* depth[t] counts the calls of lock_acquire that have returned to t and   *)
(* that t has not released.                                                *)
(***************************************************************************)
EXTENDS Naturals

CONSTANT Owner      \* the tasks that use the lock

VARIABLE depth

Free(t) == \A u \in Owner \ {t} : depth[u] = 0

LockInit == depth = [t \in Owner |-> 0]

Acquire(t) ==
    /\ Free(t)
    /\ depth' = [depth EXCEPT ![t] = @ + 1]

Release(t) ==
    /\ depth[t] > 0
    /\ depth' = [depth EXCEPT ![t] = @ - 1]

LockNext == \E t \in Owner : Acquire(t) \/ Release(t)

LockSpec == LockInit /\ [][LockNext]_depth
=============================================================================
