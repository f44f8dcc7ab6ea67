\* Four tasks contend for the lock; each may nest it once.
SPECIFICATION MutexSpec
CONSTANTS
    Task = {idle, a, b, c, d}
    Idle = idle
    Boot = boot
    MaxRepeat = 2
INVARIANTS MutexTypeOK LockInv NoLostWakeup
PROPERTIES ImplementsLock
