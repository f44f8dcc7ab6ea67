\* Three tasks, each with up to two buffers at a time, contend for two
\* buffers and three blocks, each changed twice, but not while it is being
\* written.  A behaviour ends when a release stops the kernel.
SPECIFICATION BufferSpec
CONSTANTS
    Task = {idle, a, b, c}
    Idle = idle
    Boot = boot
    Block = {x, y, z}
    NoBlock = none
    BufferCount = 2
    MaxHeld = 2
    MaxChanges = 2
    WhileWritten = FALSE
SYMMETRY Symmetry
INVARIANTS BufferTypeOK   CountsUsers BufferLockHeld
CHECK_DEADLOCK FALSE
