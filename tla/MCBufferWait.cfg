\* A task waits for a buffer; the first release stops the kernel.
SPECIFICATION BufferSpec
CONSTANTS
    Task = {idle, a, b}
    Idle = idle
    Boot = boot
    Block = {x, y, z}
    NoBlock = none
    BufferCount = 2
    MaxHeld = 2
    MaxChanges = 0
    WhileWritten = TRUE
INVARIANTS NoPanic
