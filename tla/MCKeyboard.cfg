\* Two readers and a queue of two characters.
SPECIFICATION KeyboardSpec
CONSTANTS
    Task = {idle, a, b}
    Idle = idle
    Boot = boot
    MaxRepeat = 1
    Key <- SomeKeys
    Visible <- SomeVisible
    Length = 3
    MaxCount = 2
    MaxPort = 2
    QuietLeds = TRUE
SYMMETRY Readers
INVARIANTS KeyboardTypeOK ReaderIsWoken OneReader 
PROPERTIES RingIsQueue
