\* Two processes that fork, on a directory of two names.
SPECIFICATION FileSystemSpec
CONSTANTS
    Task = {p, q}
    InitTask = p
    Name = {x, y}
    Nr = {2, 3}
    RootNr = 1
    Inode = {1, 2}
    Root = 0
    File = {3, 4}
    NoFile = NoFile
    Fd = {3}
    MaxEntries = 2
    MaxCalls = 5
INVARIANTS FileSystemTypeOK CountsReferences OneDescriptor
SYMMETRY NamesAlike
CHECK_DEADLOCK FALSE
