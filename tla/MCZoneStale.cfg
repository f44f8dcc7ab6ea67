\* One task: an index block comes with the numbers of its last file.
SPECIFICATION ZoneSpec
CONSTANTS
    Task = {p}
    Inode = {1, 2}
    Direct = 1
    Indexes = 2
    BlockBits = 6
    Stride = 6
    Maps = 1
    Zones = 7
    FirstZone = 2
    Zeroed = FALSE
    Sharing = FALSE
    MaxSize = 8
    Lengths = {1, 3}
    Targets = {0, 3}
    MaxCalls = 8
INVARIANTS FreesUsedBlocks
CHECK_DEADLOCK FALSE
