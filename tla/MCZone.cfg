\* Two tasks, two files that reach into both index levels.
SPECIFICATION ZoneSpec
CONSTANTS
    Task = {p, q}
    Inode = {1, 2}
    Direct = 1
    Indexes = 2
    BlockBits = 6
    Stride = 6
    Maps = 1
    Zones = 7
    FirstZone = 2
    Zeroed = TRUE
    Sharing = FALSE
    MaxSize = 8
    Lengths = {1, 3}
    Targets = {0, 3}
    MaxCalls = 5
INVARIANTS ZoneTypeOK  
 
SYMMETRY TasksAlike
CHECK_DEADLOCK FALSE
