\* Three processes share the pages of a heap and a stack; the kernel writes as
\* programs do.  A behaviour ends where the kernel stops.
SPECIFICATION PagingSpec
CONSTANTS
    Process = {a, b, c}
    InitTask = a
    TableSize = 1
    KernelTables = {4, 5}
    Frame = {8, 9, 10, 11, 12, 13, 14, 15}
    NoFrame = none
    UserValue = {x, y}
    WriteProtect = TRUE
SYMMETRY Symmetry
INVARIANTS PagingTypeOK CountsMappings WritableIsPrivate
 
CHECK_DEADLOCK FALSE
