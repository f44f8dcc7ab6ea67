\* The idle task and two others under a clock that never stops.  jiffies
\* wraps every eighth tick, and no wake-up time reaches the sign bit.
SPECIFICATION SchedSpec
CONSTANTS
    Task = {0, 1, 2}
    Idle = 0
    Boot = boot
    WordSize = 8
    Priority <- LongSlices
    SleepMs = {5, 20}
    Jiffy = 10
    MaxWake = 3
INVARIANTS SchedTypeOK RunningIsCurrent ListsMatchStates NoOversleep
PROPERTIES WakesOnTime TaskSpec
