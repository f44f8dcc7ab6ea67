\* Words of two bits: jiffies wraps every fourth tick, also between the start
\* of a sleep and its end.
SPECIFICATION SchedFairSpec
CONSTANTS
    Task = {0, 1, 2}
    Idle = 0
    Boot = boot
    WordSize = 4
    Priority <- ShortSlices
    SleepMs = {5}
    Jiffy = 10
    MaxWake = 4
PROPERTIES SleepersWake IdleGivesWay
