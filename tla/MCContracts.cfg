SPECIFICATION WaitSpec
CONSTANTS
    MAX_THREAD_NUM = 4
    INT_MAX = 12
    MaxQuantums = 8
    SleepArgs <- ShortSleep
INVARIANTS
    SleepHonoured
    TurnsKept
PROPERTIES
    RoundRobinSpec
CHECK_DEADLOCK FALSE
