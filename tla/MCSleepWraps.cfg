SPECIFICATION WaitSpec
CONSTANTS
    MAX_THREAD_NUM = 2
    INT_MAX = 12
    MaxQuantums = 8
    SleepArgs <- AnySleep
INVARIANTS
    SleepHonoured
CHECK_DEADLOCK FALSE
