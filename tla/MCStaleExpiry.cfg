SPECIFICATION PreemptionSpec
CONSTANTS
    MAX_THREAD_NUM = 3
    INT_MAX = 100
    MaxQuantums = 5
    MaxFrames = 3
    EntryPoints <- FunctionOnly
    SleepArgs <- SleepShort
    InitArgs <- Positive
PROPERTIES
    PreemptedByOwnExpiry
CHECK_DEADLOCK FALSE
