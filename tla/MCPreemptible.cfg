SPECIFICATION FairPreemptionSpec
CONSTANTS
    MAX_THREAD_NUM = 3
    INT_MAX = 100
    MaxQuantums = 5
    MaxFrames = 3
    EntryPoints <- FunctionOnly
    SleepArgs <- SleepShort
    InitArgs <- Positive
INVARIANTS
    UserCodePreemptible
PROPERTIES
    EveryQuantumEnds
CHECK_DEADLOCK FALSE
