SPECIFICATION MemorySpec
CONSTANTS
    MAX_THREAD_NUM = 3
    INT_MAX = 100
    MaxQuantums = 4
    MaxFrames = 2
    MaxObjects = 4
    EntryPoints <- NullAndFunction
    SleepArgs <- SleepAndRefusal
    InitArgs <- Positive
INVARIANTS
    ExitsOnLiveStack
CHECK_DEADLOCK FALSE
