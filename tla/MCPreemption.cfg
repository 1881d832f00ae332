SPECIFICATION PreemptionSpec
CONSTANTS
    MAX_THREAD_NUM = 3
    INT_MAX = 100
    MaxQuantums = 5
    MaxFrames = 3
    EntryPoints <- NullAndFunction
    SleepArgs <- SleepAndRefusal
    InitArgs <- AnySign
INVARIANTS
    PreemptionTypeOK
    ConsistentWhenInterruptible
    SuspendedAtSavePoint
PROPERTIES
    AtomicSpec
CHECK_DEADLOCK FALSE
