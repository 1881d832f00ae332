SPECIFICATION Spec
CONSTANTS
    MAX_THREAD_NUM = 4
    INT_MAX = 9
    MaxQuantums = 9
    SleepArgs <- MCSleepArgs
INVARIANTS
    TypeOK
    StatesAgree
    QueueExact
    SleepersExist
    MainSchedulable
    NoOversleep
PROPERTIES
    NoOvertaking
    QuantumCharged
CHECK_DEADLOCK FALSE
