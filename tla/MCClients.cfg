SPECIFICATION ClientSpec
CONSTANTS
    MAX_THREAD_NUM = 7
    INT_MAX = 100
    MaxQuantums = 40
    Tests <- AllTests
    QuickQuantums = 12
    MaxActive = 3
    SleepArgs <- MCSleepArgs
INVARIANTS
    Expectations
PROPERTIES
    TestsEnd
CHECK_DEADLOCK FALSE
