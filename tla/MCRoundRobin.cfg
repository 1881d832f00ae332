SPECIFICATION FairSpec
CONSTANTS
    MAX_THREAD_NUM = 5
    Naps <- MCNaps
INVARIANTS
    RoundRobinTypeOK
PROPERTIES
    ReadyThreadsRun
    NapsEnd
    MainRunsForever
CHECK_DEADLOCK FALSE
