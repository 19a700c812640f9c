SPECIFICATION LoopFairSpec
CONSTANTS
    m1 = m1
    NULL = NULL
    MaxThreads = 3
    TimeSlice = 3
    Mutexes <- OneMutex
    Instrs <- AllInstrs
    DebugInstrs <- FewInstrs
INVARIANTS
    LoopConsistent
PROPERTIES
    EveryThreadIsReached
    WaitingEnds
CHECK_DEADLOCK FALSE
