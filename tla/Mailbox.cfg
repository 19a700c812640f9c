SPECIFICATION PollingSpec
CONSTANTS
    t1 = t1
    t2 = t2
    t3 = t3
    Threads <- ThreeThreads
    Main = t1
    MaxSends = 3
    Word = 4
    Askers <- TwoAskers
INVARIANTS
    BoxesConsistent
    CounterTellsTruth
PROPERTIES
    MessagesAreReceived
CHECK_DEADLOCK FALSE
