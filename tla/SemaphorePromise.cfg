SPECIFICATION FairSpec
CONSTANTS
    t1 = t1
    t2 = t2
    t3 = t3
    t4 = t4
    n1 = n1
    n2 = n2
    VmThreads <- Vm4
    Natives <- NoNative
    Initial <- Negative
    MaxValue = 2
    MaxQueue = 3
    Meddling = FALSE
PROPERTY ImplementsPromise
CHECK_DEADLOCK FALSE
