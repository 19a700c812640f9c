SPECIFICATION FairSpec
CONSTANTS
    t1 = t1
    t2 = t2
    t3 = t3
    t4 = t4
    n1 = n1
    n2 = n2
    VmThreads <- Vm2
    Natives <- Native2
    Initial = 0
    MaxValue = 2
    MaxQueue = 3
    Meddling = TRUE
INVARIANTS
    Consistent
    NoLostWakeup
    BoundedDeficit
PROPERTIES
    UnitsReachWaiters
CHECK_DEADLOCK FALSE
