SPECIFICATION Spec
CONSTANTS
  Programs <- AllPrograms
VIEW CallsView
INVARIANTS
    Consistent
    NothingReachableIsFreed
    LoneContinuationFits
PROPERTIES
    FollowsTheTree
    ContinuationWindsBack
CHECK_DEADLOCK FALSE
