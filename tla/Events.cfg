SPECIFICATION FairSpec
CONSTANTS
    h1 = h1
    h2 = h2
    e1 = e1
    e2 = e2
    Hosts <- TwoHosts
    Ids <- TwoIds
    ArgsPerCall = 2
    MaxCalls = 1
    MaxRaises = 2
    MaxInstalls = 2
    Pollers <- OneHost
INVARIANTS
    Consistent
    NoArgumentLost
    CallsIntact
PROPERTIES
    RaisesAnswered
CHECK_DEADLOCK FALSE
