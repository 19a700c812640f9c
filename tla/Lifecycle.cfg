SPECIFICATION Spec
CONSTANTS
    Programs <- AllPrograms
    Libraries = {l1}
    Instances = {i1, i2}
    Raws = {r1, r2}
    MaxMethods = 2
    l1 = l1
    i1 = i1
    i2 = i2
    r1 = r1
    r2 = r2
    Blank = "blank"
    NoName = "noname"
    NULL = NULL
INVARIANTS
    Consistent
    LoadedInOrder
    PayloadsReleased
    EndsClean
PROPERTIES
    Ends
CHECK_DEADLOCK FALSE
