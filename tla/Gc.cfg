SPECIFICATION HeapSpec
CONSTANTS
    o1 = o1
    o2 = o2
    o3 = o3
    f1 = f1
    f2 = f2
    Objects <- AllObjects
    Finalizable <- AllFinal
    Programs <- AllPrograms
INVARIANTS
    HeapConsistent
PROPERTIES
    CollectionIsExact
    DestructorOnce
CHECK_DEADLOCK FALSE
