SPECIFICATION HeapSpec
CONSTANTS
    o1 = o1
    o2 = o2
    o3 = o3
    f1 = f1
    f2 = f2
    Objects <- MixedObjects
    Finalizable <- MixedFinal
    Programs <- MixedPrograms
INVARIANT DestructorFindsItsProperties
CHECK_DEADLOCK FALSE
