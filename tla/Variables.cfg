SPECIFICATION Spec
CONSTANTS
    v1 = v1
    v2 = v2
    v3 = v3
    v4 = v4
    n1 = n1
    n2 = n2
    n3 = n3
    c1 = c1
    c2 = c2
    NULL = NULL
    Freed = Freed
    Undefined = Undefined
    Nodes <- FourNodes
    Names <- ThreeNames
    Values <- TwoValues
    Operands <- NamesAndValues
    LateOperands <- TwoValues
SYMMETRY Alike
VIEW ListsOnly
INVARIANTS
    Consistent
    NoFreedVariableRead
PROPERTIES
    ImplementsScopes
CHECK_DEADLOCK FALSE
