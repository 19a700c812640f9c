SPECIFICATION Spec
CONSTANTS
    Settings <- AllSettings
    BlockCount = 1
    MaxCores = 3
    Large = 32
    Width = 64
    Pages = 2
    MaxLarge <- OneLargeBlock
    NULL = NULL
INVARIANTS
    Consistent
PROPERTIES
    CollectionHelps
    ImplementsAllocator
CHECK_DEADLOCK FALSE
