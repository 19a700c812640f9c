SPECIFICATION MachineSpec
CONSTANTS
  MaxLen = 2
  MaxStr = 4
  MaxFloat = 20
  One = 4
  Epsilon = 2
  Spelling <- SpellingOf
  Programs <- SmallPrograms
VIEW DataView
INVARIANTS
    Consistent
    CarefulProgramsSafe
    ScalarsAgree
PROPERTIES
    ImplementsDataTypes
    ImplementsValueStack
    ArithmeticAgrees
CHECK_DEADLOCK FALSE
