\* Field initialisers out of declaration order.
CONSTANTS
  Half = 16
  ExitHalf = 4
  Fuel = 30
  Programs <- FieldOrderPrograms
  Nodes <- AllNodes
SPECIFICATION FairSpec
INVARIANT AgreesWithNative
CHECK_DEADLOCK FALSE
