\* A declaration as the whole body of a loop.
CONSTANTS
  Half = 16
  ExitHalf = 4
  Fuel = 30
  Programs <- LoopDeclarationPrograms
  Nodes <- AllNodes
SPECIFICATION FairSpec
INVARIANT AgreesWithNative
CHECK_DEADLOCK FALSE
