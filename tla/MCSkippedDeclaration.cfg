\* A declaration in a branch that is not taken.
CONSTANTS
  Half = 16
  ExitHalf = 4
  Fuel = 30
  Programs <- SkippedDeclarationPrograms
  Nodes <- AllNodes
SPECIFICATION FairSpec
INVARIANT OnlyRuntimeFaults
CHECK_DEADLOCK FALSE
