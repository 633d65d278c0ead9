\* The interpreter beside the native binary on small type-checked programs.
CONSTANTS
  Half = 16
  ExitHalf = 4
  Fuel = 30
  Programs <- MCPrograms
  Nodes <- MCNodes
SPECIFICATION FairSpec
INVARIANTS
  TypeOK
  ScopesBalanced
  HeldBindingsLive
  LexicalLookup
  OnlyRuntimeFaults
  StoredTypes
  FailureReported
  AgreesWithNative
PROPERTIES
  SilentAfterFault
  Ends
CHECK_DEADLOCK FALSE
