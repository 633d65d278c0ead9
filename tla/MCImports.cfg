\* Import merging over every small import graph.
CONSTANTS
  r = r
  a = a
  b = b
  std = std
  missing = missing
  Modules <- MCModules
  Root <- r
  Std <- std
  Missing <- missing
  Inputs <- MCInputs
SPECIFICATION FairSpec
INVARIANTS
  TypeOK
  MergedOnce
  NoReentry
  FailureIsReal
PROPERTIES
  Terminates
  Implements
CHECK_DEADLOCK FALSE
