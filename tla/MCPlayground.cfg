\* The playground with impatient users, faulty workers and timeouts.
CONSTANTS
  s1 = s1
  s2 = s2
  p1 = p1
  p2 = p2
  none = none
  nothing = nothing
  Sources <- MCSources
  Paths <- MCPaths
  NoPath <- none
  NoSource <- nothing
  MaxClicks = 2
  MaxFaults = 1
SPECIFICATION FairSpec
INVARIANTS
  TypeOK
  TimersArePending
  OneRequest
  ReadyMeansLoaded
  OneResultShown
PROPERTIES
  NoStrayReset
  Released
  Implements
