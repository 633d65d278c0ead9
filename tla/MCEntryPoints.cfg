\* The command line and the playground's module, with every fault.
SPECIFICATION Spec
CONSTANTS
  Worlds <- MCWorlds
  Dashed <- MCDashed
INVARIANTS
  Truthful
  Released
  OutputPreserved
