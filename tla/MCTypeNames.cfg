\* The resolver stops when check() has resolved everything: that is no deadlock.
SPECIFICATION FairSpec
CONSTANT Programs <- MCPrograms
INVARIANT Diagnosed
INVARIANT Settled
PROPERTY Ends
CHECK_DEADLOCK FALSE
