SPECIFICATION FairNetSpec
CONSTANTS
  N = 2
  MaxSkew = 1
  BootBehind = 0
  BootAhead = 3
  MaxDelay = 1
  MaxReboots = 1
INVARIANT TracedError
PROPERTY EventuallyTraced
CHECK_DEADLOCK FALSE
