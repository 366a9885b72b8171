SPECIFICATION Spec
CONSTANTS
  Skew = 2
  MinValid = 4
  Build = 5
  PersistInterval = 2
  MaxMono = 3
  MaxWall = 10
  MaxGen = 2
  MaxBoots = 1
  NvsMayFail = TRUE
INVARIANT ClockBounded
PROPERTY Implements
CHECK_DEADLOCK FALSE
