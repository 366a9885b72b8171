SPECIFICATION FairSpec
CONSTANTS
  a = a
  b = b
  c = c
  Nobody = Nobody
  Nodes = {a, b, c}
  Neighbours <- Line
  Versions = {1, 2, 3}
  Firmware <- Mixed
  Flashed = {a, c}
  Chunks = 2
  SectorChunks = 2
  MaxRetries = 1
  MaxCrashes = 1
  MaxFaults = 1
INVARIANT UpdateSound
PROPERTY UpdateSteps
PROPERTY FleetUpdates
CHECK_DEADLOCK FALSE
