SPECIFICATION Spec
CONSTANTS
  Keys = {k1, k2}
  NoKey = NoKey
  NSectors = 2
  SectorSize = 6
  MaxLen = 2
  MaxRecords = 1
  Expiries = {0, 1}
  Times = {0, 2}
  MaxPuts = 3
  MaxCrashes = 2
  MaxFaults = 1
INVARIANT IndexSound
INVARIANT RecordsKept
INVARIANT RingKept
PROPERTY CallsEnd
