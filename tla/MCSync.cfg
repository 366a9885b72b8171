SPECIFICATION FairSpec
CONSTANTS
  na = na
  nb = nb
  ph = ph
  qh = qh
  x = x
  y = y
  Free = Free
  NSlots = 3
  Quota <- MCQuota
  Packets <- MCPackets
  Digest <- MCDigest
  GcsP = 7
  MaxBytes = 400
  TableSize = 2
  RateMax = 1
  RateWindow = 1
  Interval = 2
  MaxReplay = 1
  MaxStep = 2
  Scenes <- AllScenes
INVARIANT SyncSound
PROPERTY SyncSteps
PROPERTY Converges
CHECK_DEADLOCK FALSE
