SPECIFICATION FairSpec
CONSTANTS
  Nodes = {1, 2}
  Origins = {1, 2, 3}
  NoFrame = NoFrame
  TxTimeoutMs = 2000
  GovBurst = 2500
  Duty = 25
  ThrottleSlots = 2
  MinInterval = 8000
  SF = 10
  QueueDepth = 2
  CadRetries = 1
  ArqTries = 2
  AckOutbox = 1
  RxSlots = 2
  Ticks = {4000}
  Scenes <- AllScenes
INVARIANT TrunkDelivers
INVARIANT TrunkLimits
PROPERTY DrainsUnlessCut
CHECK_DEADLOCK FALSE
