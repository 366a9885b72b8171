CONSTANTS
  Bitles = {1, 2}
  Phones = {3}
  Conns = {"up", "down", "app"}
  Central <- Dials
  Peripheral <- Answers
  Scenes <- AllScenes
  MaxConnections = 4
  CentralMaxLinks = 1
  CentralReserve = 1
  LinkMax = 4
  DenySlots = 1
  QueueDepth = 3
  MaxSessions = 2
  MaxKeys = 12
SPECIFICATION FairSpec
INVARIANT SessionsSound
PROPERTY VerifiedStays
PROPERTY SessionsServed
CHECK_DEADLOCK FALSE
