CONSTANTS
  MaxMade = 3
  MaxRead = 2
  MaxData = 2
  MaxNonce = 3
SPECIFICATION Spec
INVARIANT HandshakeSound
INVARIANT NothingTwice
INVARIANT HandshakeCompletes
CHECK_DEADLOCK FALSE
