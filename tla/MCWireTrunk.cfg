SPECIFICATION WireSpec
CONSTANTS
  TsLen = 1
  IdLen = 1
  SigLen = 2
  Blocks = {16, 24, 32}
  PadMargin = 2
  MaxPad = 5
  MaxFrame = 48
  ZMark = 99
  KeyLen = 2
  NickMax = 3
  MaxAccept = 8
  Sources <- MCSources
  SignKey <- MCSignKey
  SigBytes <- MCSigBytes
  TagLen = 1
  MaxCopies = 4
  Damage = {0, 1, 2, 3, 4, 8, 19}
INVARIANT TrunkKeepsFrames
CHECK_DEADLOCK FALSE
