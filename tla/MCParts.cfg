SPECIFICATION PartsSpec
CONSTANTS
  fa = fa
  fa2 = fa2
  fb = fb
  fb2 = fb2
  fc = fc
  fd = fd
  NoKey = NoKey
  Streams = {fa, fa2, fb, fb2, fc, fd}
  Key <- KeyOf
  Inner <- InnerOf
  Total <- TotalOf
  FragScenes <- MCFragScenes
  RingSize = 2
  Other = Other
  MaxParts = 2
  FragSlots = 2
  Timeout = 1
  MaxNow = 2
  TsLen = 1
  IdLen = 1
  SigLen = 2
  Blocks = {16, 24, 32}
  PadMargin = 2
  MaxPad = 5
  MaxFrame = 48
  ZMark = 99
  KeyLen = 2
  NickMax = 3
  MaxAccept = 8
  Sources <- MCSources
  NameIds <- MCNameIds
  BufferLens <- MCBufferLens
  Garbage = {"_", "+", "XX", "hfs", "448", "NewHope"}
  Handles = {1, 2}
  Trunk = 9
  LinkMax = 3
  SignKey <- MCSignKey
  SigBytes <- MCSigBytes
  TagLen = 1
  MaxCopies = 4
  Damage = {0, 1, 2, 3, 4, 8, 19}
  SuffixCount = 3
  MaxCuts = 2
  MaxFaults = 1
  MaxMade = 6
  FirstNicks <- MCNicks
  Slots = {o1, o2}
  Zero = Zero
  Privates = {ka, kb}
  Messages = {m1}
  StreamLen = 2
  ReseedCount = 8
  RekeyCount = 2
  Lengths = {0, 1, 3, 7, 8, 13}
  MaxKeys = 10
  Block = 3
  MaxChunk = 7
  MaxMessage = 10
  MaxUses = 2
  StreamBlock = 4
  MaxAd = 3
  MaxData = 5
  MaxChanges = 2
  W = 6
  Keys <- MCMacKeys
  Pads = {0, 268435455}
  MacBlocks <- MCMacBlocks
  MaxBlocks = 3
  Degree = 5
  LowTerms = {0, 2}
  GhashKeys <- MCGhashKeys
  GhashBlocks <- MCGhashBlocks
INVARIANT ReassemblySound
INVARIANT FrameKept
INVARIANT PayloadsKept
INVARIANT IdentityKept
INVARIANT KeysSound
INVARIANT RandSound
INVARIANT DigestOfWhole
INVARIANT MacSound
INVARIANT NamesSound
INVARIANT LinksSound
INVARIANT AeadSound
PROPERTY Starts
CHECK_DEADLOCK FALSE
