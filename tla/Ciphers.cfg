SPECIFICATION CiphersSpec
CONSTANTS
  MaxBlocks = 17
  CallSizes = {0, 1, 4, 5, 13, 17}
  RoundNumbers = {10, 12, 14}
  ByteSize = 16
  LaneSize = 16
  LowSize = 32
  HighSize = 2
  HashBlock = 8
  HashCount = 2
  HashPieces = {0, 1, 5, 6, 7, 8, 17}
  HashLength = 18
  HashBranches = 2
  Sm4Calls = {1, 2, 3, 6, 8, 10, 16, 17, 26, 34}
  Sm4Block = 2
  Sm4Rounds = 8
  KeyNames = {"k1", "k2"}
  KeyLens = {16, 20, 24, 32}
  MaxCalls = 4
  CtrStarts <- Counters
  TweakStarts <- TweakSets
INVARIANTS OutputExact DigestRight
PROPERTIES ImplementsMode CurrentKeyUsed ImplementsSm4Mode CallsReturn
CHECK_DEADLOCK FALSE
