SPECIFICATION Spec
CONSTANTS
  HashBits = 4
  ByteBits = 1
  Keys <- MCKeys
  M = 5
  Final = 7
  Shift = 1
  FinalShift = 3
  SeedA = 9
  SeedB = 6
  Prime <- MCPrime
  Rotate <- MCRotate
  Avalanche <- MCAvalanche
INVARIANTS
  ZeroHalfSpreads
PROPERTIES
  WordsTell
  BytesTell
