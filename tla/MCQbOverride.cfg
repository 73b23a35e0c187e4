SPECIFICATION Spec
CONSTANTS
  HalfBits = 3
  LaneLog = 1
  LaneCount = 2
  Salt <- MCSalt
  SizeBits = 6
  MaxBlocksLog = 2
  Handles = {h1, h2}
  Buffers = {w1}
  Addresses = {x1, x2}
  NoAddress = NoAddress
  NoBuffer = NoBuffer
  NewSizes <- MCNewSizes
  ForeignSizes <- MCLargeForeign
  Inserted <- MCInserted
  Junk <- MCJunk
  BlockBytes = 2
  QB_DESERIALIZE_MAX_BYTES = 32
SYMMETRY Symmetry
INVARIANT
  ShiftInRange
