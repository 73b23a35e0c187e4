SPECIFICATION Spec
CONSTANTS
  k1 = k1
  k2 = k2
  k3 = k3
  Short = {k3}
  NoFilter = NoFilter
  Spinning = Spinning
  HalfBits = 3
  LaneLog = 1
  LaneCount = 2
  Salt <- MCSalt
  SizeBits = 6
  MaxBlocksLog = 2
  WordBits = 8
  K_HASHES = 4
  Golden = 29
  bloom_hash <- MCbloom_hash
  xxh64 <- MCxxh64
  Sizes = {0, 1, 8, 9, 20, 24, 31, 32, 33, 61, 62}
  Probes = {7, 13, 37}
  KeyBatches <- MCKeyBatches
  HashBatches <- MCHashBatches
INVARIANTS
  DistinctBits
  ImageExact
  AnswersExact
  SizedRight
PROPERTIES
  ClassicPromise
CHECK_DEADLOCK FALSE
