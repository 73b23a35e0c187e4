SPECIFICATION Spec
CONSTANTS
  k1 = k1
  k2 = k2
  k3 = k3
  NoFilter = NoFilter
  Spinning = Spinning
  LOG_NUM_MASKS = 2
  BITS_PER_MASK = 7
  MIN_BITS_SET = 2
  MAX_BITS_SET = 3
  ROTATE_BITS = 3
  ByteBits = 2
  BatchSize = 2
  HashBits = 6
  SizeBits = 5
  Sizes = {0, 9, 17}
  Probes = {2, 33}
  HashBatches <- MCHashBatches
  bloom_hash <- MCbloom_hash
  Short = {k3}
  KeyBatches <- MCKeyBatches
INVARIANTS
  MaskBits
  LanesAgree
PROPERTIES
  PromiseKept
CHECK_DEADLOCK FALSE
