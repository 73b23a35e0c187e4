SPECIFICATION FairSpec
CONSTANTS
  k1 = k1
  k2 = k2
  k3 = k3
  k4 = k4
  NoKey = NoKey
  Sentinel = Sentinel
  HashBits = 6
  FieldBits = 1
  CountBits = 3
  FingerprintBits = 1
  Hashes <- MCHashes
  Inputs <- MCInputs
  Lengths = {1, 2, 4}
  Capacities = {0, 2, 4, 6}
  XOR_MAX_ITERATIONS = 2
  CountModulus = 3
INVARIANTS
  TypeOK
  KeysReported
  StackSound
  RoundClean
  QueueInArray
  KeysPreserved
  SameCells
PROPERTIES
  PopulateEnds
CHECK_DEADLOCK FALSE
