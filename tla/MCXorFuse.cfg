SPECIFICATION Spec
CONSTANTS
  k1 = k1
  k2 = k2
  k3 = k3
  Unbuilt = Unbuilt
  Crashed = Crashed
  Hash = {0, 1, 2, 3}
  bloom_hash <- MChash
  KeyBatches <- MCKeyBatches
  HashBatches <- MCHashBatches
  Reserve = 2
  MinCapacity = 1
  MaxStaged = 6
  Fails = {"new", "reserve", "realloc", "allocate", "populate"}
INVARIANTS
  TypeOK
  ArraysOwned
PROPERTIES
  PromiseKept
CHECK_DEADLOCK FALSE
