SPECIFICATION FairSpec
CONSTANTS
  HalfBits = 3
  LaneLog = 1
  LaneCount = 2
  Salt <- MCSalt
  SizeBits = 5
  MaxBlocksLog = 2
  Threads = {t1, t2}
  NoThread = NoThread
  NBits = 7
  hash16 <- MCHash16
  fasthash64_var <- MCFastHash
  Unroll = 2
  Calls <- MCFewCalls
  a = a
  b = b
  c = c
  s = s
PROPERTIES
  PromiseKept
  ReadersReturn
