SPECIFICATION FairSpec
CONSTANTS
  CAN_REDUNDANCY_FACTOR = 2
  TxCapacity = 2
  HeapBlocks = 3
  Sources = {s1}
  s1 = s1
  Ranks = {1, 2}
  MessageRanks = {2}
  ServiceRank = 1
  Lifetimes = {1}
  Unlimited = {}
  ResponseLifetime = 1
  MaxTransfers = 1
  MaxFrames = 1
  MaxTime = 2
  RxBufferLen = 1
PROPERTIES EveryInterfaceDrains
