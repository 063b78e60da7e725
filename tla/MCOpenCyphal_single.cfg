SPECIFICATION Spec
CONSTANTS
  CAN_REDUNDANCY_FACTOR = 1
  TxCapacity = 4
  HeapBlocks = 5
  Sources = {s1}
  s1 = s1
  Ranks <- MCRanks
  MessageRanks <- MCMessageRanks
  ServiceRank = 1
  Lifetimes = {2}
  Unlimited = {0}
  ResponseLifetime = 2
  MaxTransfers = 3
  MaxFrames = 2
  MaxTime = 3
  RxBufferLen = 1
INVARIANTS AtMostOnce FramesInOrder OrderInv SizedHeapNeverOOM
