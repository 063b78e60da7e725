SPECIFICATION Spec
CONSTANTS
  Names = {"vcan0", "vcan1"}
  Missing = {"vcan1"}
  Ids = {1}
  GivenIds <- FirstDrawGiven
  Draws <- SomeDraws
  Factor = 3
  MaxInterfaces = 3
  MaxNodes = 2
  MaxFrames = 1
  MaxBusy = 1
INVARIANTS
  TypeOK
  EverySlotServed
  SocketsOwned
  FramesAccounted
CHECK_DEADLOCK FALSE
