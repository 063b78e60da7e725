SPECIFICATION Spec
CONSTANTS
  Names = {"vcan0", "vcan1", "vcan2"}
  Missing = {"vcan1"}
  Ids = {1}
  GivenIds <- NoneGiven
  Draws <- SomeDraws
  Factor = 1
  MaxInterfaces = 3
  MaxNodes = 3
  MaxBusy = 1
  MaxFrames = 0
INVARIANTS
  RandomIdsAreNew
CHECK_DEADLOCK FALSE
