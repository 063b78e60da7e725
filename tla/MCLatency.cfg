SPECIFICATION Spec
CONSTANTS
  CAN_REDUNDANCY_FACTOR = 2
  TidMod = 3
  TidTimeout = 3
  Spacing = 2
  Garbage = {9}
  MaxDelay = 2
  MaxLag = 1
  MaxTime = 7
INVARIANTS TypeOK MeasuredAgainstOwnRequest
PROPERTIES RequestsInOrder MeasurementsInOrder GapsAreBridged ImplementsExchange
