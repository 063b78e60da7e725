SPECIFICATION Spec
CONSTANTS
  Arrays <- SomeArrays
  Addresses <- SomeAddresses
  MaxRuns = 3
INVARIANTS
  DataIsSent
CHECK_DEADLOCK FALSE
