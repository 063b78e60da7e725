SPECIFICATION Spec
CONSTANTS
  Types <- AllTypes
  Patterns <- SomePatterns
  Counts = {"empty", "one", "full", "over"}
  Foreign = {1, 2, 255}
  Padding = {0, 5}
  MaxFull = 570
INVARIANTS
  TypeOK
  RoundTrip
  ShortMeansZeros
  FitsBuffer
  VersionsAgree
  Relayable
  EmptyIsAnObject
