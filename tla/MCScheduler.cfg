SPECIFICATION FairSpec
CONSTANTS
  NumTasks = 3
  Kind <- MCKind
  Interval <- MCInterval
  MEGA = 4
  Garbage = {0, 3}
  IdMod = 4
  WireMod = 2
  Leaps <- MCLeaps
  MaxLag = 2
  MaxLeaps = 1
  MaxTime = 11
INVARIANTS TypeOK TimingInv StampOfLastRequest
PROPERTIES Period OneLivePublication SuccessiveIds CheckServesAll SteadyStepsAreRequests DueTaskRuns
