SPECIFICATION Spec
CONSTANTS
  Keys = {1, 2}
  PageSize = 1
  Contents <- TwoPages
  MaxPuts = 1
  MaxFaults = 1
  Requests = {r1, r2}
  r1 = r1
  r2 = r2
  About <- AboutLifecycles
  MaxEdits = 2
  MaxRestarts = 1
CHECK_DEADLOCK FALSE
INVARIANTS TypeOK NilMeansGone CalmDeleteSucceeds RemovalUnderWay BackendLeavesNoBucket
PROPERTIES CleanupEnds
