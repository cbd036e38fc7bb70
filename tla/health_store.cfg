SPECIFICATION FairSpec
CONSTANTS
  Buckets = {k1}
  Unpausers = {g1}
  AutoPause = TRUE
  MaxFlips = 2
  MaxEdits = 2
  MaxPauses = 1
  MaxTouches = 1
  MaxFaults = 1
CHECK_DEADLOCK FALSE
INVARIANTS TypeOK HealthIsEarned
PROPERTIES StoreFollowsConfig UpBecomesHealthy DeletedLeavesStore RecoveryUnpauses
