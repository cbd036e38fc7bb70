SPECIFICATION FairSpec
CONSTANTS
  Buckets = {k1}
  Unpausers = {g1, g2}
  AutoPause = TRUE
  MaxFlips = 2
  MaxEdits = 0
  MaxPauses = 1
  MaxTouches = 1
  MaxFaults = 0
CHECK_DEADLOCK FALSE
PROPERTIES ConflictIsRetried
