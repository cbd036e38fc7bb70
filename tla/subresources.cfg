SPECIFICATION FairSpec
CONSTANTS
  Backends = {b1, b2}
  Clients <- AllClients
  Configs = {A}
  MaxEdits = 2
  MaxFlips = 2
  MaxFaults = 1
CHECK_DEADLOCK FALSE
INVARIANT TypeOK
PROPERTIES PauseOnlyWhenApplied UpToDateIsApplied EventuallyApplied
