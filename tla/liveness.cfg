SPECIFICATION FairSpec
CONSTANTS
  Backends = {b1, b2}
  MinReplicas = 1
  RecreateMissing = TRUE
  AutoPause = FALSE
  HasSubresources = FALSE
  OwnedIsError = FALSE
  Edits = {"delete", "disable", "write"}
  MaxEdits = 2
  MaxFaults = 1
CHECK_DEADLOCK FALSE
PROPERTIES EventuallyAvailable EventuallyGone EventuallyCleared
