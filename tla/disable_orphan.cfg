SPECIFICATION FairSpec
CONSTANTS
  Backends = {b1, b2}
  MinReplicas = 1
  RecreateMissing = TRUE
  AutoPause = FALSE
  HasSubresources = TRUE
  OwnedIsError = FALSE
  Edits = {"disable"}
  MaxEdits = 1
  MaxFaults = 0
CHECK_DEADLOCK FALSE
PROPERTY DisabledRemovesAll
