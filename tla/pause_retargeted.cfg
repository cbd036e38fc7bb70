SPECIFICATION Spec
CONSTANTS
  Backends = {b1, b2}
  MinReplicas = 1
  RecreateMissing = TRUE
  AutoPause = TRUE
  HasSubresources = FALSE
  OwnedIsError = FALSE
  Edits = {"providers"}
  MaxEdits = 1
  MaxFaults = 0
CHECK_DEADLOCK FALSE
PROPERTY PausedIsComplete
