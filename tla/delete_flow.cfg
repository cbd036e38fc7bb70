SPECIFICATION Spec
CONSTANTS
  Backends = {b1, b2}
  MinReplicas = 1
  RecreateMissing = FALSE
  AutoPause = FALSE
  HasSubresources = FALSE
  OwnedIsError = TRUE
  Edits = {"delete", "disable", "pause", "providers", "remove", "write", "lose"}
  MaxEdits = 2
  MaxFaults = 1
CHECK_DEADLOCK FALSE
SYMMETRY Symmetry
PROPERTY DeleteForgetsOnlyDeleted
