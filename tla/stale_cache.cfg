SPECIFICATION Spec
CONSTANTS
  Backends = {b1, b2}
  MinReplicas = 1
  RecreateMissing = TRUE
  AutoPause = TRUE
  HasSubresources = TRUE
  OwnedIsError = FALSE
  Edits = {"delete", "disable", "enable", "label", "unpause", "health"}
  MaxEdits = 2
  MaxFaults = 1
CHECK_DEADLOCK FALSE
SYMMETRY Symmetry
INVARIANT TypeOK
PROPERTIES PauseOnlyWhenComplete CreateNeverClobbers S3ChangesAreAsked RecordsWhatExists
