SPECIFICATION FairSpec
CONSTANTS
  Backends = {b1, b2}
  Clients = {"lifecycle", "acl", "objectlock"}
  LockEnabled = FALSE
  Nil = Nil
  Order <- ClientOrder
  Specs <- WellFormed
  TagKeys = {1, 2}
  Newers = {0, 1}
  MaxEdits = 1
  MaxFlips = 1
  MaxFaults = 1
CHECK_DEADLOCK FALSE
INVARIANTS ClientTypeOK UpdatedLeavesNobody LoopIsServed ComparisonIsRight
PROPERTIES ImplementsAnswer WritesDoWhatIsAsked WritingEnds EventuallyDoneAsAsked
