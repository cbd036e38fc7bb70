SPECIFICATION FairSpec
CONSTANTS
  Backends = {b1, b2, b3}
  NoBackend = NoBackend
CHECK_DEADLOCK FALSE
INVARIANTS TypeOK ErrChanNeverFull NoLostSuccess FailureIsReported NobodyStranded
PROPERTIES GoroutinesEnd ImplementsOutcome
