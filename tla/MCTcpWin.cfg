SPECIFICATION FairSpec
CONSTANTS
  NProcs = 3
  Programs <- SyncPrograms
INVARIANTS Flushed Counted Answered
PROPERTIES ImplementsLocks AllReturn
CHECK_DEADLOCK FALSE
