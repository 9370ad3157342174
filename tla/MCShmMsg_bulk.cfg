\* Messages that do not fit in the pool together.
SPECIFICATION FairSpec
CONSTANTS
  Proc <- Procs
  Programs <- BulkPrograms
  PoolSize = 10
  FifoCap = 4
  MSG_Q_SIZE = 3
INVARIANTS PoolSafe
CHECK_DEADLOCK FALSE
