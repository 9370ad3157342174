\* Receives in the order of the sends and not; the job may stop.
SPECIFICATION FairSpec
CONSTANTS
  Proc <- Procs
  Programs <- AllPrograms
  PoolSize = 10
  FifoCap = 4
  MSG_Q_SIZE = 3
INVARIANTS TypeOK ListInPool PoolSafe InOrder NoLeak
PROPERTY AllReturn
CHECK_DEADLOCK FALSE
