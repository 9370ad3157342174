SPECIFICATION FairSpec
CONSTANTS
  NProcs = 6
  Programs <- AllPrograms
INVARIANTS Right Bypass Drained
PROPERTY AllReturn
CHECK_DEADLOCK FALSE
