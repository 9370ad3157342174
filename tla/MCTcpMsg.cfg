SPECIFICATION FairSpec
CONSTANTS
  NProcs = 3
  Programs <- AllPrograms
  HdrSize = 2
  SockCap = 2
  MaxMsgs = 4
INVARIANTS TypeOK Whole InOrder SendBufferGivenBack NoEntryLost NoSignalMissed
PROPERTY AllReturn
CHECK_DEADLOCK FALSE
