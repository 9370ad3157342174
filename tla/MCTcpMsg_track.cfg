SPECIFICATION Spec
CONSTANTS
  NProcs = 3
  Programs <- AllPrograms
  HdrSize = 2
  SockCap = 2
  MaxMsgs = 4
INVARIANT StaysOnTrack
CHECK_DEADLOCK FALSE
