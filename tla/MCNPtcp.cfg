\* Two processes, --bidir, with and without --reset; a connection holds one message.
SPECIFICATION FairSpec
CONSTANTS
  NPairs = 1
  Mode = "bidir"
  Burst = FALSE
  Async = FALSE
  NTrials = 2
  Repeats = {1, 2}
  NPerts = 1
  MaxTests = 2
  TagMod = 4
  MsgSize = 2
  SockCap = 3
  Patience = 2
INVARIANTS Integrity NothingLost
PROPERTY FinishOrGiveUp
CHECK_DEADLOCK FALSE
