\* Four processes in two pairs, unidirectional: the trial does not end.
SPECIFICATION FairSpec
CONSTANTS
  NPairs = 2
  Mode = "pingpong"
  Burst = FALSE
  Async = TRUE
  NTrials = 2
  Repeats = {2}
  NPerts = 1
  MaxTests = 1
  TagMod = 4
  SyncSend = FALSE
PROPERTY AllFinish
CHECK_DEADLOCK FALSE
