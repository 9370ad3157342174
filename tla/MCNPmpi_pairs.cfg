\* Four processes in two pairs, --bidir --syncSend.
SPECIFICATION FairSpec
CONSTANTS
  NPairs = 2
  Mode = "bidir"
  Burst = FALSE
  Async = TRUE
  NTrials = 2
  Repeats = {2}
  NPerts = 1
  MaxTests = 1
  TagMod = 4
  SyncSend = TRUE
INVARIANTS CollectivesMatch ClockCoversAllPairs
