\* Three jobs of two processes: the default, --stream and --bidir --burst.
SPECIFICATION SpecOfModes
CONSTANTS
  NPairs = 1
  Mode = "pingpong"
  Burst = FALSE
  Async = TRUE
  NTrials = 2
  Repeats = {1, 2, 3, 4}
  NPerts = 2
  MaxTests = 2
  TagMod = 5
  SyncSend = FALSE
INVARIANTS TypeOK Integrity TrialsDoNotOverlap TagsAgreeAtSync SendBufferStable QuiescentAtFree
INVARIANT EveryRequestLive
PROPERTY AllFinish
