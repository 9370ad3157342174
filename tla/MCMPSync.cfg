\* Four processes, enough calls for the bytes of smp_sync() to wrap around.
SPECIFICATION SyncFairSpec
CONSTANTS
  N = 4
  MaxSyncs = 12
INVARIANT OneToken
PROPERTIES ImplementsBarrier AllSynced
