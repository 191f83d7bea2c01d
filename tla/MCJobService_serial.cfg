SPECIFICATION FairSpec
CONSTANTS
  Jobs = {1, 2}
  Workers = {w1, w2}
  Slots = {r1}
  NoWorker = NoWorker
  NoLease = NoLease
  NoJob = NoJob
  Priority <- MCPriority
  MaxAttempts <- MCMaxAttempts
  Backoff <- MCBackoff
  LeaseTicks = 1
  AttemptCap = 2
INVARIANTS
  FollowUpOnce
PROPERTIES
  ImplementsQueue
  LeaseProtectsOwner
  LapsedIsRecovered
  TopJobIsServed
