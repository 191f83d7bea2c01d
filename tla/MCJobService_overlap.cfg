SPECIFICATION Spec
CONSTANTS
  Jobs = {1}
  Workers = {w1, w2}
  Slots = {r1, r2}
  NoWorker = NoWorker
  NoLease = NoLease
  NoJob = NoJob
  Priority <- MCPriority
  MaxAttempts <- MCMaxAttempts
  Backoff <- MCBackoff
  LeaseTicks = 1
  AttemptCap = 3
PROPERTIES
  CompletedIsFinal
