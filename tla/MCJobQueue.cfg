SPECIFICATION Spec
CONSTANTS
  Jobs = {1, 2}
  Workers = {w1, w2}
  NoWorker = NoWorker
  MaxAttempts <- MCMaxAttempts
INVARIANTS
  RetryBudget
  OwnerMatchesStatus
  FollowUpOnlyIfCompleted
