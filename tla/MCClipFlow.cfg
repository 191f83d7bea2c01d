SPECIFICATION FairSpec
CONSTANTS
  Jobs = {1, 2, 3, 4}
  RenderCap = 2
  RequestCap = 1
  PatchStatuses = {"rejected"}
  PatchVerdicts = {"pass"}
  MaxAttempts <- OneAttempt
  Workers = {w1}
  NoWorker = NoWorker
  NoJob = NoJob
INVARIANTS
  VerdictIsTraceable
  ClipIsConsistent
PROPERTIES
  EveryClipIsJudged
  DecisionsStand
CHECK_DEADLOCK FALSE
