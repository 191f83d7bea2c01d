SPECIFICATION Spec
CONSTANTS
  Candidates = {c1}
  Requests = {r1, r2, r3}
  Threads = 2
  PatchStatuses = {"rendered"}
  Jobs = {1, 2, 3}
  MaxAttempts <- OneAttempt
  Workers = {w1}
  NoWorker = NoWorker
  NoCandidate = NoCandidate
SYMMETRY RequestSymmetry
INVARIANTS
  ApprovedIsRendered
  ReapproveIsIdempotent
CHECK_DEADLOCK FALSE
