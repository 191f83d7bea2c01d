----------------------------- MODULE MCJobService -----------------------------
(***************************************************************************)
(* JobService on small instances: the constants the configurations share.  *)
(***************************************************************************)
EXTENDS JobService, TLC

\* Priorities within the range the API accepts, so that a job created later
\* overtakes the first one.
MCPriority == [j \in Jobs |-> IF j = 2 THEN 9 ELSE 5]

\* The first job has one retry, the others none.
MCMaxAttempts == [j \in Jobs |-> IF j = 1 THEN 2 ELSE 1]

\* _backoff_seconds: 30 * 2 ** max(0, attempts - 1), one tick for 30 seconds.
MCBackoff == [n \in 1 .. AttemptCap |-> 2 ^ (n - 1)]

\* Workers are interchangeable, and so are slots (safety runs only).
MCSymmetry == Permutations(Workers) \cup Permutations(Slots)
=============================================================================
