------------------------------ MODULE MCClipFlow ------------------------------
(***************************************************************************)
(* ClipFlow on small instances.                                            *)
(***************************************************************************)
EXTENDS ClipFlow

\* approve_candidate creates render jobs with max_attempts=1, and the qa job
\* takes the budget of its render job.
OneAttempt == [j \in Jobs |-> 1]
=============================================================================
