------------------------------ MODULE MCJobQueue ------------------------------
(***************************************************************************)
(* JobQueue on a small instance: one job with a retry and one without.     *)
(***************************************************************************)
EXTENDS JobQueue

MCMaxAttempts == [j \in Jobs |-> IF j = 1 THEN 2 ELSE 1]
=============================================================================
