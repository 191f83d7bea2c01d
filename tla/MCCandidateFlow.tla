---------------------------- MODULE MCCandidateFlow ----------------------------
(***************************************************************************)
(* CandidateFlow on small instances.                                       *)
(***************************************************************************)
EXTENDS CandidateFlow, TLC

\* approve_candidate creates render jobs with max_attempts=1.
OneAttempt == [j \in Jobs |-> 1]

RequestSymmetry == Permutations(Requests)
=============================================================================
