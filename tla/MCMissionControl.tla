--------------------------- MODULE MCMissionControl ---------------------------
(***************************************************************************)
(* MissionControl, and the pipeline under it, on a small instance.         *)
(***************************************************************************)
EXTENDS MissionControl

\* The first asset in a campaign of its own, the others together.
TwoCampaigns == <<1, 2, 2>>

\* The first asset is a shared folder the download constraint refuses.
FirstRefused == {1}

\* One job has a retry, the others none.
OneRetry == [j \in Jobs |-> IF j = 1 THEN 2 ELSE 1]
=============================================================================
