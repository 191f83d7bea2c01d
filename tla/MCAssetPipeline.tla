---------------------------- MODULE MCAssetPipeline ----------------------------
(***************************************************************************)
(* AssetPipeline on a small instance: all assets in one campaign.          *)
(***************************************************************************)
EXTENDS AssetPipeline

OneCampaign == [a \in Assets |-> 1]

\* The first job has one retry, the others none.
MCMaxAttempts == [j \in Jobs |-> IF j = 1 THEN 2 ELSE 1]
=============================================================================
