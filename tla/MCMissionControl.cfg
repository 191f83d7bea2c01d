SPECIFICATION FairViewSpec
CONSTANTS
  Campaigns = {1, 2}
  Assets = {1, 2, 3}
  CampaignOf <- TwoCampaigns
  Refused <- FirstRefused
  Limit = 2
  Jobs = {1, 2, 3, 4}
  MaxAttempts <- OneRetry
  Workers = {w1}
  NoWorker = NoWorker
  NoAsset = NoAsset
  NoCampaign = NoCampaign
INVARIANTS
  OneJobOfEachKind
  TranscribesMediaOnly
  HandledIsComplete
  DetailIsCausal
  PipelineIsCausal
PROPERTIES
  EveryAssetIsTaken
  MovesForward
  ImplementsAssetLife
