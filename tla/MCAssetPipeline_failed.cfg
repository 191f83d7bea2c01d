SPECIFICATION Spec
CONSTANTS
  Campaigns = {1}
  Assets = {1, 2}
  CampaignOf <- OneCampaign
  Refused = {}
  Limit = 1
  Jobs = {1, 2, 3, 4}
  MaxAttempts <- MCMaxAttempts
  Workers = {w1}
  NoWorker = NoWorker
  NoAsset = NoAsset
INVARIANTS
  FailedJobFailsAsset
