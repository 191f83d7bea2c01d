SPECIFICATION FairSpec
CONSTANTS
  Assets = {1, 2}
  Backlog = {2}
  Ticks = {t1}
  Others = {o1}
  Limit = 1
  NoAsset = NoAsset
PROPERTIES
  SelectedOnce
  MetadataIsKept
  EveryAssetIsSelected
CHECK_DEADLOCK FALSE
