SPECIFICATION FairSpec
CONSTANTS
  Assets = {1, 2, 3}
  Backlog = {1, 2, 3}
  Ticks = {t1}
  Others = {}
  Limit = 1
  NoAsset = NoAsset
PROPERTIES
  BacklogIsDrained
CHECK_DEADLOCK FALSE
