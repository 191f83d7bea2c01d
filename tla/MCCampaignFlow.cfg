CONSTANTS
  Cards = {1, 2, 3}
  Listings <- MCListings
  Shortlists <- MCShortlists
  Unchanged = {1, 2}
  base = base
  film = film
  raw = raw
  view = view
  folder = folder
  Base <- MCBase
  CardLinks <- MCCardLinks
  DriveFiles <- MCDriveFiles
  Outcomes <- MCOutcomes
  Links = {film, raw, view, folder}
  Folders = {folder}
  Canon <- MCCanon
  FileOf <- MCFileOf
  Refused = {3}
  Rows = {1, 2}
  Requests = {r1}
  Budget = 2
  NoRow = NoRow
SPECIFICATION FairSpec
INVARIANTS OneRowPerUrl NoDuplicateAssets CountNeverOverstates BriefedHasRules
PROPERTIES NeverRediscovered EveryCardIsStored EveryCampaignSettles
