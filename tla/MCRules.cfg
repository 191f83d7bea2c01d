SPECIFICATION Spec
CONSTANTS
  PageLengths <- MCPageLengths
  ApiSources <- MCApiSources
  PageSources <- MCPageSources
  Limits = {0, 1, 2}
  Campaigns = {"c1", "c2", "c3"}
  Mentions <- MCMentions
  MaxMentions = 2
  Providers <- MCProviders
  Lengths <- MCLengths
INVARIANTS
  
  DiscoveryIsFirstDistinct
  InstructionsRespected
