SPECIFICATION Spec
CONSTANTS
  Groups <- MCGroups
  Headers <- MCHeaders
  TokenLife = 3
  Margin = 0
  DefaultReset = 1
  DefaultRetry = 1
  StartClock = 3
  MaxClock = 5
  Configured <- MCSymbols
  Candidates <- MCCandidates
  Listed <- MCListed
  Target = 3
  PageSize = 2
  MaxPages = 3
  MaxAge = 1
  DayLength = 1
  Configs <- MCConfigs
  MinCompleted = 3
INVARIANTS MarketTypeOK BarsComplete PausesObeyed
PROPERTY IterationEnds
