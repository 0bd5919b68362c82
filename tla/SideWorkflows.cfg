SPECIFICATION SideSpec
CONSTANTS
  c1 = c1
  c2 = c2
  w1 = w1
  Workers = {w1}
  Free = Free
  Abandoned = Abandoned
  Callers = {c1, c2}
  NSources = 2
  MaxSources = 2
  RequestTimeout = 1
  TotalDeadline = 2
  SideTicks = 2
  Value <- MCValue
  Manifests <- MCManifests
  Candidates <- MCCandidates
  FailureCodes <- MCFailureCodes
  Spent <- MCSpent
  Populations <- MCPopulations
  NoCandidate = NoCandidate
  NoEntry = NoEntry
SYMMETRY Symmetry
INVARIANTS
  TypeOK
  CacheIsExact
  AvailableIsExact
  ThreadsLeftBehindTookTime
  KnownStaysAvailable
  OnlyFetchingTakesTime
