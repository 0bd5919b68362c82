SPECIFICATION SideSpec
CONSTANTS
  c1 = c1
  c2 = c2
  w1 = w1
  Workers = {w1}
  Free = Free
  Abandoned = Abandoned
  Callers = {c1}
  NSources = 3
  MaxSources = 8
  RequestTimeout = 1
  TotalDeadline = 3
  SideTicks = 12
  Value <- ManyValue
  Manifests <- ManyManifests
  Candidates <- ManyCandidates
  FailureCodes <- MCFailureCodes
  Spent <- NoSpent
  Populations <- ManyPopulations
  NoCandidate = NoCandidate
  NoEntry = NoEntry
INVARIANT EnrichmentStaysDiagnostic
