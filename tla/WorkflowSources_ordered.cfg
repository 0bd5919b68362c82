SPECIFICATION FairSpec
CONSTANTS
  c1 = c1
  Callers = {c1}
  NSources = 3
  MaxSources = 3
  RequestTimeout = 2
  TotalDeadline = 4
  Value <- MCValue
  Manifests <- MCManifests
  Candidates <- AllCandidates
  FailureCodes <- MCFailureCodes
  NoCandidate = NoCandidate
  NoEntry = NoEntry
INVARIANTS
  NotFoundIsDefinite
  AttemptsTellTheWholeStory
  AnswerFitsReceipt
PROPERTIES
  RequestsWithinDeadline
  ResolutionEnds
