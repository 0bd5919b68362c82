SPECIFICATION Spec
CONSTANTS
  Pushes <- MCPushes
  Pinned <- MCPinned
  VersionOf <- MCVersionOf
  Candidates <- MCCandidates
  HandMade <- MCHandMade
  MaxRuns = 3
  MaxDispatches = 2
  MaxMisses = 1
  None = None
INVARIANTS
  StableIsTheQualifiedCandidate
  QualifiedStaysPromotable
  RerunIsNeverRefused
CHECK_DEADLOCK FALSE
