SPECIFICATION FairSpec
CONSTANTS
  MaxPages = 3
  PageSize = 1
  NoCursor = NoCursor
  Identities = {"x", "y", "z"}
  Contents <- MCContents
  MaxVersions = 2
  MaxFlips = 1
  Unread = Unread
INVARIANT
  TraceStateHeldThroughout
PROPERTIES
  ObservationReadsSnapshots
  ObservationEnds
CHECK_DEADLOCK FALSE
