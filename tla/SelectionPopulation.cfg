SPECIFICATION FairSpec
CONSTANTS
  MaxPages = 3
  PageSize = 1
  NoCursor = NoCursor
  Tasks <- MCTasks
  Deliveries = {"d1", "d2", "d3"}
  Digests = {1, 2, 3}
  Accepted = {"a", "b"}
  Contents <- MCContents
  MaxVersions = 2
  MaxDeliveries = 2
  NoReading = NoReading
INVARIANTS
  BoundsAreExact
  ManifestsMatchMemberships
PROPERTIES
  PopulationReadsSnapshots
  ResolutionEnds
CHECK_DEADLOCK FALSE
