SPECIFICATION FairSpec
CONSTANTS
  Tasks = {"tA", "tB"}
  Deliveries = {"d1", "d2", "d3"}
  Populations <- MCPopulations
  Items <- MCItems
  MaxDeliveries = 2
  MaxInputs = 3
  InitialTraces <- MCInitialTraces
  MaxChanges = 2
  None = None
INVARIANTS
  InputsAreAsOf
  RetentionIsAccountedFor
  CompleteMeansEveryTaskCounts
  TerminalReadingIsUnanimous
PROPERTY
  SideEnds
CHECK_DEADLOCK FALSE
