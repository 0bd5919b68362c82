SPECIFICATION RoleSpec
CONSTANTS
  Deliveries = {"d1", "d2", "d3"}
  Tasks = {"t1", "t2", "t3", "t4"}
  Memberships <- MCMemberships
  Manifests <- MCManifests
  Facts <- MCFacts
  Nodes <- MCNodes
  MinSample = 2
  MaxFacts = 4
  MaxNodes = 2
  MaxEvidence = 6
  None = None
INVARIANTS
  EveryResultFits
  TerminalDeliveriesAgree
  CallsAreAccountedFor
  OutcomeSharesAddUp
  CleanMeansNoFix
  TemplateCostWithinTotal
PROPERTIES
  ProvisionalFactsChangeNothing
  EvidenceNeverWithdraws
  RepairsAreNotForgotten
CHECK_DEADLOCK FALSE
