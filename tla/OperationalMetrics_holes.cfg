SPECIFICATION CallsSpec
CONSTANTS
  Nodes <- MCNodes
  MaxNodes = 3
  None = None
INVARIANT
  UsageAvailabilityFits
CHECK_DEADLOCK FALSE
