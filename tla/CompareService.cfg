SPECIFICATION Spec
CONSTANTS
  SliceIds = {"s1", "s2"}
  Kinds = {"RATIO", "QUANTITY"}
  Compat = {"x", "y"}
  Scale = 2
  Values <- MCValues
  None = None
INVARIANTS
  ResponseModelAcceptsDeltas
  DeltasLeadFromLeftToRight
  FailureIsContained
CHECK_DEADLOCK FALSE
