SPECIFICATION Spec
CONSTANTS
  Keys = {1, 2, 3, 4}
  Summaries = {"small", "large"}
  Capacity <- MCCapacity
  Weights = {1, 2}
  MaxCount = 4
  MaxCalls = 6
INVARIANTS
  EstimatesBound
  UpperBoundHolds
  GuaranteedOutranks
  CeilingIsFairShare
CHECK_DEADLOCK FALSE
