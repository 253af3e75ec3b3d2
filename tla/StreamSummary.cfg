SPECIFICATION Spec
CONSTANTS
  Keys = {1, 2, 3, 4}
  Summaries = {"small", "large"}
  Capacity <- MCCapacity
  DigestOf <- MCDigestOf
  Weights = {1, 3}
  MaxCount = 4
  MaxCalls = 4
INVARIANTS
  ArenasSound
  IndexAgrees
  WeightIsRepetition
  ReloadAccepts
PROPERTIES
  KeepsPromise
CHECK_DEADLOCK FALSE
