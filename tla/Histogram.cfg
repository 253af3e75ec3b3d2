SPECIFICATION Spec
CONSTANTS
  K = 1
  Norms = {"L1", "L2"}
  Kinds = {"one", "two"}
  Prototype = "one"
  k1 = k1
  k2 = k2
  Keys = {k1, k2}
  Weights = {1, 4}
  Windows = {2, 20}
  InputsOf <- MCInputsOf
  MaxTime = 14
  MaxGap = 2
  MaxLate = 1
  MaxUpdates <- MCMaxUpdates
  MaxReplaced = 1
  MaxResizes <- MCMaxResizes
INVARIANTS
  EachInOneBucket
  RunsBounded
  PairsHeavy
  NothingStale
  AnswersItsSpan
