SPECIFICATION Spec
CONSTANTS
  K = 4
  Norms = {"L1"}
  Kinds = {"one"}
  Prototype = "one"
  k1 = k1
  k2 = k2
  Keys = {k1}
  Weights = {1}
  Windows = {10}
  InputsOf <- MCInputsOf
  MaxTime = 6
  MaxGap = 2
  MaxLate = 0
  MaxUpdates <- GapMaxUpdates
  MaxReplaced = 0
  MaxResizes <- MCMaxResizes
INVARIANTS
  InsideIsAnswered
