SPECIFICATION Spec
CONSTANTS
  a = a
  b = b
  c = c
  K = 1
  MaxMapSize = 4
  HeapSize = 2
  PoolCap = 1
  Keys = {a, b, c}
  CellOf <- MCCellOf
  SignOf <- MCSignOf
  Inputs <- MCInputs
  Windows = {2, 1}
  MaxTime = 2
  MaxGap = 1
  MaxLate = 1
  MaxUpdates = 6
  MaxResizes = 1
INVARIANTS
  EachInOneTier
  SketchPoolAccounts
  CandidatesTell
  InsideAnswered
PROPERTIES
  TiersHeavy
