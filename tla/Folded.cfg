SPECIFICATION Spec
CONSTANTS
  Sketches = {1, 2}
  k1 = k1
  k2 = k2
  k3 = k3
  Keys = {k1, k2, k3}
  FullCols = 4
  TagRange = 16
  Levels = {0, 1, 2}
  NewLevels <- MCNewLevels
  HeapCap <- MCHeapCap
  Shapes <- MCShapes
  Hash <- MCHash
  Sign <- MCSign
  Deltas = {1}
  MaxInserts <- MCMaxInserts
  MaxMerges = 2
INVARIANTS
  AnswersAsFullWidth
  RebuiltHeapIsTop
  HeapBracketsTruth
