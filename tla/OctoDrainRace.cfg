SPECIFICATION Spec
CONSTANTS
  k1 = k1
  k2 = k2
  r1 = r1
  r2 = r2
  NumWorkers = 1
  NumCells = 3
  Keys = {k1, k2}
  CellsOf <- MCCellsOf
  WorkerOf <- MCWorkerOf
  Partition = "HashByKey"
  QueueCap = 1
  InitTau = 2
  MinTau = 1
  MaxTau = 2
  MaxPromask = 2
  Adaptive = FALSE
  Readers = {}
  MaxInputs = 1
  MaxFlushes = 1
  MaxReads = 0
  MaxFaults = 0
INVARIANTS
  FlushAppliesEverything
CHECK_DEADLOCK FALSE
