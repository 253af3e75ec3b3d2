SPECIFICATION Spec
CONSTANTS
  k1 = k1
  k2 = k2
  r1 = r1
  r2 = r2
  NumWorkers = 2
  NumCells = 3
  Keys = {k1, k2}
  CellsOf <- MCCellsOf
  WorkerOf <- MCWorkerOf
  Partition = "RoundRobin"
  QueueCap = 2
  InitTau = 2
  MinTau = 1
  MaxTau = 2
  MaxPromask = 2
  Adaptive = TRUE
  Readers = {}
  MaxInputs = 3
  MaxFlushes = 2
  MaxReads = 0
  MaxFaults = 0
INVARIANTS
  Conservation
  AppliedIsPrefix
  CounterBelowTau
  SecondFlushIsExact
CHECK_DEADLOCK FALSE
