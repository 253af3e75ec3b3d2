SPECIFICATION Spec
CONSTANTS
  WindowSize = 2
  MaxWindows = 2
  PoolCap = 1
  TimeRange = 64
  MaxTime = 7
  MaxInputs = 2
  MaxFlushes = 0
INVARIANTS
  EmptyWindowsSkipped
