SPECIFICATION Spec
CONSTANTS
  Keys = {1}
  Fillers = {0}
  Block = 16
  Sector = 8
  QueueCap = 2
  MaxWrites = 2
  MaxBatches = 1
  MaxCrashes = 1
  MaxSwaps = 0
INVARIANT RestartShowsNewest
CHECK_DEADLOCK FALSE
