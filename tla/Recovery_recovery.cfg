SPECIFICATION Spec
CONSTANTS
  Keys = {1, 2}
  Fillers = {0, 5}
  Block = 16
  Sector = 8
  QueueCap = 2
  MaxWrites = 3
  MaxBatches = 2
  MaxCrashes = 2
  MaxSwaps = 1
INVARIANTS TypeOK ParseRestores ReplayRestores LoggedSurvive
CHECK_DEADLOCK FALSE
PROPERTY RestartEnds
CONSTRAINT Explored
