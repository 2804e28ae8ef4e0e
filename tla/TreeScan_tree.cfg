SPECIFICATION TreeScanSpec
CONSTANTS
  Writers = {drainer}
  Keys = {1, 2, 3, 4, 5, 6, 7, 8}
  Weights = {1, 2}
  FullSize = 3
  PageSize = 6
  MayFail = TRUE
  MaxInserts = 9
INVARIANTS TypeOK ScanTypeOK SearchComplete ScanComplete NoBlankReached Ordered  ScanReturnsAll StraysOnlyAtRoot
CONSTRAINT Explored
CHECK_DEADLOCK FALSE
