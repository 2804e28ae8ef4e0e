SPECIFICATION Spec
CONSTANTS
  Writers = {drainer}
  Keys = {1, 2, 3}
  Weights = {1}
  FullSize = 3
  PageSize = 6
  MayFail = FALSE
  MaxInserts = 5
INVARIANTS LatestFound
CHECK_DEADLOCK FALSE
