SPECIFICATION Spec
CONSTANTS
  c1 = c1
  c2 = c2
  t1 = t1
  t2 = t2
  v1 = v1
  v2 = v2
  Conns = {c1, c2}
  Tables = {t1, t2}
  Values = {v1, v2}
  MaxRows = 2
  MaxPerInsert = 2
  MaxCreates = 2
  MaxUpdates = 1
SYMMETRY Symmetry
INVARIANTS TypeOK UniqueIds  IndexComplete 
CHECK_DEADLOCK FALSE
CONSTRAINT Explored
