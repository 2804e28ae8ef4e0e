SPECIFICATION Spec
CONSTANTS
  c1 = c1
  c2 = c2
  k1 = k1
  k2 = k2
  Conns = {c1, c2}
  Keys = {k1}
  NoKey = none
  Kinds = {"delete"}
  MaxStatements = 1
  MaxBegins = 0
  MaxEvictions = 0
SYMMETRY Symmetry
INVARIANTS DeletedStaysDeleted
CHECK_DEADLOCK FALSE
