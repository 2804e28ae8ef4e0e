SPECIFICATION Spec
CONSTANTS
  c1 = c1
  c2 = c2
  k1 = k1
  k2 = k2
  Conns = {c1, c2}
  Keys = {k1}
  NoKey = none
  Kinds = {"update", "select"}
  MaxStatements = 3
  MaxBegins = 2
  MaxEvictions = 0
SYMMETRY Symmetry
INVARIANTS StoredStays 
CHECK_DEADLOCK FALSE
