SPECIFICATION Spec
CONSTANTS
  c1 = c1
  c2 = c2
  k1 = k1
  k2 = k2
  Conns = {c1, c2}
  Keys = {k1, k2}
  NoKey = none
  Kinds = {"insert", "update", "delete"}
  MaxStatements = 2
  MaxBegins = 1
  MaxEvictions = 1
CONSTRAINT Explored
SYMMETRY Symmetry
INVARIANTS TypeOK  
CHECK_DEADLOCK FALSE
