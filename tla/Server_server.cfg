SPECIFICATION Spec
CONSTANTS
  s1 = s1
  s2 = s2
  r1 = r1
  r2 = r2
  Sessions = {s1, s2}
  Requests = {r1, r2}
  Procs = {s1, s2, r1, r2}
  Keys = {1, 2, 3}
  Limits = {1, 8}
  PerMb = 1
  Fraction = 2
  Width = 8
  MaxVersion = 2
  MaxWrites = 5
SYMMETRY Symmetry
INVARIANTS TypeOK StampsMatch SizeBounded CommitsOwn VersionDoesNotWrap
CHECK_DEADLOCK FALSE
CONSTRAINT Explored
