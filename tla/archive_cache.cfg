CONSTANTS
  Procs = {p1, p2}
  Bodies = {b1, b2}
  MaxRuns = 3
  MaxCrashes = 1
  Empty = Empty
  Torn = Torn
  Short = Short
  NoFile = NoFile
SYMMETRY Symmetry
SPECIFICATION Spec
CHECK_DEADLOCK FALSE
INVARIANTS
  Inv
  ApartEntriesMatchSource
