SPECIFICATION Spec
CONSTANTS
  FrameCount = 2
  Capacities = {1, 2}
  Lookaheads = {2}
  UnitsChoices = {metres, millimetres}
  AttributeTables = {plain, pscale}
  Tasks = {t1, t2}
  Device = device
  None = none
  MaxAdvance = 2
  MaxGeneration = 2
SYMMETRY Symmetry
INVARIANTS CacheIsFresh ServesCurrent ClaimHasDecode
CHECK_DEADLOCK FALSE
