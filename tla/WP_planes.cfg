SPECIFICATION Spec
CONSTANTS
  Schemes = {"AdamsBashforth", "Leapfrog"}
  MaxTime = 6
  MaxRestarts = 2
INVARIANTS
  TypeOK
  SmoothedAndFiltered
PROPERTIES
  HistoryKept
CHECK_DEADLOCK FALSE
