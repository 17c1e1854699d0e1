SPECIFICATION FairSpec
CONSTANTS
  Layouts <- MCLayouts
  Calls = 3
INVARIANTS
  TypeOK
  PadsAsInSerialRun
PROPERTIES
  AllCallsReturn
CHECK_DEADLOCK FALSE
