SPECIFICATION Spec
CONSTANTS
  NPROCS = 2
  Buffered = FALSE
PROPERTIES
  TablesAreRead
CHECK_DEADLOCK FALSE
