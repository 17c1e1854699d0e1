SPECIFICATION FairSpec
CONSTANTS
  Geometry = "globe"
  NJ = 4
  Q_MIN = 4
  Fields <- MCFields
  NetcdfMayFail = TRUE
  MaxNodes = 3
INVARIANTS
  TypeOK
  FileShowsField
  SaveAddsLittle
  PadsAgree
  RestartHasFile
PROPERTIES
  AllCallsReturn
CHECK_DEADLOCK FALSE
