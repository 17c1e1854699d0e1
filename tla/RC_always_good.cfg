SPECIFICATION Spec
CONSTANTS
  ItBack = 2
  ItSave = 2147483647
  ItExtract = 2147483647
  ItRun = 2147483647
  ExtractOn = FALSE
  AppendOnRestart = FALSE
  RenameMayFail = FALSE
  MaxStarts = 3
  MaxCrashes = 3
  MaxWriteFaults = 2
  MaxTime = 10
INVARIANTS
  AlwaysGoodBackup
CHECK_DEADLOCK FALSE
