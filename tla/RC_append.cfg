SPECIFICATION Spec
CONSTANTS
  ItBack = 4
  ItSave = 2147483647
  ItExtract = 2
  ItRun = 4
  ExtractOn = TRUE
  AppendOnRestart = TRUE
  RenameMayFail = FALSE
  MaxStarts = 2
  MaxCrashes = 0
  MaxWriteFaults = 0
  MaxTime = 12
INVARIANTS
  FrameTimesAreTimes
CHECK_DEADLOCK FALSE
