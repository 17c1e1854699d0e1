SPECIFICATION FairSpec
CONSTANTS
  ItBack = 2147483647
  ItSave = 4
  ItExtract = 2
  ItRun = 6
  ExtractOn = TRUE
  AppendOnRestart = TRUE
  RenameMayFail = TRUE
  MaxStarts = 4
  MaxCrashes = 3
  MaxWriteFaults = 1
  MaxTime = 15
INVARIANTS
  TypeOK
  LossBounded
  FramesOrdered
  EndStateKept
PROPERTIES
  OneLog
  StopHonoured
CHECK_DEADLOCK FALSE
