SPECIFICATION StepSpec
CONSTANTS
  Coordinates = {"isobaric", "isentropic", "hybrid"}
  Turbulences = {"off", "on_vertical_only", "on"}
  Microphysics = {"OFF", "STEADY", "PASSIVE", "ACTIVE"}
  Switches = {TRUE, FALSE}
INVARIANTS
  StepTypeOK
  UpToDateButForSpecies
  CallsSeePresentState
  SeamsOfCloudsOnly
  DzdtFinishedOnce
  Z2DifferencesJoinWithoutAdjustment
  FrameOfOneTime
