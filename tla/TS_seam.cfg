SPECIFICATION StepSpec
CONSTANTS
  Coordinates = {"isentropic"}
  Turbulences = {"off"}
  Microphysics = {"ACTIVE"}
  Switches = {FALSE}
INVARIANTS
  NoSeamRead
