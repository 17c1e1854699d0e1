SPECIFICATION Spec
CONSTANTS
  Q_LIQ_0 = 1
  Q_Icrit = 1
  Lf = 1
  Lc = 7
  MaxMass = 5
INVARIANTS
  TypeOK
  MassKept
  HeatMatchesPhases
  SaturationCrossedByIceOnly
CHECK_DEADLOCK FALSE
