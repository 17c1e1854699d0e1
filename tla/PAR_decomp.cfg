SPECIFICATION FairSpec
CONSTANTS
  Processes = {1, 2, 3, 4, 5, 6, 7, 8, 9, 10, 12, 14, 15, 16, 18, 20, 21, 24, 25, 27, 28, 30, 32, 35, 36, 45, 48, 49}
  Ni = {1, 2, 8, 32}
  Nj = {0, 1, 2, 5, 7, 16, 31}
  Nk = {3}
INVARIANTS
  TypeOK
  FactorsCorrect
  EveryPointOwnedOnce
  PadLoopsReach
  DividedAlike
PROPERTIES
  Terminates
CHECK_DEADLOCK FALSE
