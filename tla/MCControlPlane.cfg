SPECIFICATION PlaneSpec
CONSTANTS
  Operators = {o1, o2}
  Configs <- MCConfigs
  Live = TRUE
  MaxRev = 3
CONSTRAINT Bounded
SYMMETRY Symmetry
INVARIANTS NoPendingMeansSaved ArmedIsProved DeathHalts 
CHECK_DEADLOCK FALSE
