SPECIFICATION Spec
CONSTANTS
  Step = 2
  OpenAt = 2
  CloseAt = 10
  MaxTime = 10
  MaxSilence = 2
  Budget = 2
  MinHealthy = 1
  MaxBackfill = 4
  MaxGaps = 1
  MaxFaults = 3
INVARIANTS HolesAreKnown SilenceHalts OutageIsBounded
CHECK_DEADLOCK FALSE
