SPECIFICATION ViewSpec
CONSTANTS
  MaxHalts = 1
  MaxFills = 1
  MaxFaults = 2
INVARIANTS ShownIsStored
PROPERTIES HaltIsShown
CHECK_DEADLOCK FALSE
