SPECIFICATION Spec
CONSTANTS
  LastDay = 3
  Sessions <- MCSessions
  FirstDay = 2
  Needed = 1
  MaxFaults = 2
INVARIANTS NoLookahead OneOrderPerDecision MissingIsLoud WarmAtTheDecision NoEdgeMissed
CHECK_DEADLOCK FALSE
