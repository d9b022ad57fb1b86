SPECIFICATION Spec
CONSTANTS
  Symbols = {"a", "b"}
  Entries <- ThreeEntries
  Prices = {1, 2}
  StartPrice = 1
  StartCash = 4
  StartQty <- HoldsBoth
  MaxPositionPct = 50
  MaxGrossExposurePct = 80
  MaxDailyLossPct = 20
  MaxOrdersPerMinute = 1
  MaxOpenPositions = 2
  Minute = 1
  StormRefusals = 2
  MaxOrders = 2
  MaxTicks = 1
  MaxEvents = 2
INVARIANTS ReachableWithinCeilings RateHeld ExitsAreNotTrapped AllowanceNotRenewed
CHECK_DEADLOCK FALSE
