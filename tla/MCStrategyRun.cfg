SPECIFICATION RunSpec
CONSTANTS
  Bars <- SomeBars
  Unit = 115200
  Qty = 2
  StopTypes = {"none", "fixed_pct", "chandelier", "time"}
  LastBar = 6
  OpenBars = 4
  Rules <- SomeRules
  MaxSignals = 3
  Warmup = 0
  Period = 2
  TimeBars = 1
INVARIANTS BooksBalance TradesAccountForTheBook FillsAreHonest SameFills CountsMatchTheBook VerdictsAreDecided
CHECK_DEADLOCK FALSE
