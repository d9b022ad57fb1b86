SPECIFICATION Spec
CONSTANTS
  Engagers = {e1, e2}
  Keys <- GlobalKey
  Symbols = {"SPY", "QQQ"}
  Requests <- RacingRequests
  MaxAttempts = 2
INVARIANTS EvidenceStands
PROPERTIES OneWayLatch ImplementsLatch
