SPECIFICATION FeeSpec
CONSTANTS
  Fees <- TwoFees
  Total <- TotalOfFees
  Settlers = {"cron", "consumer"}
  MaxCrashes = 2
INVARIANTS NeverOvercharged
PROPERTIES SelfHealing
