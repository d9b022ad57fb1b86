SPECIFICATION Spec
CONSTANTS
  Orders = {o1}
  Qty = 3
  MaxUpsets = 3
INVARIANTS NoDoubleBooking BookNotAheadOfRows TradesOnAConsistentBook
CONSTRAINTS Apart Bounded
CHECK_DEADLOCK FALSE
