SPECIFICATION Spec
CONSTANTS
  Orders = {o1}
  Qty = 1
  MaxUpsets = 2
PROPERTIES DivergenceEndsOrHalts
CHECK_DEADLOCK FALSE
