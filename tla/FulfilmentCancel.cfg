SPECIFICATION Spec
CONSTANTS
  o1 = o1
  Orders = {o1}
  StockLevels = {1}
  MaxFaults = 0
INVARIANT CancelledHoldsNoStock
CHECK_DEADLOCK FALSE
