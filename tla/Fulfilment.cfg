SPECIFICATION FairSpec
CONSTANTS
  o1 = o1
  Orders = {o1}
  StockLevels = {0, 1}
  MaxFaults = 1
INVARIANT TypeOK
INVARIANT BackedByStock
INVARIANT ToldTheTruth
PROPERTY OrdersResolve
PROPERTY OrdersFulfilled
PROPERTY Quiesces
CHECK_DEADLOCK FALSE
