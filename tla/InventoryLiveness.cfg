SPECIFICATION FairSpec
CONSTANTS
  o1 = o1
  o2 = o2
  p1 = p1
  p2 = p2
  Orders = {o1, o2}
  Products = {p1, p2}
  Keys = {p1, p2}
  Readers = {1}
  CacheFails = FALSE
  Deliveries = {1, 3, 4}
  StockLevels = {2}
  Items <- CrossedItems
  OrderOf <- RedeliveredOrder
  Kind <- RedeliveredKind
PROPERTY HandlersEnd
PROPERTY CacheCatchesUp
CHECK_DEADLOCK FALSE
