SPECIFICATION Spec
CONSTANTS
  o1 = o1
  o2 = o2
  p1 = p1
  p2 = p2
  Orders = {o1, o2}
  Products = {p1}
  Keys = {p1}
  Readers = {}
  CacheFails = FALSE
  Deliveries = {1, 2, 3, 4}
  StockLevels = {2}
  Items <- SingleItems
  OrderOf <- RedeliveredOrder
  Kind <- RedeliveredKind
INVARIANT ReservedOnce
CHECK_DEADLOCK FALSE
