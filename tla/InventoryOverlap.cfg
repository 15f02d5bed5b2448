SPECIFICATION Spec
CONSTANTS
  o1 = o1
  o2 = o2
  p1 = p1
  p2 = p2
  Orders = {o1, o2}
  Products = {p1, p2}
  Keys = {p1, p2}
  Readers = {}
  CacheFails = FALSE
  Deliveries = {1, 2, 3, 4}
  StockLevels = {1, 2, 4}
  Items <- CrossedItems
  OrderOf <- RedeliveredOrder
  Kind <- RedeliveredKind
INVARIANT TypeOK
INVARIANT NoNegativeStock
INVARIANT LockedIsCurrent
PROPERTY NoLostUpdate
INVARIANT AnnouncedWasReserved
INVARIANT Conserved
INVARIANT ReservedOnceIfSerial
PROPERTY ImplementsReservations
CHECK_DEADLOCK FALSE
