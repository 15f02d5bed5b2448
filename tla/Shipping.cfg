SPECIFICATION FairSpec
CONSTANTS
  o1 = o1
  Orders = {o1}
  Deliveries = {1, 2}
  Keys = {1, 2}
  Readers = {1}
  CacheFails = TRUE
  Patches = {1, 2}
  OrderOf <- OneOrder
  NewStatus <- RacingUpdates
INVARIANT TypeOK
INVARIANT OneShipmentPerOrder
INVARIANT AnnouncedTheOne
INVARIANT DeliveredArrived
PROPERTY CacheCatchesUp
CHECK_DEADLOCK FALSE
