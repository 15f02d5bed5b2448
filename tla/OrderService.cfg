SPECIFICATION FairSpec
CONSTANTS
  o1 = o1
  Orders = {o1}
  Keys = {o1}
  Deliveries = {1, 2, 4}
  Cancels = {1}
  Readers = {1}
  CacheFails = TRUE
  OrderOf <- OneOrder
  Kind <- EventKinds
  CancelOf <- CancelsOne
INVARIANT TypeOK
INVARIANT AnnouncedIsCommitted
PROPERTY CancelAnnounced
PROPERTY CacheCatchesUp
CHECK_DEADLOCK FALSE
