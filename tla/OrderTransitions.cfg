SPECIFICATION Spec
CONSTANTS
  o1 = o1
  Orders = {o1}
  Keys = {o1}
  Deliveries = {1, 2, 4}
  Cancels = {1}
  Readers = {}
  CacheFails = FALSE
  OrderOf <- OneOrder
  Kind <- EventKinds
  CancelOf <- CancelsOne
PROPERTY TransitionsGuarded
CHECK_DEADLOCK FALSE
