SPECIFICATION Spec
CONSTANTS
  inventory = inventory
  notification = notification
  OrderCreated = OrderCreated
  StockReserved = StockReserved
  Queues = {inventory, notification}
  Events = {OrderCreated}
  Handlers <- OrderCreatedHandlers
  OldBindings <- NoBindings
  MaxRetries = 3
  Prefetch = 10
  MaxCrashes = 0
  MaxPublishErrors = 0
INVARIANT NoRedundantDelivery
CHECK_DEADLOCK FALSE
