SPECIFICATION Spec
CONSTANTS
  inventory = inventory
  notification = notification
  OrderCreated = OrderCreated
  StockReserved = StockReserved
  Queues = {inventory, notification}
  Events = {OrderCreated, StockReserved}
  Handlers <- OrderCreatedHandlers
  OldBindings <- StaleBindings
  MaxRetries = 2
  Prefetch = 2
  MaxCrashes = 1
  MaxPublishErrors = 1
INVARIANT TypeOK
INVARIANT NeverLost
INVARIANT RetryStormBounded
INVARIANT DeadAfterRetries
PROPERTY ImplementsAtLeastOnce
CHECK_DEADLOCK FALSE
