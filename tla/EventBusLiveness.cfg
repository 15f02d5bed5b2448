SPECIFICATION FairSpec
CONSTANTS
  inventory = inventory
  notification = notification
  OrderCreated = OrderCreated
  StockReserved = StockReserved
  Queues = {inventory, notification}
  Events = {OrderCreated}
  Handlers <- OrderCreatedHandlers
  OldBindings <- NoBindings
  MaxRetries = 2
  Prefetch = 2
  MaxCrashes = 1
  MaxPublishErrors = 0
PROPERTY EverySettled
PROPERTY Drains
CHECK_DEADLOCK FALSE
