----------------------------- MODULE MCEventBus -----------------------------
(* Instances of EventBus for TLC, on parts of the real topology.           *)
EXTENDS EventBus

CONSTANTS inventory, notification, OrderCreated, StockReserved

\* OrderCreated, which inventory and notification both handle.
OrderCreatedHandlers == [q \in Queues |-> {OrderCreated}]

\* StockReserved, which inventory.events is bound to from an earlier deployment
\* although no handler is left for it there.
StaleBindings == [q \in Queues |-> IF q = inventory THEN {StockReserved} ELSE {}]

NoBindings == [q \in Queues |-> {}]
=============================================================================
