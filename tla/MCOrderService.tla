--------------------------- MODULE MCOrderService ---------------------------
(* Instances of OrderService for TLC.                                      *)
EXTENDS OrderService, TLC

CONSTANT o1

OneOrder == [d \in Deliveries |-> o1]
CancelsOne == [c \in Cancels |-> o1]

\* Deliveries are numbered: StockReserved, delivered twice, and ShipmentCreated;
\* StockUnavailable from a run that found the shelf empty.
EventKinds == [d \in Deliveries |->
  <<"StockReserved", "ShipmentCreated", "StockReserved", "StockUnavailable">>[d]]
=============================================================================
