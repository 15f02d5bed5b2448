----------------------------- MODULE MCShipping -----------------------------
(* Instances of Shipping for TLC.                                          *)
EXTENDS Shipping, TLC

CONSTANT o1

\* Deliveries and requests are numbered: copies of one order's StockReserved,
\* and a request that marks a shipment delivered racing with one that does not.
OneOrder == [d \in Deliveries |-> o1]
RacingUpdates == [u \in Patches |-> <<"DELIVERED", "IN_TRANSIT">>[u]]
=============================================================================
