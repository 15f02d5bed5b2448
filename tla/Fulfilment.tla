----------------------------- MODULE Fulfilment -----------------------------
(***************************************************************************)
(* The fulfilment of orders across the order, inventory, shipping and      *)
(* notification services, over the bus that AtLeastOnce promises: what one *)
(* service publishes is an obligation of every service whose queue exists  *)
(* and handles the type, to be handled in any order and any number of      *)
(* times.                                                                  *)
(*                                                                         *)
(* An obligation is <<type, order, service>>.  A handler run is one step:  *)
(* what overlapping runs do to each other inside a service is the subject  *)
(* of Inventory, Shipping and OrderService.  A commit and the publication  *)
(* that follows it are one step too, since delivery may be delayed at      *)
(* will, or a step that commits and does not publish.  Every order wants   *)
(* one unit of one product.  StockReleased is left out: no queue is bound  *)
(* to it.                                                                  *)
(***************************************************************************)
EXTENDS Integers, FiniteSets

CONSTANTS
  Orders,
  StockLevels,   \* quantities an admin creates the product with
  MaxFaults      \* bound on failed handler runs and requests, crashes, dead letters

ASSUME FulfilmentAssumption == StockLevels \subseteq Nat /\ MaxFaults \in Nat

Services == {"order", "inventory", "shipping", "notification"}

\* build_consumer of each service.
Handles == [order |-> {"StockReserved", "StockUnavailable", "ShipmentCreated"},
            inventory |-> {"OrderCreated", "OrderCancelled"},
            shipping |-> {"StockReserved"},
            notification |-> {"OrderCreated", "StockReserved", "ShipmentCreated",
                              "ShipmentDelivered"}]
Types == UNION {Handles[s] : s \in Services}
Obligations == {x \in Types \X Orders \X Services : x[1] \in Handles[x[3]]}

VARIABLES
  pending, done, dead,   \* the bus: see AtLeastOnce
  declared,    \* services whose durable queue is declared and bound
  up,          \* services that have started
  status,      \* status[o] in the order service, "none" before it is placed
  cancelling,  \* orders a cancel request has checked and not yet written
  shelf,       \* the product's quantity_available, 0 before it is created
  stocked,     \* {} or {the quantity the product was created with}
  reserved,    \* orders with a reservation
  shipments,   \* orders with a shipment
  delivered,   \* orders whose shipment was marked DELIVERED
  notified,    \* <<type, order>> of the notifications recorded
  faults,      \* faults so far
  cancelled    \* history: orders a cancel request has set to CANCELLED

bus == <<pending, done, dead>>
running == <<declared, up>>
orders == <<status, cancelling, cancelled>>
stock == <<shelf, stocked, reserved>>
shipping == <<shipments, delivered>>
vars == <<bus, running, orders, stock, shipping, notified, faults>>

Bus == INSTANCE AtLeastOnce

TypeOK ==
  /\ pending \cup done \cup dead \subseteq Obligations
  /\ up \subseteq declared /\ declared \subseteq Services
  /\ status \in [Orders -> {"none", "PENDING", "CONFIRMED", "SHIPPED", "CANCELLED"}]
  /\ cancelling \cup cancelled \subseteq Orders
  /\ shelf \in Nat /\ stocked \subseteq StockLevels
  /\ reserved \cup shipments \cup delivered \subseteq Orders
  /\ notified \subseteq Handles["notification"] \X Orders
  /\ faults \in 0 .. MaxFaults

Init ==
  /\ Bus!Init
  /\ declared = {} /\ up = {}
  /\ status = [o \in Orders |-> "none"]
  /\ cancelling = {} /\ cancelled = {}
  /\ shelf = 0 /\ stocked = {} /\ reserved = {}
  /\ shipments = {} /\ delivered = {}
  /\ notified = {}
  /\ faults = 0

-----------------------------------------------------------------------------
(* The bus as the services use it.                                         *)

\* The queues the exchange routes an event to: those that exist by now.
Routed(type, o) == {<<type, o, s>> : s \in {s \in declared : type \in Handles[s]}}

Fault == faults < MaxFaults /\ faults' = faults + 1

\* A request publishes after its commit, or fails before it can.
Announce(type, o) ==
  \/ Bus!Route(Routed(type, o)) /\ UNCHANGED faults
  \/ Fault /\ UNCHANGED bus

\* Mutant of Raise: the retry carries the x-retry header it came with.
RaiseUncounted(x) ==
  /\ Bus!Route(Routed(x[1], x[2]))
  /\ UNCHANGED faults

\* A run of x's handler raises, and its retry goes to every queue bound to the
\* type; or it dies with its process, and x alone is delivered again.
Raise(x) ==
  /\ Fault
  /\ Bus!Route(Routed(x[1], x[2])) \/ UNCHANGED bus

\* A run of x's handler has published what is routed to S, and its ack is lost.
\* With its process it dies, and x is delivered again; where only the connection
\* is gone, the ack raises too, and a retry goes to every queue bound to the type.
AckLost(x, S) ==
  /\ Fault
  /\ Bus!Succeed(x, S) \/ Bus!Succeed(x, S \cup Routed(x[1], x[2]))
  /\ x \in pending'

\* A run of x's handler, its effect being committed: it publishes what is routed
\* to S, returns and is acked, or ends before that.
Ends(x, S, returns) ==
  IF returns
    THEN Bus!Succeed(x, S) /\ x \notin pending' /\ UNCHANGED faults
    ELSE Raise(x) \/ AckLost(x, S)

\* Service s handles x.
Handling(x, s) == x \in pending /\ x[3] = s /\ s \in up

(* A run raises before it commits anything.                                *)
RaiseEarly(x) ==
  /\ Handling(x, x[3])
  /\ Raise(x)
  /\ UNCHANGED <<running, orders, stock, shipping, notified>>

(* The last retry fails: the message goes to the dead-letter queue.        *)
DeadLetter(x) ==
  /\ Handling(x, x[3])
  /\ Bus!Bury(x)
  /\ Fault
  /\ UNCHANGED <<running, orders, stock, shipping, notified>>

-----------------------------------------------------------------------------
(* The life of a service: lifespan connects the broker, which retries and  *)
(* in the end gives up and is restarted, and starts the consumer.          *)
Start(s) ==
  /\ s \notin up
  /\ up' = up \cup {s}
  /\ declared' = declared \cup {s}
  /\ UNCHANGED <<bus, orders, stock, shipping, notified, faults>>

\* Mutant of Crash: the queue is not durable.
CrashDropsQueue(s) ==
  /\ s \in up /\ Fault
  /\ up' = up \ {s} /\ declared' = declared \ {s}
  /\ cancelling' = IF s = "order" THEN {} ELSE cancelling
  /\ pending' = {x \in pending : x[3] # s}
  /\ UNCHANGED <<done, dead, status, cancelled, stock, shipping, notified>>

(* A service dies or is shut down, its requests with it.                   *)
Crash(s) ==
  /\ s \in up /\ Fault
  /\ up' = up \ {s}
  /\ cancelling' = IF s = "order" THEN {} ELSE cancelling
  /\ UNCHANGED <<bus, declared, status, cancelled, stock, shipping, notified>>

-----------------------------------------------------------------------------
(* The order service.                                                      *)

(* POST /orders: create_order commits a PENDING order, then announces it.  *)
PlaceOrder(o) ==
  /\ "order" \in up
  /\ status[o] = "none"
  /\ status' = [status EXCEPT ![o] = "PENDING"]
  /\ Announce("OrderCreated", o)
  /\ UNCHANGED <<running, cancelling, cancelled, stock, shipping, notified>>

(* POST /orders/{id}/cancel: the status allows it ...                      *)
CancelCheck(o) ==
  /\ "order" \in up
  /\ status[o] \in {"PENDING", "CONFIRMED"}
  /\ cancelling' = cancelling \cup {o}
  /\ UNCHANGED <<bus, running, status, cancelled, stock, shipping, notified, faults>>

(* ... and cancel_order overwrites what it is by now, and announces it.    *)
CancelOrder(o) ==
  /\ o \in cancelling
  /\ cancelling' = cancelling \ {o}
  /\ status' = [status EXCEPT ![o] = "CANCELLED"]
  /\ cancelled' = cancelled \cup {o}
  /\ Announce("OrderCancelled", o)
  /\ UNCHANGED <<running, stock, shipping, notified>>

\* The status each handler passes to set_status.
StatusFor == [StockReserved |-> "CONFIRMED", StockUnavailable |-> "CANCELLED",
              ShipmentCreated |-> "SHIPPED"]

(* The three handlers: set_status, whatever the status was.                *)
SetStatus(x, returns) ==
  /\ Handling(x, "order")
  /\ status' = [status EXCEPT ![x[2]] = StatusFor[x[1]]]
  /\ Ends(x, {}, returns)
  /\ UNCHANGED <<running, cancelling, cancelled, stock, shipping, notified>>

-----------------------------------------------------------------------------
(* The inventory service.                                                  *)

(* POST /inventory/products.                                               *)
CreateProduct(n) ==
  /\ "inventory" \in up
  /\ stocked = {}
  /\ stocked' = {n} /\ shelf' = n
  /\ UNCHANGED <<bus, running, orders, reserved, shipping, notified, faults>>

\* Mutant of Takes: only the existence of the product is verified.
TakesShort(o) == o \notin reserved /\ stocked # {}

\* reserve_for_order makes a reservation: there is none yet, and the product
\* exists and is not short.
Takes(o) == o \notin reserved /\ shelf > 0

\* Mutant of Outcome: a redelivery that finds the reservation only returns.
OutcomeOnce(o) ==
  IF o \in reserved THEN {}
  ELSE Routed(IF Takes(o) THEN "StockReserved" ELSE "StockUnavailable", o)

\* Mutant of Outcome: the result of reserve_for_order is ignored.
OutcomeReserved(o) == Routed("StockReserved", o)

\* The event _on_order_created publishes; a reservation found counts as made.
Outcome(o) ==
  Routed(IF o \in reserved \/ Takes(o) THEN "StockReserved" ELSE "StockUnavailable", o)

(* OrderCreated.                                                           *)
Reserve(x, returns) ==
  /\ Handling(x, "inventory") /\ x[1] = "OrderCreated"
  /\ shelf' = IF Takes(x[2]) THEN shelf - 1 ELSE shelf
  /\ reserved' = IF Takes(x[2]) THEN reserved \cup {x[2]} ELSE reserved
  /\ Ends(x, Outcome(x[2]), returns)
  /\ UNCHANGED <<running, orders, stocked, shipping, notified>>

(* OrderCancelled: release_for_order returns what the order holds, if any. *)
Release(x, returns) ==
  /\ Handling(x, "inventory") /\ x[1] = "OrderCancelled"
  /\ shelf' = IF x[2] \in reserved THEN shelf + 1 ELSE shelf
  /\ reserved' = reserved \ {x[2]}
  /\ Ends(x, {}, returns)
  /\ UNCHANGED <<running, orders, stocked, shipping, notified>>

-----------------------------------------------------------------------------
(* The shipping service.                                                   *)

\* Mutant of Ship: ShipmentCreated goes out before the commit.
ShipAfterPublish(x, returns) ==
  /\ Handling(x, "shipping")
  /\ Ends(x, Routed("ShipmentCreated", x[2]), returns)
  /\ shipments' \in {shipments, shipments \cup {x[2]}}
  /\ UNCHANGED <<running, orders, stock, delivered, notified>>

(* StockReserved: create_shipment finds or makes the order's shipment,     *)
(* which is announced.                                                     *)
Ship(x, returns) ==
  /\ Handling(x, "shipping")
  /\ shipments' = shipments \cup {x[2]}
  /\ Ends(x, Routed("ShipmentCreated", x[2]), returns)
  /\ UNCHANGED <<running, orders, stock, delivered, notified>>

(* PATCH /shipments/{id}/status with DELIVERED, once for each shipment     *)
(* (a bound).                                                              *)
Deliver(o) ==
  /\ "shipping" \in up
  /\ o \in shipments \ delivered
  /\ delivered' = delivered \cup {o}
  /\ Announce("ShipmentDelivered", o)
  /\ UNCHANGED <<running, orders, stock, shipments, notified>>

-----------------------------------------------------------------------------
(* The notification service.                                               *)

\* send_notification sends and inserts a record; nothing looks for an earlier one.
SendNotification(type, o) == notified' = notified \cup {<<type, o>>}

(* Every handler sends a notification of its type.                         *)
Notify(x, returns) ==
  /\ Handling(x, "notification")
  /\ SendNotification(x[1], x[2])
  /\ Ends(x, {}, returns)
  /\ UNCHANGED <<running, orders, stock, shipping>>

Run(x, returns) ==
  SetStatus(x, returns) \/ Reserve(x, returns) \/ Release(x, returns)
    \/ Ship(x, returns) \/ Notify(x, returns)

Next ==
  \/ \E s \in Services : Start(s) \/ Crash(s)
  \/ \E o \in Orders : PlaceOrder(o) \/ CancelCheck(o) \/ CancelOrder(o) \/ Deliver(o)
  \/ \E n \in StockLevels : CreateProduct(n)
  \/ \E x \in Obligations :
       \/ RaiseEarly(x) \/ DeadLetter(x)
       \/ \E returns \in BOOLEAN : Run(x, returns)

Spec == Init /\ [][Next]_vars

(***************************************************************************)
(* Fairness.  A service that is down is started again (restart:            *)
(* unless-stopped); the bus keeps delivering, and since a message is       *)
(* tried MAX_RETRIES times a run returns in the end or the message is      *)
(* dead-lettered; what was handled is acked.  Nobody has to place, cancel  *)
(* or deliver an order.                                                    *)
(***************************************************************************)
FairSpec ==
  /\ Spec
  /\ \A s \in Services : WF_vars(Start(s))
  /\ \A x \in Obligations :
       WF_vars(Run(x, TRUE) \/ DeadLetter(x))

-----------------------------------------------------------------------------
(* Properties.                                                             *)

\* No order is confirmed, shipped or given a shipment on stock it never had: its
\* stock is reserved, or a customer cancelled it (which may release it), however
\* events are repeated and reordered (set_status, create_shipment,
\* reserve_for_order).
BackedByStock ==
  \A o \in Orders :
    status[o] \in {"CONFIRMED", "SHIPPED"} \/ o \in shipments
      => o \in reserved \cup cancelled

\* What an event of a type says of order o.
Happened(type, o) ==
  /\ type = "OrderCreated" => status[o] # "none"
  /\ type = "OrderCancelled" => o \in cancelled
  /\ type = "StockReserved" => o \in reserved \cup cancelled
  /\ type = "ShipmentCreated" => o \in shipments
  /\ type = "ShipmentDelivered" => o \in delivered

\* What the services tell each other and the customer has happened: an order is
\* SHIPPED, and a notification recorded, only after the shipment, the
\* reservation, the order or the delivery it speaks of was committed elsewhere
\* (send_notification, set_status; the publish that follows each commit).
ToldTheTruth ==
  /\ \A o \in Orders : status[o] = "SHIPPED" => o \in shipments
  /\ \A n \in notified : Happened(n[1], n[2])

Buried(o) == \E x \in dead : x[2] = o

\* An order that inventory has been told of does not stay PENDING: it is
\* confirmed or cancelled, or a message about it is dead-lettered, although
\* services crash between a commit and its announcement (_on_order_created; the
\* order service's queue exists since it announced the order).
OrdersResolve ==
  \A o \in Orders :
    <<"OrderCreated", o, "inventory">> \in pending
      ~> status[o] # "PENDING" \/ Buried(o)

\* Once every service has bound its queue, such an order is in the end provided
\* for, and for good: it has a shipment, or its customer has cancelled it, or it
\* stays CANCELLED for want of stock (before that the exchange drops what a
\* missing queue would need: Broker.publish).  Its status alone promises less: a
\* StockReserved handled after the ShipmentCreated leaves CONFIRMED (set_status).
OrdersFulfilled ==
  \A o \in Orders :
    declared = Services /\ <<"OrderCreated", o, "inventory">> \in pending
      ~> [](o \in shipments \cup cancelled \/ status[o] = "CANCELLED") \/ Buried(o)

\* The services' events set off no cycle: once nobody asks for anything more,
\* the queues drain for good (the handlers of all services; _handle).
Quiesces == <>[](pending = {})

\* What inventory's docstrings say of OrderCancelled: it releases any reservation
\* held for the order.  When it has handled the order's events, a cancelled
\* order holds no stock.
CancelledHoldsNoStock ==
  \A o \in Orders :
    <<"OrderCancelled", o, "inventory">> \in done
      /\ {x \in pending \cup dead : x[2] = o /\ x[3] = "inventory"} = {}
    => o \notin reserved
=============================================================================
