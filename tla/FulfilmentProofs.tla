-------------------------- MODULE FulfilmentProofs --------------------------
(***************************************************************************)
(* Proofs about Fulfilment for any orders, stock levels and number of      *)
(* faults.                                                                 *)
(***************************************************************************)
EXTENDS Fulfilment, TLAPS

\* Every event on its way speaks of something that has happened, and so does what
\* the services have made of the events.
EventsTrue == \A x \in pending : Happened(x[1], x[2])
RecordsTrue ==
  /\ ToldTheTruth
  /\ BackedByStock

CauseInv == TypeOK /\ EventsTrue /\ RecordsTrue

\* The events that a step publishes are of types T and about order o.
Told(T, o) == \A x \in pending' : x \in pending \/ (x[1] \in T /\ x[2] = o)

\* What has happened stays so, since only a cancelled order is released.
Lasting ==
  /\ \A o \in Orders : status[o] # "none" => status'[o] # "none"
  /\ cancelled \subseteq cancelled'
  /\ reserved \cup cancelled \subseteq reserved' \cup cancelled'
  /\ shipments \subseteq shipments'
  /\ delivered \subseteq delivered'

LEMMA CauseInit == Init => CauseInv
  BY FulfilmentAssumption
  DEF Init, Bus!Init, CauseInv, TypeOK, EventsTrue, RecordsTrue, ToldTheTruth, BackedByStock

LEMMA HappenedLasts ==
  ASSUME NEW t, NEW o \in Orders, Happened(t, o), Lasting
  PROVE  Happened(t, o)'
  BY DEF Happened, Lasting

\* The ways a step changes the bus.
LEMMA BusTypes ==
  ASSUME TypeOK, NEW t \in Types, NEW o \in Orders,
         pending' \subseteq pending \cup Routed(t, o)
  PROVE  pending' \subseteq Obligations /\ Told({t}, o)
<1>1. Routed(t, o) \subseteq Obligations
  BY DEF TypeOK, Routed, Obligations
<1>2. QED
  BY <1>1 DEF TypeOK, Told, Routed

LEMMA AnnounceStep ==
  ASSUME TypeOK, NEW t \in Types, NEW o \in Orders, Announce(t, o)
  PROVE  /\ pending' \cup done' \cup dead' \subseteq Obligations
         /\ faults' \in 0 .. MaxFaults
         /\ Told({t}, o)
<1>1. /\ pending' \subseteq pending \cup Routed(t, o)
      /\ done' = done /\ dead' = dead
      /\ faults' \in 0 .. MaxFaults
  BY FulfilmentAssumption DEF TypeOK, Announce, Bus!Route, Fault, bus
<1>2. QED
  BY <1>1, BusTypes DEF TypeOK

LEMMA RaiseStep ==
  ASSUME TypeOK, NEW x \in Obligations, Raise(x)
  PROVE  /\ pending' \cup done' \cup dead' \subseteq Obligations
         /\ faults' \in 0 .. MaxFaults
         /\ Told({x[1]}, x[2])
<1>1. x[1] \in Types /\ x[2] \in Orders
  BY DEF Obligations
<1>2. /\ pending' \subseteq pending \cup Routed(x[1], x[2])
      /\ done' = done /\ dead' = dead
      /\ faults' \in 0 .. MaxFaults
  BY FulfilmentAssumption DEF TypeOK, Raise, Bus!Route, Fault, bus
<1>3. QED
  BY <1>1, <1>2, BusTypes DEF TypeOK

\* A handler that publishes events of type t about its order, or none, and may
\* send its own message again.
LEMMA EndsStep ==
  ASSUME TypeOK, NEW x \in Obligations, x \in pending, NEW returns \in BOOLEAN,
         NEW t \in Types, NEW S, S \subseteq Routed(t, x[2]), Ends(x, S, returns)
  PROVE  /\ pending' \cup done' \cup dead' \subseteq Obligations
         /\ faults' \in 0 .. MaxFaults
         /\ Told({t, x[1]}, x[2])
<1>1. x[1] \in Types /\ x[2] \in Orders
  BY DEF Obligations
<1>2. CASE Raise(x)
  BY <1>2, RaiseStep DEF Told
<1>3. CASE (Bus!Succeed(x, S) /\ UNCHANGED faults) \/ AckLost(x, S)
  <2>1. /\ pending' \subseteq pending \cup Routed(t, x[2]) \cup Routed(x[1], x[2])
        /\ done' \subseteq Obligations /\ dead' = dead
        /\ faults' \in 0 .. MaxFaults
    BY <1>3, FulfilmentAssumption DEF TypeOK, AckLost, Fault, Bus!Succeed
  <2>2. Routed(t, x[2]) \cup Routed(x[1], x[2]) \subseteq Obligations
    BY <1>1 DEF TypeOK, Routed, Obligations
  <2>3. QED
    BY <2>1, <2>2 DEF TypeOK, Told, Routed
<1>4. QED
  BY <1>2, <1>3 DEF Ends

\* What a step has to show about the events: it publishes what has happened.
LEMMA EventsStayTrue ==
  ASSUME CauseInv, Lasting, pending' \subseteq Obligations, NEW T, NEW o \in Orders,
         Told(T, o), \A t \in T : Happened(t, o)'
  PROVE  EventsTrue'
<1>1. SUFFICES ASSUME NEW x \in pending' PROVE Happened(x[1], x[2])'
  BY DEF EventsTrue
<1>2. x[2] \in Orders
  BY DEF Obligations
<1>3. CASE x \in pending
  BY <1>2, <1>3, HappenedLasts DEF CauseInv, EventsTrue
<1>4. CASE x[1] \in T /\ x[2] = o
  BY <1>4
<1>5. QED
  BY <1>3, <1>4 DEF Told

-----------------------------------------------------------------------------
(* The steps.                                                              *)

\* The parts of the state of one service or another that a step leaves alone.
LEMMA RunningStep ==
  ASSUME CauseInv, NEW s \in Services, Start(s) \/ Crash(s)
  PROVE  CauseInv'
<1>1. /\ UNCHANGED <<pending, done, dead, status, cancelled, stock, shipping, notified>>
      /\ cancelling' \subseteq cancelling
      /\ up' \subseteq declared' /\ declared' \subseteq Services
      /\ faults' \in 0 .. MaxFaults
  BY FulfilmentAssumption DEF Start, Crash, Fault, bus, orders, CauseInv, TypeOK
<1>2. TypeOK'
  BY <1>1 DEF CauseInv, TypeOK, stock, shipping
<1>3. EventsTrue' /\ RecordsTrue'
  BY <1>1 DEF CauseInv, EventsTrue, RecordsTrue, ToldTheTruth, BackedByStock, Happened,
              stock, shipping
<1>4. QED
  BY <1>2, <1>3 DEF CauseInv

LEMMA PlaceOrderStep ==
  ASSUME CauseInv, NEW o \in Orders, PlaceOrder(o)
  PROVE  CauseInv'
<1>1. /\ status' = [status EXCEPT ![o] = "PENDING"] /\ status[o] = "none"
      /\ Announce("OrderCreated", o)
      /\ UNCHANGED <<running, cancelling, cancelled, stock, shipping, notified>>
  BY DEF PlaceOrder
<1>2. "OrderCreated" \in Types
  BY DEF Types, Services, Handles
<1>3. /\ pending' \cup done' \cup dead' \subseteq Obligations
      /\ faults' \in 0 .. MaxFaults /\ Told({"OrderCreated"}, o)
  BY <1>1, <1>2, AnnounceStep DEF CauseInv
<1>4. TypeOK'
  BY <1>1, <1>3 DEF CauseInv, TypeOK, running, stock, shipping
<1>5. Lasting /\ Happened("OrderCreated", o)'
  BY <1>1 DEF CauseInv, TypeOK, Lasting, Happened, stock, shipping
<1>6. EventsTrue'
  BY <1>3, <1>5, EventsStayTrue
<1>7. RecordsTrue'
  BY <1>1, <1>5 DEF CauseInv, TypeOK, RecordsTrue, ToldTheTruth, BackedByStock, Happened,
                    stock, shipping
<1>8. QED
  BY <1>4, <1>6, <1>7 DEF CauseInv

LEMMA CancelStep ==
  ASSUME CauseInv, NEW o \in Orders, CancelCheck(o) \/ CancelOrder(o)
  PROVE  CauseInv'
<1>1. CASE CancelCheck(o)
  BY <1>1 DEF CancelCheck, CauseInv, TypeOK, EventsTrue, RecordsTrue, ToldTheTruth,
              BackedByStock, Happened, bus, running, stock, shipping
<1>2. CASE CancelOrder(o)
  <2>1. /\ status' = [status EXCEPT ![o] = "CANCELLED"]
        /\ cancelling' \subseteq cancelling /\ cancelled' = cancelled \cup {o}
        /\ Announce("OrderCancelled", o)
        /\ UNCHANGED <<running, stock, shipping, notified>>
    BY <1>2 DEF CancelOrder
  <2>2. "OrderCancelled" \in Types
    BY DEF Types, Services, Handles
  <2>3. /\ pending' \cup done' \cup dead' \subseteq Obligations
        /\ faults' \in 0 .. MaxFaults /\ Told({"OrderCancelled"}, o)
    BY <2>1, <2>2, AnnounceStep DEF CauseInv
  <2>4. TypeOK'
    BY <2>1, <2>3 DEF CauseInv, TypeOK, running, stock, shipping
  <2>5. Lasting /\ Happened("OrderCancelled", o)'
    BY <2>1 DEF CauseInv, TypeOK, Lasting, Happened, stock, shipping
  <2>6. EventsTrue'
    BY <2>3, <2>5, EventsStayTrue
  <2>7. RecordsTrue'
    BY <2>1 DEF CauseInv, TypeOK, RecordsTrue, ToldTheTruth, BackedByStock, Happened,
                stock, shipping
  <2>8. QED
    BY <2>4, <2>6, <2>7 DEF CauseInv
<1>3. QED
  BY <1>1, <1>2

LEMMA ProductStep ==
  ASSUME CauseInv, NEW n \in StockLevels, CreateProduct(n)
  PROVE  CauseInv'
<1>1. TypeOK'
  BY FulfilmentAssumption DEF CreateProduct, CauseInv, TypeOK, bus, running, orders, shipping
<1>2. EventsTrue' /\ RecordsTrue'
  BY DEF CreateProduct, CauseInv, EventsTrue, RecordsTrue, ToldTheTruth, BackedByStock,
         Happened, bus, orders, shipping
<1>3. QED
  BY <1>1, <1>2 DEF CauseInv

LEMMA DeliverStep ==
  ASSUME CauseInv, NEW o \in Orders, Deliver(o)
  PROVE  CauseInv'
<1>1. /\ delivered' = delivered \cup {o} /\ Announce("ShipmentDelivered", o)
      /\ UNCHANGED <<running, orders, stock, shipments, notified>>
  BY DEF Deliver
<1>2. "ShipmentDelivered" \in Types
  BY DEF Types, Services, Handles
<1>3. /\ pending' \cup done' \cup dead' \subseteq Obligations
      /\ faults' \in 0 .. MaxFaults /\ Told({"ShipmentDelivered"}, o)
  BY <1>1, <1>2, AnnounceStep DEF CauseInv
<1>4. TypeOK'
  BY <1>1, <1>3 DEF CauseInv, TypeOK, running, stock, orders
<1>5. Lasting /\ Happened("ShipmentDelivered", o)'
  BY <1>1 DEF Lasting, Happened, stock, orders
<1>6. EventsTrue'
  BY <1>3, <1>5, EventsStayTrue
<1>7. RecordsTrue'
  BY <1>1 DEF CauseInv, RecordsTrue, ToldTheTruth, BackedByStock, Happened, stock, orders
<1>8. QED
  BY <1>4, <1>6, <1>7 DEF CauseInv

LEMMA FailedRunStep ==
  ASSUME CauseInv, NEW x \in Obligations, RaiseEarly(x) \/ DeadLetter(x)
  PROVE  CauseInv'
<1>1. /\ x \in pending /\ x[2] \in Orders
      /\ UNCHANGED <<running, orders, stock, shipping, notified>>
  BY DEF RaiseEarly, DeadLetter, Handling, Obligations
<1>2. /\ pending' \cup done' \cup dead' \subseteq Obligations
      /\ faults' \in 0 .. MaxFaults /\ Told({x[1]}, x[2])
  <2>1. CASE RaiseEarly(x)
    BY <2>1, RaiseStep DEF RaiseEarly, CauseInv
  <2>2. CASE DeadLetter(x)
    BY <2>2, FulfilmentAssumption DEF DeadLetter, Bus!Bury, Fault, CauseInv, TypeOK, Told
  <2>3. QED
    BY <2>1, <2>2
<1>3. TypeOK'
  BY <1>1, <1>2 DEF CauseInv, TypeOK, running, orders, stock, shipping
<1>4. Lasting
  BY <1>1 DEF Lasting, orders, stock, shipping
<1>5. Happened(x[1], x[2])'
  BY <1>1, <1>4, HappenedLasts DEF CauseInv, EventsTrue
<1>6. EventsTrue'
  BY <1>1, <1>2, <1>4, <1>5, EventsStayTrue
<1>7. RecordsTrue'
  BY <1>1 DEF CauseInv, RecordsTrue, ToldTheTruth, BackedByStock, Happened, orders, stock,
              shipping
<1>8. QED
  BY <1>3, <1>6, <1>7 DEF CauseInv

\* What is common to the handlers' runs: the run changes what lasts, and what it
\* announces has happened.
LEMMA RunKeepsEvents ==
  ASSUME CauseInv, Lasting, NEW x \in Obligations, x \in pending, NEW returns \in BOOLEAN,
         NEW t \in Types, NEW S, S \subseteq Routed(t, x[2]), Ends(x, S, returns),
         Happened(t, x[2])'
  PROVE  /\ pending' \cup done' \cup dead' \subseteq Obligations
         /\ faults' \in 0 .. MaxFaults
         /\ EventsTrue'
<1>1. x[2] \in Orders
  BY DEF Obligations
<1>2. /\ pending' \cup done' \cup dead' \subseteq Obligations
      /\ faults' \in 0 .. MaxFaults
      /\ Told({t, x[1]}, x[2])
  BY EndsStep DEF CauseInv
<1>3. Happened(x[1], x[2])'
  BY <1>1, HappenedLasts DEF CauseInv, EventsTrue
<1>4. QED
  BY <1>1, <1>2, <1>3, EventsStayTrue

LEMMA SetStatusStep ==
  ASSUME CauseInv, NEW x \in Obligations, NEW returns \in BOOLEAN, SetStatus(x, returns)
  PROVE  CauseInv'
<1>1. /\ x \in pending /\ x[3] = "order"
      /\ status' = [status EXCEPT ![x[2]] = StatusFor[x[1]]]
      /\ Ends(x, {}, returns)
      /\ UNCHANGED <<running, cancelling, cancelled, stock, shipping, notified>>
  BY DEF SetStatus, Handling
<1>2. /\ x[1] \in Types /\ x[2] \in Orders
      /\ x[1] \in {"StockReserved", "StockUnavailable", "ShipmentCreated"}
  BY <1>1 DEF Obligations, Handles
<1>3. /\ StatusFor[x[1]] \in {"CONFIRMED", "CANCELLED", "SHIPPED"}
      /\ StatusFor[x[1]] = "SHIPPED" => x[1] = "ShipmentCreated"
      /\ StatusFor[x[1]] = "CONFIRMED" => x[1] = "StockReserved"
  BY <1>2 DEF StatusFor
<1>4. Lasting
  BY <1>1, <1>2, <1>3 DEF CauseInv, TypeOK, Lasting, stock, shipping
<1>5. Happened(x[1], x[2]) /\ Happened(x[1], x[2])'
  BY <1>1, <1>2, <1>4, HappenedLasts DEF CauseInv, EventsTrue
<1>6. /\ pending' \cup done' \cup dead' \subseteq Obligations
      /\ faults' \in 0 .. MaxFaults /\ EventsTrue'
  BY <1>1, <1>2, <1>4, <1>5, RunKeepsEvents
<1>7. TypeOK'
  BY <1>1, <1>2, <1>3, <1>6 DEF CauseInv, TypeOK, running, stock, shipping
<1>8. /\ status[x[2]] # "none" => status'[x[2]] # "none"
      /\ \A o \in Orders \ {x[2]} : status'[o] = status[o]
      /\ status'[x[2]] = StatusFor[x[1]]
  BY <1>1, <1>2, <1>3 DEF CauseInv, TypeOK
<1>9. BackedByStock'
  <2>1. SUFFICES ASSUME NEW o \in Orders,
                        status'[o] \in {"CONFIRMED", "SHIPPED"} \/ o \in shipments
                 PROVE  o \in reserved \cup cancelled
    BY <1>1 DEF BackedByStock, stock, shipping
  <2>2. CASE o \in shipments \/ o # x[2]
    BY <1>8, <2>1, <2>2 DEF CauseInv, RecordsTrue, BackedByStock
  <2>3. CASE o = x[2] /\ StatusFor[x[1]] = "CONFIRMED"
    BY <1>3, <1>5, <2>3 DEF Happened
  <2>4. CASE o = x[2] /\ StatusFor[x[1]] = "SHIPPED"
    BY <1>2, <1>3, <1>5, <2>4 DEF Happened, CauseInv, RecordsTrue, BackedByStock
  <2>5. QED
    BY <1>8, <2>1, <2>2, <2>3, <2>4
<1>10. ToldTheTruth'
  <2>1. \A o \in Orders : status'[o] = "SHIPPED" => o \in shipments
    <3>1. SUFFICES ASSUME NEW o \in Orders, status'[o] = "SHIPPED" PROVE o \in shipments
      OBVIOUS
    <3>2. CASE o = x[2]
      BY <1>3, <1>5, <1>8, <3>1, <3>2 DEF Happened
    <3>3. CASE o # x[2]
      BY <1>8, <3>1, <3>3 DEF CauseInv, RecordsTrue, ToldTheTruth
    <3>4. QED
      BY <3>2, <3>3
  <2>2. \A n \in notified : n[2] \in Orders
    BY DEF CauseInv, TypeOK
  <2>3. \A n \in notified : Happened(n[1], n[2])'
    BY <1>4, <2>2, HappenedLasts DEF CauseInv, RecordsTrue, ToldTheTruth
  <2>4. QED
    BY <1>1, <2>1, <2>3 DEF ToldTheTruth, stock, shipping
<1>11. QED
  BY <1>6, <1>7, <1>9, <1>10 DEF CauseInv, RecordsTrue

LEMMA ReserveStep ==
  ASSUME CauseInv, NEW x \in Obligations, NEW returns \in BOOLEAN, Reserve(x, returns)
  PROVE  CauseInv'
<1>1. /\ x \in pending
      /\ shelf' = IF Takes(x[2]) THEN shelf - 1 ELSE shelf
      /\ reserved' = IF Takes(x[2]) THEN reserved \cup {x[2]} ELSE reserved
      /\ Ends(x, Outcome(x[2]), returns)
      /\ UNCHANGED <<running, orders, stocked, shipping, notified>>
  BY DEF Reserve, Handling
<1>2. x[2] \in Orders
  BY DEF Obligations
<1>3. Lasting
  BY <1>1 DEF Lasting, orders, shipping
<1>4. PICK t \in {"StockReserved", "StockUnavailable"} :
        /\ Outcome(x[2]) = Routed(t, x[2])
        /\ t = "StockReserved" => x[2] \in reserved \/ Takes(x[2])
  BY DEF Outcome
<1>5. t \in Types
  BY DEF Types, Services, Handles
<1>6. Happened(t, x[2])'
  BY <1>1, <1>4 DEF Happened
<1>7. /\ pending' \cup done' \cup dead' \subseteq Obligations
      /\ faults' \in 0 .. MaxFaults /\ EventsTrue'
  BY <1>1, <1>3, <1>4, <1>5, <1>6, RunKeepsEvents
<1>8. shelf' \in Nat /\ reserved' \subseteq Orders
  BY <1>1, <1>2 DEF CauseInv, TypeOK, Takes
<1>9. TypeOK'
  BY <1>1, <1>7, <1>8 DEF CauseInv, TypeOK, running, orders, shipping
<1>10. RecordsTrue'
  <2>1. \A n \in notified : Happened(n[1], n[2])'
    BY <1>3, HappenedLasts DEF CauseInv, TypeOK, RecordsTrue, ToldTheTruth
  <2>2. QED
    BY <1>1, <2>1
    DEF CauseInv, RecordsTrue, ToldTheTruth, BackedByStock, orders, shipping
<1>11. QED
  BY <1>7, <1>9, <1>10 DEF CauseInv

\* Stock is released only after its order was cancelled.
LEMMA ReleaseStep ==
  ASSUME CauseInv, NEW x \in Obligations, NEW returns \in BOOLEAN, Release(x, returns)
  PROVE  CauseInv'
<1>1. /\ x \in pending /\ x[1] = "OrderCancelled"
      /\ shelf' = IF x[2] \in reserved THEN shelf + 1 ELSE shelf
      /\ reserved' = reserved \ {x[2]}
      /\ Ends(x, {}, returns)
      /\ UNCHANGED <<running, orders, stocked, shipping, notified>>
  BY DEF Release, Handling
<1>2. x[2] \in Orders /\ x[1] \in Types
  BY DEF Obligations
<1>3. x[2] \in cancelled
  BY <1>1 DEF CauseInv, EventsTrue, Happened
<1>4. Lasting
  BY <1>1, <1>3 DEF Lasting, orders, shipping
<1>5. Happened(x[1], x[2])'
  BY <1>1, <1>3 DEF Happened, orders
<1>6. /\ pending' \cup done' \cup dead' \subseteq Obligations
      /\ faults' \in 0 .. MaxFaults /\ EventsTrue'
  BY <1>1, <1>2, <1>4, <1>5, RunKeepsEvents
<1>7. TypeOK'
  BY <1>1, <1>6 DEF CauseInv, TypeOK, running, orders, shipping
<1>8. RecordsTrue'
  <2>1. \A n \in notified : Happened(n[1], n[2])'
    BY <1>4, HappenedLasts DEF CauseInv, TypeOK, RecordsTrue, ToldTheTruth
  <2>2. QED
    BY <1>1, <1>3, <2>1
    DEF CauseInv, RecordsTrue, ToldTheTruth, BackedByStock, orders, shipping
<1>9. QED
  BY <1>6, <1>7, <1>8 DEF CauseInv

LEMMA ShipStep ==
  ASSUME CauseInv, NEW x \in Obligations, NEW returns \in BOOLEAN, Ship(x, returns)
  PROVE  CauseInv'
<1>1. /\ x \in pending /\ x[3] = "shipping"
      /\ shipments' = shipments \cup {x[2]}
      /\ Ends(x, Routed("ShipmentCreated", x[2]), returns)
      /\ UNCHANGED <<running, orders, stock, delivered, notified>>
  BY DEF Ship, Handling
<1>2. x[2] \in Orders /\ x[1] = "StockReserved" /\ "ShipmentCreated" \in Types
  BY <1>1 DEF Obligations, Types, Services, Handles
<1>3. Lasting
  BY <1>1 DEF Lasting, orders, stock
<1>4. Happened("ShipmentCreated", x[2])'
  BY <1>1 DEF Happened
<1>5. /\ pending' \cup done' \cup dead' \subseteq Obligations
      /\ faults' \in 0 .. MaxFaults /\ EventsTrue'
  BY <1>1, <1>2, <1>3, <1>4, RunKeepsEvents
<1>6. TypeOK'
  BY <1>1, <1>2, <1>5 DEF CauseInv, TypeOK, running, orders, stock
<1>7. x[2] \in reserved \cup cancelled
  BY <1>1, <1>2 DEF CauseInv, EventsTrue, Happened
<1>8. RecordsTrue'
  <2>1. \A n \in notified : Happened(n[1], n[2])'
    BY <1>3, HappenedLasts DEF CauseInv, TypeOK, RecordsTrue, ToldTheTruth
  <2>2. QED
    BY <1>1, <1>7, <2>1
    DEF CauseInv, RecordsTrue, ToldTheTruth, BackedByStock, orders, stock
<1>9. QED
  BY <1>5, <1>6, <1>8 DEF CauseInv

LEMMA NotifyStep ==
  ASSUME CauseInv, NEW x \in Obligations, NEW returns \in BOOLEAN, Notify(x, returns)
  PROVE  CauseInv'
<1>1. /\ x \in pending /\ x[3] = "notification"
      /\ notified' = notified \cup {<<x[1], x[2]>>}
      /\ Ends(x, {}, returns)
      /\ UNCHANGED <<running, orders, stock, shipping>>
  BY DEF Notify, Handling, SendNotification
<1>2. x[1] \in Types /\ x[2] \in Orders /\ x[1] \in Handles["notification"]
  BY <1>1 DEF Obligations
<1>3. Lasting
  BY <1>1 DEF Lasting, orders, stock, shipping
<1>4. Happened(x[1], x[2])'
  BY <1>1, <1>2, <1>3, HappenedLasts DEF CauseInv, EventsTrue
<1>5. /\ pending' \cup done' \cup dead' \subseteq Obligations
      /\ faults' \in 0 .. MaxFaults /\ EventsTrue'
  BY <1>1, <1>2, <1>3, <1>4, RunKeepsEvents
<1>6. TypeOK'
  BY <1>1, <1>2, <1>5 DEF CauseInv, TypeOK, running, orders, stock, shipping
<1>7. RecordsTrue'
  <2>1. \A n \in notified : Happened(n[1], n[2])'
    BY <1>3, HappenedLasts DEF CauseInv, TypeOK, RecordsTrue, ToldTheTruth
  <2>2. QED
    BY <1>1, <1>4, <2>1
    DEF CauseInv, RecordsTrue, ToldTheTruth, BackedByStock, orders, stock, shipping
<1>8. QED
  BY <1>5, <1>6, <1>7 DEF CauseInv

LEMMA CauseStep == CauseInv /\ [Next]_vars => CauseInv'
<1>1. SUFFICES ASSUME CauseInv, [Next]_vars PROVE CauseInv'
  OBVIOUS
<1>2. CASE UNCHANGED vars
  BY <1>1, <1>2
  DEF CauseInv, TypeOK, EventsTrue, RecordsTrue, ToldTheTruth, BackedByStock, Happened,
      vars, bus, running, orders, stock, shipping
<1>3. CASE \E s \in Services : Start(s) \/ Crash(s)
  BY <1>1, <1>3, RunningStep
<1>4. CASE \E o \in Orders : PlaceOrder(o) \/ CancelCheck(o) \/ CancelOrder(o) \/ Deliver(o)
  BY <1>1, <1>4, PlaceOrderStep, CancelStep, DeliverStep
<1>5. CASE \E n \in StockLevels : CreateProduct(n)
  BY <1>1, <1>5, ProductStep
<1>6. CASE \E x \in Obligations : RaiseEarly(x) \/ DeadLetter(x)
  BY <1>1, <1>6, FailedRunStep
<1>7. CASE \E x \in Obligations, returns \in BOOLEAN : Run(x, returns)
  BY <1>1, <1>7, SetStatusStep, ReserveStep, ReleaseStep, ShipStep, NotifyStep DEF Run
<1>8. QED
  BY <1>1, <1>2, <1>3, <1>4, <1>5, <1>6, <1>7 DEF Next

LEMMA CauseHolds == Spec => []CauseInv
  BY CauseInit, CauseStep, PTL DEF Spec

-----------------------------------------------------------------------------
(* The theorems.                                                           *)

\* The services' state and the bus keep their types.
THEOREM FulfilmentTypes == Spec => []TypeOK
<1>1. CauseInv => TypeOK
  BY DEF CauseInv
<1>2. QED
  BY <1>1, CauseHolds, PTL

\* Whatever is repeated, reordered, lost to a missing queue, dead-lettered or cut
\* off by a crash, no order is confirmed, shipped or given a shipment unless its
\* stock is reserved or its customer cancelled it (set_status, create_shipment).
THEOREM StockBacks == Spec => []BackedByStock
<1>1. CauseInv => BackedByStock
  BY DEF CauseInv, RecordsTrue
<1>2. QED
  BY <1>1, CauseHolds, PTL

\* No order is SHIPPED and no notification recorded before what they tell the
\* customer was committed (set_status, send_notification).
THEOREM TruthTold == Spec => []ToldTheTruth
<1>1. CauseInv => ToldTheTruth
  BY DEF CauseInv, RecordsTrue
<1>2. QED
  BY <1>1, CauseHolds, PTL
=============================================================================
