--------------------------- MODULE ShippingProofs ---------------------------
(***************************************************************************)
(* Proofs about Shipping for any orders, deliveries and PATCH requests.    *)
(***************************************************************************)
EXTENDS Shipping, TLAPS

\* At most one INSERT is uncommitted, that of a delivery that will commit it or
\* roll it back, and its order has no shipment: PostgreSQL lets no other INSERT of
\* an empty tracking number, or of the order_id, pass before it ends.
OneUncommitted ==
  /\ \A s, t \in pending : s = t
  /\ \A s \in pending : pc[s] = "commit" /\ ShipmentOf(OrderOf[s]) = {}
  /\ \A d \in Deliveries : pc[d] = "commit" => d \in pending

\* What a handler run is about to announce is a committed shipment of its order.
AnnouncesCommitted ==
  \A d \in Deliveries :
    pc[d] = "publish" => \A s \in shipment[d] : s \in shipments /\ OrderOf[s] = OrderOf[d]

TableInv ==
  /\ TypeOK
  /\ OneUncommitted /\ OneShipmentPerOrder
  /\ AnnouncesCommitted /\ AnnouncedTheOne

LEMMA TableInit == Init => TableInv
  BY DEF Init, TableInv, TypeOK, Statuses, OneUncommitted, OneShipmentPerOrder,
         AnnouncesCommitted, AnnouncedTheOne, ShipmentOf

\* create_shipment as far as the flush.
LEMMA BeginStep ==
  ASSUME TableInv, NEW d \in Deliveries, Begin(d)
  PROVE  TableInv'
<1>1. CASE Existing(d)
  <2>1. TypeOK'
    BY <1>1 DEF Existing, TableInv, TypeOK, ShipmentOf, table, patching, events
  <2>2. OneUncommitted' /\ OneShipmentPerOrder' /\ AnnouncedTheOne'
    BY <1>1 DEF Existing, TableInv, TypeOK, OneUncommitted, OneShipmentPerOrder,
                AnnouncedTheOne, ShipmentOf, table, events
  <2>3. AnnouncesCommitted'
    BY <1>1 DEF Existing, TableInv, TypeOK, AnnouncesCommitted, ShipmentOf, table
  <2>4. QED
    BY <2>1, <2>2, <2>3 DEF TableInv
<1>2. CASE Missing(d)
  <2>1. TypeOK'
    BY <1>2 DEF Missing, TableInv, TypeOK, table, patching, events
  <2>2. OneUncommitted' /\ OneShipmentPerOrder' /\ AnnouncedTheOne' /\ AnnouncesCommitted'
    BY <1>2 DEF Missing, TableInv, TypeOK, OneUncommitted, OneShipmentPerOrder,
                AnnouncesCommitted, AnnouncedTheOne, ShipmentOf, table, events
  <2>3. QED
    BY <2>1, <2>2 DEF TableInv
<1>3. QED
  BY <1>1, <1>2 DEF Begin

LEMMA InsertStep ==
  ASSUME TableInv, NEW d \in Deliveries, Insert(d) \/ InsertConflict(d)
  PROVE  TableInv'
<1>1. TypeOK'
  BY DEF Insert, InsertConflict, TableInv, TypeOK, table, patching, events
<1>2. CASE Insert(d)
  BY <1>1, <1>2
  DEF Insert, TableInv, TypeOK, OneUncommitted, OneShipmentPerOrder, AnnouncesCommitted,
      AnnouncedTheOne, ShipmentOf, events
<1>3. CASE InsertConflict(d)
  BY <1>1, <1>3
  DEF InsertConflict, TableInv, TypeOK, OneUncommitted, OneShipmentPerOrder,
      AnnouncesCommitted, AnnouncedTheOne, ShipmentOf, table, events
<1>4. QED
  BY <1>2, <1>3

\* The commit: no other shipment of the order can have come in since the flush.
LEMMA CommitStep ==
  ASSUME TableInv, NEW d \in Deliveries, Commit(d)
  PROVE  TableInv'
<1>1. /\ pc[d] = "commit" /\ pending' = pending \ {d} /\ shipments' = shipments \cup {d}
      /\ shipment' = [shipment EXCEPT ![d] = {d}]
      /\ pc' = [pc EXCEPT ![d] = "publish"]
      /\ UNCHANGED <<status, patching, events, arrived>>
  BY DEF Commit
<1>2. d \in pending /\ ShipmentOf(OrderOf[d]) = {}
  BY <1>1 DEF TableInv, OneUncommitted
<1>3. pending' = {}
  BY <1>1, <1>2 DEF TableInv, OneUncommitted
<1>4. TypeOK'
  BY <1>1 DEF TableInv, TypeOK, patching, events
<1>5. OneUncommitted'
  BY <1>1, <1>2, <1>3 DEF TableInv, TypeOK, OneUncommitted
<1>6. OneShipmentPerOrder'
  BY <1>1, <1>2 DEF TableInv, OneShipmentPerOrder, ShipmentOf
<1>7. AnnouncesCommitted'
  BY <1>1 DEF TableInv, TypeOK, AnnouncesCommitted
<1>8. AnnouncedTheOne'
  BY <1>1 DEF TableInv, AnnouncedTheOne, events
<1>9. QED
  BY <1>4, <1>5, <1>6, <1>7, <1>8 DEF TableInv

LEMMA PublishStep ==
  ASSUME TableInv, NEW d \in Deliveries, PublishCreated(d)
  PROVE  TableInv'
<1>1. /\ pc[d] = "publish"
      /\ created' = created \cup {<<OrderOf[d], s>> : s \in shipment[d]}
      /\ pc' = [pc EXCEPT ![d] = "done"]
      /\ UNCHANGED <<table, shipment, patching, delivered, arrived>>
  BY DEF PublishCreated
<1>2. \A s \in shipment[d] : s \in shipments /\ OrderOf[s] = OrderOf[d]
  BY <1>1 DEF TableInv, AnnouncesCommitted
<1>3. TypeOK'
  <2>1. OrderOf[d] \in Orders /\ shipment[d] \subseteq Deliveries
    BY ShippingAssumption DEF TableInv, TypeOK
  <2>2. QED
    BY <1>1, <2>1 DEF TableInv, TypeOK, table, patching
<1>4. OneUncommitted' /\ OneShipmentPerOrder' /\ AnnouncesCommitted'
  BY <1>1 DEF TableInv, TypeOK, OneUncommitted, OneShipmentPerOrder, AnnouncesCommitted,
              ShipmentOf, table
<1>5. \A e \in created' : e[2] \in shipments /\ OrderOf[e[2]] = e[1]
  BY <1>1, <1>2 DEF TableInv, AnnouncedTheOne
<1>6. AnnouncedTheOne'
  BY <1>1, <1>5 DEF AnnouncedTheOne, TableInv, OneShipmentPerOrder, table
<1>7. QED
  BY <1>3, <1>4, <1>6 DEF TableInv

LEMMA FailStep ==
  ASSUME TableInv, NEW d \in Deliveries, Fail(d)
  PROVE  TableInv'
<1>1. TypeOK'
  BY DEF Fail, TableInv, TypeOK, patching, events
<1>2. OneUncommitted'
  BY DEF Fail, TableInv, TypeOK, OneUncommitted, ShipmentOf
<1>3. OneShipmentPerOrder' /\ AnnouncesCommitted' /\ AnnouncedTheOne'
  BY DEF Fail, TableInv, TypeOK, OneShipmentPerOrder, AnnouncesCommitted, AnnouncedTheOne,
         events
<1>4. QED
  BY <1>1, <1>2, <1>3 DEF TableInv

\* The PATCH route changes neither which shipments there are nor what announces them.
LEMMA PatchStep ==
  ASSUME TableInv, NEW u \in Patches,
         Update(u) \/ PatchFails(u) \/ \E s \in Deliveries : PatchRead(u, s)
  PROVE  TableInv'
<1>1. /\ NewStatus[u] \in Statuses
      /\ \A t \in target[u] : t[1] \in Deliveries
  BY ShippingAssumption DEF TableInv, TypeOK
<1>2. UNCHANGED <<shipments, pending, handler, created>>
  BY DEF Update, PatchCommit, PatchInvalidate, PublishDelivered, PatchFails, PatchRead,
         table, events
<1>3. TypeOK'
  <2>1. CASE PatchCommit(u)
    BY <1>1, <2>1 DEF PatchCommit, TableInv, TypeOK, handler, events
  <2>2. CASE PatchInvalidate(u) \/ PatchFails(u)
    BY <2>2 DEF PatchInvalidate, PatchFails, TableInv, TypeOK, table, handler, events
  <2>3. CASE PublishDelivered(u)
    BY <1>1, <2>3 DEF PublishDelivered, TableInv, TypeOK, table, handler
  <2>4. CASE \E s \in Deliveries : PatchRead(u, s)
    BY <2>4 DEF PatchRead, TableInv, TypeOK, table, handler, events
  <2>5. QED
    BY <2>1, <2>2, <2>3, <2>4 DEF Update
<1>4. QED
  BY <1>2, <1>3 DEF TableInv, OneUncommitted, OneShipmentPerOrder, AnnouncesCommitted,
                    AnnouncedTheOne, ShipmentOf, handler

LEMMA TableStep == TableInv /\ [Next]_vars => TableInv'
<1>1. SUFFICES ASSUME TableInv, [Next]_vars PROVE TableInv'
  OBVIOUS
<1>2. CASE UNCHANGED <<table, handler, patching, events, arrived>>
  BY <1>1, <1>2 DEF TableInv, TypeOK, OneUncommitted, OneShipmentPerOrder,
     AnnouncesCommitted, AnnouncedTheOne, ShipmentOf, table, handler, patching, events
<1>3. UNCHANGED vars => UNCHANGED <<table, handler, patching, events, arrived>>
  BY DEF vars
<1>4. ASSUME \/ \E r \in Readers, s \in Deliveries : Read(r, s)
             \/ \E r \in Readers : FillEntry(r)
             \/ \E s \in Deliveries : ExpireEntry(s)
      PROVE  UNCHANGED <<table, handler, patching, events, arrived>>
  BY <1>4 DEF Read, FillEntry, ExpireEntry
<1>5. ASSUME NEW d \in Deliveries, Begin(d) \/ Create(d) \/ Fail(d)
      PROVE  TableInv'
  BY <1>1, <1>5, BeginStep, InsertStep, CommitStep, PublishStep, FailStep DEF Create
<1>6. ASSUME NEW u \in Patches, Update(u) \/ PatchFails(u) \/ \E s \in Deliveries : PatchRead(u, s)
      PROVE  TableInv'
  BY <1>1, <1>6, PatchStep
<1>7. QED
  BY <1>1, <1>2, <1>3, <1>4, <1>5, <1>6 DEF Next

LEMMA TableHolds == Spec => []TableInv
  BY TableInit, TableStep, PTL DEF Spec

-----------------------------------------------------------------------------
(* Deliveries.                                                             *)

\* A shipment that is DELIVERED has arrived, and one that is not committed has the
\* status it is created with.
StatusArrived ==
  /\ \A s \in shipments : status[s] = "DELIVERED" => s \in arrived
  /\ \A s \in Deliveries \ shipments : status[s] = "CREATED"

\* What a request is about to announce was DELIVERED in the database: it wrote that
\* itself, or it read it before.
AnnouncesArrived ==
  \A u \in Patches : \A t \in target[u] :
    /\ t[1] \in shipments /\ target[u] = {t}
    /\ patch[u] = "write" /\ t[2] = "DELIVERED" => t[1] \in arrived
    /\ patch[u] \in {"invalidate", "publish"} /\ NewStatus[u] = "DELIVERED" =>
         t[1] \in arrived

\* Only a request that sets DELIVERED publishes.
OnlyDelivered == \A u \in Patches : patch[u] = "publish" => NewStatus[u] = "DELIVERED"

ArrivedInv == StatusArrived /\ AnnouncesArrived /\ OnlyDelivered /\ DeliveredArrived

LEMMA ArrivedInit == Init => ArrivedInv
  BY DEF Init, ArrivedInv, StatusArrived, AnnouncesArrived, OnlyDelivered, DeliveredArrived

LEMMA PatchReadArrived ==
  ASSUME TableInv, ArrivedInv, NEW u \in Patches, NEW s \in Deliveries, PatchRead(u, s)
  PROVE  ArrivedInv'
<1>1. /\ s \in shipments
      /\ target' = [target EXCEPT ![u] = {<<s, status[s]>>}]
      /\ patch' = [patch EXCEPT ![u] = "write"]
      /\ UNCHANGED <<table, handler, events, arrived>>
  BY DEF PatchRead
<1>2. AnnouncesArrived'
  <2>1. SUFFICES ASSUME NEW v \in Patches, NEW t \in target'[v]
                 PROVE  /\ t[1] \in shipments /\ target'[v] = {t}
                        /\ patch'[v] = "write" /\ t[2] = "DELIVERED" => t[1] \in arrived
                        /\ patch'[v] \in {"invalidate", "publish"} /\ NewStatus[v] = "DELIVERED"
                             => t[1] \in arrived
    BY <1>1 DEF AnnouncesArrived, table
  <2>2. CASE v = u
    BY <1>1, <2>2 DEF TableInv, TypeOK, ArrivedInv, StatusArrived
  <2>3. CASE v # u
    BY <1>1, <2>3 DEF TableInv, TypeOK, ArrivedInv, AnnouncesArrived
  <2>4. QED
    BY <2>2, <2>3
<1>3. QED
  BY <1>1, <1>2
  DEF TableInv, TypeOK, ArrivedInv, StatusArrived, OnlyDelivered, DeliveredArrived, table, events

LEMMA PatchCommitArrived ==
  ASSUME TableInv, ArrivedInv, NEW u \in Patches, PatchCommit(u)
  PROVE  ArrivedInv'
<1>1. /\ patch[u] = "write" /\ patch' = [patch EXCEPT ![u] = "invalidate"]
      /\ UNCHANGED <<shipments, target, events>>
  BY DEF PatchCommit
<1>2. PICK t \in target[u] :
        IF t[2] = NewStatus[u]
          THEN UNCHANGED <<status, arrived>>
          ELSE /\ status' = [status EXCEPT ![t[1]] = NewStatus[u]]
               /\ arrived' = IF NewStatus[u] = "DELIVERED" THEN arrived \cup {t[1]} ELSE arrived
  BY DEF PatchCommit
<1>3. t[1] \in Deliveries /\ t[1] \in shipments /\ target[u] = {t}
  BY DEF TableInv, TypeOK, ArrivedInv, AnnouncesArrived
<1>4. arrived \subseteq arrived'
  BY <1>2
<1>5. NewStatus[u] = "DELIVERED" => t[1] \in arrived'
  BY <1>1, <1>2 DEF ArrivedInv, AnnouncesArrived
<1>6. StatusArrived'
  BY <1>1, <1>2, <1>3, <1>4, <1>5 DEF TableInv, TypeOK, ArrivedInv, StatusArrived
<1>7. AnnouncesArrived'
  <2>1. SUFFICES ASSUME NEW v \in Patches, NEW tt \in target[v]
                 PROVE  /\ tt[1] \in shipments /\ target[v] = {tt}
                        /\ patch'[v] = "write" /\ tt[2] = "DELIVERED" => tt[1] \in arrived'
                        /\ patch'[v] \in {"invalidate", "publish"} /\ NewStatus[v] = "DELIVERED"
                             => tt[1] \in arrived'
    BY <1>1 DEF AnnouncesArrived
  <2>2. CASE v = u
    BY <1>1, <1>3, <1>5, <2>2 DEF TableInv, TypeOK
  <2>3. CASE v # u
    BY <1>1, <1>4, <2>3 DEF TableInv, TypeOK, ArrivedInv, AnnouncesArrived
  <2>4. QED
    BY <2>2, <2>3
<1>8. QED
  BY <1>1, <1>4, <1>6, <1>7
  DEF TableInv, TypeOK, ArrivedInv, OnlyDelivered, DeliveredArrived, events

\* The rest of the PATCH route.
LEMMA PatchEndArrived ==
  ASSUME TableInv, ArrivedInv, NEW u \in Patches,
         PatchInvalidate(u) \/ PublishDelivered(u) \/ PatchFails(u)
  PROVE  ArrivedInv'
<1>1. CASE PatchInvalidate(u)
  BY <1>1 DEF PatchInvalidate, TableInv, TypeOK, ArrivedInv, StatusArrived,
              AnnouncesArrived, OnlyDelivered, DeliveredArrived, table, events
<1>2. CASE PublishDelivered(u)
  <2>1. /\ patch[u] = "publish" /\ patch' = [patch EXCEPT ![u] = "done"]
        /\ delivered' = delivered \cup {t[1] : t \in target[u]}
        /\ UNCHANGED <<table, target, arrived>>
    BY <1>2 DEF PublishDelivered
  <2>2. AnnouncesArrived' /\ StatusArrived' /\ OnlyDelivered'
    BY <2>1 DEF TableInv, TypeOK, ArrivedInv, StatusArrived, AnnouncesArrived,
                OnlyDelivered, table
  <2>3. QED
    BY <2>1, <2>2 DEF ArrivedInv, AnnouncesArrived, OnlyDelivered, DeliveredArrived
<1>3. CASE PatchFails(u)
  BY <1>3 DEF PatchFails, TableInv, TypeOK, ArrivedInv, StatusArrived, AnnouncesArrived,
              OnlyDelivered, DeliveredArrived, table, events
<1>4. QED
  BY <1>1, <1>2, <1>3

\* create_shipment makes shipments that are CREATED.
LEMMA CreateArrived ==
  ASSUME TableInv, ArrivedInv, NEW d \in Deliveries, Begin(d) \/ Create(d) \/ Fail(d)
  PROVE  ArrivedInv'
<1>1. UNCHANGED <<status, patching, delivered, arrived>>
  BY DEF Begin, Existing, Missing, Create, Insert, InsertConflict, Commit, PublishCreated,
         Fail, table, events
<1>2. shipments' = shipments \/ shipments' = shipments \cup {d}
  BY DEF Begin, Existing, Missing, Create, Insert, InsertConflict, Commit, PublishCreated,
         Fail, table
<1>3. StatusArrived'
  BY <1>1, <1>2 DEF ArrivedInv, StatusArrived
<1>4. AnnouncesArrived' /\ OnlyDelivered' /\ DeliveredArrived'
  BY <1>1, <1>2 DEF ArrivedInv, AnnouncesArrived, OnlyDelivered, DeliveredArrived, patching
<1>5. QED
  BY <1>3, <1>4 DEF ArrivedInv

LEMMA ArrivedStep == TableInv /\ ArrivedInv /\ [Next]_vars => ArrivedInv'
<1>1. SUFFICES ASSUME TableInv, ArrivedInv, [Next]_vars PROVE ArrivedInv'
  OBVIOUS
<1>2. CASE UNCHANGED <<table, handler, patching, events, arrived>>
  BY <1>1, <1>2 DEF ArrivedInv, StatusArrived, AnnouncesArrived, OnlyDelivered,
     DeliveredArrived, table, patching, events
<1>3. UNCHANGED vars => UNCHANGED <<table, handler, patching, events, arrived>>
  BY DEF vars
<1>4. ASSUME \/ \E r \in Readers, s \in Deliveries : Read(r, s)
             \/ \E r \in Readers : FillEntry(r)
             \/ \E s \in Deliveries : ExpireEntry(s)
      PROVE  UNCHANGED <<table, handler, patching, events, arrived>>
  BY <1>4 DEF Read, FillEntry, ExpireEntry
<1>5. ASSUME NEW u \in Patches, Update(u) \/ PatchFails(u)
      PROVE  ArrivedInv'
  BY <1>1, <1>5, PatchCommitArrived, PatchEndArrived DEF Update
<1>6. QED
  BY <1>1, <1>2, <1>3, <1>4, <1>5, CreateArrived, PatchReadArrived DEF Next

LEMMA ArrivedHolds == Spec => []ArrivedInv
  BY TableHolds, ArrivedInit, ArrivedStep, PTL DEF Spec

-----------------------------------------------------------------------------
(* The theorems.                                                           *)

\* The shipping service keeps its types.
THEOREM ShippingTypes == Spec => []TypeOK
<1>1. TableInv => TypeOK
  BY DEF TableInv
<1>2. QED
  BY <1>1, TableHolds, PTL

\* However many copies of StockReserved are handled at once and wherever they
\* fail, an order has at most one shipment (create_shipment).
THEOREM OneShipment == Spec => []OneShipmentPerOrder
<1>1. TableInv => OneShipmentPerOrder
  BY DEF TableInv
<1>2. QED
  BY <1>1, TableHolds, PTL

\* Whatever ShipmentCreated is published about an order names its one committed
\* shipment (_on_stock_reserved).
THEOREM OneAnnounced == Spec => []AnnouncedTheOne
<1>1. TableInv => AnnouncedTheOne
  BY DEF TableInv
<1>2. QED
  BY <1>1, TableHolds, PTL

\* ShipmentDelivered is published only of a shipment that was DELIVERED in the
\* database, for any number of racing updates (update_shipment_status).
THEOREM DeliveredTrue == Spec => []DeliveredArrived
<1>1. ArrivedInv => DeliveredArrived
  BY DEF ArrivedInv
<1>2. QED
  BY <1>1, ArrivedHolds, PTL
=============================================================================
