------------------------------ MODULE Shipping ------------------------------
(***************************************************************************)
(* The shipping service: the StockReserved handler that creates shipments, *)
(* and the routes that read a shipment and update its status               *)
(* (services/shipping/app).                                                *)
(*                                                                         *)
(* A delivery is one run of the handler; several may carry the same order  *)
(* and overlap.  A shipment is named by the delivery that inserted it.     *)
(* The table has unique indexes on order_id and on tracking_number, and    *)
(* every INSERT starts with the empty tracking number: PostgreSQL makes an *)
(* INSERT wait for an uncommitted row with the same key, so there is one   *)
(* uncommitted shipment at a time; after the wait, an order_id that is     *)
(* taken is an IntegrityError.                                             *)
(***************************************************************************)
EXTENDS CacheAside, FiniteSets

CONSTANTS
  Orders,
  Deliveries,   \* runs of the StockReserved handler
  OrderOf,      \* OrderOf[d]: the order of the event delivered
  Patches,      \* PATCH requests
  NewStatus     \* NewStatus[u]: the status a request sets

Statuses == {"CREATED", "PICKED_UP", "IN_TRANSIT", "DELIVERED"}

ASSUME ShippingAssumption ==
  /\ Keys = Deliveries
  /\ OrderOf \in [Deliveries -> Orders]
  /\ NewStatus \in [Patches -> Statuses]

VARIABLES
  shipments,   \* committed shipments, each named by its delivery
  pending,     \* inserted shipments not yet committed
  status,      \* status[s]: status of shipment s
  pc,          \* pc[d]: where delivery d is
  shipment,    \* shipment[d]: the shipment d will announce, as a set
  patch,       \* patch[u]: where request u is
  target,      \* target[u]: the shipment u updates and the status it read, as a set
  created,     \* ShipmentCreated events published: <<order, shipment>>
  delivered,   \* ShipmentDelivered events published, by shipment
  arrived      \* history: shipments whose status was ever DELIVERED

table == <<shipments, pending, status>>
handler == <<pc, shipment>>
patching == <<patch, target>>
events == <<created, delivered>>
vars == <<table, handler, patching, events, arrived, cacheVars>>

ShipmentOf(o) == {s \in shipments : OrderOf[s] = o}

TypeOK ==
  /\ shipments \subseteq Deliveries
  /\ pending \subseteq Deliveries
  /\ status \in [Deliveries -> Statuses]
  /\ pc \in [Deliveries -> {"idle", "insert", "commit", "publish", "done", "failed"}]
  /\ shipment \in [Deliveries -> SUBSET Deliveries]
  /\ patch \in [Patches -> {"idle", "write", "invalidate", "publish", "done", "failed"}]
  /\ target \in [Patches -> SUBSET (Deliveries \X Statuses)]
  /\ created \subseteq Orders \X Deliveries
  /\ delivered \subseteq Deliveries
  /\ arrived \subseteq Deliveries

Init ==
  /\ shipments = {}
  /\ pending = {}
  /\ status = [s \in Deliveries |-> "CREATED"]
  /\ pc = [d \in Deliveries |-> "idle"]
  /\ shipment = [d \in Deliveries |-> {}]
  /\ patch = [u \in Patches |-> "idle"]
  /\ target = [u \in Patches |-> {}]
  /\ created = {}
  /\ delivered = {}
  /\ arrived = {}
  /\ CacheInit

-----------------------------------------------------------------------------
(* create_shipment: the order already has a shipment, which is returned.   *)
Existing(d) ==
  /\ pc[d] = "idle"
  /\ ShipmentOf(OrderOf[d]) # {}
  /\ shipment' = [shipment EXCEPT ![d] = ShipmentOf(OrderOf[d])]
  /\ pc' = [pc EXCEPT ![d] = "publish"]
  /\ UNCHANGED <<table, patching, events, arrived, cacheVars>>

(* There is none: go on to the INSERT.                                     *)
Missing(d) ==
  /\ pc[d] = "idle"
  /\ ShipmentOf(OrderOf[d]) = {}
  /\ pc' = [pc EXCEPT ![d] = "insert"]
  /\ UNCHANGED <<table, shipment, patching, events, arrived, cacheVars>>

\* Mutant of Insert: there is no unique index on order_id.
InsertNotUnique(d) ==
  /\ pc[d] = "insert"
  /\ pending = {}
  /\ pending' = {d}
  /\ pc' = [pc EXCEPT ![d] = "commit"]
  /\ UNCHANGED <<shipments, status, shipment, patching, events, arrived, cacheVars>>

(* flush: the INSERT succeeds and assigns the id.                          *)
Insert(d) ==
  /\ pc[d] = "insert"
  /\ pending = {}
  /\ ShipmentOf(OrderOf[d]) = {}
  /\ pending' = {d}
  /\ pc' = [pc EXCEPT ![d] = "commit"]
  /\ UNCHANGED <<shipments, status, shipment, patching, events, arrived, cacheVars>>

(* flush: the order_id is taken, IntegrityError leaves the handler.        *)
InsertConflict(d) ==
  /\ pc[d] = "insert"
  /\ pending = {}
  /\ ShipmentOf(OrderOf[d]) # {}
  /\ pc' = [pc EXCEPT ![d] = "failed"]
  /\ UNCHANGED <<table, shipment, patching, events, arrived, cacheVars>>

\* Mutant of Commit: the commit after the flush is missing.
FlushOnly(d) ==
  /\ pc[d] = "commit"
  /\ pending' = pending \ {d}
  /\ shipment' = [shipment EXCEPT ![d] = {d}]
  /\ pc' = [pc EXCEPT ![d] = "publish"]
  /\ UNCHANGED <<shipments, status, patching, events, arrived, cacheVars>>

(* The tracking number is set and the shipment committed.                  *)
Commit(d) ==
  /\ pc[d] = "commit"
  /\ pending' = pending \ {d}
  /\ shipments' = shipments \cup {d}
  /\ shipment' = [shipment EXCEPT ![d] = {d}]
  /\ pc' = [pc EXCEPT ![d] = "publish"]
  /\ UNCHANGED <<status, patching, events, arrived, cacheVars>>

\* Mutant of PublishCreated: the shipment id and the order id are swapped.
PublishSwapped(d) ==
  /\ pc[d] = "publish"
  /\ created' = created \cup {<<s, OrderOf[d]>> : s \in shipment[d]}
  /\ pc' = [pc EXCEPT ![d] = "done"]
  /\ UNCHANGED <<table, shipment, patching, delivered, arrived, cacheVars>>

(* _on_stock_reserved publishes ShipmentCreated and returns.               *)
PublishCreated(d) ==
  /\ pc[d] = "publish"
  /\ created' = created \cup {<<OrderOf[d], s>> : s \in shipment[d]}
  /\ pc' = [pc EXCEPT ![d] = "done"]
  /\ UNCHANGED <<table, shipment, patching, delivered, arrived, cacheVars>>

(* The handler raises at an await, or its process dies: rollback.          *)
Fail(d) ==
  /\ pc[d] \in {"insert", "commit", "publish"}
  /\ pending' = pending \ {d}
  /\ pc' = [pc EXCEPT ![d] = "failed"]
  /\ UNCHANGED <<shipments, status, shipment, patching, events, arrived, cacheVars>>

-----------------------------------------------------------------------------
(* update_shipment_status: the route reads the shipment (404 if there is   *)
(* none: no change) ...                                                    *)
PatchRead(u, s) ==
  /\ patch[u] = "idle"
  /\ s \in shipments
  /\ target' = [target EXCEPT ![u] = {<<s, status[s]>>}]
  /\ patch' = [patch EXCEPT ![u] = "write"]
  /\ UNCHANGED <<table, handler, events, arrived, cacheVars>>

\* Mutant of PatchCommit: the commit is missing.
PatchNotCommitted(u) ==
  /\ patch[u] = "write"
  /\ patch' = [patch EXCEPT ![u] = "invalidate"]
  /\ UNCHANGED <<table, handler, target, events, arrived, cacheVars>>

(* ... update_status assigns the new status and commits; the session sends *)
(* no UPDATE when the value is the one it read ...                         *)
PatchCommit(u) ==
  /\ patch[u] = "write"
  /\ \E t \in target[u] :
       IF t[2] = NewStatus[u]
         THEN UNCHANGED <<status, arrived>>
         ELSE /\ status' = [status EXCEPT ![t[1]] = NewStatus[u]]
              /\ arrived' = IF NewStatus[u] = "DELIVERED" THEN arrived \cup {t[1]} ELSE arrived
  /\ patch' = [patch EXCEPT ![u] = "invalidate"]
  /\ UNCHANGED <<shipments, pending, handler, target, events, cacheVars>>

(* ... invalidates the cache entry ...                                     *)
PatchInvalidate(u) ==
  /\ patch[u] = "invalidate"
  /\ \E t \in target[u] : Invalidated(t[1])
  /\ patch' = [patch EXCEPT ![u] = IF NewStatus[u] = "DELIVERED" THEN "publish" ELSE "done"]
  /\ UNCHANGED <<table, handler, target, events, arrived, request>>

(* ... and the route publishes ShipmentDelivered.                          *)
PublishDelivered(u) ==
  /\ patch[u] = "publish"
  /\ delivered' = delivered \cup {t[1] : t \in target[u]}
  /\ patch' = [patch EXCEPT ![u] = "done"]
  /\ UNCHANGED <<table, handler, target, created, arrived, cacheVars>>

(* The request fails at an await, or its process dies.                     *)
PatchFails(u) ==
  /\ patch[u] \in {"write", "invalidate", "publish"}
  /\ patch' = [patch EXCEPT ![u] = "failed"]
  /\ UNCHANGED <<table, handler, target, events, arrived, cacheVars>>

(* get_shipment, the GET route.                                            *)
Read(r, s) ==
  /\ \/ Miss(r, s)
     \/ s \in shipments /\ Load(r, s, status[s])
     \/ s \notin shipments /\ NotFound(r, s)
  /\ UNCHANGED <<table, handler, patching, events, arrived>>

FillEntry(r) == Fill(r) /\ UNCHANGED <<table, handler, patching, events, arrived>>
ExpireEntry(s) == Expire(s) /\ UNCHANGED <<table, handler, patching, events, arrived>>

Begin(d) == Existing(d) \/ Missing(d)
Create(d) == Insert(d) \/ InsertConflict(d) \/ Commit(d) \/ PublishCreated(d)
Update(u) == PatchCommit(u) \/ PatchInvalidate(u) \/ PublishDelivered(u)

Next ==
  \/ \E d \in Deliveries : Begin(d) \/ Create(d) \/ Fail(d)
  \/ \E u \in Patches, s \in Deliveries : PatchRead(u, s)
  \/ \E u \in Patches : Update(u) \/ PatchFails(u)
  \/ \E r \in Readers, s \in Deliveries : Read(r, s)
  \/ \E r \in Readers : FillEntry(r)
  \/ \E s \in Deliveries : ExpireEntry(s)

Spec == Init /\ [][Next]_vars

\* The event loop resumes what has begun, a waiting INSERT goes on once the row
\* it waits for is committed or rolled back, and Redis expires entries.
FairSpec ==
  /\ Spec
  /\ \A d \in Deliveries : WF_vars(Create(d))
  /\ \A u \in Patches : WF_vars(Update(u))
  /\ \A s \in Deliveries : WF_vars(ExpireEntry(s))

-----------------------------------------------------------------------------
(* Properties.                                                             *)

\* An order has at most one shipment, however many copies of StockReserved are
\* handled at once: the check of create_shipment is not locked, but the unique
\* index on order_id turns the second INSERT into an error (README, Idempotency).
OneShipmentPerOrder == \A s, t \in shipments : OrderOf[s] = OrderOf[t] => s = t

\* Every ShipmentCreated of an order, first or repeated, announces one and the
\* same shipment, and that shipment is committed: a retry after a failure
\* between commit and publish finds the first one (_on_stock_reserved).
AnnouncedTheOne ==
  /\ \A e \in created : e[2] \in shipments /\ OrderOf[e[2]] = e[1]
  /\ \A e, f \in created : e[1] = f[1] => e[2] = f[2]

\* ShipmentDelivered is published only for a shipment whose status has been
\* DELIVERED in the database, whatever other updates race with the request and
\* although a request that read DELIVERED writes nothing (update_shipment_status).
DeliveredArrived == delivered \subseteq arrived

\* A stale shipment is not served for ever: the cache ends up agreeing with the
\* database (cache.py, set_json; update_status, get_shipment).
CacheCatchesUp == <>[](\A s \in Deliveries : entry[s] \subseteq {status[s]})
=============================================================================
