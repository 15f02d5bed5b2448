---------------------------- MODULE OrderService ----------------------------
(***************************************************************************)
(* The order service: the routes that create, cancel and read an order,    *)
(* and the handlers of StockReserved, StockUnavailable and ShipmentCreated *)
(* (services/order/app).                                                   *)
(*                                                                         *)
(* A delivery is one run of a handler; deliveries overlap and may repeat   *)
(* an event.  Both cancel_order and set_status read the order in one       *)
(* transaction step and write it in a later one, with no lock and no       *)
(* condition on the UPDATE.  An event about an order is delivered only     *)
(* after its OrderCreated was published; which ones arrive is given by     *)
(* Deliveries.                                                             *)
(***************************************************************************)
EXTENDS CacheAside, FiniteSets

CONSTANTS
  Orders,       \* orders that may be placed
  Deliveries,   \* handler runs
  OrderOf,      \* OrderOf[d]: the order of the event delivered
  Kind,         \* Kind[d]: its event type
  Cancels,      \* cancel requests
  CancelOf      \* CancelOf[c]: the order a request wants to cancel

Statuses == {"PENDING", "CONFIRMED", "SHIPPED", "DELIVERED", "CANCELLED"}

\* The status each handler passes to set_status.
StatusFor == [StockReserved |-> "CONFIRMED", StockUnavailable |-> "CANCELLED",
              ShipmentCreated |-> "SHIPPED"]

ASSUME OrderAssumption ==
  /\ Keys = Orders
  /\ OrderOf \in [Deliveries -> Orders]
  /\ Kind \in [Deliveries -> DOMAIN StatusFor]
  /\ CancelOf \in [Cancels -> Orders]

VARIABLES
  status,      \* status[o], "none" before the order is committed
  placing,     \* placing[o]: where the create request of o is
  pc,          \* pc[d]: where handler run d is
  cancel,      \* cancel[c]: where cancel request c is
  published,   \* events published: <<type, order>>
  cancelled    \* history: orders a cancel request has set to CANCELLED

requests == <<placing, cancel>>
vars == <<status, requests, pc, published, cancelled, cacheVars>>

TypeOK ==
  /\ status \in [Orders -> Statuses \cup {"none"}]
  /\ placing \in [Orders -> {"idle", "publish", "done", "failed"}]
  /\ pc \in [Deliveries -> {"idle", "write", "invalidate", "done", "failed"}]
  /\ cancel \in [Cancels -> {"idle", "write", "invalidate", "publish", "done", "failed"}]
  /\ published \subseteq {"OrderCreated", "OrderCancelled"} \X Orders
  /\ cancelled \subseteq Orders

Init ==
  /\ status = [o \in Orders |-> "none"]
  /\ placing = [o \in Orders |-> "idle"]
  /\ pc = [d \in Deliveries |-> "idle"]
  /\ cancel = [c \in Cancels |-> "idle"]
  /\ published = {}
  /\ cancelled = {}
  /\ CacheInit

-----------------------------------------------------------------------------
\* Mutant of CreateOrder: the commit is missing.
CreateNotCommitted(o) ==
  /\ placing[o] = "idle"
  /\ placing' = [placing EXCEPT ![o] = "publish"]
  /\ UNCHANGED <<status, pc, cancel, published, cancelled, cacheVars>>

(* create_order commits a PENDING order with its items ...                 *)
CreateOrder(o) ==
  /\ placing[o] = "idle"
  /\ status' = [status EXCEPT ![o] = "PENDING"]
  /\ placing' = [placing EXCEPT ![o] = "publish"]
  /\ UNCHANGED <<pc, cancel, published, cancelled, cacheVars>>

(* ... and then publishes OrderCreated.                                    *)
PublishCreated(o) ==
  /\ placing[o] = "publish"
  /\ published' = published \cup {<<"OrderCreated", o>>}
  /\ placing' = [placing EXCEPT ![o] = "done"]
  /\ UNCHANGED <<status, pc, cancel, cancelled, cacheVars>>

(* Publishing raises, or the process dies: the order stays, unannounced.   *)
CreateFails(o) ==
  /\ placing[o] = "publish"
  /\ placing' = [placing EXCEPT ![o] = "failed"]
  /\ UNCHANGED <<status, pc, cancel, published, cancelled, cacheVars>>

-----------------------------------------------------------------------------
(* The cancel route reads the order and lets it pass ...                   *)
CancelCheck(c) ==
  /\ cancel[c] = "idle"
  /\ status[CancelOf[c]] \notin {"none", "SHIPPED", "DELIVERED", "CANCELLED"}
  /\ cancel' = [cancel EXCEPT ![c] = "write"]
  /\ UNCHANGED <<status, placing, pc, published, cancelled, cacheVars>>

(* ... or answers 404 or 409.  (A request for another customer's order is  *)
(* answered 404 and changes nothing.)                                      *)
CancelRefused(c) ==
  /\ cancel[c] = "idle"
  /\ status[CancelOf[c]] \in {"none", "SHIPPED", "DELIVERED", "CANCELLED"}
  /\ cancel' = [cancel EXCEPT ![c] = "done"]
  /\ UNCHANGED <<status, placing, pc, published, cancelled, cacheVars>>

(* service.cancel_order commits CANCELLED ...                              *)
CancelCommit(c) ==
  /\ cancel[c] = "write"
  /\ status' = [status EXCEPT ![CancelOf[c]] = "CANCELLED"]
  /\ cancelled' = cancelled \cup {CancelOf[c]}
  /\ cancel' = [cancel EXCEPT ![c] = "invalidate"]
  /\ UNCHANGED <<placing, pc, published, cacheVars>>

\* Mutant of CancelInvalidate: the route returns before publishing.
CancelSilently(c) ==
  /\ cancel[c] = "invalidate"
  /\ Invalidated(CancelOf[c])
  /\ cancel' = [cancel EXCEPT ![c] = "done"]
  /\ UNCHANGED <<status, placing, pc, published, cancelled, request>>

(* ... invalidates the cache entry ...                                     *)
CancelInvalidate(c) ==
  /\ cancel[c] = "invalidate"
  /\ Invalidated(CancelOf[c])
  /\ cancel' = [cancel EXCEPT ![c] = "publish"]
  /\ UNCHANGED <<status, placing, pc, published, cancelled, request>>

\* Mutant of CancelPublish: the order id and the event type are swapped.
PublishSwapped(c) ==
  /\ cancel[c] = "publish"
  /\ published' = published \cup {<<CancelOf[c], "OrderCancelled">>}
  /\ cancel' = [cancel EXCEPT ![c] = "done"]
  /\ UNCHANGED <<status, placing, pc, cancelled, cacheVars>>

(* ... and publishes OrderCancelled.                                       *)
CancelPublish(c) ==
  /\ cancel[c] = "publish"
  /\ published' = published \cup {<<"OrderCancelled", CancelOf[c]>>}
  /\ cancel' = [cancel EXCEPT ![c] = "done"]
  /\ UNCHANGED <<status, placing, pc, cancelled, cacheVars>>

(* The request fails at an await, or its process dies.                     *)
CancelFails(c) ==
  /\ cancel[c] \in {"write", "invalidate", "publish"}
  /\ cancel' = [cancel EXCEPT ![c] = "failed"]
  /\ UNCHANGED <<status, placing, pc, published, cancelled, cacheVars>>

-----------------------------------------------------------------------------
(* set_status reads the order; if it is missing, or already has the        *)
(* status, there is nothing to do ...                                      *)
StatusAsIs(d) ==
  /\ pc[d] = "idle"
  /\ <<"OrderCreated", OrderOf[d]>> \in published
  /\ status[OrderOf[d]] \in {"none", StatusFor[Kind[d]]}
  /\ pc' = [pc EXCEPT ![d] = "done"]
  /\ UNCHANGED <<status, requests, published, cancelled, cacheVars>>

(* ... otherwise it will be written ...                                    *)
StatusDiffers(d) ==
  /\ pc[d] = "idle"
  /\ <<"OrderCreated", OrderOf[d]>> \in published
  /\ status[OrderOf[d]] \notin {"none", StatusFor[Kind[d]]}
  /\ pc' = [pc EXCEPT ![d] = "write"]
  /\ UNCHANGED <<status, requests, published, cancelled, cacheVars>>

(* ... is written and committed, whatever it is by now ...                 *)
StatusCommit(d) ==
  /\ pc[d] = "write"
  /\ status' = [status EXCEPT ![OrderOf[d]] = StatusFor[Kind[d]]]
  /\ pc' = [pc EXCEPT ![d] = "invalidate"]
  /\ UNCHANGED <<requests, published, cancelled, cacheVars>>

(* ... and the cache entry invalidated.                                    *)
StatusInvalidate(d) ==
  /\ pc[d] = "invalidate"
  /\ Invalidated(OrderOf[d])
  /\ pc' = [pc EXCEPT ![d] = "done"]
  /\ UNCHANGED <<status, requests, published, cancelled, request>>

(* The handler raises at an await, or its process dies.                    *)
Fail(d) ==
  /\ pc[d] \in {"write", "invalidate"}
  /\ pc' = [pc EXCEPT ![d] = "failed"]
  /\ UNCHANGED <<status, requests, published, cancelled, cacheVars>>

-----------------------------------------------------------------------------
(* The GET route of an order; 404 also answers for another customer's      *)
(* order, before the cache is filled.                                      *)
Read(r, o) ==
  /\ \/ Miss(r, o)
     \/ status[o] # "none" /\ Load(r, o, status[o])
     \/ NotFound(r, o)
  /\ UNCHANGED <<status, requests, pc, published, cancelled>>

FillEntry(r) == Fill(r) /\ UNCHANGED <<status, requests, pc, published, cancelled>>
ExpireEntry(o) == Expire(o) /\ UNCHANGED <<status, requests, pc, published, cancelled>>

Place(o) == CreateOrder(o) \/ PublishCreated(o) \/ CreateFails(o)
Cancel(c) == CancelCommit(c) \/ CancelInvalidate(c) \/ CancelPublish(c)
SetStatus(d) == StatusCommit(d) \/ StatusInvalidate(d)

Next ==
  \/ \E o \in Orders : Place(o) \/ ExpireEntry(o)
  \/ \E c \in Cancels : CancelCheck(c) \/ CancelRefused(c) \/ Cancel(c) \/ CancelFails(c)
  \/ \E d \in Deliveries : StatusAsIs(d) \/ StatusDiffers(d) \/ SetStatus(d) \/ Fail(d)
  \/ \E r \in Readers, o \in Orders : Read(r, o)
  \/ \E r \in Readers : FillEntry(r)

Spec == Init /\ [][Next]_vars

\* The event loop resumes the requests and handler runs that have begun, and
\* Redis expires entries.  Nothing has to be requested or delivered.
FairSpec ==
  /\ Spec
  /\ \A c \in Cancels : WF_vars(Cancel(c))
  /\ \A d \in Deliveries : WF_vars(SetStatus(d))
  /\ \A o \in Orders : WF_vars(ExpireEntry(o))

-----------------------------------------------------------------------------
(* Properties.                                                             *)

\* What the service announces is already in its database when the other
\* services hear of it: OrderCreated follows the commit of the order and
\* OrderCancelled a commit of CANCELLED, however requests and handlers
\* interleave and fail (create_order, cancel_order).
AnnouncedIsCommitted ==
  \A o \in Orders :
    /\ <<"OrderCreated", o>> \in published => status[o] # "none"
    /\ <<"OrderCancelled", o>> \in published => o \in cancelled

\* A cancellation that was committed is announced, or its request failed
\* (cancel_order).
CancelAnnounced ==
  \A c \in Cancels :
    cancel[c] = "invalidate" ~>
      <<"OrderCancelled", CancelOf[c]>> \in published \/ cancel[c] = "failed"

\* A stale order is not served for ever: although two writers invalidate and a
\* reader may fill after both, the cache ends up agreeing with the database
\* (cache.py, set_json; get_order, set_status, cancel_order).
CacheCatchesUp == <>[](\A o \in Orders : entry[o] \subseteq {status[o]})

\* What the comment on _CANCELLABLE and the check of the cancel route say: only an
\* order that is PENDING or CONFIRMED changes its status, whether an event or a
\* customer asks for it (set_status, cancel_order).
Cancellable == {"PENDING", "CONFIRMED"}
StatusKept(o) == status[o] \in {"none"} \cup Cancellable \/ status'[o] = status[o]
TransitionsGuarded == [][\A o \in Orders : StatusKept(o)]_vars
=============================================================================
