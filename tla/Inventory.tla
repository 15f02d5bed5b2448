------------------------------ MODULE Inventory ------------------------------
(***************************************************************************)
(* The inventory service: products, reservations and the handlers of       *)
(* OrderCreated and OrderCancelled (services/inventory/app).               *)
(*                                                                         *)
(* A delivery is one run of a handler.  The bus may hand the service the   *)
(* same event several times (EventBus), so several deliveries may carry    *)
(* the same order and kind, and up to prefetch_count of them run at once.  *)
(* The steps of a delivery are separated at the awaits where another       *)
(* delivery can take effect: the unlocked SELECT of the reservations, the  *)
(* row locks of SELECT ... FOR UPDATE, COMMIT, each cache.invalidate, and  *)
(* Broker.publish.  PostgreSQL runs at READ COMMITTED: a row is read as it *)
(* is when its lock is granted.  The session's UPDATE writes the value     *)
(* computed from what it read.                                             *)
(***************************************************************************)
EXTENDS CacheAside, Totals

CONSTANTS
  Orders,
  Products,      \* product ids, created or not
  Items,         \* Items[o]: the item list in o's OrderCreated payload
  Deliveries,    \* the handler runs of a behaviour
  OrderOf,       \* OrderOf[d]: the order of the event delivered
  Kind,          \* Kind[d]: its event type
  StockLevels    \* quantities an admin creates a product with

ASSUME InventoryAssumption ==
  /\ Keys = Products
  /\ Items \in [Orders -> Seq([product : Products, quantity : Nat \ {0}])]
  /\ \A o \in Orders : Items[o] # <<>>
  /\ IsFiniteSet(Deliveries)
  /\ OrderOf \in [Deliveries -> Orders]
  /\ Kind \in [Deliveries -> {"OrderCreated", "OrderCancelled"}]
  /\ StockLevels \subseteq Nat

VARIABLES
  exists,      \* products created
  stock,       \* products.quantity_available
  rows,        \* inventory_reservations: [by, product], order and quantity derived
  pc,          \* pc[d]: where delivery d is
  mine,        \* mine[d]: reservations a release has read
  found,       \* found[d]: products the locking SELECT of d selects, then
               \* those whose cache entry d has still to invalidate
  held,        \* held[d]: product rows d has locked
  snap,        \* snap[d][p]: quantity_available d read when it locked p
  outcome,     \* outcome[d]: event type d will publish
  published,   \* events published: <<type, order>>
  stocked,     \* history: the quantity each product was created with
  released,    \* history: orders whose reservations were released
  overlapped   \* history: whether two runs for one order were ever under way at once

shelf == <<exists, stock, rows>>
task == <<pc, mine, found, held, snap, outcome>>
history == <<stocked, released>>
vars == <<shelf, task, published, history, overlapped, cacheVars>>

-----------------------------------------------------------------------------
(* Helpers.                                                                *)

\* wanted: the products of an order, and the total quantity of each over the
\* item list, which may name a product more than once.
Ordered(o) == {Items[o][i].product : i \in DOMAIN Items[o]}
Quantity(o, p) ==
  Total([i \in {j \in DOMAIN Items[o] : Items[o][j].product = p} |-> Items[o][i].quantity])

Order(d) == OrderOf[d]
RowsOf(o) == {r \in rows : Order(r.by) = o}

Locked(p) == \E d \in Deliveries : p \in held[d]

\* Every product row that the locking SELECT of d selects is locked by d.
Selected(d) == pc[d] = "lock" /\ held[d] = found[d]

\* d leaves the transaction, its session and its local variables behind.
NoReads == [p \in Products |-> 0]
EndTransaction(d) ==
  /\ held' = [held EXCEPT ![d] = {}]
  /\ snap' = [snap EXCEPT ![d] = NoReads]
  /\ mine' = [mine EXCEPT ![d] = {}]

Init ==
  /\ exists = {}
  /\ stock = [p \in Products |-> 0]
  /\ rows = {}
  /\ pc = [d \in Deliveries |-> "idle"]
  /\ mine = [d \in Deliveries |-> {}]
  /\ found = [d \in Deliveries |-> {}]
  /\ held = [d \in Deliveries |-> {}]
  /\ snap = [d \in Deliveries |-> NoReads]
  /\ outcome = [d \in Deliveries |-> "none"]
  /\ published = {}
  /\ stocked = [p \in Products |-> 0]
  /\ released = {}
  /\ overlapped = FALSE
  /\ CacheInit

-----------------------------------------------------------------------------
(* create_product; the request for a SKU that exists is answered 409 and   *)
(* changes nothing.                                                        *)
CreateProduct(p, n) ==
  /\ p \notin exists
  /\ exists' = exists \cup {p}
  /\ stock' = [stock EXCEPT ![p] = n]
  /\ stocked' = [stocked EXCEPT ![p] = n]
  /\ UNCHANGED <<rows, task, published, released, cacheVars>>

(* reserve_for_order up to its locking SELECT: without a lock, look for a  *)
(* reservation of the order; there is one, so the order counts as reserved.*)
AlreadyReserved(d) ==
  /\ pc[d] = "idle" /\ Kind[d] = "OrderCreated"
  /\ RowsOf(Order(d)) # {}
  /\ pc' = [pc EXCEPT ![d] = "publish"]
  /\ outcome' = [outcome EXCEPT ![d] = "StockReserved"]
  /\ UNCHANGED <<shelf, mine, found, held, snap, published, history, cacheVars>>

\* Mutant of NotReserved: no idempotency check.
ReserveUnchecked(d) ==
  /\ pc[d] = "idle" /\ Kind[d] = "OrderCreated"
  /\ pc' = [pc EXCEPT ![d] = "lock"]
  /\ found' = [found EXCEPT ![d] = Ordered(Order(d)) \cap exists]
  /\ UNCHANGED <<shelf, mine, held, snap, outcome, published, history, cacheVars>>

\* There is none: SELECT the wanted products FOR UPDATE.
NotReserved(d) ==
  /\ pc[d] = "idle" /\ Kind[d] = "OrderCreated"
  /\ RowsOf(Order(d)) = {}
  /\ pc' = [pc EXCEPT ![d] = "lock"]
  /\ found' = [found EXCEPT ![d] = Ordered(Order(d)) \cap exists]
  /\ UNCHANGED <<shelf, mine, held, snap, outcome, published, history, cacheVars>>

(* release_for_order up to its locking SELECT: read the order's            *)
(* reservations without a lock; nothing to release, nothing to publish.    *)
NothingToRelease(d) ==
  /\ pc[d] = "idle" /\ Kind[d] = "OrderCancelled"
  /\ RowsOf(Order(d)) = {}
  /\ pc' = [pc EXCEPT ![d] = "done"]
  /\ UNCHANGED <<shelf, mine, found, held, snap, outcome, published, history, cacheVars>>

ReadReservations(d) ==
  /\ pc[d] = "idle" /\ Kind[d] = "OrderCancelled"
  /\ RowsOf(Order(d)) # {}
  /\ pc' = [pc EXCEPT ![d] = "lock"]
  /\ mine' = [mine EXCEPT ![d] = RowsOf(Order(d))]
  /\ found' = [found EXCEPT ![d] = {r.product : r \in RowsOf(Order(d))}]
  /\ UNCHANGED <<shelf, held, snap, outcome, published, history, cacheVars>>

\* Mutant of LockRow: the SELECT lacks with_for_update.
SelectWithoutLock(d, p) ==
  /\ pc[d] = "lock"
  /\ p \in found[d] \ held[d]
  /\ held' = [held EXCEPT ![d] = @ \cup {p}]
  /\ snap' = [snap EXCEPT ![d][p] = stock[p]]
  /\ UNCHANGED <<shelf, pc, mine, found, outcome, published, history, cacheVars>>

(* SELECT ... FOR UPDATE is granted one product row, and reads it.         *)
LockRow(d, p) ==
  /\ pc[d] = "lock"
  /\ p \in found[d] \ held[d]
  /\ ~Locked(p)
  /\ held' = [held EXCEPT ![d] = @ \cup {p}]
  /\ snap' = [snap EXCEPT ![d][p] = stock[p]]
  /\ UNCHANGED <<shelf, pc, mine, found, outcome, published, history, cacheVars>>

\* Mutant of Available: only the existence of the products is verified.
AllFound(d) == \A p \in Ordered(Order(d)) : p \in found[d]

\* Every wanted product exists and has enough stock, by what d read.
Available(d) ==
  \A p \in Ordered(Order(d)) : p \in found[d] /\ snap[d][p] >= Quantity(Order(d), p)

\* Mutant of ReserveShort: True is returned.
ShortAsReserved(d) ==
  /\ Kind[d] = "OrderCreated" /\ Selected(d) /\ ~Available(d)
  /\ pc' = [pc EXCEPT ![d] = "publish"]
  /\ outcome' = [outcome EXCEPT ![d] = "StockReserved"]
  /\ found' = [found EXCEPT ![d] = {}]
  /\ EndTransaction(d)
  /\ UNCHANGED <<shelf, published, history, cacheVars>>

\* Mutant of ReserveShort: the session, and with it the locks, stays open.
ShortKeepsLocks(d) ==
  /\ Kind[d] = "OrderCreated" /\ Selected(d) /\ ~Available(d)
  /\ pc' = [pc EXCEPT ![d] = "publish"]
  /\ outcome' = [outcome EXCEPT ![d] = "StockUnavailable"]
  /\ found' = [found EXCEPT ![d] = {}]
  /\ UNCHANGED <<shelf, mine, held, snap, published, history, cacheVars>>

(* reserve_for_order: some product is missing or short; return False, the  *)
(* session context releases the locks.                                     *)
ReserveShort(d) ==
  /\ Kind[d] = "OrderCreated" /\ Selected(d) /\ ~Available(d)
  /\ pc' = [pc EXCEPT ![d] = "publish"]
  /\ outcome' = [outcome EXCEPT ![d] = "StockUnavailable"]
  /\ found' = [found EXCEPT ![d] = {}]
  /\ EndTransaction(d)
  /\ UNCHANGED <<shelf, published, history, cacheVars>>

(* reserve_for_order: decrement every product, insert the reservations,    *)
(* commit.                                                                 *)
ReserveCommit(d) ==
  /\ Kind[d] = "OrderCreated" /\ Selected(d) /\ Available(d)
  /\ stock' = [p \in Products |-> IF p \in Ordered(Order(d))
                                    THEN snap[d][p] - Quantity(Order(d), p)
                                    ELSE stock[p]]
  /\ rows' = rows \cup {[by |-> d, product |-> p] : p \in Ordered(Order(d))}
  /\ pc' = [pc EXCEPT ![d] = "invalidate"]
  /\ outcome' = [outcome EXCEPT ![d] = "StockReserved"]
  /\ EndTransaction(d)
  /\ UNCHANGED <<exists, found, published, history, cacheVars>>

\* What the reservations d has read return to p; those of one order carry the
\* same quantity of p.
Returned(d, p) ==
  Cardinality({c \in Deliveries : [by |-> c, product |-> p] \in mine[d]})
    * Quantity(Order(d), p)

\* Mutant of ReleaseCommit: the reservations are not deleted.
ReleaseKeepsRows(d) ==
  /\ Kind[d] = "OrderCancelled" /\ Selected(d)
  /\ stock' = [p \in Products |-> IF p \in found[d] THEN snap[d][p] + Returned(d, p)
                                                    ELSE stock[p]]
  /\ released' = released \cup {Order(d)}
  /\ pc' = [pc EXCEPT ![d] = "invalidate"]
  /\ outcome' = [outcome EXCEPT ![d] = "StockReleased"]
  /\ EndTransaction(d)
  /\ UNCHANGED <<exists, rows, found, published, stocked, cacheVars>>

(* release_for_order: add the quantity of every reservation read back to   *)
(* its product, delete those reservations (deleting a row that is gone is  *)
(* only a warning), commit.                                                *)
ReleaseCommit(d) ==
  /\ Kind[d] = "OrderCancelled" /\ Selected(d)
  /\ stock' = [p \in Products |-> IF p \in found[d] THEN snap[d][p] + Returned(d, p)
                                                    ELSE stock[p]]
  /\ rows' = rows \ mine[d]
  /\ released' = released \cup {Order(d)}
  /\ pc' = [pc EXCEPT ![d] = "invalidate"]
  /\ outcome' = [outcome EXCEPT ![d] = "StockReleased"]
  /\ EndTransaction(d)
  /\ UNCHANGED <<exists, found, published, stocked, cacheVars>>

(* The loop that invalidates the cache entries of the products.            *)
Invalidate(d, p) ==
  /\ pc[d] = "invalidate"
  /\ p \in found[d]
  /\ Invalidated(p)
  /\ found' = [found EXCEPT ![d] = @ \ {p}]
  /\ pc' = [pc EXCEPT ![d] = IF found[d] = {p} THEN "publish" ELSE @]
  /\ UNCHANGED <<shelf, mine, held, snap, outcome, published, history, request>>

\* Mutant of Publish: the order id and the event type are swapped.
PublishSwapped(d) ==
  /\ pc[d] = "publish"
  /\ published' = published \cup {<<Order(d), outcome[d]>>}
  /\ pc' = [pc EXCEPT ![d] = "done"]
  /\ UNCHANGED <<shelf, mine, found, held, snap, outcome, history, cacheVars>>

(* The handler publishes the outcome and returns.                          *)
Publish(d) ==
  /\ pc[d] = "publish"
  /\ published' = published \cup {<<outcome[d], Order(d)>>}
  /\ pc' = [pc EXCEPT ![d] = "done"]
  /\ UNCHANGED <<shelf, mine, found, held, snap, outcome, history, cacheVars>>

\* The handler ends early; PostgreSQL rolls its transaction back.
Aborted(d) ==
  /\ pc' = [pc EXCEPT ![d] = "failed"]
  /\ found' = [found EXCEPT ![d] = {}]
  /\ EndTransaction(d)
  /\ UNCHANGED <<shelf, outcome, published, history, cacheVars>>

(* The handler raises at an await, or its process dies.                    *)
Fail(d) ==
  /\ pc[d] \in {"lock", "invalidate", "publish"}
  /\ Aborted(d)

\* d waits for rows held by deliveries that wait in the same way.
Deadlocked(d) ==
  \E C \in SUBSET Deliveries :
    /\ d \in C
    /\ \A c \in C : /\ pc[c] = "lock" /\ held[c] # found[c]
                    /\ \A p \in found[c] \ held[c] : \E b \in C : p \in held[b]

(* PostgreSQL aborts a transaction of a deadlock.                          *)
DeadlockAbort(d) ==
  /\ Deadlocked(d)
  /\ Aborted(d)

(* The GET route of a product.                                             *)
Read(r, p) ==
  /\ \/ Miss(r, p)
     \/ p \in exists /\ Load(r, p, stock[p])
     \/ p \notin exists /\ NotFound(r, p)
  /\ UNCHANGED <<shelf, task, published, history>>

Cache ==
  /\ (\E r \in Readers : Fill(r)) \/ (\E p \in Products : Expire(p))
  /\ UNCHANGED <<shelf, task, published, history>>

\* The steps of a handler once it has begun.
Handle(d) ==
  \/ \E p \in Products : LockRow(d, p) \/ Invalidate(d, p)
  \/ ReserveShort(d) \/ ReserveCommit(d) \/ ReleaseCommit(d)
  \/ Publish(d) \/ DeadlockAbort(d)

Begin(d) ==
  AlreadyReserved(d) \/ NotReserved(d) \/ NothingToRelease(d) \/ ReadReservations(d)

Step ==
  \/ \E p \in Products, n \in StockLevels : CreateProduct(p, n)
  \/ \E d \in Deliveries : Begin(d) \/ Handle(d) \/ Fail(d)
  \/ \E r \in Readers, p \in Products : Read(r, p)
  \/ Cache

\* Handler runs for the same order do not overlap: what idempotency relies on, and
\* neither the bus nor the service enforces.
Running == {d \in Deliveries : pc[d] \in {"lock", "invalidate", "publish"}}
OneAtATime == \A c, d \in Running : Order(c) = Order(d) => c = d

Track == overlapped' = (overlapped \/ ~OneAtATime')

Next == Step /\ Track

Spec == Init /\ [][Next]_vars

(***************************************************************************)
(* Fairness.  A handler that has begun is resumed by the event loop, row   *)
(* locks are granted once free, PostgreSQL breaks deadlocks and Redis      *)
(* expires entries.  Nothing has to be delivered, created, read or to fail.*)
(***************************************************************************)
ExpireEntry(p) == Expire(p) /\ UNCHANGED <<shelf, task, published, history>>

FairSpec ==
  /\ Spec
  /\ \A d \in Deliveries : WF_vars(Handle(d) /\ Track)
  /\ \A p \in Products : WF_vars(ExpireEntry(p) /\ Track)

-----------------------------------------------------------------------------
(* Properties.                                                             *)

Rows == [by : Deliveries, product : Products]
Outcomes == {"none", "StockReserved", "StockUnavailable", "StockReleased"}

TypeOK ==
  /\ exists \subseteq Products
  /\ stock \in [Products -> Int]
  /\ rows \subseteq Rows
  /\ pc \in [Deliveries -> {"idle", "lock", "invalidate", "publish", "done", "failed"}]
  /\ mine \in [Deliveries -> SUBSET Rows]
  /\ found \in [Deliveries -> SUBSET Products]
  /\ held \in [Deliveries -> SUBSET Products]
  /\ snap \in [Deliveries -> [Products -> Int]]
  /\ outcome \in [Deliveries -> Outcomes]
  /\ published \subseteq Outcomes \X Orders
  /\ stocked \in [Products -> Nat]
  /\ released \subseteq Orders
  /\ overlapped \in BOOLEAN

\* However many handlers run at once, whatever copies of events they carry and
\* wherever they fail, no product's quantity goes below zero: the row locks make
\* the check of availability and the decrement one step (reserve_for_order,
\* release_for_order).
NoNegativeStock == \A p \in Products : stock[p] >= 0

\* What a handler read of a product it has locked is still what the product
\* row holds, and no other handler has it locked (with_for_update in
\* reserve_for_order and release_for_order).
LockedIsCurrent ==
  \A d \in Deliveries : \A p \in held[d] :
    /\ snap[d][p] = stock[p]
    /\ \A c \in Deliveries : p \in held[c] => c = d

\* A commit changes every product by exactly the quantity it reserves or returns,
\* counted from the quantity the product has at that moment and not from one
\* another handler has changed since: no update is lost (reserve_for_order,
\* release_for_order).
Delta(d, p) ==
  IF Kind[d] = "OrderCancelled" THEN Returned(d, p)
  ELSE IF p \in Ordered(Order(d)) THEN -Quantity(Order(d), p)
  ELSE 0
CommitStep(d) ==
  pc[d] = "lock" /\ pc'[d] = "invalidate" =>
    \A p \in Products : stock'[p] = stock[p] + Delta(d, p)
NoLostUpdate == [][\A d \in Deliveries : CommitStep(d)]_vars

\* StockReserved is announced for an order only if its stock was reserved: the
\* reservation is there, or it has since been released (consumers.py,
\* _on_order_created, including the redelivery that finds it done).
AnnouncedWasReserved ==
  \A o \in Orders :
    <<"StockReserved", o>> \in published => RowsOf(o) # {} \/ o \in released

\* Units of p held by the reservations.
Reserved(p) == Total([r \in {s \in rows : s.product = p} |-> Quantity(Order(r.by), p)])

\* Where runs for one order have not overlapped, units are neither created nor
\* lost: what is on the shelf and what is reserved add up to what the product was
\* created with, across failures and redeliveries (reserve_for_order,
\* release_for_order).
Conserved ==
  \/ overlapped
  \/ \A p \in Products : stock[p] + Reserved(p) = stocked[p]

\* What README says under Idempotency: an order is reserved by at most one handler
\* run, however often its event is delivered.
ReservedOnce == \A r, s \in rows : Order(r.by) = Order(s.by) => r.by = s.by

\* The idempotency check of reserve_for_order does give that as long as runs for
\* one order have not overlapped, wherever earlier runs failed.
ReservedOnceIfSerial == ~overlapped => ReservedOnce

Atomic == INSTANCE Reservations WITH
            Wanted <- [o \in Orders |-> [p \in Products |-> Quantity(o, p)]],
            available <- stock,
            reserved <- {Order(r.by) : r \in rows},
            disturbed <- overlapped

\* The service keeps the promise of its docstrings: although a handler checks
\* without a lock, locks row by row and may fail, deadlock or be repeated, each
\* order is reserved and released in one step, in full or not at all, as long as
\* runs for one order have not overlapped (reserve_for_order, release_for_order).
ImplementsReservations == Atomic!Spec

\* Every handler run that has begun ends, also when runs that lock the same
\* products in different orders wait for each other (reserve_for_order,
\* release_for_order).
HandlersEnd ==
  \A d \in Deliveries : pc[d] = "lock" ~> pc[d] \in {"done", "failed"}

\* A stale product is not served for ever: although a reader may fill the cache
\* after the invalidation it raced with, and invalidate may fail silently, the
\* entries end up agreeing with the database (cache.py, set_json; routes.py,
\* get_product).
CacheCatchesUp == <>[](\A p \in Products : entry[p] \subseteq {stock[p]})
=============================================================================
