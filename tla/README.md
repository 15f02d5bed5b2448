# OrderMesh: a TLA+ verification project

OrderMesh is an event-driven order platform: four FastAPI services (order,
inventory, shipping, notification) behind a gateway, each with its own
PostgreSQL database, joined by one RabbitMQ topic exchange and caching reads in
Redis. What makes it hard to get right is not in any one function but in how
handlers, requests, retries and crashes interleave. These modules model that,
TLC checks it on small instances and TLAPS proves most of its safety for all.

Paths below are relative to the repository.

## 1. Inventory of the system

| Component | State | Operations | Interacts by | Hard behaviour | What makes it correct |
|---|---|---|---|---|---|
| Consumer (`shared/shared/events/consumer.py`) | queue, bindings, unacked messages, `x-retry` | `start`, `_handle`, `_republish` | exchange, ack/reject | retries fan out, crash between publish and ack, lost connection, prefetch | at least once or dead-lettered; retries die out |
| Broker (`broker.py`, `schema.py`) | connection, channel, exchanges | `connect`, `publish`, `close` | exchange | publish before a queue is bound | routing to every bound queue |
| Cache (`cache.py`) | Redis entries with TTL | `get_json`, `set_json`, `invalidate` | called by three services | fill racing an invalidation, silent failure | a stale entry does not last |
| Inventory (`services/inventory`) | products, reservations | create product, reserve, release, read | handles OrderCreated, OrderCancelled; publishes StockReserved, StockUnavailable, StockReleased | overlapping copies of an event, row locks in any order, failure after commit | no lost update, no negative stock, units conserved, idempotent |
| Shipping (`services/shipping`) | shipments | create, update status, read | handles StockReserved; publishes ShipmentCreated, ShipmentDelivered | racing inserts under unique indexes | one shipment per order, announced as such |
| Order (`services/order`) | orders and their status | create, cancel, `set_status`, read | handles StockReserved, StockUnavailable, ShipmentCreated; publishes OrderCreated, OrderCancelled | check-then-write, events out of order, dual writes | announced means committed; legal transitions |
| Notification (`services/notification`) | notifications | one insert per event | handles OrderCreated, StockReserved, ShipmentCreated, ShipmentDelivered | repeated, reordered, outdated events | a customer is told only what has happened |
| Gateway (`services/gateway`, `shared/shared/auth.py`, `security.py`) | users, tokens | register, login, edge checks, forward | HTTP to the services, identity headers | registration race, token expiry, timeout while the service goes on | one user per email; performed only as a login and a role allow; answers true |
| Fulfilment (all services) | the above, and the messages between them | every handler and every request that changes state | the exchange | delay, repetition and reordering across services, start-up and crash | no order on stock it never had; orders resolve; the queues drain |

The request-id middleware, logging, configuration, migrations, the static console
and the deployment files hold no state that these behaviours depend on.
PROJECT.json lists every component, and under "hazards" everything in this code
that is hard to test, at its line.

## 2. Modules

    AtLeastOnce     abstract: what the bus promises about an (event, queue) pair
      EventBus      the exchange, the queues, the Consumer class; implements AtLeastOnce
                    MCEventBus     EventBusProofs, EventBusRefinement
      Fulfilment    the four services together, over AtLeastOnce
                    MCFulfilment   FulfilmentProofs
    Reservations    abstract: what inventory promises, an order reserved or released in one step
    CacheAside      the cache helper and the read path of the GET routes
      Inventory     extends CacheAside; implements Reservations
                    MCInventory    InventoryProofs
      Shipping      extends CacheAside     MCShipping       ShippingProofs
      OrderService  extends CacheAside     MCOrderService   OrderServiceProofs
    Gateway         registration, login, edge checks, forwarding
                    MCGateway      GatewayProofs
    Totals          the total of a function's values      TotalsProofs

The composition has two layers. Inside a service, `Inventory`, `Shipping` and
`OrderService` take handlers and requests apart at every await, lock and commit,
and take deliveries as given: any number of copies, at any time. Between the
services, `Fulfilment` takes a handler run as one step and every order of runs as
possible, over the abstract bus; `EventBus` shows that the real one, with its
retries through the exchange, crashes and lost connections, is such a bus.
`Inventory` shows the same of the one-step handlers: while runs for one order do
not overlap, it implements `Reservations`, whose `Fits`, `Reserve` and `Release`
are, for one product wanted once, `Takes`, `Reserve` and `Release` of Fulfilment.

A definition whose comment begins "Mutant of" is not part of the model: it is
what a plausible bug would make of the definition after it, kept to show that the
property it breaks depends on the code.

### EventBus

A message is an event and its `x-retry` header. `copies[q][m][place]` counts the
copies of a message at each place of a queue: ready; unacked in one of the
stages of `_handle` (handling, handled, backoff, republished, stuck); dead. The
places are the awaits of `_handle` and `_republish`, where the task can be
overtaken or die. A queue is a bag, since up to `prefetch_count` deliveries run
concurrently and take effect in any order.

| Code | Action |
|---|---|
| `Consumer.start`: declare, bind, consume | `Start` |
| `Broker.publish` | `Publish` |
| `_handle` up to its lookup; no handler, ack | `Deliver`; `AckUnhandled` |
| the handler returns; ack | `HandlerReturns`; `Ack` |
| the handler raises, retries remain: sleep | `BackOff` |
| retry published; ack of the original | `Republish`; `AckRepublished` |
| `exchange.publish` raises in the except branch | `RepublishError` (the copy is stuck) |
| `reject(requeue=False)` | `DeadLetter` |
| process death | `Crash` (unacked copies become ready, tasks vanish) |
| connection lost and reopened by `connect_robust` | `LoseConnection` (unacked copies become ready; tasks run on, counted in `detached`) |
| what such a task still does | `DetachedReturns`, `DetachedRaises`, `DetachedRepublish` |

The ack of a detached task raises; after a successful handler, and for a message
without a handler, that happens inside the `try`, so the except branch publishes
a retry of an event that was handled or that the queue has no handler for. The
model keeps that: `LoseConnection` chooses how many acks of handler-less messages
were under way (`AcksUnderWay`). Bodies that are not valid events are not
modelled: only the services publish, through `Event`.

### CacheAside, Inventory, Shipping, OrderService

A *delivery* is one run of a handler. The bus delivers an event more than once
and runs several handlers at a time, so the deliveries of an instance are a
constant: some carry the same event. Failing (an exception or a dead process) is
possible at every await; the retry is then another delivery. `overlapped` in
Inventory is a history variable: two runs for one order have been under way at
the same time.

*Inventory* separates a delivery's steps at the unlocked SELECT of the
reservations (`AlreadyReserved`, `NotReserved`, `NothingToRelease`,
`ReadReservations`), each row lock of `SELECT ... FOR UPDATE` (`LockRow`), the
commit (`ReserveCommit`, `ReleaseCommit`) or the early return (`ReserveShort`),
each cache invalidation (`Invalidate`) and the publication (`Publish`).
PostgreSQL is external: READ COMMITTED, so a row is read as it is when its lock
is granted; the UPDATE writes what the session computed; rows are locked in any
order, and a deadlock is resolved by aborting a transaction (`DeadlockAbort`). A
reservation row is named by the delivery that inserted it, which gives its order
and quantity. The quantity an order wants of a product is a total over its item
list (`Totals` counts units, which the provers can reason about; a recursive sum
they cannot). The low-stock warning is only logged.

*Shipping* names a shipment by the delivery that inserted it. Both unique
indexes are modelled: every INSERT starts with the empty tracking number, so
there is one uncommitted shipment at a time and an `order_id` that is taken is
an IntegrityError (`Insert`, `InsertConflict`, `Commit`). The PATCH route is
`PatchRead`, `PatchCommit` (SQLAlchemy sends no UPDATE when the value assigned
is the one read), `PatchInvalidate`, `PublishDelivered`.

*OrderService* has the create route (`CreateOrder`, `PublishCreated`,
`CreateFails`), the cancel route (`CancelCheck` or `CancelRefused`,
`CancelCommit`, `CancelInvalidate`, `CancelPublish`) and `set_status`
(`StatusAsIs` or `StatusDiffers`, `StatusCommit`, `StatusInvalidate`). Neither
writer locks the order or conditions its UPDATE. Owners and prices are left out:
a request for another customer's order is answered 404 and changes nothing.

*CacheAside* is the read path of all three: miss, load, fill, with the
invalidation of the writer possibly between them, commands that may fail
silently (`CacheFails`), and expiry. Entries hold the one field that changes
(quantity or status).

### Fulfilment

An obligation is `<<type, order, service>>`: a copy of the event of that type for
that order in the queue of that service. `pending`, `done` and `dead` are those of
`AtLeastOnce`; publishing is `Bus!Route` to the queues that exist by then, so an
event published before a service has declared its queue is dropped for it.

| Code | Action |
|---|---|
| a service's lifespan up to `consumer.start` | `Start` |
| death or shutdown of a process | `Crash` (its queue stays) |
| `POST /orders` | `PlaceOrder` |
| `POST /orders/{id}/cancel`: status check; write and announce | `CancelCheck`; `CancelOrder` |
| the order service's three handlers | `SetStatus` |
| `POST /inventory/products` | `CreateProduct` |
| `_on_order_created`; `_on_order_cancelled` of inventory | `Reserve`; `Release` |
| `_on_stock_reserved` of shipping | `Ship` |
| `PATCH /shipments/{id}/status` with DELIVERED | `Deliver` |
| the notification handlers | `Notify` |
| a run that raises or dies before its commit | `RaiseEarly` |
| the last retry fails | `DeadLetter` |

A handler run is one step: it commits, publishes and is acked (`returns`), or it
commits and does not get there. Then the message is pending again and, if the
handler or the ack raised, its retry goes to every bound queue; what the run
publishes is out already if only its ack was lost (`AckLost`). Commit and
publication can be one step because the bus may delay a delivery at will, and
because what happens between them inside a service is the subject of the
service's own module. Every order wants one unit of one product; partial orders and
several products are in Inventory. The other PATCH statuses, which publish
nothing, are in Shipping. StockReleased is left out: no queue is bound to it.

### Gateway

A user is named by the registration that inserted it, a token by the login it was
issued to, so that "under whose identity" can be asked of every later step.
Registration is `RegisterConflict` or `RegisterCheck`, then `RegisterCommit` under
the unique index or `RegisterFails` (answered 500, which is also what a
registration that lost the race gets: IntegrityError is not handled). `Login`
compares the first 72 bytes of the passwords, as bcrypt is given them.
`Unauthorized`, `Forbidden` and `Forward` are the edge, `Perform` and `Refuse` the
service with its own role check, `Answer` and `Timeout` the end of the call. After
`Timeout` the service goes on: what it does is not undone. Hashing and signing are
the libraries'.

The gateway forwards a call's own headers except those in `_SKIP_HEADERS`, and
then its `X-User-Id` and `X-User-Role`. A call that comes with headers of these
names (`Own`) is forwarded with both, its own first, and `get_identity` reads the
first (`FirstOf`). So the edge decides by the token (`Forbidden`, `Forward`) and the
service by the headers (`Identity`, `Perform`).

## 3. Runs

| Run | Expected | Properties | Distinct states |
|---|---|---|---|
| EventBusFaults | pass | TypeOK, NeverLost, RetryStormBounded, DeadAfterRetries, ImplementsAtLeastOnce | 514,620 |
| EventBusLiveness | pass | EverySettled, Drains | 116,133 |
| EventBusFanout | violation | NoRedundantDelivery | |
| InventoryOverlap | pass | TypeOK, NoNegativeStock, LockedIsCurrent, NoLostUpdate, AnnouncedWasReserved, Conserved, ReservedOnceIfSerial, ImplementsReservations | 418,512 |
| InventoryLiveness | pass | HandlersEnd, CacheCatchesUp | 50,367 |
| InventoryDoubleReserve | violation | ReservedOnce | |
| Shipping | pass | TypeOK, OneShipmentPerOrder, AnnouncedTheOne, DeliveredArrived, CacheCatchesUp | 54,549 |
| OrderService | pass | TypeOK, AnnouncedIsCommitted, CancelAnnounced, CacheCatchesUp | 40,716 |
| OrderTransitions | violation | TransitionsGuarded | |
| Fulfilment | pass | TypeOK, BackedByStock, ToldTheTruth, OrdersResolve, OrdersFulfilled, Quiesces | 106,007 |
| FulfilmentCancel | violation | CancelledHoldsNoStock | |
| Gateway | pass | TypeOK, OneUserPerEmail, PerformedAsRegistered, AnswersTrue | 24,040 |

Deadlock checking is off throughout: the deliveries, requests and faults of an
instance are finite, so every behaviour may stop once they are used up.

### What they show

* **The bus never loses an event** (NeverLost, ImplementsAtLeastOnce): from the
  moment an event is routed to a queue that handles it, a copy is live there or
  dead-lettered until the handler has returned. What it does not promise is any
  upper bound of one: retries are published to the exchange, so every consumer
  of the type handles the event again (EventBusFanout). The `x-retry` header
  still bounds the storm: with N queues handling the event, none fails a message
  with `x-retry` r more than N^r times (RetryStormBounded states it as the number
  of paths of failures that lead to the message), and the queues drain (Drains).
  A dead letter stands for MAX_RETRIES failures, though not necessarily of the
  queue that holds it (DeadAfterRetries).
* **Row locks do their work** (LockedIsCurrent, NoLostUpdate, NoNegativeStock)
  whatever overlaps. **The idempotency check does not**: it is not under a lock,
  and two overlapping copies of OrderCreated both reserve (InventoryDoubleReserve).
  As long as runs for one order have not overlapped, redelivery is idempotent and
  units are conserved (ReservedOnceIfSerial, Conserved), wherever earlier runs
  failed, and the handlers are as good as the atomic ones their docstrings
  describe (ImplementsReservations). Nothing is claimed of runs that do overlap:
  two overlapping releases of one order would give its units back twice.
* **Shipping is idempotent**, thanks to the unique index rather than to its check.
* **The order service announces only what it has committed**, but any event
  overwrites any status: a late StockReserved confirms a cancelled order
  (OrderTransitions), or one that was SHIPPED. `_CANCELLABLE` is defined and never read.
* **Together the services keep their word**: no order is confirmed or shipped on
  stock it never had, unless its customer cancelled it (BackedByStock), and nothing
  is told that has not happened (ToldTheTruth), however events are repeated and
  reordered. An order inventory was told of does not stay PENDING (OrdersResolve).
  Once every queue exists it is in the end, and for good, provided for: it has a
  shipment, or its customer cancelled it, or it stays CANCELLED for want of stock
  (OrdersFulfilled); both unless a message of it is dead-lettered. Its status is
  not as reliable: a StockReserved handled after the ShipmentCreated leaves a
  shipped order CONFIRMED, and an outcome of a redelivery may contradict an earlier
  one, so that an order is CANCELLED and has a shipment. The handlers' events set
  off no cycle (Quiesces). **But a cancellation can overtake the order**: inventory keeps no
  record of an OrderCancelled without a reservation, so an OrderCreated handled
  after it reserves stock for a cancelled order, for good (FulfilmentCancel; it
  needs no failure, only two deliveries in the other order).
* **The gateway**: one user per email in spite of the race (OneUserPerEmail), and
  answers that stay true (AnswersTrue); only a 500 leaves open what happened. A
  service performs only what was asked for with the token of a login that proved a
  registered user, an admin's operation only with an ADMIN's token
  (PerformedAsRegistered). **For whom it performs it** is kept only for calls that
  bring no `X-User-Id` or `X-User-Role` of their own; with one, the service takes the
  caller's word, which is not what the comments in `proxy.py` ("attach the verified
  identity") and `auth.py` say.

### Bounds and why they are enough

* EventBus: two queues that both handle the event are the smallest fan-out; a
  stale binding brings a message without a handler; `MaxRetries` 2 gives one
  retry generation and the dead letter (3, the code's value, in EventBusFanout);
  `Prefetch` 2 is reached, since a crash and a retry put three copies in a queue;
  `MaxCrashes` 1 lets a crash or a lost connection fall between any two steps;
  `MaxPublishErrors` 1 makes one retry fail. The theorems lift all these bounds.
* Inventory: four deliveries (an order's creation twice, its cancellation, and
  another order), two products wanted in both orders, one named twice, and stock
  levels on both sides of what is wanted, up to enough for a double reservation,
  so that shortage, contention, deadlock and redelivery all occur. InventoryLiveness takes three deliveries and a reader.
* Shipping: two copies of one StockReserved, two updates, one reader.
* OrderService and OrderTransitions: StockReserved, ShipmentCreated and StockUnavailable deliveries,
  one cancel request and (not in OrderTransitions) one reader, for one order
  (orders share no state).
* Fulfilment: one order, a product created with 0 or 1 unit or not at all, one
  fault (a failed run or request, a crash or a dead letter) at any point; the
  redeliveries of a fault give contradictory outcomes, reordering and outdated
  notifications. The safety theorems hold for any orders, stock and faults.
  FulfilmentCancel needs no fault.
* Gateway: three registrations, two of one email with different roles; three
  logins, one with a password that differs after its 72nd byte; two calls, one to
  an admin route, one with identity headers of its own. They are enough for every pair of requests to race.

### Fairness

EventBus: RabbitMQ pushes ready messages to a consumer with a free slot, the
asyncio loop resumes every task, handlers end, and a dead service is started
again (`restart: unless-stopped` in `docker-compose.prod.yml`). Services: a
handler or request that has begun is resumed; locks are granted once free,
PostgreSQL detects deadlocks, Redis expires entries (`ex=` in `set_json`).
Weak fairness of each. Fulfilment: a service that is down is started again, and a
pending obligation is run in the end with success or dead-lettered, since the
bus settles everything (EverySettled). Gateway: none, its properties are safety. Nothing
obliges anyone
to publish, deliver, request, read or fail. EverySettled and Drains are checked where `_republish` does not
raise: after that exception a message stays unacked until the connection ends.

## 4. Proofs

`EventBusProofs` proves for any finite set of queues, any events, handlers, old
bindings, `MAX_RETRIES`, prefetch and numbers of faults (assumption
`BusAssumption`):

* `TypeCorrect`: `Spec => []TypeOK`. It needs `RetriesRemain` (a task in backoff
  has retries left), or the next `x-retry` would leave its range.
* `NothingLost`: `Spec => []NeverLost`. NeverLost is not inductive: an ack of the
  original is safe only because its retry, or something that came of it, is
  still accounted for. The invariant `IInv` adds `Bound` (what was owed is bound),
  `HandledDone` (a "handled" copy's event is done), `RetryIsOut` (a "republished"
  copy's event has a copy with a higher `x-retry`, or is done) and `OwedHandled`.
  The retry order is what makes it work: a copy that goes leaves one further on,
  up to the dead-letter queue.
* `StormBounded`: `Spec => []RetryStormBounded`, and `NotGivenUpEarly`:
  `Spec => []DeadAfterRetries`, both from `StormInv`, which holds until the first
  crash. `Budget`: the copies of a message that a queue has still to handle and
  the failures it has counted for it are together no more than 1 for a new event,
  and for a retry no more than the failures, over all queues, of the message it
  retries, less those still backing off. `Trail`: a retry, its failures and its
  dead letter go back to a failure of the message before. `Idle`: only a queue with
  a handler fails. The bounds follow by going up or down the `x-retry` values
  (`FailurePaths`, `FailureTrail`), each as a minimal counterexample
  (`LeastNumber`), since the induction rule itself is out of the prover's reach.

`EventBusRefinement` proves `BusImplementsPromise`: `Spec => ImplementsAtLeastOnce`
under the same assumption. Each action is shown to be a step of the promise or
invisible to it: publications and retries are `Route`, a return is `Succeed`, the
last failure is `Bury`, an ack is `Settle` when it takes the last live copy, and
the rest stutters. The invariant `RInv` adds to `IInv` that a message without a
handler never leaves "ready" (`HandledOnly`) and that what a detached task handles
is accounted for without it (`DetachedAccounted`), which follows from a fact about
the abstract specification alone: what is pending, done or dead stays one of them.

`InventoryProofs` proves for any orders, products, deliveries and stock levels
(`InventoryAssumption`):

* `InventoryTypes`, `LocksExclude` (LockedIsCurrent), `UpdatesNotLost`
  (NoLostUpdate), `StockNeverNegative` (NoNegativeStock), from `LockInv`: what was
  read under a lock is current, and reads are of rows that exist.
* `SerialIdempotency`: `Spec => []ReservedOnceIfSerial`. The strengthening says
  that, until runs for one order overlap, a handler past its check still finds no
  reservation of its order; with an overlap it is exactly this that fails.
* `AnnouncedReserved`: `Spec => []AnnouncedWasReserved`, from `AnnounceInv`: a release
  deletes rows of its own order only (`ReadsOwn`), so an order that was reserved
  keeps a reservation or is on record as released.
* `UnitsConserved`: `Spec => []Conserved`, from `ConserveInv`:
  until runs for one order overlap, the books balance. Its induction needs, beside
  the idempotency above, that what a release has read is still there under its
  locks (`ReadStillTrue`), or it would give units back twice.
* `ReservationsAtomic`: `Spec => ImplementsReservations`. A commit is shown to be
  `Reserve` or `Release` of the order, everything else invisible, and every step
  after an overlap a `Disturb`, which still keeps quantities from going below
  zero. The invariant adds that a reservation covers every product of its order
  (`InFull`).

`TotalsProofs` has the lemmas both arguments about sums rest on: the total of a
function over a finite set is a number (`TotalType`), positive when a value is
(`TotalPositive`), changes with one value by as much (`TotalUpdate`, `TotalExtend`) and is
bounded by the number of arguments (`TotalBound`); and one step more multiplies the
paths (`LongerPaths`).

`ShippingProofs`: `ShippingTypes`, `OneShipment` (OneShipmentPerOrder) and
`OneAnnounced` (AnnouncedTheOne) from `TableInv`, whose point is that there is at
most one uncommitted shipment (the empty tracking number) and that a run which
publishes has its order's committed shipment in hand; `DeliveredTrue`
(DeliveredArrived) from `ArrivedInv`: a run that publishes a delivery did so after
the database held DELIVERED.

`OrderServiceProofs`: `OrderTypes`, and `CommittedFirst` (AnnouncedIsCommitted) from
`OrderInv`: a request that is still to publish has already committed.

`FulfilmentProofs`, for any orders, stock levels and numbers of faults:
`FulfilmentTypes`, `StockBacks` (BackedByStock) and `TruthTold` (ToldTheTruth), from
`CauseInv`: everything the bus holds, has delivered or has buried is about
something that happened (`EventsTrue`), and everything the services have recorded
is backed by it (`RecordsTrue`). Neither half is inductive without the other, as
handlers turn events into records and records into events.

`GatewayProofs`, for any requests: `GatewayTypes`, `EmailsUnique` (OneUserPerEmail),
`IdentityKept` (PerformedAsRegistered) and `AnswersStayTrue` (AnswersTrue). The
invariant says that a call has reached a service only under a token that permits
it (`Permit`), and holds for any headers the calls come with.

Only model-checked: liveness (EverySettled, Drains, HandlersEnd, CacheCatchesUp,
CancelAnnounced, OrdersResolve, OrdersFulfilled, Quiesces), as fairness and ENABLED are out of the prover's reach. Every
safety property of the passing runs is a theorem.

## 5. Plan

Done: the bus and its refinement, the three services with their cache, their
composition, the gateway, the atomicity of Inventory, and every safety property of
the passing runs as a theorem. Left:

1. The same for Shipping: its handler, with the unlocked check, the unique indexes
   and the conflict, implements the one-step `Ship` of Fulfilment.
2. An instance of Inventory with two OrderCancelled of one order, whose overlapping
   releases return its units twice.
3. The attempts inside `Broker.connect` one by one; today a service that comes up
   is one step (`Start`).

## 6. Not modelled

Request ids and logging reach only log lines. The message format, timestamps,
prices, couriers, tracking-number text and the recipients and texts of
notifications carry no control (three events carry no customer at all, so their
notifications go to `customer-unknown` on every path). List routes change nothing.
Connection pools and the engine are SQLAlchemy's. The console (`index.html`),
migrations and deployment files are not part of the running services' logic; the
restart policy appears as the fairness of `Start`.
