------------------------------ MODULE EventBus ------------------------------
(***************************************************************************)
(* The event bus of OrderMesh: the durable topic exchange and the Consumer *)
(* class of shared/shared/events, one consumer per service queue.          *)
(*                                                                         *)
(* A message is an event together with its x-retry header.  The bus is     *)
(* described by how many copies of each message sit at each place of each  *)
(* queue:                                                                  *)
(*   "ready"        in the queue, not yet pushed to the consumer           *)
(*   "handling"     unacked, the handler of the event type is running      *)
(*   "handled"      unacked, the handler returned, message.ack() is next   *)
(*   "backoff"      unacked, the handler raised, _republish is sleeping    *)
(*   "republished"  unacked, the retry copy is out, message.ack() is next  *)
(*   "stuck"        unacked, _republish itself raised: the task is gone    *)
(*   "dead"         in the queue's dead-letter queue                       *)
(*                                                                         *)
(* Deliveries of one queue are handled concurrently (up to Prefetch), so   *)
(* the order in which they take effect is arbitrary and a queue is a bag.  *)
(* A dead process and a lost connection look the same to the broker:       *)
(* unacked copies become ready again.  A dead process loses its tasks; on  *)
(* a lost connection (connect_robust reopens it) they run on, detached     *)
(* from their delivery: their ack or reject can only raise.  RabbitMQ      *)
(* itself is external; it is modelled by the way Broker and Consumer use   *)
(* it.                                                                     *)
(***************************************************************************)
EXTENDS Integers, FiniteSets, FiniteSetsExt

CONSTANTS
  Queues,            \* the consumers' queues: order.events, inventory.events ...
  Events,            \* the events services publish, each once
  Handlers,          \* Handlers[q]: events whose type has a handler in q
  OldBindings,       \* bindings the durable queues keep from earlier deployments
  MaxRetries,        \* MAX_RETRIES
  Prefetch,          \* prefetch_count of the channel
  MaxCrashes,        \* bound on crashes and lost connections of consumers
  MaxPublishErrors   \* bound on exceptions raised by _republish

ASSUME BusAssumption ==
  /\ IsFiniteSet(Queues)
  /\ Handlers \in [Queues -> SUBSET Events]
  /\ OldBindings \in [Queues -> SUBSET Events]
  /\ MaxRetries \in Nat \ {0}
  /\ Prefetch \in Nat \ {0}
  /\ MaxCrashes \in Nat
  /\ MaxPublishErrors \in Nat

VARIABLES
  bindings,      \* bindings[q]: events routed to q; {} before q is declared
  consuming,     \* queues whose consumer is running
  published,     \* events handed to Broker.publish
  copies,        \* copies[q][m][place]: number of copies
  detached,      \* detached[q][m][stage]: tasks that outlived their connection
  crashes,       \* crashes and lost connections so far
  publishErrors, \* _republish exceptions so far
  owed,          \* history: <<e, q>> such that e was routed to q, which handles it
  done,          \* history: <<e, q>> such that q's handler returned for e
  failures       \* history: failures[q][m], how often q's handler failed for m

topology == <<bindings, consuming, published>>
faults == <<crashes, publishErrors>>
history == <<owed, done, failures>>
vars == <<topology, copies, detached, faults, history>>

Messages == [event : Events, retry : 0 .. MaxRetries - 1]
Unacked == {"handling", "handled", "backoff", "republished", "stuck"}
Places == Unacked \cup {"ready", "dead"}
Stages == {"handling", "backoff"}

TypeOK ==
  /\ bindings \in [Queues -> SUBSET Events]
  /\ consuming \subseteq Queues
  /\ published \subseteq Events
  /\ copies \in [Queues -> [Messages -> [Places -> Nat]]]
  /\ detached \in [Queues -> [Messages -> [Stages -> Nat]]]
  /\ crashes \in 0 .. MaxCrashes
  /\ publishErrors \in 0 .. MaxPublishErrors
  /\ owed \subseteq Events \X Queues
  /\ done \subseteq Events \X Queues
  /\ failures \in [Queues -> [Messages -> Nat]]

Init ==
  /\ bindings = OldBindings
  /\ consuming = {}
  /\ published = {}
  /\ copies = [q \in Queues |-> [m \in Messages |-> [p \in Places |-> 0]]]
  /\ detached = [q \in Queues |-> [m \in Messages |-> [x \in Stages |-> 0]]]
  /\ crashes = 0
  /\ publishErrors = 0
  /\ owed = {}
  /\ done = {}
  /\ failures = [q \in Queues |-> [m \in Messages |-> 0]]

-----------------------------------------------------------------------------
(* Helpers.                                                                *)

Message(e, r) == [event |-> e, retry |-> r]

\* The queues the topic exchange routes the event's routing key to.
Route(e) == {q \in Queues : e \in bindings[q]}

\* Unacked copies of m that the broker holds against q's consumer.
UnackedCopies(q, m) ==
  copies[q][m]["handling"] + copies[q][m]["handled"] + copies[q][m]["backoff"]
    + copies[q][m]["republished"] + copies[q][m]["stuck"]

InFlight(q) == MapThenSumSet(LAMBDA m : UnackedCopies(q, m), Messages)

\* c with one copy of message m of queue q taken from place x.
Without(c, q, m, x) == [c EXCEPT ![q][m][x] = @ - 1]

\* c with one copy of message m of queue q moved from place x to place y.
Moved(c, q, m, x, y) == [c EXCEPT ![q][m][x] = @ - 1, ![q][m][y] = @ + 1]

\* c with one more ready copy of m in every queue the event is routed to.
Routed(c, m) ==
  [q \in Queues |-> IF q \in Route(m.event)
                      THEN [c[q] EXCEPT ![m]["ready"] = @ + 1]
                      ELSE c[q]]

-----------------------------------------------------------------------------
(* Consumer.start: declare the queue and its dead-letter queue, bind every *)
(* handled event type, begin to consume.  Bindings are only ever added.    *)
Start(q) ==
  /\ q \notin consuming
  /\ consuming' = consuming \cup {q}
  /\ bindings' = [bindings EXCEPT ![q] = @ \cup Handlers[q]]
  /\ UNCHANGED <<published, copies, detached, faults, history>>

(* Broker.publish of a new event, x-retry absent (read back as 0).         *)
Publish(e) ==
  /\ e \notin published
  /\ published' = published \cup {e}
  /\ copies' = Routed(copies, Message(e, 0))
  /\ owed' = owed \cup {<<e, q>> : q \in {qq \in Route(e) : e \in Handlers[qq]}}
  /\ UNCHANGED <<bindings, consuming, detached, faults, done, failures>>

(* The broker pushes a ready message; _handle finds its handler.           *)
Deliver(q, m) ==
  /\ q \in consuming
  /\ m.event \in Handlers[q]
  /\ copies[q][m]["ready"] > 0
  /\ InFlight(q) < Prefetch
  /\ copies' = Moved(copies, q, m, "ready", "handling")
  /\ UNCHANGED <<topology, detached, faults, history>>

(* No handler for the event type: ack and return.                          *)
AckUnhandled(q, m) ==
  /\ q \in consuming
  /\ m.event \notin Handlers[q]
  /\ copies[q][m]["ready"] > 0
  /\ InFlight(q) < Prefetch
  /\ copies' = Without(copies, q, m, "ready")
  /\ UNCHANGED <<topology, detached, faults, history>>

(* await handler(event) returns.                                           *)
HandlerReturns(q, m) ==
  /\ copies[q][m]["handling"] > 0
  /\ copies' = Moved(copies, q, m, "handling", "handled")
  /\ done' = done \cup {<<m.event, q>>}
  /\ UNCHANGED <<topology, detached, faults, owed, failures>>

\* Mutant of Ack: an ack in the finally clause, whether or not one was sent.
AckInFinally(q, m) ==
  /\ q \in consuming
  /\ copies' = Without(copies, q, m, "handled")
  /\ UNCHANGED <<topology, detached, faults, history>>

(* await message.ack() after the handler returned.                         *)
Ack(q, m) ==
  /\ copies[q][m]["handled"] > 0
  /\ copies' = Without(copies, q, m, "handled")
  /\ UNCHANGED <<topology, detached, faults, history>>

(* The handler raises and retries remain: _republish starts its backoff.   *)
BackOff(q, m) ==
  /\ copies[q][m]["handling"] > 0
  /\ m.retry + 1 < MaxRetries
  /\ copies' = Moved(copies, q, m, "handling", "backoff")
  /\ failures' = [failures EXCEPT ![q][m] = @ + 1]
  /\ UNCHANGED <<topology, detached, faults, owed, done>>

\* Mutant of DeadLetter: the queue was declared without dead-letter arguments.
RejectWithoutDlx(q, m) ==
  /\ copies[q][m]["handling"] > 0
  /\ m.retry + 1 >= MaxRetries
  /\ copies' = Without(copies, q, m, "handling")
  /\ failures' = [failures EXCEPT ![q][m] = @ + 1]
  /\ UNCHANGED <<topology, detached, faults, owed, done>>

\* Mutant of DeadLetter: one retry too few.
DeadLetterEarly(q, m) ==
  /\ copies[q][m]["handling"] > 0
  /\ m.retry + 2 >= MaxRetries
  /\ copies' = Moved(copies, q, m, "handling", "dead")
  /\ failures' = [failures EXCEPT ![q][m] = @ + 1]
  /\ UNCHANGED <<topology, detached, faults, owed, done>>

(* The handler raises and retry + 1 >= MAX_RETRIES: reject without requeue,*)
(* and the queue's x-dead-letter arguments take the message to its DLQ.    *)
DeadLetter(q, m) ==
  /\ copies[q][m]["handling"] > 0
  /\ m.retry + 1 >= MaxRetries
  /\ copies' = Moved(copies, q, m, "handling", "dead")
  /\ failures' = [failures EXCEPT ![q][m] = @ + 1]
  /\ UNCHANGED <<topology, detached, faults, owed, done>>

\* Mutant of Republish: the retry is published twice.
RepublishTwice(q, m) ==
  /\ copies[q][m]["backoff"] > 0
  /\ copies' = Routed(Routed(Moved(copies, q, m, "backoff", "republished"),
                             Message(m.event, m.retry + 1)),
                      Message(m.event, m.retry + 1))
  /\ UNCHANGED <<topology, detached, faults, history>>

\* Mutant of Republish: the retry goes out under a key no queue is bound to.
RepublishNowhere(q, m) ==
  /\ copies[q][m]["backoff"] > 0
  /\ copies' = Moved(copies, q, m, "backoff", "republished")
  /\ UNCHANGED <<topology, detached, faults, history>>

(* The backoff is over: the copy with x-retry + 1 goes to the exchange,    *)
(* under the message's routing key.                                        *)
Republish(q, m) ==
  /\ copies[q][m]["backoff"] > 0
  /\ copies' = Routed(Moved(copies, q, m, "backoff", "republished"),
                      Message(m.event, m.retry + 1))
  /\ UNCHANGED <<topology, detached, faults, history>>

\* Mutant of RepublishError: the message is acked although its retry is not out.
AckDespiteError(q, m) ==
  /\ publishErrors < MaxPublishErrors
  /\ copies[q][m]["backoff"] > 0
  /\ publishErrors' = publishErrors + 1
  /\ copies' = Without(copies, q, m, "backoff")
  /\ UNCHANGED <<topology, detached, crashes, history>>

(* exchange.publish raises inside the except branch: the exception leaves  *)
(* _handle and nobody acks or rejects the message.                         *)
RepublishError(q, m) ==
  /\ publishErrors < MaxPublishErrors
  /\ copies[q][m]["backoff"] > 0
  /\ publishErrors' = publishErrors + 1
  /\ copies' = Moved(copies, q, m, "backoff", "stuck")
  /\ UNCHANGED <<topology, detached, crashes, history>>

\* Mutant of AckRepublished: the ack after _republish is forgotten.
ForgottenAck(q, m) == FALSE

(* await message.ack() after _republish.                                   *)
AckRepublished(q, m) ==
  /\ copies[q][m]["republished"] > 0
  /\ copies' = Without(copies, q, m, "republished")
  /\ UNCHANGED <<topology, detached, faults, history>>

\* c with every unacked copy of queue q ready again.
Requeued(c, q) ==
  [c EXCEPT ![q] =
    [m \in Messages |->
      [p \in Places |->
        IF p \in Unacked THEN 0
        ELSE IF p = "ready" THEN c[q][m]["ready"] + UnackedCopies(q, m)
        ELSE c[q][m][p]]]]

(* The consumer's process dies, its tasks with it.                         *)
Crash(q) ==
  /\ crashes < MaxCrashes
  /\ q \in consuming
  /\ crashes' = crashes + 1
  /\ consuming' = consuming \ {q}
  /\ copies' = Requeued(copies, q)
  /\ detached' = [detached EXCEPT ![q] = [m \in Messages |-> [x \in Stages |-> 0]]]
  /\ UNCHANGED <<bindings, published, publishErrors, history>>

\* How many acks of messages without a handler may be under way in q's consumer.
AcksUnderWay(q) ==
  {acks \in [Messages -> 0 .. Prefetch] :
    /\ \A m \in Messages :
         acks[m] > 0 => m.event \notin Handlers[q] /\ acks[m] <= copies[q][m]["ready"]
    /\ InFlight(q) + MapThenSumSet(LAMBDA m : acks[m], Messages) <= Prefetch}

(* The consumer's connection is lost and reopened.  The ack of a task that *)
(* is "handled", or that found no handler, raises into the except branch   *)
(* of _handle, which backs off or, on the last retry, fails to reject; one *)
(* that is "republished" fails to ack and ends.                            *)
LoseConnection(q) ==
  /\ crashes < MaxCrashes
  /\ q \in consuming
  /\ crashes' = crashes + 1
  /\ copies' = Requeued(copies, q)
  /\ \E acks \in AcksUnderWay(q) :
       detached' = [detached EXCEPT ![q] =
         [m \in Messages |->
           [x \in Stages |->
             detached[q][m][x] + copies[q][m][x]
               + IF x = "backoff" /\ m.retry + 1 < MaxRetries
                   THEN copies[q][m]["handled"] + acks[m] ELSE 0]]]
  /\ UNCHANGED <<topology, publishErrors, history>>

\* A detached task's handler has ended; whether it returned (the ack raises)
\* or raised, the except branch backs off, or fails to reject on the last retry.
DetachedExcept(q, m) ==
  /\ detached[q][m]["handling"] > 0
  /\ detached' = [detached EXCEPT
       ![q][m]["handling"] = @ - 1,
       ![q][m]["backoff"] = IF m.retry + 1 < MaxRetries THEN @ + 1 ELSE @]

DetachedReturns(q, m) ==
  /\ DetachedExcept(q, m)
  /\ done' = done \cup {<<m.event, q>>}
  /\ UNCHANGED <<topology, copies, faults, owed, failures>>

DetachedRaises(q, m) ==
  /\ DetachedExcept(q, m)
  /\ failures' = [failures EXCEPT ![q][m] = @ + 1]
  /\ UNCHANGED <<topology, copies, faults, owed, done>>

(* A detached task's backoff is over: its retry goes out on the reopened   *)
(* connection, or publishing raises; the ack that follows raises.          *)
DetachedRepublish(q, m) ==
  /\ detached[q][m]["backoff"] > 0
  /\ detached' = [detached EXCEPT ![q][m]["backoff"] = @ - 1]
  /\ copies' \in {copies, Routed(copies, Message(m.event, m.retry + 1))}
  /\ UNCHANGED <<topology, faults, history>>

\* A step of one delivery of message m in queue q.
Task(q, m) ==
  \/ HandlerReturns(q, m)
  \/ Ack(q, m)
  \/ BackOff(q, m)
  \/ DeadLetter(q, m)
  \/ Republish(q, m)
  \/ RepublishError(q, m)
  \/ AckRepublished(q, m)
  \/ DetachedReturns(q, m)
  \/ DetachedRaises(q, m)
  \/ DetachedRepublish(q, m)

Next ==
  \/ \E q \in Queues : Start(q) \/ Crash(q) \/ LoseConnection(q)
  \/ \E e \in Events : Publish(e)
  \/ \E q \in Queues, m \in Messages :
       Deliver(q, m) \/ AckUnhandled(q, m) \/ Task(q, m)

(***************************************************************************)
(* Fairness.  RabbitMQ pushes ready messages to a consumer with a free     *)
(* slot, the asyncio loop resumes every task, a handler ends (it returns   *)
(* or raises), the backoff sleep ends, and a dead service is started again *)
(* (restart: unless-stopped in docker-compose.prod.yml).  Nobody has to    *)
(* publish and nothing has to fail.                                        *)
(***************************************************************************)
Fairness ==
  /\ \A q \in Queues : WF_vars(Start(q))
  /\ \A q \in Queues, m \in Messages :
       /\ WF_vars(Deliver(q, m))
       /\ WF_vars(AckUnhandled(q, m))
       /\ WF_vars(HandlerReturns(q, m) \/ BackOff(q, m) \/ DeadLetter(q, m))
       /\ WF_vars(Ack(q, m))
       /\ WF_vars(Republish(q, m) \/ RepublishError(q, m))
       /\ WF_vars(AckRepublished(q, m))
       /\ WF_vars(DetachedReturns(q, m) \/ DetachedRaises(q, m))
       /\ WF_vars(DetachedRepublish(q, m))

Spec == Init /\ [][Next]_vars

FairSpec == Spec /\ Fairness

-----------------------------------------------------------------------------
(* Properties.                                                             *)

\* A copy of e with x-retry >= r is still somewhere in q (its dead-letter
\* queue included), or q's handler has returned for e.
Covered(e, q, r) ==
  \/ <<e, q>> \in done
  \/ \E m \in Messages : /\ m.event = e
                         /\ m.retry >= r
                         /\ \E p \in Places : copies[q][m][p] > 0

\* At-least-once: an event routed to a queue that handles it is never lost,
\* whatever handlers and _republish raise, and wherever the consumer dies or
\* loses its connection (between publishing a retry and acking the original,
\* say): until the handler has returned for it, some copy is in the queue,
\* unacked, or in the queue's dead-letter queue (consumer.py, _handle).
NeverLost == \A pair \in owed : Covered(pair[1], pair[2], 0)

\* The obligation <<e, q>> has a live copy in q; a dead-lettered copy.
Live(e, q) == \E m \in Messages, p \in Places \ {"dead"} :
                m.event = e /\ copies[q][m][p] > 0
Dead(e, q) == \E m \in Messages : m.event = e /\ copies[q][m]["dead"] > 0

Obligations == {x \in Events \X Queues : x[1] \in Handlers[x[2]]}

Promise == INSTANCE AtLeastOnce WITH
             pending <- {x \in Obligations : Live(x[1], x[2])},
             dead <- {x \in Obligations : Dead(x[1], x[2])}

\* The consumer class implements at-least-once delivery with dead-lettering:
\* every step of the broker, of a handler task or of a crash is, for the
\* (event, queue) pairs, a step of AtLeastOnce.  In particular no ack and no
\* reject retires the last live copy before the event has been handled or
\* dead-lettered there (consumer.py, _handle and _republish).
ImplementsAtLeastOnce == Promise!Spec

\* The queues whose failures a copy of e with x-retry = r can come from, in order.
RetryPaths(e, r) == [1 .. r -> {q \in Queues : e \in Handlers[q]}]

\* A retry goes to the exchange, so every queue bound to the type gets a copy
\* and may fail in its turn.  The x-retry header still bounds the storm: with N
\* queues handling the event and no crash, no queue fails a message with
\* x-retry = r more often than there are paths to it, N^r times; over all
\* retries 1 + N + ... + N^(MAX_RETRIES - 1) times (consumer.py, _handle,
\* _republish).
RetryStormBounded ==
  crashes = 0 =>
    \A q \in Queues, m \in Messages :
      m.event \in Handlers[q] => failures[q][m] <= Cardinality(RetryPaths(m.event, m.retry))

\* A message is not given up early: with no crash, a queue's dead-letter queue holds
\* an event only after a handler has failed for it with every x-retry below
\* MAX_RETRIES.  The failures need not be this queue's own, since x-retry counts
\* those of every queue the event went through (consumer.py, _handle).
DeadAfterRetries ==
  crashes = 0 =>
    \A q \in Queues, m \in Messages :
      copies[q][m]["dead"] > 0 =>
        \A r \in 0 .. MaxRetries - 1 : \E qq \in Queues : failures[qq][Message(m.event, r)] > 0

\* Every event routed to a queue that handles it ends up handled or in the
\* queue's dead-letter queue, even if the consumer crashes on the way
\* (consumer.py, _handle; checked where _republish does not raise).
EverySettled ==
  \A e \in Events, q \in Queues :
    <<e, q>> \in owed ~> \/ <<e, q>> \in done
                        \/ \E m \in Messages : m.event = e /\ copies[q][m]["dead"] > 0

\* The retries die out: eventually nothing is left in any queue or in flight,
\* for good (consumer.py, _handle; checked where _republish does not raise).
Drains ==
  <>[](\A q \in Queues, m \in Messages, p \in Places \ {"dead"} : copies[q][m][p] = 0)

\* What the retry log line says: the message is re-published to the queue whose
\* handler failed, so a queue that has handled an event is not handed it again
\* (consumer.py, _republish).
NoRedundantDelivery ==
  \A e \in Events, q \in Queues :
    crashes = 0 /\ <<e, q>> \in done =>
      \A m \in Messages : m.event = e => copies[q][m]["ready"] = 0
=============================================================================
