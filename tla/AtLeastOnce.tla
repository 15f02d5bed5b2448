---------------------------- MODULE AtLeastOnce ----------------------------
(***************************************************************************)
(* What the event bus promises a service about one event: an obligation is *)
(* an event paired with a queue that handles it.  It is pending from the   *)
(* moment the event is routed there, and it stops being pending only after *)
(* the handler returned for it or a copy reached the dead-letter queue.    *)
(* Nothing bounds how often it is handled: retries and redeliveries make   *)
(* it pending again.                                                       *)
(***************************************************************************)
CONSTANT Obligations

VARIABLES
  pending,   \* obligations with a copy that may still be handled
  done,      \* obligations whose handler has returned at least once
  dead       \* obligations with a copy in the dead-letter queue

vars == <<pending, done, dead>>

Init == pending = {} /\ done = {} /\ dead = {}

\* An event, new or retried, is routed to the queues bound to its type.
Route(S) ==
  /\ pending' = pending \cup S
  /\ UNCHANGED <<done, dead>>

\* A handler returns, having published events that are routed to S, and its copy
\* is acked with it or still has to be.  A handler cut off from its connection
\* may return after another delivery has settled the obligation.
Succeed(x, S) ==
  /\ x \in pending \cup done \cup dead
  /\ done' = done \cup {x}
  /\ pending' \in {pending \cup S, (pending \ {x}) \cup S}
  /\ UNCHANGED dead

\* The last allowed failure: one copy is dead-lettered, others may remain.
Bury(x) ==
  /\ x \in pending
  /\ dead' = dead \cup {x}
  /\ pending' \in {pending, pending \ {x}}
  /\ UNCHANGED done

\* The last live copy is acked, which is allowed only once x is accounted for.
Settle(x) ==
  /\ x \in pending \cap (done \cup dead)
  /\ pending' = pending \ {x}
  /\ UNCHANGED <<done, dead>>

Next ==
  \/ \E S \in SUBSET Obligations : Route(S) \/ \E x \in Obligations : Succeed(x, S)
  \/ \E x \in Obligations : Bury(x) \/ Settle(x)

Spec == Init /\ [][Next]_vars
=============================================================================
