--------------------------- MODULE EventBusProofs ---------------------------
(***************************************************************************)
(* Proofs about EventBus for any set of queues, events and handlers, any   *)
(* MAX_RETRIES and prefetch, and any number of crashes, lost connections   *)
(* and publishing errors.                                                  *)
(***************************************************************************)
EXTENDS EventBus, TotalsProofs

Bag == [Queues -> [Messages -> [Places -> Nat]]]

\* Queue q holds a copy of m in bag c, dead-lettered copies included.
Present(c, q, m) == \E p \in Places : c[q][m][p] > 0

-----------------------------------------------------------------------------
(* What the operators on bags of copies do.                                *)

\* Taking a copy that is there yields a bag and disturbs only that message of
\* that queue, at that place.
LEMMA WithoutCopy ==
  ASSUME NEW STATE c, c \in Bag, NEW q \in Queues, NEW m \in Messages,
         NEW x \in Places, c[q][m][x] > 0
  PROVE  /\ Without(c, q, m, x) \in Bag
         /\ \A qq \in Queues, mm \in Messages, p \in Places :
              Without(c, q, m, x)[qq][mm][p] =
                IF qq = q /\ mm = m /\ p = x THEN c[q][m][x] - 1 ELSE c[qq][mm][p]
  BY DEF Bag, Without

\* Moving a copy from one place to another yields a bag, changes two counts,
\* and no queue gains or loses a message.
LEMMA MovedCopy ==
  ASSUME NEW STATE c, c \in Bag, NEW q \in Queues, NEW m \in Messages,
         NEW x \in Places, NEW y \in Places, x # y, c[q][m][x] > 0
  PROVE  /\ Moved(c, q, m, x, y) \in Bag
         /\ \A qq \in Queues, mm \in Messages, p \in Places :
              Moved(c, q, m, x, y)[qq][mm][p] =
                CASE qq = q /\ mm = m /\ p = x -> c[q][m][x] - 1
                  [] qq = q /\ mm = m /\ p = y -> c[q][m][y] + 1
                  [] OTHER -> c[qq][mm][p]
         /\ \A qq \in Queues, mm \in Messages :
              Present(Moved(c, q, m, x, y), qq, mm) <=> Present(c, qq, mm)
<1>1. Moved(c, q, m, x, y) \in Bag
  <2>1. Without(c, q, m, x) \in Bag
    BY WithoutCopy
  <2>2. Moved(c, q, m, x, y) = [Without(c, q, m, x) EXCEPT ![q][m][y] = c[q][m][y] + 1]
    BY DEF Moved, Without, Bag
  <2>3. c[q][m][y] + 1 \in Nat
    BY DEF Bag
  <2>4. QED
    BY <2>1, <2>2, <2>3 DEF Bag
<1>2. \A qq \in Queues, mm \in Messages, p \in Places :
        Moved(c, q, m, x, y)[qq][mm][p] =
          CASE qq = q /\ mm = m /\ p = x -> c[q][m][x] - 1
            [] qq = q /\ mm = m /\ p = y -> c[q][m][y] + 1
            [] OTHER -> c[qq][mm][p]
  BY DEF Bag, Moved
<1>3. ASSUME NEW qq \in Queues, NEW mm \in Messages
      PROVE  Present(Moved(c, q, m, x, y), qq, mm) <=> Present(c, qq, mm)
  <2>1. CASE qq = q /\ mm = m
    <3>1. Moved(c, q, m, x, y)[q][m][y] = c[q][m][y] + 1
      BY <1>2
    <3>2. c[q][m][y] \in Nat
      BY DEF Bag
    <3>3. QED
      BY <2>1, <3>1, <3>2 DEF Present
  <2>2. CASE ~(qq = q /\ mm = m)
    BY <2>2, <1>2 DEF Present
  <2>3. QED
    BY <2>1, <2>2
<1>4. QED
  BY <1>1, <1>2, <1>3

\* Routing a message yields a bag with one more ready copy in every bound
\* queue and no other change.
LEMMA RoutedCopy ==
  ASSUME NEW STATE c, c \in Bag, NEW m \in Messages
  PROVE  /\ Routed(c, m) \in Bag
         /\ \A qq \in Queues, mm \in Messages, p \in Places :
              Routed(c, m)[qq][mm][p] =
                IF qq \in Route(m.event) /\ mm = m /\ p = "ready"
                  THEN c[qq][mm][p] + 1 ELSE c[qq][mm][p]
         /\ \A qq \in Queues, mm \in Messages :
              Present(Routed(c, m), qq, mm) <=>
                Present(c, qq, mm) \/ (qq \in Route(m.event) /\ mm = m)
<1>0. "ready" \in Places
  BY DEF Places
<1>1. ASSUME NEW qq \in Queues
      PROVE  /\ Routed(c, m)[qq] \in [Messages -> [Places -> Nat]]
             /\ \A mm \in Messages, p \in Places :
                  Routed(c, m)[qq][mm][p] =
                    IF qq \in Route(m.event) /\ mm = m /\ p = "ready"
                      THEN c[qq][mm][p] + 1 ELSE c[qq][mm][p]
  <2>1. c[qq] \in [Messages -> [Places -> Nat]]
    BY DEF Bag
  <2>2. Routed(c, m)[qq] = IF qq \in Route(m.event)
                             THEN [c[qq] EXCEPT ![m]["ready"] = @ + 1] ELSE c[qq]
    BY DEF Routed
  <2>3. QED
    BY <1>0, <2>1, <2>2
<1>2. Routed(c, m) = [qq \in Queues |-> Routed(c, m)[qq]]
  BY DEF Routed
<1>3. Routed(c, m) \in Bag
  BY <1>1, <1>2 DEF Bag
<1>4. ASSUME NEW qq \in Queues, NEW mm \in Messages
      PROVE  Present(Routed(c, m), qq, mm) <=>
               Present(c, qq, mm) \/ (qq \in Route(m.event) /\ mm = m)
  <2>1. \A p \in Places : c[qq][mm][p] \in Nat
    BY DEF Bag
  <2>2. CASE qq \in Route(m.event) /\ mm = m
    BY <1>0, <1>1, <2>1, <2>2 DEF Present
  <2>3. CASE ~(qq \in Route(m.event) /\ mm = m)
    BY <1>1, <2>3 DEF Present
  <2>4. QED
    BY <2>2, <2>3
<1>5. QED
  BY <1>1, <1>3, <1>4

\* Requeuing yields a bag, clears the unacked places of that queue, and no
\* queue gains or loses a message.
LEMMA RequeuedCopies ==
  ASSUME copies \in Bag, NEW q \in Queues
  PROVE  /\ Requeued(copies, q) \in Bag
         /\ \A qq \in Queues, mm \in Messages, p \in Unacked :
              Requeued(copies, q)[qq][mm][p] = IF qq = q THEN 0 ELSE copies[qq][mm][p]
         /\ \A qq \in Queues, mm \in Messages :
              Present(Requeued(copies, q), qq, mm) <=> Present(copies, qq, mm)
<1>1. \A qq \in Queues, mm \in Messages, p \in Places : copies[qq][mm][p] \in Nat
  BY DEF Bag
<1>2. \A mm \in Messages : UnackedCopies(q, mm) \in Nat
  BY <1>1 DEF UnackedCopies, Places, Unacked
<1>3. \A qq \in Queues, mm \in Messages, p \in Places :
        Requeued(copies, q)[qq][mm][p] =
          IF qq # q THEN copies[qq][mm][p]
          ELSE IF p \in Unacked THEN 0
          ELSE IF p = "ready" THEN copies[q][mm]["ready"] + UnackedCopies(q, mm)
          ELSE copies[q][mm][p]
  BY DEF Requeued, Bag
<1>4. Requeued(copies, q) \in Bag
  <2>1. [mm \in Messages |->
          [p \in Places |->
            IF p \in Unacked THEN 0
            ELSE IF p = "ready" THEN copies[q][mm]["ready"] + UnackedCopies(q, mm)
            ELSE copies[q][mm][p]]] \in [Messages -> [Places -> Nat]]
    BY <1>1, <1>2 DEF Places
  <2>2. QED
    BY <2>1 DEF Requeued, Bag
<1>5. ASSUME NEW mm \in Messages
      PROVE  Present(Requeued(copies, q), q, mm) <=> Present(copies, q, mm)
  <2>1. Present(copies, q, mm) <=>
          UnackedCopies(q, mm) > 0 \/ copies[q][mm]["ready"] > 0 \/ copies[q][mm]["dead"] > 0
    <3>1. /\ copies[q][mm]["handling"] \in Nat /\ copies[q][mm]["handled"] \in Nat
          /\ copies[q][mm]["backoff"] \in Nat /\ copies[q][mm]["republished"] \in Nat
          /\ copies[q][mm]["stuck"] \in Nat
      BY <1>1 DEF Places, Unacked
    <3>2. Present(copies, q, mm) <=>
            \/ copies[q][mm]["handling"] > 0 \/ copies[q][mm]["handled"] > 0
            \/ copies[q][mm]["backoff"] > 0 \/ copies[q][mm]["republished"] > 0
            \/ copies[q][mm]["stuck"] > 0
            \/ copies[q][mm]["ready"] > 0 \/ copies[q][mm]["dead"] > 0
      BY DEF Present, Places, Unacked
    <3>3. QED
      BY <3>1, <3>2 DEF UnackedCopies
  <2>2. Present(Requeued(copies, q), q, mm) <=>
          \/ copies[q][mm]["ready"] + UnackedCopies(q, mm) > 0
          \/ copies[q][mm]["dead"] > 0
    BY <1>3 DEF Present, Places, Unacked
  <2>3. QED
    BY <1>1, <1>2, <2>1, <2>2 DEF Places
<1>6. \A qq \in Queues, mm \in Messages : qq # q =>
        (Present(Requeued(copies, q), qq, mm) <=> Present(copies, qq, mm))
  BY <1>3 DEF Present
<1>7. QED
  BY <1>3, <1>4, <1>5, <1>6 DEF Places

-----------------------------------------------------------------------------
(* The inductive invariant.                                                *)

\* Only a message with a retry left backs off (the else branch of _handle).
RetriesRemain ==
  \A q \in Queues, m \in Messages :
    copies[q][m]["backoff"] > 0 \/ detached[q][m]["backoff"] > 0 =>
      m.retry + 1 < MaxRetries

\* A queue holds only copies of events it is still bound to, because nothing
\* removes a binding: a retry always comes back to the queue that failed.
Bound == \A q \in Queues, m \in Messages : Present(copies, q, m) => m.event \in bindings[q]

\* A message is about to be acked as handled only if its handler returned.
HandledDone ==
  \A q \in Queues, m \in Messages : copies[q][m]["handled"] > 0 => <<m.event, q>> \in done

\* A message is about to be acked as republished only if its retry, or a later
\* one, is accounted for.
RetryIsOut ==
  \A q \in Queues, m \in Messages :
    m.event \in Handlers[q] /\ copies[q][m]["republished"] > 0 =>
      Covered(m.event, q, m.retry + 1)

OwedHandled == \A x \in owed : x[1] \in Handlers[x[2]]

TypeInv == TypeOK /\ RetriesRemain
Safe == Bound /\ HandledDone /\ RetryIsOut /\ OwedHandled /\ NeverLost
IInv == TypeInv /\ Safe

LEMMA RetryIsMessage ==
  ASSUME NEW m \in Messages, m.retry + 1 < MaxRetries
  PROVE  Message(m.event, m.retry + 1) \in Messages
  BY BusAssumption DEF Message, Messages

LEMMA FreshIsMessage ==
  ASSUME NEW e \in Events
  PROVE  Message(e, 0) \in Messages
  BY BusAssumption DEF Message, Messages

\* The shape of detached tasks survives every change to it.
LEMMA DetachedSteps ==
  ASSUME TypeOK, NEW q \in Queues, NEW m \in Messages
  PROVE  /\ DetachedExcept(q, m) =>
              /\ detached' \in [Queues -> [Messages -> [Stages -> Nat]]]
              /\ \A qq \in Queues, mm \in Messages :
                   detached'[qq][mm]["backoff"] > 0 =>
                     detached[qq][mm]["backoff"] > 0 \/ mm.retry + 1 < MaxRetries
         /\ DetachedRepublish(q, m) =>
              /\ detached' \in [Queues -> [Messages -> [Stages -> Nat]]]
              /\ \A qq \in Queues, mm \in Messages :
                   detached'[qq][mm]["backoff"] > 0 => detached[qq][mm]["backoff"] > 0
<1>1. ASSUME DetachedExcept(q, m)
      PROVE  /\ detached' \in [Queues -> [Messages -> [Stages -> Nat]]]
             /\ \A qq \in Queues, mm \in Messages :
                  detached'[qq][mm]["backoff"] > 0 =>
                    detached[qq][mm]["backoff"] > 0 \/ mm.retry + 1 < MaxRetries
  <2>1. detached \in [Queues -> [Messages -> [Stages -> Nat]]]
    BY DEF TypeOK
  <2>2. CASE m.retry + 1 < MaxRetries
    BY <1>1, <2>1, <2>2 DEF DetachedExcept, Stages
  <2>3. CASE ~(m.retry + 1 < MaxRetries)
    BY <1>1, <2>1, <2>3 DEF DetachedExcept, Stages
  <2>4. QED
    BY <2>2, <2>3
<1>2. ASSUME DetachedRepublish(q, m)
      PROVE  /\ detached' \in [Queues -> [Messages -> [Stages -> Nat]]]
             /\ \A qq \in Queues, mm \in Messages :
                  detached'[qq][mm]["backoff"] > 0 => detached[qq][mm]["backoff"] > 0
  BY <1>2 DEF DetachedRepublish, TypeOK, Stages
<1>3. QED
  BY <1>1, <1>2

\* Losing the connection detaches the running tasks; only those that still
\* have a retry back off.
LEMMA DetachedOnLoss ==
  ASSUME TypeInv, NEW q \in Queues, LoseConnection(q)
  PROVE  /\ detached' \in [Queues -> [Messages -> [Stages -> Nat]]]
         /\ \A qq \in Queues, mm \in Messages :
              detached'[qq][mm]["backoff"] > 0 => mm.retry + 1 < MaxRetries
<1>1. \A mm \in Messages : /\ copies[q][mm]["handling"] \in Nat
                           /\ copies[q][mm]["backoff"] \in Nat
                           /\ copies[q][mm]["handled"] \in Nat
                           /\ detached[q][mm]["handling"] \in Nat
                           /\ detached[q][mm]["backoff"] \in Nat
  BY DEF TypeInv, TypeOK, Places, Unacked, Stages
<1>0. PICK acks \in AcksUnderWay(q) :
        detached' = [detached EXCEPT ![q] =
          [m \in Messages |->
            [x \in Stages |->
              detached[q][m][x] + copies[q][m][x]
                + IF x = "backoff" /\ m.retry + 1 < MaxRetries
                    THEN copies[q][m]["handled"] + acks[m] ELSE 0]]]
  BY DEF LoseConnection
<1>a. \A mm \in Messages : acks[mm] \in Nat
  <2>1. acks \in [Messages -> 0 .. Prefetch]
    BY DEF AcksUnderWay
  <2>2. QED
    BY <2>1, BusAssumption
<1>2. \A mm \in Messages : \A x \in Stages :
        detached[q][mm][x] + copies[q][mm][x]
          + (IF x = "backoff" /\ mm.retry + 1 < MaxRetries
              THEN copies[q][mm]["handled"] + acks[mm] ELSE 0) \in Nat
  BY <1>1, <1>a DEF Stages
<1>3. detached' \in [Queues -> [Messages -> [Stages -> Nat]]]
  BY <1>0, <1>2 DEF TypeInv, TypeOK
<1>4. \A qq \in Queues, mm \in Messages : qq # q => detached'[qq][mm] = detached[qq][mm]
  BY DEF LoseConnection, TypeInv, TypeOK
<1>5. ASSUME NEW mm \in Messages, detached'[q][mm]["backoff"] > 0
      PROVE  mm.retry + 1 < MaxRetries
  <2>1. detached'[q][mm]["backoff"] =
          detached[q][mm]["backoff"] + copies[q][mm]["backoff"]
            + (IF mm.retry + 1 < MaxRetries THEN copies[q][mm]["handled"] + acks[mm] ELSE 0)
    BY <1>0 DEF TypeInv, TypeOK, Stages
  <2>2. QED
    BY <1>1, <1>a, <1>5, <2>1 DEF TypeInv, RetriesRemain
<1>6. QED
  BY <1>3, <1>4, <1>5 DEF TypeInv, RetriesRemain

-----------------------------------------------------------------------------
(* Type correctness.                                                       *)

\* A task step that moves a copy to a place other than the backoff keeps the
\* bag well formed, and nothing new backs off.
LEMMA MoveTypes ==
  ASSUME TypeInv, NEW q \in Queues, NEW m \in Messages,
         NEW x \in Places, NEW y \in Places, x # y, copies[q][m][x] > 0,
         copies' = Moved(copies, q, m, x, y)
  PROVE  /\ copies' \in Bag
         /\ \A qq \in Queues, mm \in Messages :
              copies'[qq][mm]["backoff"] > 0 =>
                copies[qq][mm]["backoff"] > 0 \/ (y = "backoff" /\ mm = m)
<1>1. copies \in Bag
  BY DEF TypeInv, TypeOK, Bag
<1>2. "backoff" \in Places
  BY DEF Places, Unacked
<1>3. \A qq \in Queues, mm \in Messages, p \in Places : copies[qq][mm][p] \in Nat
  BY <1>1 DEF Bag
<1>4. QED
  BY <1>1, <1>2, <1>3, MovedCopy

LEMMA WithoutTypes ==
  ASSUME TypeInv, NEW q \in Queues, NEW m \in Messages, NEW x \in Places,
         copies[q][m][x] > 0, copies' = Without(copies, q, m, x)
  PROVE  /\ copies' \in Bag
         /\ \A qq \in Queues, mm \in Messages :
              copies'[qq][mm]["backoff"] > 0 => copies[qq][mm]["backoff"] > 0
<1>1. copies \in Bag
  BY DEF TypeInv, TypeOK, Bag
<1>2. "backoff" \in Places
  BY DEF Places, Unacked
<1>3. \A qq \in Queues, mm \in Messages, p \in Places : copies[qq][mm][p] \in Nat
  BY <1>1 DEF Bag
<1>4. QED
  BY <1>1, <1>2, <1>3, WithoutCopy

\* Republish is a move followed by a routing.
LEMMA RepublishCopies ==
  ASSUME TypeInv, NEW q \in Queues, NEW m \in Messages, Republish(q, m)
  PROVE  /\ Message(m.event, m.retry + 1) \in Messages
         /\ Moved(copies, q, m, "backoff", "republished") \in Bag
         /\ copies' \in Bag
         /\ \A qq \in Queues, mm \in Messages, p \in Places :
              p \notin {"ready", "republished"} /\ copies'[qq][mm][p] > 0 =>
                copies[qq][mm][p] > 0
         /\ \A qq \in Queues, mm \in Messages :
              copies'[qq][mm]["republished"] > 0 =>
                copies[qq][mm]["republished"] > 0 \/ (qq = q /\ mm = m)
         /\ \A qq \in Queues, mm \in Messages :
              Present(copies', qq, mm) <=>
                \/ Present(copies, qq, mm)
                \/ qq \in Route(m.event) /\ mm = Message(m.event, m.retry + 1)
<1> DEFINE n == Message(m.event, m.retry + 1)
           d == Moved(copies, q, m, "backoff", "republished")
<1>1. copies \in Bag
  BY DEF TypeInv, TypeOK, Bag
<1>2. {"backoff", "republished", "ready"} \subseteq Places
  BY DEF Places, Unacked
<1>3. \A qq \in Queues, mm \in Messages, p \in Places : copies[qq][mm][p] \in Nat
  BY <1>1 DEF Bag
<1>4. n \in Messages
  BY RetryIsMessage DEF Republish, TypeInv, RetriesRemain
<1>5. copies[q][m]["backoff"] > 0 /\ copies' = Routed(d, n)
  BY DEF Republish
<1>6. /\ d \in Bag
      /\ \A qq \in Queues, mm \in Messages, p \in Places :
           d[qq][mm][p] =
             CASE qq = q /\ mm = m /\ p = "backoff" -> copies[q][m]["backoff"] - 1
               [] qq = q /\ mm = m /\ p = "republished" -> copies[q][m]["republished"] + 1
               [] OTHER -> copies[qq][mm][p]
      /\ \A qq \in Queues, mm \in Messages : Present(d, qq, mm) <=> Present(copies, qq, mm)
  BY <1>1, <1>2, <1>5, MovedCopy
<1> HIDE DEF d
<1>7. /\ Routed(d, n) \in Bag
      /\ \A qq \in Queues, mm \in Messages, p \in Places :
           Routed(d, n)[qq][mm][p] =
             IF qq \in Route(n.event) /\ mm = n /\ p = "ready"
               THEN d[qq][mm][p] + 1 ELSE d[qq][mm][p]
      /\ \A qq \in Queues, mm \in Messages :
           Present(Routed(d, n), qq, mm) <=>
             Present(d, qq, mm) \/ (qq \in Route(n.event) /\ mm = n)
  BY <1>4, <1>6, RoutedCopy
<1>8. n.event = m.event
  BY DEF Message
<1> HIDE DEF n
<1>9. \A qq \in Queues, mm \in Messages, p \in Places :
        p \notin {"ready", "republished"} /\ copies'[qq][mm][p] > 0 =>
          copies[qq][mm][p] > 0
  BY <1>2, <1>3, <1>5, <1>6, <1>7
<1>10. \A qq \in Queues, mm \in Messages :
         copies'[qq][mm]["republished"] > 0 =>
           copies[qq][mm]["republished"] > 0 \/ (qq = q /\ mm = m)
  BY <1>2, <1>3, <1>5, <1>6, <1>7
<1>11. \A qq \in Queues, mm \in Messages :
         Present(copies', qq, mm) <=>
           Present(copies, qq, mm) \/ (qq \in Route(m.event) /\ mm = n)
  BY <1>5, <1>6, <1>7, <1>8
<1>12. QED
  BY <1>4, <1>5, <1>6, <1>7, <1>9, <1>10, <1>11 DEF n, d

\* Every action keeps the type invariant.
LEMMA TypeInvStep ==
  ASSUME TypeInv, [Next]_vars
  PROVE  TypeInv'
<1> DEFINE DetachedType == [Queues -> [Messages -> [Stages -> Nat]]]
<1>0. /\ copies \in Bag
      /\ \A qq \in Queues, mm \in Messages, p \in Places : copies[qq][mm][p] \in Nat
      /\ Places = {"handling", "handled", "backoff", "republished", "stuck", "ready", "dead"}
  BY DEF TypeInv, TypeOK, Bag, Places, Unacked
<1>a. ASSUME NEW q \in Queues, Start(q) PROVE TypeInv'
  BY <1>a, BusAssumption
  DEF Start, TypeInv, TypeOK, RetriesRemain, faults, history
<1>b. ASSUME NEW e \in Events, Publish(e) PROVE TypeInv'
  <2>1. Message(e, 0) \in Messages
    BY FreshIsMessage
  <2>2. /\ copies' \in Bag
        /\ \A qq \in Queues, mm \in Messages :
             copies'[qq][mm]["backoff"] = copies[qq][mm]["backoff"]
    BY <1>0, <1>b, <2>1, RoutedCopy DEF Publish
  <2>3. owed' \subseteq Events \X Queues
    BY <1>b DEF Publish, TypeInv, TypeOK, Route
  <2>4. TypeOK'
    BY <1>b, <2>2, <2>3 DEF Publish, TypeInv, TypeOK, Bag, faults
  <2>5. QED
    BY <1>b, <2>2, <2>4 DEF Publish, TypeInv, RetriesRemain
<1>c. ASSUME NEW q \in Queues, NEW m \in Messages, Deliver(q, m) PROVE TypeInv'
  <2>1. copies[q][m]["ready"] > 0 /\ copies' = Moved(copies, q, m, "ready", "handling")
    BY <1>c DEF Deliver
  <2>2. /\ copies' \in Bag
        /\ \A qq \in Queues, mm \in Messages :
             copies'[qq][mm]["backoff"] > 0 => copies[qq][mm]["backoff"] > 0
    BY <1>0, <2>1, MoveTypes
  <2>3. TypeOK'
    BY <1>c, <2>2 DEF Deliver, TypeInv, TypeOK, Bag, topology, faults, history
  <2>4. QED
    BY <1>c, <2>2, <2>3 DEF Deliver, TypeInv, RetriesRemain
<1>d. ASSUME NEW q \in Queues, NEW m \in Messages, AckUnhandled(q, m) PROVE TypeInv'
  <2>1. copies[q][m]["ready"] > 0 /\ copies' = Without(copies, q, m, "ready")
    BY <1>d DEF AckUnhandled
  <2>2. /\ copies' \in Bag
        /\ \A qq \in Queues, mm \in Messages :
             copies'[qq][mm]["backoff"] > 0 => copies[qq][mm]["backoff"] > 0
    BY <1>0, <2>1, WithoutTypes
  <2>3. TypeOK'
    BY <1>d, <2>2 DEF AckUnhandled, TypeInv, TypeOK, Bag, topology, faults, history
  <2>4. QED
    BY <1>d, <2>2, <2>3 DEF AckUnhandled, TypeInv, RetriesRemain
<1>e. ASSUME NEW q \in Queues, NEW m \in Messages, HandlerReturns(q, m) PROVE TypeInv'
  <2>1. copies[q][m]["handling"] > 0 /\ copies' = Moved(copies, q, m, "handling", "handled")
    BY <1>e DEF HandlerReturns
  <2>2. /\ copies' \in Bag
        /\ \A qq \in Queues, mm \in Messages :
             copies'[qq][mm]["backoff"] > 0 => copies[qq][mm]["backoff"] > 0
    BY <1>0, <2>1, MoveTypes
  <2>3. done' \subseteq Events \X Queues
    BY <1>e DEF HandlerReturns, TypeInv, TypeOK, Messages
  <2>4. TypeOK'
    BY <1>e, <2>2, <2>3 DEF HandlerReturns, TypeInv, TypeOK, Bag, topology, faults
  <2>5. QED
    BY <1>e, <2>2, <2>4 DEF HandlerReturns, TypeInv, RetriesRemain
<1>f. ASSUME NEW q \in Queues, NEW m \in Messages, Ack(q, m) PROVE TypeInv'
  <2>1. copies[q][m]["handled"] > 0 /\ copies' = Without(copies, q, m, "handled")
    BY <1>f DEF Ack
  <2>2. /\ copies' \in Bag
        /\ \A qq \in Queues, mm \in Messages :
             copies'[qq][mm]["backoff"] > 0 => copies[qq][mm]["backoff"] > 0
    BY <1>0, <2>1, WithoutTypes
  <2>3. TypeOK'
    BY <1>f, <2>2 DEF Ack, TypeInv, TypeOK, Bag, topology, faults, history
  <2>4. QED
    BY <1>f, <2>2, <2>3 DEF Ack, TypeInv, RetriesRemain
<1>g. ASSUME NEW q \in Queues, NEW m \in Messages,
             BackOff(q, m) \/ DeadLetter(q, m)
      PROVE  TypeInv'
  <2>1. \E y \in {"backoff", "dead"} :
          /\ copies[q][m]["handling"] > 0
          /\ copies' = Moved(copies, q, m, "handling", y)
          /\ y = "backoff" => m.retry + 1 < MaxRetries
    BY <1>g DEF BackOff, DeadLetter
  <2>2. /\ copies' \in Bag
        /\ \A qq \in Queues, mm \in Messages :
             copies'[qq][mm]["backoff"] > 0 =>
               copies[qq][mm]["backoff"] > 0 \/ mm.retry + 1 < MaxRetries
    BY <1>0, <2>1, MoveTypes
  <2>3. failures' \in [Queues -> [Messages -> Nat]]
    <3>1. failures' = [failures EXCEPT ![q][m] = @ + 1]
      BY <1>g DEF BackOff, DeadLetter
    <3>2. failures \in [Queues -> [Messages -> Nat]]
      BY DEF TypeInv, TypeOK
    <3>3. QED
      BY <3>1, <3>2
  <2>4. TypeOK'
    BY <1>g, <2>2, <2>3 DEF BackOff, DeadLetter, TypeInv, TypeOK, Bag, topology, faults
  <2>5. QED
    BY <1>g, <2>2, <2>4 DEF BackOff, DeadLetter, TypeInv, RetriesRemain
<1>h. ASSUME NEW q \in Queues, NEW m \in Messages, Republish(q, m) PROVE TypeInv'
  <2>1. /\ copies' \in Bag
        /\ \A qq \in Queues, mm \in Messages :
             copies'[qq][mm]["backoff"] > 0 => copies[qq][mm]["backoff"] > 0
    BY <1>0, <1>h, RepublishCopies
  <2>2. TypeOK'
    BY <1>h, <2>1 DEF Republish, TypeInv, TypeOK, Bag, topology, faults, history
  <2>3. QED
    BY <1>h, <2>1, <2>2 DEF Republish, TypeInv, RetriesRemain
<1>i. ASSUME NEW q \in Queues, NEW m \in Messages, RepublishError(q, m) PROVE TypeInv'
  <2>1. copies[q][m]["backoff"] > 0 /\ copies' = Moved(copies, q, m, "backoff", "stuck")
    BY <1>i DEF RepublishError
  <2>2. /\ copies' \in Bag
        /\ \A qq \in Queues, mm \in Messages :
             copies'[qq][mm]["backoff"] > 0 => copies[qq][mm]["backoff"] > 0
    BY <1>0, <2>1, MoveTypes
  <2>3. publishErrors' \in 0 .. MaxPublishErrors
    BY <1>i, BusAssumption DEF RepublishError, TypeInv, TypeOK
  <2>4. TypeOK'
    BY <1>i, <2>2, <2>3 DEF RepublishError, TypeInv, TypeOK, Bag, topology, history
  <2>5. QED
    BY <1>i, <2>2, <2>4 DEF RepublishError, TypeInv, RetriesRemain
<1>j. ASSUME NEW q \in Queues, NEW m \in Messages, AckRepublished(q, m) PROVE TypeInv'
  <2>1. copies[q][m]["republished"] > 0 /\ copies' = Without(copies, q, m, "republished")
    BY <1>j DEF AckRepublished
  <2>2. /\ copies' \in Bag
        /\ \A qq \in Queues, mm \in Messages :
             copies'[qq][mm]["backoff"] > 0 => copies[qq][mm]["backoff"] > 0
    BY <1>0, <2>1, WithoutTypes
  <2>3. TypeOK'
    BY <1>j, <2>2 DEF AckRepublished, TypeInv, TypeOK, Bag, topology, faults, history
  <2>4. QED
    BY <1>j, <2>2, <2>3 DEF AckRepublished, TypeInv, RetriesRemain
<1>k. ASSUME NEW q \in Queues, Crash(q) PROVE TypeInv'
  <2>1. /\ copies' \in Bag
        /\ \A qq \in Queues, mm \in Messages :
             copies'[qq][mm]["backoff"] > 0 => copies[qq][mm]["backoff"] > 0
    BY <1>0, <1>k, RequeuedCopies DEF Crash, Unacked
  <2>2. /\ detached' \in DetachedType
        /\ \A qq \in Queues, mm \in Messages :
             detached'[qq][mm]["backoff"] > 0 => detached[qq][mm]["backoff"] > 0
    BY <1>k DEF Crash, TypeInv, TypeOK, Stages
  <2>3. crashes' \in 0 .. MaxCrashes
    BY <1>k, BusAssumption DEF Crash, TypeInv, TypeOK
  <2>4. TypeOK'
    BY <1>k, <2>1, <2>2, <2>3 DEF Crash, TypeInv, TypeOK, Bag, history
  <2>5. QED
    BY <2>1, <2>2, <2>4 DEF TypeInv, RetriesRemain
<1>l. ASSUME NEW q \in Queues, LoseConnection(q) PROVE TypeInv'
  <2>1. /\ copies' \in Bag
        /\ \A qq \in Queues, mm \in Messages :
             copies'[qq][mm]["backoff"] > 0 => copies[qq][mm]["backoff"] > 0
    BY <1>0, <1>l, RequeuedCopies DEF LoseConnection, Unacked
  <2>2. /\ detached' \in DetachedType
        /\ \A qq \in Queues, mm \in Messages :
             detached'[qq][mm]["backoff"] > 0 => mm.retry + 1 < MaxRetries
    BY <1>l, DetachedOnLoss
  <2>3. crashes' \in 0 .. MaxCrashes
    BY <1>l, BusAssumption DEF LoseConnection, TypeInv, TypeOK
  <2>4. TypeOK'
    BY <1>l, <2>1, <2>2, <2>3 DEF LoseConnection, TypeInv, TypeOK, Bag, topology, history
  <2>5. QED
    BY <2>1, <2>2, <2>4 DEF TypeInv, RetriesRemain
<1>m. ASSUME NEW q \in Queues, NEW m \in Messages,
             DetachedReturns(q, m) \/ DetachedRaises(q, m)
      PROVE  TypeInv'
  <2>1. /\ DetachedExcept(q, m) /\ copies' = copies
        /\ <<topology, faults, owed>>' = <<topology, faults, owed>>
    BY <1>m DEF DetachedReturns, DetachedRaises
  <2>2. /\ detached' \in DetachedType
        /\ \A qq \in Queues, mm \in Messages :
             detached'[qq][mm]["backoff"] > 0 =>
               detached[qq][mm]["backoff"] > 0 \/ mm.retry + 1 < MaxRetries
    BY <2>1, DetachedSteps DEF TypeInv
  <2>3. done' \subseteq Events \X Queues
    BY <1>m DEF DetachedReturns, DetachedRaises, TypeInv, TypeOK, Messages
  <2>4. failures' \in [Queues -> [Messages -> Nat]]
    <3>1. failures' \in {failures, [failures EXCEPT ![q][m] = @ + 1]}
      BY <1>m DEF DetachedReturns, DetachedRaises
    <3>2. failures \in [Queues -> [Messages -> Nat]]
      BY DEF TypeInv, TypeOK
    <3>3. [failures EXCEPT ![q][m] = @ + 1] \in [Queues -> [Messages -> Nat]]
      BY <3>2
    <3>4. QED
      BY <3>1, <3>2, <3>3
  <2>5. TypeOK'
    BY <2>1, <2>2, <2>3, <2>4 DEF TypeInv, TypeOK, topology, faults
  <2>6. QED
    BY <2>1, <2>2, <2>5 DEF TypeInv, RetriesRemain
<1>n. ASSUME NEW q \in Queues, NEW m \in Messages, DetachedRepublish(q, m) PROVE TypeInv'
  <2>1. Message(m.event, m.retry + 1) \in Messages
    BY <1>n, RetryIsMessage DEF DetachedRepublish, TypeInv, RetriesRemain
  <2>2. /\ copies' \in Bag
        /\ \A qq \in Queues, mm \in Messages :
             copies'[qq][mm]["backoff"] = copies[qq][mm]["backoff"]
    <3> DEFINE n == Message(m.event, m.retry + 1)
    <3>1. copies' = copies \/ copies' = Routed(copies, n)
      BY <1>n DEF DetachedRepublish
    <3> HIDE DEF n
    <3>2. /\ Routed(copies, n) \in Bag
          /\ \A qq \in Queues, mm \in Messages :
               Routed(copies, n)[qq][mm]["backoff"] = copies[qq][mm]["backoff"]
      BY <1>0, <2>1, RoutedCopy DEF n
    <3>3. QED
      BY <1>0, <3>1, <3>2
  <2>3. /\ detached' \in DetachedType
        /\ \A qq \in Queues, mm \in Messages :
             detached'[qq][mm]["backoff"] > 0 => detached[qq][mm]["backoff"] > 0
    BY <1>n, DetachedSteps DEF TypeInv
  <2>4. TypeOK'
    BY <1>n, <2>2, <2>3 DEF DetachedRepublish, TypeInv, TypeOK, Bag, topology, faults, history
  <2>5. QED
    BY <2>2, <2>3, <2>4 DEF TypeInv, RetriesRemain
<1>o. CASE UNCHANGED vars
  BY <1>o DEF vars, topology, faults, history, TypeInv, TypeOK, RetriesRemain
<1>p. QED
  BY <1>a, <1>b, <1>c, <1>d, <1>e, <1>f, <1>g, <1>h, <1>i, <1>j, <1>k, <1>l, <1>m, <1>n, <1>o
  DEF Next, Task

LEMMA TypeInvInit == Init => TypeInv
  BY BusAssumption DEF Init, TypeInv, TypeOK, RetriesRemain, Places, Unacked, Stages

\* Type correctness of the bus: in every reachable state each count of copies
\* and of detached tasks is a natural number (no message is acked twice) and
\* every x-retry header is below MAX_RETRIES.
THEOREM TypeCorrect == Spec => []TypeOK
<1>1. TypeInv /\ [Next]_vars => TypeInv'
  BY TypeInvStep
<1>2. TypeInv => TypeOK
  BY DEF TypeInv
<1>3. QED
  BY <1>1, <1>2, TypeInvInit, PTL DEF Spec

-----------------------------------------------------------------------------
(* No event is lost.                                                       *)

LEMMA CoveredPresent ==
  ASSUME NEW e, NEW q, NEW r
  PROVE  Covered(e, q, r) <=>
           \/ <<e, q>> \in done
           \/ \E m \in Messages : m.event = e /\ m.retry >= r /\ Present(copies, q, m)
  BY DEF Covered, Present

LEMMA CoveredPresentNext ==
  ASSUME NEW e, NEW q, NEW r
  PROVE  Covered(e, q, r)' <=>
           \/ <<e, q>> \in done'
           \/ \E m \in Messages : m.event = e /\ m.retry >= r /\ Present(copies', q, m)
  BY DEF Covered, Present

\* A step that takes no message away from any queue keeps the invariant, if what
\* it adds is bound, what it marks handled is done, and a retry is out by the
\* time its original is marked republished.
LEMMA GrowStep ==
  ASSUME IInv,
         \A q \in Queues : bindings[q] \subseteq bindings'[q],
         done \subseteq done',
         \A q \in Queues, m \in Messages : Present(copies, q, m) => Present(copies', q, m),
         \A q \in Queues, m \in Messages :
           Present(copies', q, m) => Present(copies, q, m) \/ m.event \in bindings'[q],
         \A q \in Queues, m \in Messages :
           copies'[q][m]["handled"] > 0 =>
             copies[q][m]["handled"] > 0 \/ <<m.event, q>> \in done',
         \A q \in Queues, m \in Messages :
           copies'[q][m]["republished"] > 0 =>
             \/ copies[q][m]["republished"] > 0
             \/ \E n \in Messages : /\ n.event = m.event /\ n.retry >= m.retry + 1
                                   /\ Present(copies', q, n),
         \A x \in owed' :
           \/ x \in owed
           \/ /\ x[1] \in Handlers[x[2]]
              /\ \E n \in Messages : /\ n.event = x[1] /\ n.retry >= 0
                                    /\ Present(copies', x[2], n)
  PROVE  Safe'
<1>1. ASSUME NEW e, NEW q \in Queues, NEW r, Covered(e, q, r) PROVE Covered(e, q, r)'
  BY <1>1, CoveredPresent, CoveredPresentNext
<1>2. Bound'
  BY DEF IInv, Safe, Bound
<1>3. HandledDone'
  BY DEF IInv, Safe, HandledDone
<1>4. RetryIsOut'
  <2>1. SUFFICES ASSUME NEW q \in Queues, NEW m \in Messages, m.event \in Handlers[q],
                        copies'[q][m]["republished"] > 0
                 PROVE  Covered(m.event, q, m.retry + 1)'
    BY DEF RetryIsOut, Covered
  <2>2. CASE copies[q][m]["republished"] > 0
    BY <1>1, <2>1, <2>2 DEF IInv, Safe, RetryIsOut
  <2>3. CASE \E n \in Messages : /\ n.event = m.event /\ n.retry >= m.retry + 1
                                /\ Present(copies', q, n)
    BY <2>3, CoveredPresentNext
  <2>4. QED
    BY <2>1, <2>2, <2>3
<1>5. OwedHandled'
  BY DEF IInv, Safe, OwedHandled
<1>6. NeverLost'
  <2>1. SUFFICES ASSUME NEW x \in owed' PROVE Covered(x[1], x[2], 0)'
    BY DEF NeverLost, Covered
  <2>2. CASE x \in owed
    <3>1. x[2] \in Queues
      BY <2>2 DEF IInv, TypeInv, TypeOK
    <3>2. Covered(x[1], x[2], 0)
      BY <2>2 DEF IInv, Safe, NeverLost
    <3>3. QED
      BY <1>1, <3>1, <3>2
  <2>3. CASE \E n \in Messages : /\ n.event = x[1] /\ n.retry >= 0
                                /\ Present(copies', x[2], n)
    BY <2>3, CoveredPresentNext
  <2>4. QED
    BY <2>1, <2>2, <2>3
<1>7. QED
  BY <1>2, <1>3, <1>4, <1>5, <1>6 DEF Safe

\* Acking a copy keeps the invariant, if the queue has no handler for the event,
\* has handled it, or holds its next retry.
LEMMA AckStep ==
  ASSUME IInv, NEW q \in Queues, NEW m \in Messages, NEW x \in Places,
         copies[q][m][x] > 0, copies' = Without(copies, q, m, x),
         UNCHANGED <<bindings, done, owed>>,
         \/ m.event \notin Handlers[q]
         \/ <<m.event, q>> \in done
         \/ Covered(m.event, q, m.retry + 1)
  PROVE  Safe'
<1>1. /\ copies \in Bag
      /\ \A qq \in Queues, mm \in Messages, p \in Places : copies[qq][mm][p] \in Nat
      /\ \A mm \in Messages : mm.retry \in Nat
      /\ {"handled", "republished"} \subseteq Places
  <2>1. copies \in Bag
    BY DEF IInv, TypeInv, TypeOK, Bag
  <2>2. \A qq \in Queues, mm \in Messages, p \in Places : copies[qq][mm][p] \in Nat
    BY <2>1 DEF Bag
  <2>3. \A mm \in Messages : mm.retry \in Nat
    BY BusAssumption DEF Messages
  <2>4. QED
    BY <2>1, <2>2, <2>3 DEF Places, Unacked
<1>2. \A qq \in Queues, mm \in Messages, p \in Places :
        copies'[qq][mm][p] =
          IF qq = q /\ mm = m /\ p = x THEN copies[q][m][x] - 1 ELSE copies[qq][mm][p]
  BY <1>1, WithoutCopy
<1>3. \A qq \in Queues, mm \in Messages :
        /\ Present(copies', qq, mm) => Present(copies, qq, mm)
        /\ ~(qq = q /\ mm = m) => (Present(copies', qq, mm) <=> Present(copies, qq, mm))
  BY <1>1, <1>2 DEF Present
<1>4. ASSUME NEW e, NEW qq \in Queues, NEW r \in Nat, e \in Handlers[qq], Covered(e, qq, r)
      PROVE  Covered(e, qq, r)'
  <2>1. CASE <<e, qq>> \in done
    BY <2>1, CoveredPresentNext
  <2>2. ASSUME NEW mm \in Messages, mm.event = e, mm.retry >= r, Present(copies, qq, mm),
               <<e, qq>> \notin done
        PROVE  Covered(e, qq, r)'
    <3>1. CASE ~(qq = q /\ mm = m)
      BY <1>3, <2>2, <3>1, CoveredPresentNext
    <3>2. CASE qq = q /\ mm = m
      <4>1. PICK n \in Messages : /\ n.event = e /\ n.retry >= m.retry + 1
                                  /\ Present(copies, q, n)
        BY <1>4, <2>2, <3>2, CoveredPresent
      <4>2. n # m /\ n.retry >= r
        BY <1>1, <2>2, <3>2, <4>1
      <4>3. Present(copies', q, n)
        BY <1>3, <4>1, <4>2
      <4>4. QED
        BY <3>2, <4>1, <4>2, <4>3, CoveredPresentNext
    <3>3. QED
      BY <3>1, <3>2
  <2>3. QED
    BY <1>4, <2>1, <2>2, CoveredPresent
<1>5. Bound'
  BY <1>3 DEF IInv, Safe, Bound
<1>6. HandledDone'
  BY <1>1, <1>2 DEF IInv, Safe, HandledDone
<1>7. RetryIsOut'
  <2>1. SUFFICES ASSUME NEW qq \in Queues, NEW mm \in Messages, mm.event \in Handlers[qq],
                        copies'[qq][mm]["republished"] > 0
                 PROVE  Covered(mm.event, qq, mm.retry + 1)'
    BY DEF RetryIsOut, Covered
  <2>2. copies[qq][mm]["republished"] > 0
    BY <1>1, <1>2, <2>1
  <2>3. QED
    BY <1>1, <1>4, <2>1, <2>2 DEF IInv, Safe, RetryIsOut
<1>8. OwedHandled'
  BY DEF IInv, Safe, OwedHandled
<1>9. NeverLost'
  <2>1. SUFFICES ASSUME NEW y \in owed PROVE Covered(y[1], y[2], 0)'
    BY DEF NeverLost, Covered
  <2>2. y[2] \in Queues /\ y[1] \in Handlers[y[2]] /\ Covered(y[1], y[2], 0)
    BY <2>1 DEF IInv, TypeInv, TypeOK, Safe, OwedHandled, NeverLost
  <2>3. QED
    BY <1>4, <2>2
<1>10. QED
  BY <1>5, <1>6, <1>7, <1>8, <1>9 DEF Safe

\* Every action keeps the safety part of the invariant: the three acks by
\* AckStep, all the others by GrowStep.
LEMMA SafeStep ==
  ASSUME IInv, [Next]_vars
  PROVE  Safe'
<1>0. /\ copies \in Bag /\ bindings \in [Queues -> SUBSET Events]
      /\ Places = {"handling", "handled", "backoff", "republished", "stuck", "ready", "dead"}
  BY DEF IInv, TypeInv, TypeOK, Bag, Places, Unacked
<1>1. \A qq \in Queues, mm \in Messages, p \in Places : copies[qq][mm][p] \in Nat
  BY <1>0 DEF Bag
<1>2. \A mm \in Messages : mm.retry \in Nat
  BY BusAssumption DEF Messages
<1>a. ASSUME NEW q \in Queues, Start(q) PROVE Safe'
  <2>1. \A qq \in Queues : bindings[qq] \subseteq bindings'[qq]
    BY <1>0, <1>a DEF Start
  <2>2. QED
    BY <1>a, <2>1, GrowStep DEF Start, history
<1>b. ASSUME NEW e \in Events, Publish(e) PROVE Safe'
  <2> DEFINE n == Message(e, 0)
  <2>1. n \in Messages /\ n.event = e /\ n.retry = 0
    BY FreshIsMessage DEF Message
  <2>2. copies' = Routed(copies, n) /\ UNCHANGED <<bindings, done>>
    BY <1>b DEF Publish
  <2> HIDE DEF n
  <2>3. /\ \A qq \in Queues, mm \in Messages :
             Present(copies', qq, mm) <=>
               Present(copies, qq, mm) \/ (qq \in Route(e) /\ mm = n)
        /\ \A qq \in Queues, mm \in Messages, p \in Places :
             p # "ready" => copies'[qq][mm][p] = copies[qq][mm][p]
    BY <1>0, <2>1, <2>2, RoutedCopy
  <2>4. \A qq \in Queues : qq \in Route(e) => e \in bindings'[qq]
    BY <2>2 DEF Route
  <2>5. \A x \in owed' : \/ x \in owed
                        \/ /\ x[1] = e /\ x[2] \in Queues
                           /\ x[2] \in Route(e) /\ e \in Handlers[x[2]]
    BY <1>b DEF Publish, Route
  <2>6. QED
    BY <1>0, <2>1, <2>2, <2>3, <2>4, <2>5, GrowStep
<1>c. ASSUME NEW q \in Queues, NEW m \in Messages,
             NEW x \in Places, NEW y \in Places \ {"republished"}, x # y,
             copies[q][m][x] > 0, copies' = Moved(copies, q, m, x, y),
             UNCHANGED <<bindings, owed>>, done \subseteq done',
             y = "handled" => <<m.event, q>> \in done'
      PROVE  Safe'
  <2>1. /\ \A qq \in Queues, mm \in Messages, p \in Places :
             copies'[qq][mm][p] =
               CASE qq = q /\ mm = m /\ p = x -> copies[q][m][x] - 1
                 [] qq = q /\ mm = m /\ p = y -> copies[q][m][y] + 1
                 [] OTHER -> copies[qq][mm][p]
        /\ \A qq \in Queues, mm \in Messages :
             Present(copies', qq, mm) <=> Present(copies, qq, mm)
    <3>1. y \in Places
      BY <1>c
    <3>2. /\ \A qq \in Queues, mm \in Messages, p \in Places :
               Moved(copies, q, m, x, y)[qq][mm][p] =
                 CASE qq = q /\ mm = m /\ p = x -> copies[q][m][x] - 1
                   [] qq = q /\ mm = m /\ p = y -> copies[q][m][y] + 1
                   [] OTHER -> copies[qq][mm][p]
          /\ \A qq \in Queues, mm \in Messages :
               Present(Moved(copies, q, m, x, y), qq, mm) <=> Present(copies, qq, mm)
      <4>1. copies \in Bag
        BY <1>0
      <4>2. x # y /\ copies[q][m][x] > 0
        BY <1>c
      <4>3. QED
        BY <3>1, <4>1, <4>2, MovedCopy
    <3>3. copies' = Moved(copies, q, m, x, y)
      BY <1>c
    <3>4. QED
      BY <3>2, <3>3
  <2>2. \A qq \in Queues, mm \in Messages :
          copies'[qq][mm]["republished"] > 0 => copies[qq][mm]["republished"] > 0
    BY <1>0, <1>1, <1>c, <2>1
  <2>3. \A qq \in Queues, mm \in Messages :
          copies'[qq][mm]["handled"] > 0 =>
            copies[qq][mm]["handled"] > 0 \/ <<mm.event, qq>> \in done'
    BY <1>0, <1>1, <1>c, <2>1
  <2>4. QED
    BY <1>c, <2>1, <2>2, <2>3, GrowStep
<1>d. ASSUME NEW q \in Queues, NEW m \in Messages, Deliver(q, m) PROVE Safe'
  BY <1>0, <1>c, <1>d DEF Deliver, topology, history
<1>e. ASSUME NEW q \in Queues, NEW m \in Messages, HandlerReturns(q, m) PROVE Safe'
  BY <1>0, <1>c, <1>e DEF HandlerReturns, topology
<1>f. ASSUME NEW q \in Queues, NEW m \in Messages, BackOff(q, m) PROVE Safe'
  BY <1>0, <1>c, <1>f DEF BackOff, topology
<1>g. ASSUME NEW q \in Queues, NEW m \in Messages, DeadLetter(q, m) PROVE Safe'
  BY <1>0, <1>c, <1>g DEF DeadLetter, topology
<1>h. ASSUME NEW q \in Queues, NEW m \in Messages, RepublishError(q, m) PROVE Safe'
  BY <1>0, <1>c, <1>h DEF RepublishError, topology, history
<1>i. ASSUME NEW q \in Queues, NEW m \in Messages, AckUnhandled(q, m) PROVE Safe'
  BY <1>0, <1>i, AckStep DEF AckUnhandled, topology, history
<1>j. ASSUME NEW q \in Queues, NEW m \in Messages, Ack(q, m) PROVE Safe'
  <2>1. <<m.event, q>> \in done
    BY <1>j DEF Ack, IInv, Safe, HandledDone
  <2>2. QED
    BY <1>0, <1>j, <2>1, AckStep DEF Ack, topology, history
<1>k. ASSUME NEW q \in Queues, NEW m \in Messages, AckRepublished(q, m) PROVE Safe'
  <2>1. m.event \in Handlers[q] => Covered(m.event, q, m.retry + 1)
    BY <1>k DEF AckRepublished, IInv, Safe, RetryIsOut
  <2>2. QED
    BY <1>0, <1>k, <2>1, AckStep DEF AckRepublished, topology, history
<1>l. ASSUME NEW q \in Queues, NEW m \in Messages, Republish(q, m) PROVE Safe'
  <2> DEFINE n == Message(m.event, m.retry + 1)
  <2>1. n.event = m.event /\ n.retry = m.retry + 1
    BY DEF Message
  <2>2. /\ n \in Messages
        /\ \A qq \in Queues, mm \in Messages, p \in Places :
             p \notin {"ready", "republished"} /\ copies'[qq][mm][p] > 0 =>
               copies[qq][mm][p] > 0
        /\ \A qq \in Queues, mm \in Messages :
             copies'[qq][mm]["republished"] > 0 =>
               copies[qq][mm]["republished"] > 0 \/ (qq = q /\ mm = m)
        /\ \A qq \in Queues, mm \in Messages :
             Present(copies', qq, mm) <=>
               Present(copies, qq, mm) \/ (qq \in Route(m.event) /\ mm = n)
    BY <1>l, RepublishCopies DEF IInv
  <2> HIDE DEF n
  <2>3. UNCHANGED <<bindings, done, owed>>
    BY <1>l DEF Republish, topology, history
  <2>4. \A qq \in Queues : qq \in Route(m.event) => m.event \in bindings'[qq]
    BY <2>3 DEF Route
  <2>5. q \in Route(m.event)
    BY <1>0, <1>l DEF Republish, IInv, Safe, Bound, Present, Route
  <2>6. Present(copies', q, n) /\ n.retry >= m.retry + 1
    BY <1>2, <2>1, <2>2, <2>5
  <2>7. QED
    BY <1>0, <2>1, <2>2, <2>3, <2>4, <2>6, GrowStep
<1>m. ASSUME NEW q \in Queues, Crash(q) \/ LoseConnection(q) PROVE Safe'
  <2>1. copies' = Requeued(copies, q) /\ UNCHANGED <<bindings, done, owed>>
    BY <1>m DEF Crash, LoseConnection, topology, history
  <2>2. /\ \A qq \in Queues, mm \in Messages, p \in Unacked :
             copies'[qq][mm][p] = IF qq = q THEN 0 ELSE copies[qq][mm][p]
        /\ \A qq \in Queues, mm \in Messages :
             Present(copies', qq, mm) <=> Present(copies, qq, mm)
    BY <1>0, <2>1, RequeuedCopies
  <2>3. \A qq \in Queues, mm \in Messages :
          /\ copies'[qq][mm]["handled"] > 0 => copies[qq][mm]["handled"] > 0
          /\ copies'[qq][mm]["republished"] > 0 => copies[qq][mm]["republished"] > 0
    BY <2>2 DEF Unacked
  <2>4. QED
    BY <2>1, <2>2, <2>3, GrowStep
<1>n. ASSUME NEW q \in Queues, NEW m \in Messages,
             DetachedReturns(q, m) \/ DetachedRaises(q, m)
      PROVE  Safe'
  BY <1>n, GrowStep DEF DetachedReturns, DetachedRaises, topology
<1>o. ASSUME NEW q \in Queues, NEW m \in Messages, DetachedRepublish(q, m) PROVE Safe'
  <2> DEFINE n == Message(m.event, m.retry + 1)
  <2>1. n \in Messages /\ n.event = m.event
    BY <1>o, RetryIsMessage DEF DetachedRepublish, IInv, TypeInv, RetriesRemain, Message
  <2>2. /\ copies' = copies \/ copies' = Routed(copies, n)
        /\ UNCHANGED <<bindings, done, owed>>
    BY <1>o DEF DetachedRepublish, topology, history
  <2> HIDE DEF n
  <2>3. CASE copies' = copies
    BY <2>2, <2>3, GrowStep
  <2>4. CASE copies' = Routed(copies, n)
    <3>1. /\ \A qq \in Queues, mm \in Messages :
               Present(copies', qq, mm) <=>
                 Present(copies, qq, mm) \/ (qq \in Route(n.event) /\ mm = n)
          /\ \A qq \in Queues, mm \in Messages, p \in Places :
               p # "ready" => copies'[qq][mm][p] = copies[qq][mm][p]
      <4>1. copies \in Bag /\ n \in Messages
        BY <1>0, <2>1
      <4>2. \A qq \in Queues, mm \in Messages :
              Present(Routed(copies, n), qq, mm) <=>
                Present(copies, qq, mm) \/ (qq \in Route(n.event) /\ mm = n)
        BY <4>1, RoutedCopy, ZenonT(30)
      <4>3. \A qq \in Queues, mm \in Messages, p \in Places :
              p # "ready" => Routed(copies, n)[qq][mm][p] = copies[qq][mm][p]
        BY <4>1, RoutedCopy, SMTT(30)
      <4>4. QED
        BY <2>4, <4>2, <4>3
    <3>2. \A qq \in Queues : qq \in Route(n.event) => n.event \in bindings'[qq]
      BY <2>2 DEF Route
    <3>3. QED
      BY <1>0, <2>1, <2>2, <3>1, <3>2, GrowStep
  <2>5. QED
    BY <2>2, <2>3, <2>4
<1>p. CASE UNCHANGED vars
  BY <1>p, GrowStep DEF vars, topology, history
<1>q. QED
  BY <1>a, <1>b, <1>d, <1>e, <1>f, <1>g, <1>h, <1>i, <1>j, <1>k, <1>l, <1>m, <1>n, <1>o, <1>p
  DEF Next, Task

LEMMA SafeInit == Init => Safe
<1>1. ASSUME Init, NEW q \in Queues, NEW m \in Messages, NEW p \in Places
      PROVE  ~(copies[q][m][p] > 0)
  BY <1>1 DEF Init
<1>2. ASSUME Init PROVE Safe
  BY <1>1, <1>2 DEF Init, Safe, Bound, HandledDone, RetryIsOut, OwedHandled, NeverLost,
                    Present, Places, Unacked
<1>3. QED
  BY <1>2

\* At-least-once delivery, for any topology, retry limit and number of faults:
\* an event routed to a queue that handles it keeps a copy in that queue, unacked
\* or dead-lettered, until the handler has returned for it (consumer.py, _handle
\* and _republish).
THEOREM NothingLost == Spec => []NeverLost
<1>1. Init => IInv
  BY TypeInvInit, SafeInit DEF IInv
<1>2. IInv /\ [Next]_vars => IInv'
  BY TypeInvStep, SafeStep DEF IInv
<1>3. IInv => NeverLost
  BY DEF IInv, Safe
<1>4. QED
  BY <1>1, <1>2, <1>3, PTL DEF Spec

-----------------------------------------------------------------------------
(* The retry storm is bounded, as long as nothing has crashed.             *)

FailureCounts == [Queues -> [Messages -> Nat]]

\* The message whose failures m is a retry of.
Previous(m) == Message(m.event, m.retry - 1)

\* How often q was, is being or will be handed m before its next failure.
Attempts(c, f, q, m) == c[q][m]["ready"] + c[q][m]["handling"] + f[q][m]

\* Retries of m under way and failures for m, by queue.
Backing(c, m) == [q \in Queues |-> c[q][m]["backoff"]]
Failed(f, m) == [q \in Queues |-> f[q][m]]

\* A queue is handed an event once, and a retry at most once for every failure,
\* in any queue, whose retry is out.
Budget(c, f, P) ==
  \A q \in Queues, m \in Messages :
    /\ m.retry = 0 => Attempts(c, f, q, m) <= (IF m.event \in P THEN 1 ELSE 0)
    /\ m.retry > 0 => Attempts(c, f, q, m) + Total(Backing(c, Previous(m)))
                        <= Total(Failed(f, Previous(m)))

\* A retry, or a failure for it, follows a failure for the message it retries;
\* what backs off or is dead has failed, the latter on its last retry.
Trail(c, f) ==
  \A q \in Queues, m \in Messages :
    /\ m.retry > 0 /\ (Present(c, q, m) \/ f[q][m] > 0) =>
         \E x \in Queues : f[x][Previous(m)] > 0
    /\ c[q][m]["backoff"] > 0 \/ c[q][m]["dead"] > 0 => f[q][m] > 0
    /\ c[q][m]["dead"] > 0 => m.retry + 1 >= MaxRetries

\* Only a queue that handles an event tries it and fails.
Idle(c, f) ==
  \A q \in Queues, m \in Messages :
    m.event \notin Handlers[q] =>
      c[q][m]["handling"] = 0 /\ c[q][m]["backoff"] = 0 /\ f[q][m] = 0

Storm(c, f, P) == Budget(c, f, P) /\ Trail(c, f) /\ Idle(c, f)

\* Without a crash no task is cut off from its connection.
NoneDetached == \A q \in Queues, m \in Messages, x \in Stages : detached[q][m][x] = 0

StormInv == TypeInv /\ (crashes = 0 => NoneDetached /\ Storm(copies, failures, published))

\* A retry is a retry of a message of the same event.
LEMMA PreviousIsMessage ==
  ASSUME NEW m \in Messages, m.retry > 0
  PROVE  Previous(m) \in Messages /\ Previous(m).event = m.event
  BY BusAssumption DEF Previous, Message, Messages

\* The counts and their totals are numbers.
LEMMA StormTypes ==
  ASSUME NEW c, c \in Bag, NEW f, f \in FailureCounts
  PROVE  /\ \A m \in Messages : /\ Backing(c, m) \in [Queues -> Nat]
                                /\ Failed(f, m) \in [Queues -> Nat]
                                /\ Total(Backing(c, m)) \in Nat
                                /\ Total(Failed(f, m)) \in Nat
         /\ \A q \in Queues, m \in Messages :
              /\ f[q][m] \in Nat
              /\ \A p \in Places : c[q][m][p] \in Nat
              /\ Attempts(c, f, q, m) \in Nat
<1>1. \A q \in Queues, m \in Messages : f[q][m] \in Nat /\ \A p \in Places : c[q][m][p] \in Nat
  BY DEF Bag, FailureCounts
<1>2. {"ready", "handling", "backoff"} \subseteq Places
  BY DEF Places, Unacked
<1>3. ASSUME NEW m \in Messages
      PROVE  /\ Backing(c, m) \in [Queues -> Nat] /\ Failed(f, m) \in [Queues -> Nat]
             /\ Total(Backing(c, m)) \in Nat /\ Total(Failed(f, m)) \in Nat
  <2>1. Backing(c, m) \in [Queues -> Nat] /\ Failed(f, m) \in [Queues -> Nat]
    BY <1>1, <1>2 DEF Backing, Failed
  <2>2. QED
    BY <2>1, TotalType, BusAssumption
<1>4. \A q \in Queues, m \in Messages : Attempts(c, f, q, m) \in Nat
  BY <1>1, <1>2 DEF Attempts
<1>5. QED
  BY <1>1, <1>3, <1>4

\* The step of one delivery of m0 in q0: nothing else changes, no attempt is
\* added, and what starts to back off has failed.
LEMMA DeliveryBudget ==
  ASSUME NEW c, c \in Bag, NEW d, d \in Bag, NEW f, f \in FailureCounts, NEW g, g \in FailureCounts,
         NEW P, NEW q0 \in Queues, NEW m0 \in Messages,
         \A q \in Queues, m \in Messages : ~(q = q0 /\ m = m0) =>
           g[q][m] = f[q][m] /\ \A p \in Places : d[q][m][p] = c[q][m][p],
         Attempts(d, g, q0, m0) <= Attempts(c, f, q0, m0),
         d[q0][m0]["backoff"] + f[q0][m0] <= c[q0][m0]["backoff"] + g[q0][m0],
         Budget(c, f, P)
  PROVE  Budget(d, g, P)
<1>0. {"ready", "handling", "backoff"} \subseteq Places
  BY DEF Places, Unacked
<1>1. \A q \in Queues, m \in Messages :
        /\ Attempts(d, g, q, m) <= Attempts(c, f, q, m)
        /\ Attempts(d, g, q, m) \in Nat /\ Attempts(c, f, q, m) \in Nat
  <2>1. \A q \in Queues, m \in Messages :
          Attempts(d, g, q, m) \in Nat /\ Attempts(c, f, q, m) \in Nat
    BY StormTypes
  <2>2. \A q \in Queues, m \in Messages : ~(q = q0 /\ m = m0) =>
          Attempts(d, g, q, m) = Attempts(c, f, q, m)
    BY <1>0 DEF Attempts
  <2>3. QED
    BY <2>1, <2>2
<1>2. ASSUME NEW m \in Messages
      PROVE  /\ Total(Backing(d, m)) + Total(Failed(f, m))
                  <= Total(Backing(c, m)) + Total(Failed(g, m))
             /\ Total(Backing(d, m)) \in Nat /\ Total(Failed(f, m)) \in Nat
             /\ Total(Backing(c, m)) \in Nat /\ Total(Failed(g, m)) \in Nat
  <2>1. /\ Backing(c, m) \in [Queues -> Nat] /\ Failed(f, m) \in [Queues -> Nat]
        /\ Backing(d, m) \in [Queues -> Nat] /\ Failed(g, m) \in [Queues -> Nat]
        /\ Total(Backing(d, m)) \in Nat /\ Total(Failed(f, m)) \in Nat
        /\ Total(Backing(c, m)) \in Nat /\ Total(Failed(g, m)) \in Nat
    BY StormTypes
  <2>2. CASE m = m0
    <3>1. /\ \A q \in Queues : q # q0 => Backing(d, m)[q] = Backing(c, m)[q]
          /\ \A q \in Queues : q # q0 => Failed(g, m)[q] = Failed(f, m)[q]
      BY <1>0 DEF Backing, Failed
    <3>2. /\ Total(Backing(d, m)) = Total(Backing(c, m)) - Backing(c, m)[q0] + Backing(d, m)[q0]
          /\ Total(Failed(g, m)) = Total(Failed(f, m)) - Failed(f, m)[q0] + Failed(g, m)[q0]
      BY <2>1, <3>1, TotalUpdate, BusAssumption
    <3>3. Backing(d, m)[q0] + Failed(f, m)[q0] <= Backing(c, m)[q0] + Failed(g, m)[q0]
      BY <2>2 DEF Backing, Failed
    <3>4. /\ Backing(d, m)[q0] \in Nat /\ Failed(f, m)[q0] \in Nat
          /\ Backing(c, m)[q0] \in Nat /\ Failed(g, m)[q0] \in Nat
      BY <2>1
    <3>5. QED
      BY <2>1, <3>2, <3>3, <3>4
  <2>3. CASE m # m0
    <3>1. Backing(d, m) = Backing(c, m) /\ Failed(g, m) = Failed(f, m)
      BY <1>0, <2>3 DEF Backing, Failed
    <3>2. QED
      BY <2>1, <3>1
  <2>4. QED
    BY <2>1, <2>2, <2>3
<1>3. SUFFICES ASSUME NEW q \in Queues, NEW m \in Messages
               PROVE  /\ m.retry = 0 => Attempts(d, g, q, m) <= (IF m.event \in P THEN 1 ELSE 0)
                      /\ m.retry > 0 => Attempts(d, g, q, m) + Total(Backing(d, Previous(m)))
                                          <= Total(Failed(g, Previous(m)))
  BY DEF Budget
<1>4. CASE m.retry = 0
  <2>1. Attempts(c, f, q, m) <= (IF m.event \in P THEN 1 ELSE 0)
    BY <1>4 DEF Budget
  <2>2. QED
    BY <1>1, <1>4, <2>1
<1>5. CASE m.retry > 0
  <2>1. Previous(m) \in Messages
    BY <1>5, PreviousIsMessage
  <2>2. Attempts(c, f, q, m) + Total(Backing(c, Previous(m))) <= Total(Failed(f, Previous(m)))
    BY <1>5 DEF Budget
  <2>3. Attempts(d, g, q, m) + Total(Backing(d, Previous(m))) <= Total(Failed(g, Previous(m)))
    BY <1>1, <1>2, <2>1, <2>2
  <2>4. QED
    BY <1>5, <2>3
<1>6. QED
  BY <1>4, <1>5

\* The step of one delivery of m0 in q0: a failure is counted before its copy
\* backs off or is dead.
LEMMA DeliveryTrail ==
  ASSUME NEW c, c \in Bag, NEW d, d \in Bag, NEW f, f \in FailureCounts, NEW g, g \in FailureCounts,
         NEW q0 \in Queues, NEW m0 \in Messages,
         \A q \in Queues, m \in Messages : ~(q = q0 /\ m = m0) =>
           g[q][m] = f[q][m] /\ \A p \in Places : d[q][m][p] = c[q][m][p],
         f[q0][m0] <= g[q0][m0],
         Present(d, q0, m0) \/ g[q0][m0] > f[q0][m0] => Present(c, q0, m0),
         d[q0][m0]["backoff"] > 0 \/ d[q0][m0]["dead"] > 0 => g[q0][m0] > 0,
         d[q0][m0]["dead"] > 0 => m0.retry + 1 >= MaxRetries,
         Trail(c, f)
  PROVE  Trail(d, g)
<1>0. /\ {"backoff", "dead"} \subseteq Places
      /\ \A q \in Queues, m \in Messages : f[q][m] \in Nat /\ g[q][m] \in Nat
  BY StormTypes DEF Places, Unacked
<1>1. \A q \in Queues, m \in Messages : f[q][m] > 0 => g[q][m] > 0
  BY <1>0
<1>2. \A q \in Queues, m \in Messages :
        Present(d, q, m) \/ g[q][m] > 0 => Present(c, q, m) \/ f[q][m] > 0
  BY <1>0 DEF Present
<1>3. ASSUME NEW q \in Queues, NEW m \in Messages,
             m.retry > 0, Present(d, q, m) \/ g[q][m] > 0
      PROVE  \E x \in Queues : g[x][Previous(m)] > 0
  <2>1. Previous(m) \in Messages
    BY <1>3, PreviousIsMessage
  <2>2. PICK x \in Queues : f[x][Previous(m)] > 0
    BY <1>2, <1>3 DEF Trail
  <2>3. QED
    BY <1>1, <2>1, <2>2
<1>4. ASSUME NEW q \in Queues, NEW m \in Messages
      PROVE  /\ d[q][m]["backoff"] > 0 \/ d[q][m]["dead"] > 0 => g[q][m] > 0
             /\ d[q][m]["dead"] > 0 => m.retry + 1 >= MaxRetries
  BY <1>0 DEF Trail
<1>5. QED
  BY <1>3, <1>4 DEF Trail

\* The steps that move one copy on.
LEMMA MoveStorm ==
  ASSUME NEW STATE c, c \in Bag, NEW f, f \in FailureCounts, NEW g, g \in FailureCounts, NEW P,
         NEW q0 \in Queues, NEW m0 \in Messages, NEW x \in Places, NEW y \in Places,
         x # y, c[q0][m0][x] > 0,
         \A q \in Queues, m \in Messages : ~(q = q0 /\ m = m0) => g[q][m] = f[q][m],
         \/ x = "ready" /\ y = "handling" /\ g[q0][m0] = f[q0][m0] /\ m0.event \in Handlers[q0]
         \/ x = "handling" /\ y = "handled" /\ g[q0][m0] = f[q0][m0]
         \/ x = "handling" /\ y = "backoff" /\ g[q0][m0] = f[q0][m0] + 1
         \/ /\ x = "handling" /\ y = "dead" /\ g[q0][m0] = f[q0][m0] + 1
            /\ m0.retry + 1 >= MaxRetries
         \/ x = "backoff" /\ y = "stuck" /\ g[q0][m0] = f[q0][m0],
         Storm(c, f, P)
  PROVE  Storm(Moved(c, q0, m0, x, y), g, P)
<1> DEFINE d == Moved(c, q0, m0, x, y)
<1>0. {"ready", "handling", "handled", "backoff", "stuck", "dead"} \subseteq Places
  BY DEF Places, Unacked
<1>1. /\ d \in Bag
      /\ \A q \in Queues, m \in Messages, p \in Places :
           d[q][m][p] = CASE q = q0 /\ m = m0 /\ p = x -> c[q0][m0][x] - 1
                          [] q = q0 /\ m = m0 /\ p = y -> c[q0][m0][y] + 1
                          [] OTHER -> c[q][m][p]
      /\ \A q \in Queues, m \in Messages : Present(d, q, m) <=> Present(c, q, m)
  BY MovedCopy
<1> HIDE DEF d
<1>2. \A q \in Queues, m \in Messages : ~(q = q0 /\ m = m0) =>
        g[q][m] = f[q][m] /\ \A p \in Places : d[q][m][p] = c[q][m][p]
  BY <1>1
<1>3. /\ d[q0][m0][x] = c[q0][m0][x] - 1 /\ d[q0][m0][y] = c[q0][m0][y] + 1
      /\ \A p \in Places : p # x /\ p # y => d[q0][m0][p] = c[q0][m0][p]
  BY <1>1
<1>4. /\ \A p \in Places : c[q0][m0][p] \in Nat
      /\ f[q0][m0] \in Nat /\ g[q0][m0] \in Nat
  BY StormTypes
<1>5. /\ Attempts(d, g, q0, m0) <= Attempts(c, f, q0, m0)
      /\ d[q0][m0]["backoff"] + f[q0][m0] <= c[q0][m0]["backoff"] + g[q0][m0]
  BY <1>0, <1>3, <1>4 DEF Attempts
<1>6. Budget(d, g, P)
  BY <1>1, <1>2, <1>5, DeliveryBudget DEF Storm
<1>7. /\ Present(c, q0, m0)
      /\ f[q0][m0] <= g[q0][m0]
      /\ d[q0][m0]["backoff"] > 0 \/ d[q0][m0]["dead"] > 0 => g[q0][m0] > 0
      /\ d[q0][m0]["dead"] > 0 => m0.retry + 1 >= MaxRetries
  <2>1. /\ c[q0][m0]["backoff"] > 0 \/ c[q0][m0]["dead"] > 0 => f[q0][m0] > 0
        /\ c[q0][m0]["dead"] > 0 => m0.retry + 1 >= MaxRetries
    BY DEF Storm, Trail
  <2>2. Present(c, q0, m0)
    BY DEF Present
  <2>3. QED
    BY <1>0, <1>3, <1>4, <2>1, <2>2
<1>8. Trail(d, g)
  BY <1>1, <1>2, <1>7, DeliveryTrail DEF Storm
<1>9. Idle(d, g)
  <2>1. m0.event \notin Handlers[q0] =>
          d[q0][m0]["handling"] = 0 /\ d[q0][m0]["backoff"] = 0 /\ g[q0][m0] = 0
    <3>1. m0.event \notin Handlers[q0] =>
            c[q0][m0]["handling"] = 0 /\ c[q0][m0]["backoff"] = 0 /\ f[q0][m0] = 0
      BY DEF Storm, Idle
    <3>2. QED
      BY <1>0, <1>3, <1>4, <3>1
  <2>2. QED
    BY <1>0, <1>2, <2>1 DEF Storm, Idle
<1>10. QED
  BY <1>6, <1>8, <1>9 DEF Storm, d

\* The acks.
LEMMA AckStorm ==
  ASSUME NEW STATE c, c \in Bag, NEW f, f \in FailureCounts, NEW P,
         NEW q0 \in Queues, NEW m0 \in Messages,
         NEW x \in {"ready", "handled", "republished"}, c[q0][m0][x] > 0,
         Storm(c, f, P)
  PROVE  Storm(Without(c, q0, m0, x), f, P)
<1> DEFINE d == Without(c, q0, m0, x)
<1>0. {"ready", "handling", "handled", "backoff", "republished", "dead"} \subseteq Places
  BY DEF Places, Unacked
<1>1. /\ d \in Bag
      /\ \A q \in Queues, m \in Messages, p \in Places :
           d[q][m][p] = IF q = q0 /\ m = m0 /\ p = x THEN c[q0][m0][x] - 1 ELSE c[q][m][p]
  BY <1>0, WithoutCopy
<1> HIDE DEF d
<1>2. \A q \in Queues, m \in Messages : ~(q = q0 /\ m = m0) =>
        f[q][m] = f[q][m] /\ \A p \in Places : d[q][m][p] = c[q][m][p]
  BY <1>1
<1>3. /\ d[q0][m0][x] = c[q0][m0][x] - 1
      /\ \A p \in Places : p # x => d[q0][m0][p] = c[q0][m0][p]
  BY <1>0, <1>1
<1>4. (\A p \in Places : c[q0][m0][p] \in Nat) /\ f[q0][m0] \in Nat
  BY StormTypes
<1>5. /\ Attempts(d, f, q0, m0) <= Attempts(c, f, q0, m0)
      /\ d[q0][m0]["backoff"] + f[q0][m0] <= c[q0][m0]["backoff"] + f[q0][m0]
  BY <1>0, <1>3, <1>4 DEF Attempts
<1>6. Budget(d, f, P)
  BY <1>1, <1>2, <1>5, DeliveryBudget DEF Storm
<1>7. /\ Present(c, q0, m0)
      /\ f[q0][m0] <= f[q0][m0]
      /\ d[q0][m0]["backoff"] > 0 \/ d[q0][m0]["dead"] > 0 => f[q0][m0] > 0
      /\ d[q0][m0]["dead"] > 0 => m0.retry + 1 >= MaxRetries
  <2>1. /\ c[q0][m0]["backoff"] > 0 \/ c[q0][m0]["dead"] > 0 => f[q0][m0] > 0
        /\ c[q0][m0]["dead"] > 0 => m0.retry + 1 >= MaxRetries
    BY DEF Storm, Trail
  <2>2. Present(c, q0, m0)
    BY <1>0 DEF Present
  <2>3. QED
    BY <1>0, <1>3, <1>4, <2>1, <2>2
<1>8. Trail(d, f)
  BY <1>1, <1>2, <1>7, DeliveryTrail DEF Storm
<1>9. Idle(d, f)
  <2>1. d[q0][m0]["handling"] = c[q0][m0]["handling"] /\ d[q0][m0]["backoff"] = c[q0][m0]["backoff"]
    BY <1>0, <1>3
  <2>2. QED
    BY <1>0, <1>2, <2>1 DEF Storm, Idle
<1>10. QED
  BY <1>6, <1>8, <1>9 DEF Storm, d

\* An event is published once.
LEMMA PublishStorm ==
  ASSUME NEW STATE c, c \in Bag, NEW f, f \in FailureCounts, NEW P, NEW e \in Events, e \notin P,
         Storm(c, f, P)
  PROVE  Storm(Routed(c, Message(e, 0)), f, P \cup {e})
<1> DEFINE n == Message(e, 0)
           d == Routed(c, n)
<1>0. {"ready", "handling", "backoff", "dead"} \subseteq Places
  BY DEF Places, Unacked
<1>1. n \in Messages /\ n.event = e /\ n.retry = 0
  BY FreshIsMessage DEF Message
<1> HIDE DEF n
<1>2. /\ d \in Bag
      /\ \A q \in Queues, m \in Messages, p \in Places :
           d[q][m][p] = IF q \in Route(n.event) /\ m = n /\ p = "ready"
                          THEN c[q][m][p] + 1 ELSE c[q][m][p]
      /\ \A q \in Queues, m \in Messages :
           Present(d, q, m) <=> Present(c, q, m) \/ (q \in Route(n.event) /\ m = n)
  BY <1>1, RoutedCopy
<1> HIDE DEF d
<1>3. /\ \A q \in Queues, m \in Messages, p \in Places : c[q][m][p] \in Nat
      /\ \A q \in Queues, m \in Messages : f[q][m] \in Nat
      /\ \A q \in Queues, m \in Messages : Attempts(c, f, q, m) \in Nat
  BY StormTypes
<1>4. \A q \in Queues, m \in Messages :
        /\ d[q][m]["handling"] = c[q][m]["handling"]
        /\ d[q][m]["backoff"] = c[q][m]["backoff"]
        /\ d[q][m]["dead"] = c[q][m]["dead"]
        /\ m # n => d[q][m]["ready"] = c[q][m]["ready"]
        /\ d[q][m]["ready"] <= c[q][m]["ready"] + 1
  BY <1>0, <1>2, <1>3
<1>5. \A q \in Queues, m \in Messages :
        /\ m # n => Attempts(d, f, q, m) = Attempts(c, f, q, m)
        /\ Attempts(d, f, q, m) <= Attempts(c, f, q, m) + 1
  BY <1>0, <1>2, <1>3, <1>4, StormTypes DEF Attempts
<1>6. \A m \in Messages : Backing(d, m) = Backing(c, m)
  BY <1>4 DEF Backing
<1>7. Budget(d, f, P \cup {e})
  <2>1. SUFFICES ASSUME NEW q \in Queues, NEW m \in Messages
                 PROVE  /\ m.retry = 0 =>
                             Attempts(d, f, q, m) <= (IF m.event \in P \cup {e} THEN 1 ELSE 0)
                        /\ m.retry > 0 => Attempts(d, f, q, m) + Total(Backing(d, Previous(m)))
                                            <= Total(Failed(f, Previous(m)))
    BY DEF Budget
  <2>2. /\ m.retry = 0 => Attempts(c, f, q, m) <= (IF m.event \in P THEN 1 ELSE 0)
        /\ m.retry > 0 => Attempts(c, f, q, m) + Total(Backing(c, Previous(m)))
                            <= Total(Failed(f, Previous(m)))
    BY DEF Storm, Budget
  <2>3. CASE m = n
    <3>1. Attempts(c, f, q, m) <= 0
      BY <1>1, <2>2, <2>3
    <3>2. Attempts(d, f, q, m) <= 1
      <4>1. /\ Attempts(c, f, q, m) \in Nat /\ Attempts(d, f, q, m) \in Nat
            /\ Attempts(d, f, q, m) <= Attempts(c, f, q, m) + 1
        BY <1>2, <1>3, <1>5, StormTypes
      <4>2. QED
        BY <3>1, <4>1
    <3>3. QED
      BY <1>1, <2>3, <3>2
  <2>4. CASE m # n
    <3>1. Attempts(d, f, q, m) = Attempts(c, f, q, m) /\ Attempts(c, f, q, m) \in Nat
      BY <1>3, <1>5, <2>4
    <3>2. m.retry > 0 => Backing(d, Previous(m)) = Backing(c, Previous(m))
      BY <1>6, PreviousIsMessage
    <3>3. QED
      BY <2>2, <3>1, <3>2
  <2>5. QED
    BY <2>3, <2>4
<1>8. Trail(d, f)
  BY <1>1, <1>2, <1>4 DEF Storm, Trail
<1>9. Idle(d, f)
  BY <1>4 DEF Storm, Idle
<1>10. QED
  BY <1>7, <1>8, <1>9 DEF Storm, d, n

\* A retry goes out once for each failure.
LEMMA RepublishStorm ==
  ASSUME NEW STATE c, c \in Bag, NEW f, f \in FailureCounts, NEW P,
         NEW q0 \in Queues, NEW m0 \in Messages, c[q0][m0]["backoff"] > 0,
         Message(m0.event, m0.retry + 1) \in Messages,
         Storm(c, f, P)
  PROVE  Storm(Routed(Moved(c, q0, m0, "backoff", "republished"),
                      Message(m0.event, m0.retry + 1)), f, P)
<1> DEFINE n == Message(m0.event, m0.retry + 1)
           b == Moved(c, q0, m0, "backoff", "republished")
           d == Routed(b, n)
<1>0. {"ready", "handling", "backoff", "republished", "dead"} \subseteq Places
  BY DEF Places, Unacked
<1>1. /\ n \in Messages /\ n.event = m0.event /\ n.retry > 0 /\ n # m0
      /\ \A m \in Messages : m.retry > 0 => (Previous(m) = m0 <=> m = n)
  <2>1. \A m \in Messages : /\ m = [event |-> m.event, retry |-> m.retry]
                            /\ m.retry \in Int /\ m.retry >= 0
    BY BusAssumption DEF Messages
  <2>2. \A m \in Messages : Previous(m) = [event |-> m.event, retry |-> m.retry - 1]
    BY DEF Previous, Message
  <2>3. n = [event |-> m0.event, retry |-> m0.retry + 1]
    BY DEF Message
  <2>4. \A m \in Messages : Previous(m) = m0 <=> m.event = m0.event /\ m.retry - 1 = m0.retry
    BY <2>1, <2>2
  <2>5. \A m \in Messages : m = n <=> m.event = m0.event /\ m.retry = m0.retry + 1
    BY <2>1, <2>3
  <2>6. n.event = m0.event /\ n.retry = m0.retry + 1
    BY <2>3
  <2>7. QED
    BY <2>1, <2>4, <2>5, <2>6
<1> HIDE DEF n
<1>2. /\ b \in Bag
      /\ \A q \in Queues, m \in Messages, p \in Places :
           b[q][m][p] = CASE q = q0 /\ m = m0 /\ p = "backoff" -> c[q0][m0]["backoff"] - 1
                          [] q = q0 /\ m = m0 /\ p = "republished" -> c[q0][m0]["republished"] + 1
                          [] OTHER -> c[q][m][p]
      /\ \A q \in Queues, m \in Messages : Present(b, q, m) <=> Present(c, q, m)
  BY <1>0, MovedCopy
<1> HIDE DEF b
<1>3. /\ d \in Bag
      /\ \A q \in Queues, m \in Messages, p \in Places :
           d[q][m][p] = IF q \in Route(n.event) /\ m = n /\ p = "ready"
                          THEN b[q][m][p] + 1 ELSE b[q][m][p]
      /\ \A q \in Queues, m \in Messages :
           Present(d, q, m) <=> Present(b, q, m) \/ (q \in Route(n.event) /\ m = n)
  BY <1>1, <1>2, RoutedCopy
<1> HIDE DEF d
<1>4. /\ \A q \in Queues, m \in Messages, p \in Places : c[q][m][p] \in Nat
      /\ \A q \in Queues, m \in Messages : f[q][m] \in Nat
      /\ \A q \in Queues, m \in Messages : Attempts(c, f, q, m) \in Nat
  BY StormTypes
<1>5. \A q \in Queues, m \in Messages :
        /\ d[q][m]["handling"] = c[q][m]["handling"]
        /\ d[q][m]["backoff"] = IF q = q0 /\ m = m0 THEN c[q0][m0]["backoff"] - 1
                                                    ELSE c[q][m]["backoff"]
        /\ d[q][m]["dead"] = c[q][m]["dead"]
        /\ m # n => d[q][m]["ready"] = c[q][m]["ready"]
        /\ d[q][m]["ready"] <= c[q][m]["ready"] + 1
  <2>1. \A q \in Queues, m \in Messages :
          /\ b[q][m]["handling"] = c[q][m]["handling"]
          /\ b[q][m]["backoff"] = IF q = q0 /\ m = m0 THEN c[q0][m0]["backoff"] - 1
                                                      ELSE c[q][m]["backoff"]
          /\ b[q][m]["dead"] = c[q][m]["dead"]
          /\ b[q][m]["ready"] = c[q][m]["ready"]
    BY <1>0, <1>2
  <2>2. \A q \in Queues, m \in Messages :
          /\ d[q][m]["handling"] = b[q][m]["handling"]
          /\ d[q][m]["backoff"] = b[q][m]["backoff"]
          /\ d[q][m]["dead"] = b[q][m]["dead"]
          /\ d[q][m]["ready"] = b[q][m]["ready"] \/ (m = n /\ d[q][m]["ready"] = b[q][m]["ready"] + 1)
    BY <1>0, <1>3
  <2>3. \A q \in Queues, m \in Messages : c[q][m]["ready"] \in Nat
    BY <1>0, <1>4
  <2>4. QED
    BY <2>1, <2>2, <2>3
<1>6. \A q \in Queues, m \in Messages :
        /\ Attempts(d, f, q, m) \in Nat
        /\ m # n => Attempts(d, f, q, m) = Attempts(c, f, q, m)
        /\ Attempts(d, f, q, m) <= Attempts(c, f, q, m) + 1
  <2>1. \A q \in Queues, m \in Messages :
          /\ d[q][m]["ready"] \in Nat /\ c[q][m]["ready"] \in Nat /\ c[q][m]["handling"] \in Nat
    BY <1>0, <1>3, <1>4, StormTypes
  <2>2. QED
    BY <1>4, <1>5, <2>1 DEF Attempts
<1>7. /\ \A m \in Messages : m # m0 => Backing(d, m) = Backing(c, m)
      /\ Total(Backing(d, m0)) = Total(Backing(c, m0)) - 1
  <2>1. \A m \in Messages : m # m0 => Backing(d, m) = Backing(c, m)
    BY <1>5 DEF Backing
  <2>2. /\ Backing(c, m0) \in [Queues -> Nat] /\ Backing(d, m0) \in [Queues -> Nat]
        /\ Total(Backing(c, m0)) \in Nat
    BY <1>3, StormTypes
  <2>3. /\ \A q \in Queues : q # q0 => Backing(d, m0)[q] = Backing(c, m0)[q]
        /\ Backing(d, m0)[q0] = Backing(c, m0)[q0] - 1
    BY <1>5 DEF Backing
  <2>4. Total(Backing(d, m0)) = Total(Backing(c, m0)) - Backing(c, m0)[q0] + Backing(d, m0)[q0]
    BY <2>2, <2>3, TotalUpdate, BusAssumption
  <2>5. Backing(c, m0)[q0] \in Nat
    BY <2>2
  <2>6. QED
    BY <2>1, <2>2, <2>3, <2>4, <2>5
<1>8. Budget(d, f, P)
  <2>1. SUFFICES ASSUME NEW q \in Queues, NEW m \in Messages
                 PROVE  /\ m.retry = 0 => Attempts(d, f, q, m) <= (IF m.event \in P THEN 1 ELSE 0)
                        /\ m.retry > 0 => Attempts(d, f, q, m) + Total(Backing(d, Previous(m)))
                                            <= Total(Failed(f, Previous(m)))
    BY DEF Budget
  <2>2. /\ m.retry = 0 => Attempts(c, f, q, m) <= (IF m.event \in P THEN 1 ELSE 0)
        /\ m.retry > 0 => Attempts(c, f, q, m) + Total(Backing(c, Previous(m)))
                            <= Total(Failed(f, Previous(m)))
    BY DEF Storm, Budget
  <2>3. CASE m = n
    <3>1. Previous(m) = m0 /\ m.retry > 0 /\ ~(m.retry = 0)
      BY <1>1, <2>3
    <3>2. Attempts(c, f, q, m) + Total(Backing(c, m0)) <= Total(Failed(f, m0))
      BY <2>2, <3>1
    <3>3. Total(Backing(c, m0)) \in Nat /\ Total(Failed(f, m0)) \in Nat
      BY StormTypes
    <3>4. Attempts(d, f, q, m) + Total(Backing(d, m0)) <= Total(Failed(f, m0))
      BY <1>4, <1>6, <1>7, <3>2, <3>3
    <3>5. QED
      BY <3>1, <3>4
  <2>4. CASE m # n
    <3>1. Attempts(d, f, q, m) = Attempts(c, f, q, m)
      BY <1>6, <2>4
    <3>2. m.retry > 0 => Backing(d, Previous(m)) = Backing(c, Previous(m))
      BY <1>1, <1>7, <2>4, PreviousIsMessage
    <3>3. QED
      BY <2>2, <3>1, <3>2
  <2>5. QED
    BY <2>3, <2>4
<1>9. Trail(d, f)
  <2>1. ASSUME NEW q \in Queues, NEW m \in Messages, m.retry > 0, Present(d, q, m) \/ f[q][m] > 0
        PROVE  \E x \in Queues : f[x][Previous(m)] > 0
    <3>1. CASE m = n
      BY <1>1, <3>1 DEF Storm, Trail
    <3>2. CASE m # n
      BY <1>2, <1>3, <2>1, <3>2 DEF Storm, Trail
    <3>3. QED
      BY <3>1, <3>2
  <2>2. \A q \in Queues, m \in Messages :
          d[q][m]["backoff"] > 0 => c[q][m]["backoff"] > 0
    BY <1>5
  <2>3. QED
    BY <1>5, <2>1, <2>2 DEF Storm, Trail
<1>10. Idle(d, f)
  BY <1>5 DEF Storm, Idle
<1>11. QED
  BY <1>8, <1>9, <1>10 DEF Storm, d, b, n

\* At first nothing is published and nothing has failed.
LEMMA StormInit == Init => StormInv
<1> SUFFICES ASSUME Init PROVE StormInv
  OBVIOUS
<1>1. TypeInv
  BY TypeInvInit
<1>2. NoneDetached
  BY DEF Init, NoneDetached
<1>3. /\ \A q \in Queues, m \in Messages, p \in Places : copies[q][m][p] = 0
      /\ \A q \in Queues, m \in Messages : failures[q][m] = 0
      /\ copies \in Bag /\ failures \in FailureCounts
      /\ {"ready", "handling", "backoff", "dead"} \subseteq Places
  BY <1>1 DEF Init, Bag, FailureCounts, TypeInv, TypeOK, Places, Unacked
<1>4. ASSUME NEW m \in Messages
      PROVE  Total(Backing(copies, m)) = 0 /\ Total(Failed(failures, m)) = 0
  <2>1. Backing(copies, m) \in [Queues -> Nat] /\ Failed(failures, m) \in [Queues -> Nat]
    BY <1>3, StormTypes
  <2>2. /\ \A q \in Queues : Backing(copies, m)[q] = 0
        /\ \A q \in Queues : Failed(failures, m)[q] = 0
    BY <1>3 DEF Backing, Failed
  <2>3. QED
    BY <2>1, <2>2, TotalZero
<1>5. \A q \in Queues, m \in Messages : Attempts(copies, failures, q, m) = 0
  BY <1>3 DEF Attempts
<1>6. Budget(copies, failures, published)
  <2>1. SUFFICES ASSUME NEW q \in Queues, NEW m \in Messages
                 PROVE  /\ Attempts(copies, failures, q, m) <= (IF m.event \in published THEN 1 ELSE 0)
                        /\ m.retry > 0 =>
                             Attempts(copies, failures, q, m) + Total(Backing(copies, Previous(m)))
                               <= Total(Failed(failures, Previous(m)))
    BY DEF Budget
  <2>2. m.retry > 0 => Previous(m) \in Messages
    BY PreviousIsMessage
  <2>3. QED
    BY <1>4, <1>5, <2>2
<1>7. Trail(copies, failures)
  BY <1>3 DEF Trail, Present
<1>8. Idle(copies, failures)
  BY <1>3 DEF Idle
<1>9. QED
  BY <1>1, <1>2, <1>6, <1>7, <1>8 DEF StormInv, Storm

\* While nothing has crashed, every step keeps the storm within its budget.
LEMMA StormStep ==
  ASSUME StormInv, [Next]_vars
  PROVE  StormInv'
<1>1. TypeInv'
  BY TypeInvStep DEF StormInv
<1>2. SUFFICES ASSUME crashes' = 0
               PROVE  NoneDetached' /\ Storm(copies, failures, published)'
  BY <1>1 DEF StormInv
<1>3. crashes = 0
  <2>1. crashes \in Nat
    BY BusAssumption DEF StormInv, TypeInv, TypeOK
  <2>2. ASSUME NEW q \in Queues, Crash(q) \/ LoseConnection(q) PROVE FALSE
    BY <1>2, <2>1, <2>2 DEF Crash, LoseConnection
  <2>3. ASSUME Next PROVE crashes' = crashes
    BY <2>2, <2>3
    DEF Next, Task, Start, Publish, Deliver, AckUnhandled, HandlerReturns, Ack, BackOff,
        DeadLetter, Republish, RepublishError, AckRepublished, DetachedReturns,
        DetachedRaises, DetachedRepublish, faults
  <2>4. QED
    BY <1>2, <2>3 DEF vars, faults
<1>4. /\ NoneDetached /\ Storm(copies, failures, published)
      /\ copies \in Bag /\ failures \in FailureCounts /\ failures' \in FailureCounts
  BY <1>1, <1>3 DEF StormInv, TypeInv, TypeOK, Bag, FailureCounts
<1>5. \A q \in Queues : ~Crash(q) /\ ~LoseConnection(q)
  BY <1>2, <1>3 DEF Crash, LoseConnection
<1>6. \A q \in Queues, m \in Messages :
        ~DetachedReturns(q, m) /\ ~DetachedRaises(q, m) /\ ~DetachedRepublish(q, m)
  BY <1>4
  DEF NoneDetached, Stages, DetachedReturns, DetachedRaises, DetachedExcept, DetachedRepublish
<1>7. {"ready", "handling", "handled", "backoff", "republished", "stuck", "dead"} \subseteq Places
  BY DEF Places, Unacked
<1> DEFINE Goal == NoneDetached' /\ Storm(copies', failures', published')
<1>a. ASSUME NEW q \in Queues, Start(q) PROVE Goal
  BY <1>4, <1>a DEF Start, history, NoneDetached
<1>b. ASSUME NEW e \in Events, Publish(e) PROVE Goal
  <2>1. Storm(Routed(copies, Message(e, 0)), failures, published \cup {e})
    BY <1>4, <1>b, PublishStorm DEF Publish
  <2>2. QED
    BY <1>4, <1>b, <2>1 DEF Publish, NoneDetached
<1>c. ASSUME NEW q \in Queues, NEW m \in Messages, Deliver(q, m) PROVE Goal
  <2>1. Storm(Moved(copies, q, m, "ready", "handling"), failures, published)
    BY <1>4, <1>7, <1>c, MoveStorm DEF Deliver
  <2>2. QED
    BY <1>4, <1>c, <2>1 DEF Deliver, topology, history, NoneDetached
<1>d. ASSUME NEW q \in Queues, NEW m \in Messages, AckUnhandled(q, m) PROVE Goal
  <2>1. Storm(Without(copies, q, m, "ready"), failures, published)
    BY <1>4, <1>d, AckStorm DEF AckUnhandled
  <2>2. QED
    BY <1>4, <1>d, <2>1 DEF AckUnhandled, topology, history, NoneDetached
<1>e. ASSUME NEW q \in Queues, NEW m \in Messages, HandlerReturns(q, m) PROVE Goal
  <2>1. Storm(Moved(copies, q, m, "handling", "handled"), failures, published)
    BY <1>4, <1>7, <1>e, MoveStorm DEF HandlerReturns
  <2>2. QED
    BY <1>4, <1>e, <2>1 DEF HandlerReturns, topology, NoneDetached
<1>f. ASSUME NEW q \in Queues, NEW m \in Messages, Ack(q, m) PROVE Goal
  <2>1. Storm(Without(copies, q, m, "handled"), failures, published)
    BY <1>4, <1>f, AckStorm DEF Ack
  <2>2. QED
    BY <1>4, <1>f, <2>1 DEF Ack, topology, history, NoneDetached
<1>g. ASSUME NEW q \in Queues, NEW m \in Messages, BackOff(q, m) \/ DeadLetter(q, m)
      PROVE  Goal
  <2>1. /\ copies[q][m]["handling"] > 0
        /\ failures' = [failures EXCEPT ![q][m] = @ + 1]
        /\ UNCHANGED <<topology, detached>>
    BY <1>g DEF BackOff, DeadLetter
  <2>2. /\ failures'[q][m] = failures[q][m] + 1
        /\ \A qq \in Queues, mm \in Messages :
             ~(qq = q /\ mm = m) => failures'[qq][mm] = failures[qq][mm]
    BY <1>4, <2>1 DEF FailureCounts
  <2>3. CASE BackOff(q, m)
    <3>1. copies' = Moved(copies, q, m, "handling", "backoff")
      BY <2>3 DEF BackOff
    <3>2. \A g \in FailureCounts :
            /\ g[q][m] = failures[q][m] + 1
            /\ \A qq \in Queues, mm \in Messages :
                 ~(qq = q /\ mm = m) => g[qq][mm] = failures[qq][mm]
            => Storm(Moved(copies, q, m, "handling", "backoff"), g, published)
      BY <1>4, <1>7, <2>1, MoveStorm
    <3>3. QED
      BY <1>4, <2>1, <2>2, <3>1, <3>2 DEF topology, NoneDetached
  <2>4. CASE DeadLetter(q, m)
    <3>1. copies' = Moved(copies, q, m, "handling", "dead") /\ m.retry + 1 >= MaxRetries
      BY <2>4 DEF DeadLetter
    <3>2. \A g \in FailureCounts :
            /\ g[q][m] = failures[q][m] + 1
            /\ \A qq \in Queues, mm \in Messages :
                 ~(qq = q /\ mm = m) => g[qq][mm] = failures[qq][mm]
            => Storm(Moved(copies, q, m, "handling", "dead"), g, published)
      BY <1>4, <1>7, <2>1, <3>1, MoveStorm
    <3>3. QED
      BY <1>4, <2>1, <2>2, <3>1, <3>2 DEF topology, NoneDetached
  <2>5. QED
    BY <1>g, <2>3, <2>4
<1>h. ASSUME NEW q \in Queues, NEW m \in Messages, Republish(q, m) PROVE Goal
  <2>1. Message(m.event, m.retry + 1) \in Messages
    BY <1>h, RepublishCopies DEF StormInv
  <2>2. Storm(Routed(Moved(copies, q, m, "backoff", "republished"),
                     Message(m.event, m.retry + 1)), failures, published)
    BY <1>4, <1>h, <2>1, RepublishStorm DEF Republish
  <2>3. QED
    BY <1>4, <1>h, <2>2 DEF Republish, topology, history, NoneDetached
<1>i. ASSUME NEW q \in Queues, NEW m \in Messages, RepublishError(q, m) PROVE Goal
  <2>1. Storm(Moved(copies, q, m, "backoff", "stuck"), failures, published)
    BY <1>4, <1>7, <1>i, MoveStorm DEF RepublishError
  <2>2. QED
    BY <1>4, <1>i, <2>1 DEF RepublishError, topology, history, NoneDetached
<1>j. ASSUME NEW q \in Queues, NEW m \in Messages, AckRepublished(q, m) PROVE Goal
  <2>1. Storm(Without(copies, q, m, "republished"), failures, published)
    BY <1>4, <1>j, AckStorm DEF AckRepublished
  <2>2. QED
    BY <1>4, <1>j, <2>1 DEF AckRepublished, topology, history, NoneDetached
<1>k. ASSUME UNCHANGED vars PROVE Goal
  BY <1>4, <1>k DEF vars, topology, history, NoneDetached
<1>l. Goal
  BY <1>5, <1>6, <1>a, <1>b, <1>c, <1>d, <1>e, <1>f, <1>g, <1>h, <1>i, <1>j, <1>k DEF Next, Task
<1>9. QED
  BY <1>l DEF Storm, Budget, Trail, Idle, Attempts, Backing, Failed, Present

\* A failure with x-retry = r comes along a path of r earlier ones.
LEMMA FailurePaths ==
  ASSUME NEW c, c \in Bag, NEW f, f \in FailureCounts, NEW P, Storm(c, f, P),
         NEW e \in Events, NEW r \in Nat, r < MaxRetries
  PROVE  /\ IsFiniteSet(RetryPaths(e, r))
         /\ \A q \in Queues : f[q][Message(e, r)] <= Cardinality(RetryPaths(e, r))
<1> DEFINE T == {q \in Queues : e \in Handlers[q]}
           Claim(k) == /\ IsFiniteSet(RetryPaths(e, k))
                       /\ \A q \in Queues : f[q][Message(e, k)] <= Cardinality(RetryPaths(e, k))
           Bad == {k \in Nat : k < MaxRetries /\ ~Claim(k)}
<1>1. \A k \in Nat : k < MaxRetries => /\ Message(e, k) \in Messages
                                       /\ Message(e, k).event = e /\ Message(e, k).retry = k
  BY BusAssumption DEF Message, Messages
<1>2. IsFiniteSet(T) /\ \A k : RetryPaths(e, k) = [1 .. k -> T]
  BY BusAssumption, FS_Subset DEF RetryPaths
<1>3. \A q \in Queues, m \in Messages :
        /\ f[q][m] \in Nat /\ c[q][m]["ready"] \in Nat /\ c[q][m]["handling"] \in Nat
        /\ Attempts(c, f, q, m) \in Nat
  BY StormTypes DEF Places, Unacked
<1>4. Claim(0)
  <2>1. IsFiniteSet(RetryPaths(e, 0)) /\ Cardinality(RetryPaths(e, 0)) = 1
    BY <1>2, OnePath
  <2>2. Message(e, 0) \in Messages /\ Message(e, 0).retry = 0
    BY <1>1, BusAssumption
  <2>3. ASSUME NEW q \in Queues PROVE f[q][Message(e, 0)] <= 1
    <3>1. Attempts(c, f, q, Message(e, 0)) <= 1
      BY <1>3, <2>2 DEF Storm, Budget
    <3>2. QED
      BY <1>3, <2>2, <3>1 DEF Attempts
  <2>4. QED
    BY <2>1, <2>3
<1>5. ASSUME NEW k \in Nat, k + 1 < MaxRetries, Claim(k) PROVE Claim(k + 1)
  <2> DEFINE n == Message(e, k + 1)
             b == Cardinality(RetryPaths(e, k))
             g == Failed(f, Message(e, k))
  <2>1. /\ n \in Messages /\ n.retry > 0 /\ Previous(n) = Message(e, k)
        /\ Message(e, k) \in Messages /\ Message(e, k).event = e
    <3>1. n \in Messages /\ n.event = e /\ n.retry = k + 1
      BY <1>1, <1>5
    <3>2. Message(e, k) \in Messages /\ Message(e, k).event = e
      BY <1>1, <1>5, BusAssumption
    <3>3. QED
      BY <3>1, <3>2 DEF Previous
  <2>2. b \in Nat /\ g \in [Queues -> Nat] /\ Total(g) \in Nat
        /\ Total(Backing(c, Message(e, k))) \in Nat
    BY <1>5, <2>1, FS_CardinalityType, StormTypes
  <2>3. /\ IsFiniteSet(RetryPaths(e, k + 1))
        /\ Cardinality(RetryPaths(e, k + 1)) = Cardinality(T) * b
    <3> HIDE DEF T
    <3>1. IsFiniteSet([1 .. k -> T])
      BY <1>2, <1>5
    <3>2. /\ IsFiniteSet([1 .. k + 1 -> T])
          /\ Cardinality([1 .. k + 1 -> T]) = Cardinality(T) * Cardinality([1 .. k -> T])
      BY <1>2, <3>1, LongerPaths
    <3>3. RetryPaths(e, k + 1) = [1 .. k + 1 -> T] /\ RetryPaths(e, k) = [1 .. k -> T]
      BY <1>2
    <3>4. QED
      BY <3>2, <3>3
  <2>4. \A q \in Queues : g[q] <= b /\ (g[q] > 0 => q \in T)
    BY <1>3, <1>5, <2>1 DEF Failed, Storm, Idle
  <2>5. Total(g) <= Cardinality(T) * b
    <3> HIDE DEF T, g, b
    <3>1. QED
      BY <1>2, <2>2, <2>4, TotalBound
  <2>6. ASSUME NEW q \in Queues PROVE f[q][n] <= Total(g)
    <3>1. Attempts(c, f, q, n) + Total(Backing(c, Message(e, k))) <= Total(g)
      BY <2>1 DEF Storm, Budget
    <3>2. f[q][n] <= Attempts(c, f, q, n)
      BY <1>3, <2>1 DEF Attempts
    <3> HIDE DEF n, g
    <3>3. QED
      BY <1>3, <2>1, <2>2, <3>1, <3>2
  <2>7. QED
    <3>1. \A q \in Queues : f[q][n] \in Nat
      BY <1>3, <2>1
    <3>2. Cardinality(RetryPaths(e, k + 1)) \in Nat
      BY <2>3, FS_CardinalityType
    <3>3. Total(g) <= Cardinality(RetryPaths(e, k + 1))
      BY <2>3, <2>5
    <3>4. \A q \in Queues : f[q][n] <= Cardinality(RetryPaths(e, k + 1))
      <4> HIDE DEF n, g
      <4>1. QED
        BY <2>2, <2>6, <3>1, <3>2, <3>3
    <3>5. QED
      BY <2>3, <3>4
<1> HIDE DEF Claim
<1>6. Bad = {}
  <2>1. SUFFICES ASSUME Bad # {} PROVE FALSE
    OBVIOUS
  <2>2. PICK n \in Bad : \A k \in Nat : k < n => k \notin Bad
    BY <2>1, LeastNumber
  <2>3. n \in Nat /\ n < MaxRetries /\ ~Claim(n) /\ n # 0
    BY <1>4, <2>2
  <2>4. n - 1 \in Nat /\ n - 1 < n /\ n - 1 < MaxRetries
    BY <2>3, BusAssumption
  <2>5. Claim(n - 1)
    BY <2>2, <2>4
  <2>6. Claim((n - 1) + 1)
    BY <1>5, <2>3, <2>4, <2>5
  <2>7. (n - 1) + 1 = n
    BY <2>3
  <2>8. QED
    BY <2>3, <2>6, <2>7
<1>7. Claim(r)
  BY <1>6
<1>8. QED
  BY <1>7 DEF Claim

\* What is dead has failed on its last retry, and so on every earlier one.
LEMMA FailureTrail ==
  ASSUME NEW c, c \in Bag, NEW f, f \in FailureCounts, NEW P, Storm(c, f, P),
         NEW q \in Queues, NEW m \in Messages, c[q][m]["dead"] > 0,
         NEW r \in 0 .. MaxRetries - 1
  PROVE  \E x \in Queues : f[x][Message(m.event, r)] > 0
<1> DEFINE e == m.event
           Claim(k) == \E x \in Queues : f[x][Message(e, k)] > 0
           Bad == {k \in Nat : k < MaxRetries /\ ~Claim(MaxRetries - 1 - k)}
<1>1. /\ MaxRetries \in Nat \ {0} /\ e \in Events /\ m = Message(e, m.retry)
      /\ m.retry \in 0 .. MaxRetries - 1
      /\ \A k \in 0 .. MaxRetries - 1 : /\ Message(e, k) \in Messages
                                        /\ Message(e, k).event = e /\ Message(e, k).retry = k
  BY BusAssumption DEF Message, Messages
<1> HIDE DEF e
<1>2. Claim(MaxRetries - 1)
  <2>1. f[q][m] > 0 /\ m.retry + 1 >= MaxRetries
    BY DEF Storm, Trail
  <2>2. m.retry = MaxRetries - 1
    BY <1>1, <2>1
  <2>3. QED
    BY <1>1, <2>1, <2>2
<1>3. ASSUME NEW k \in 1 .. MaxRetries - 1, Claim(k) PROVE Claim(k - 1)
  <2>1. Message(e, k) \in Messages /\ Message(e, k).retry > 0
        /\ Previous(Message(e, k)) = Message(e, k - 1)
    BY <1>1 DEF Previous
  <2>2. PICK x \in Queues : f[x][Message(e, k)] > 0
    BY <1>3
  <2>3. \E y \in Queues : f[y][Previous(Message(e, k))] > 0
    BY <2>1, <2>2 DEF Storm, Trail
  <2>4. QED
    BY <2>1, <2>3
<1> HIDE DEF Claim
<1>4. Bad = {}
  <2>1. SUFFICES ASSUME Bad # {} PROVE FALSE
    OBVIOUS
  <2>2. PICK n \in Bad : \A k \in Nat : k < n => k \notin Bad
    BY <2>1, LeastNumber
  <2>3. n \in Nat /\ n < MaxRetries /\ ~Claim(MaxRetries - 1 - n) /\ n # 0
    BY <1>1, <1>2, <2>2
  <2>4. n - 1 \in Nat /\ n - 1 < n /\ n - 1 < MaxRetries
    BY <1>1, <2>3
  <2>5. Claim(MaxRetries - 1 - (n - 1))
    BY <2>2, <2>4
  <2>6. MaxRetries - 1 - (n - 1) \in 1 .. MaxRetries - 1
    BY <1>1, <2>3
  <2>7. MaxRetries - 1 - (n - 1) - 1 = MaxRetries - 1 - n
    BY <1>1, <2>3
  <2>8. QED
    BY <1>3, <2>3, <2>5, <2>6, <2>7
<1>5. /\ MaxRetries - 1 - r \in Nat /\ MaxRetries - 1 - r < MaxRetries
      /\ MaxRetries - 1 - (MaxRetries - 1 - r) = r
  BY <1>1
<1>6. Claim(r)
  BY <1>4, <1>5
<1>7. QED
  BY <1>6 DEF Claim, e

\* The invariant gives the bound on failures and the trail behind a dead letter.
LEMMA StormBounds == StormInv => RetryStormBounded /\ DeadAfterRetries
<1> SUFFICES ASSUME StormInv, crashes = 0
             PROVE  /\ \A q \in Queues, m \in Messages :
                         failures[q][m] <= Cardinality(RetryPaths(m.event, m.retry))
                    /\ \A q \in Queues, m \in Messages :
                         copies[q][m]["dead"] > 0 =>
                           \A r \in 0 .. MaxRetries - 1 :
                             \E x \in Queues : failures[x][Message(m.event, r)] > 0
  BY DEF RetryStormBounded, DeadAfterRetries
<1>1. /\ copies \in Bag /\ failures \in FailureCounts
      /\ Storm(copies, failures, published)
  BY DEF StormInv, TypeInv, TypeOK, Bag, FailureCounts
<1>2. \A m \in Messages : /\ m.event \in Events /\ m.retry \in Nat /\ m.retry < MaxRetries
                          /\ m = Message(m.event, m.retry)
  BY BusAssumption DEF Messages, Message
<1>3. ASSUME NEW q \in Queues, NEW m \in Messages
      PROVE  failures[q][m] <= Cardinality(RetryPaths(m.event, m.retry))
  <2>1. \A x \in Queues : failures[x][Message(m.event, m.retry)]
                            <= Cardinality(RetryPaths(m.event, m.retry))
    BY <1>1, <1>2, FailurePaths
  <2>2. QED
    BY <1>2, <2>1
<1>4. ASSUME NEW q \in Queues, NEW m \in Messages, copies[q][m]["dead"] > 0,
             NEW r \in 0 .. MaxRetries - 1
      PROVE  \E x \in Queues : failures[x][Message(m.event, r)] > 0
  BY <1>1, <1>4, FailureTrail
<1>5. QED
  BY <1>3, <1>4

\* Every reachable state is within the budget (consumer.py, _handle, _republish).
LEMMA StormInvariant == Spec => []StormInv
<1>1. Init => StormInv
  BY StormInit
<1>2. StormInv /\ [Next]_vars => StormInv'
  BY StormStep
<1>3. QED
  BY <1>1, <1>2, PTL DEF Spec

\* With any number of queues and retries, and no crash, no queue fails a
\* message more often than there are retry paths to it (consumer.py, _handle,
\* _republish).
THEOREM StormBounded == Spec => []RetryStormBounded
<1>1. Spec => []StormInv
  BY StormInvariant
<1>2. StormInv => RetryStormBounded
  BY StormBounds
<1>3. QED
  BY <1>1, <1>2, PTL

\* With no crash, nothing is dead-lettered before a handler has failed for it
\* with every x-retry below MAX_RETRIES (consumer.py, _handle).
THEOREM NotGivenUpEarly == Spec => []DeadAfterRetries
<1>1. Spec => []StormInv
  BY StormInvariant
<1>2. StormInv => DeadAfterRetries
  BY StormBounds
<1>3. QED
  BY <1>1, <1>2, PTL
=============================================================================
