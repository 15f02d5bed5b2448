------------------------- MODULE EventBusRefinement -------------------------
(***************************************************************************)
(* Proof that EventBus implements AtLeastOnce: every step of the broker,   *)
(* of a task or of a fault is a step of the promise, or leaves it alone.   *)
(***************************************************************************)
EXTENDS EventBusProofs

\* The state of the promise.
Pend == {x \in Obligations : Live(x[1], x[2])}
Buried == {x \in Obligations : Dead(x[1], x[2])}
Accounted == Pend \cup done \cup Buried

\* Queue q holds a copy of m in bag c that may still be handled.
Alive(c, q, m) == \E p \in Places \ {"dead"} : c[q][m][p] > 0

\* Only a message with a handler gets beyond "ready".
HandledOnly ==
  \A q \in Queues, m \in Messages :
    m.event \notin Handlers[q] =>
      /\ \A p \in Places \ {"ready"} : ~(copies[q][m][p] > 0)
      /\ ~(detached[q][m]["handling"] > 0)

\* What a detached task handles is accounted for without it.
DetachedAccounted ==
  \A q \in Queues, m \in Messages :
    detached[q][m]["handling"] > 0 => <<m.event, q>> \in Accounted

RInv == IInv /\ HandledOnly /\ DetachedAccounted

\* The invariant in the form the provers use.
LEMMA Counts ==
  ASSUME IInv
  PROVE  /\ copies \in Bag
         /\ \A q \in Queues, m \in Messages, p \in Places : copies[q][m][p] \in Nat
         /\ Places = {"handling", "handled", "backoff", "republished", "stuck", "ready", "dead"}
         /\ \A m \in Messages : m.event \in Events
<1>1. copies \in Bag
  BY DEF IInv, TypeInv, TypeOK, Bag
<1>2. \A q \in Queues, m \in Messages, p \in Places : copies[q][m][p] \in Nat
  BY <1>1 DEF Bag
<1>3. \A m \in Messages : m.event \in Events
  BY DEF Messages
<1>4. QED
  BY <1>1, <1>2, <1>3 DEF Places, Unacked

\* An obligation is live if a copy of some message of the event is alive.
LEMMA LiveAlive ==
  ASSUME NEW e, NEW q
  PROVE  /\ Live(e, q) <=> \E m \in Messages : m.event = e /\ Alive(copies, q, m)
         /\ Live(e, q)' <=> \E m \in Messages : m.event = e /\ Alive(copies', q, m)
  BY DEF Live, Alive

-----------------------------------------------------------------------------
(* The steps of the promise, in terms of copies.                           *)

\* Nothing that is handled appears, vanishes or is buried.
LEMMA SameAlive ==
  ASSUME \A q \in Queues, m \in Messages : m.event \in Handlers[q] =>
           /\ Alive(copies', q, m) <=> Alive(copies, q, m)
           /\ copies'[q][m]["dead"] > 0 <=> copies[q][m]["dead"] > 0
  PROVE  Pend' = Pend /\ Buried' = Buried
<1>1. ASSUME NEW x \in Obligations
      PROVE  (Live(x[1], x[2])' <=> Live(x[1], x[2])) /\ (Dead(x[1], x[2])' <=> Dead(x[1], x[2]))
  <2>1. x[2] \in Queues /\ x[1] \in Handlers[x[2]]
    BY DEF Obligations
  <2>2. Live(x[1], x[2])' <=> Live(x[1], x[2])
    BY <2>1, LiveAlive
  <2>3. Dead(x[1], x[2])' <=> Dead(x[1], x[2])
    BY <2>1 DEF Dead
  <2>4. QED
    BY <2>2, <2>3
<1>2. QED
  BY <1>1 DEF Pend, Buried

\* A step that leaves these alone is invisible to the promise.
LEMMA StutterStep ==
  ASSUME Pend' = Pend, Buried' = Buried, done' = done
  PROVE  UNCHANGED Promise!vars
  BY DEF Promise!vars, Pend, Buried

\* Message n is routed.
LEMMA RouteStep ==
  ASSUME done' = done, NEW n \in Messages,
         \A q \in Queues, m \in Messages :
           /\ Alive(copies', q, m) <=> Alive(copies, q, m) \/ (q \in Route(n.event) /\ m = n)
           /\ copies'[q][m]["dead"] > 0 <=> copies[q][m]["dead"] > 0
  PROVE  Promise!Next
<1> DEFINE S == {x \in Obligations : x[1] = n.event /\ x[2] \in Route(n.event)}
<1>1. ASSUME NEW x \in Obligations
      PROVE  /\ Live(x[1], x[2])' <=> Live(x[1], x[2]) \/ x \in S
             /\ Dead(x[1], x[2])' <=> Dead(x[1], x[2])
  <2>1. x[2] \in Queues
    BY DEF Obligations
  <2>2. Live(x[1], x[2])' <=> Live(x[1], x[2]) \/ x \in S
    BY <2>1, LiveAlive
  <2>3. Dead(x[1], x[2])' <=> Dead(x[1], x[2])
    BY <2>1 DEF Dead
  <2>4. QED
    BY <2>2, <2>3
<1>2. Pend' = Pend \cup S /\ Buried' = Buried
  BY <1>1 DEF Pend, Buried
<1>3. Promise!Route(S)
  BY <1>2 DEF Promise!Route, Pend, Buried
<1>4. S \in SUBSET Obligations
  OBVIOUS
<1>5. QED
  BY <1>3, <1>4 DEF Promise!Next

\* A copy of m leaves place x of queue q, by an ack.
LEMMA AckSettles ==
  ASSUME IInv, done' = done, NEW q \in Queues, NEW m \in Messages,
         NEW x \in Places, x # "dead", copies[q][m][x] > 0, copies' = Without(copies, q, m, x),
         m.event \in Handlers[q],
         \/ <<m.event, q>> \in done
         \/ Covered(m.event, q, m.retry + 1)
  PROVE  Promise!Next \/ UNCHANGED Promise!vars
<1> DEFINE o == <<m.event, q>>
<1>1. o \in Obligations
  BY Counts DEF Obligations
<1>2. \A qq \in Queues, mm \in Messages, p \in Places :
        copies'[qq][mm][p] =
          IF qq = q /\ mm = m /\ p = x THEN copies[q][m][x] - 1 ELSE copies[qq][mm][p]
  BY Counts, WithoutCopy
<1>3. \A qq \in Queues, mm \in Messages :
        /\ ~(qq = q /\ mm = m) => (Alive(copies', qq, mm) <=> Alive(copies, qq, mm))
        /\ copies'[qq][mm]["dead"] > 0 <=> copies[qq][mm]["dead"] > 0
  BY <1>2, Counts DEF Alive
<1>4. Alive(copies, q, m)
  BY Counts DEF Alive
<1>5. CASE Alive(copies', q, m)
  <2>1. \A qq \in Queues, mm \in Messages :
          /\ Alive(copies', qq, mm) <=> Alive(copies, qq, mm)
          /\ copies'[qq][mm]["dead"] > 0 <=> copies[qq][mm]["dead"] > 0
    BY <1>3, <1>4, <1>5
  <2>2. QED
    BY <2>1, SameAlive, StutterStep
<1>6. CASE ~Alive(copies', q, m)
  <2>1. ASSUME NEW y \in Obligations, y # o PROVE Live(y[1], y[2])' <=> Live(y[1], y[2])
    <3>1. y[2] \in Queues /\ (y[2] # q \/ y[1] # m.event)
      BY <2>1 DEF Obligations
    <3>2. QED
      BY <1>3, <3>1, LiveAlive
  <2>2. \A y \in Obligations : Dead(y[1], y[2])' <=> Dead(y[1], y[2])
    BY <1>3 DEF Dead, Obligations
  <2>3. o \in Pend
    BY <1>1, <1>4, LiveAlive DEF Pend
  <2>4. CASE Live(m.event, q)'
    <3>1. Pend' = Pend /\ Buried' = Buried
      BY <1>1, <2>1, <2>2, <2>3, <2>4 DEF Pend, Buried
    <3>2. QED
      BY <3>1 DEF Promise!vars, Pend, Buried
  <2>5. CASE ~Live(m.event, q)'
    <3>1. Pend' = Pend \ {o} /\ Buried' = Buried
      BY <1>1, <2>1, <2>2, <2>5 DEF Pend, Buried
    <3>2. o \in done \cup Buried
      <4>1. CASE <<m.event, q>> \in done
        BY <4>1
      <4>2. ASSUME NEW n \in Messages, n.event = m.event, n.retry >= m.retry + 1,
                   Present(copies, q, n)
            PROVE  o \in Buried
        <5>1. n # m
          BY <4>2, BusAssumption DEF Messages
        <5>2. ~Alive(copies, q, n)
          BY <1>3, <2>5, <4>2, <5>1, LiveAlive
        <5>3. copies[q][n]["dead"] > 0
          BY <4>2, <5>2 DEF Present, Alive
        <5>4. QED
          BY <1>1, <4>2, <5>3 DEF Buried, Dead
      <4>3. QED
        BY <4>1, <4>2, CoveredPresent
    <3>3. Promise!Settle(o)
      BY <2>3, <3>1, <3>2 DEF Promise!Settle, Pend, Buried
    <3>4. QED
      BY <1>1, <3>3 DEF Promise!Next
  <2>6. QED
    BY <2>4, <2>5
<1>7. QED
  BY <1>5, <1>6

-----------------------------------------------------------------------------
(* What the operators on bags do to the copies that may still be handled.  *)

\* Moving a copy short of the dead-letter queue keeps what is alive.
LEMMA MovedAlive ==
  ASSUME NEW STATE c, c \in Bag, NEW q \in Queues, NEW m \in Messages,
         NEW x \in Places, NEW y \in Places, x # y, x # "dead", y # "dead", c[q][m][x] > 0,
         NEW qq \in Queues, NEW mm \in Messages
  PROVE  /\ Alive(Moved(c, q, m, x, y), qq, mm) <=> Alive(c, qq, mm)
         /\ Moved(c, q, m, x, y)[qq][mm]["dead"] = c[qq][mm]["dead"]
<1>1. \A p \in Places :
        Moved(c, q, m, x, y)[qq][mm][p] =
          CASE qq = q /\ mm = m /\ p = x -> c[q][m][x] - 1
            [] qq = q /\ mm = m /\ p = y -> c[q][m][y] + 1
            [] OTHER -> c[qq][mm][p]
  BY MovedCopy
<1>2. c[q][m][y] \in Nat
  BY DEF Bag
<1>3. "dead" \in Places
  BY DEF Places
<1>4. CASE qq = q /\ mm = m
  <2>1. Moved(c, q, m, x, y)[qq][mm][y] > 0
    BY <1>1, <1>2, <1>4
  <2>2. Alive(Moved(c, q, m, x, y), qq, mm) /\ Alive(c, qq, mm)
    BY <1>4, <2>1 DEF Alive
  <2>3. QED
    BY <1>1, <1>3, <2>2
<1>5. CASE ~(qq = q /\ mm = m)
  <2>1. \A p \in Places : Moved(c, q, m, x, y)[qq][mm][p] = c[qq][mm][p]
    BY <1>1, <1>5
  <2>2. QED
    BY <1>3, <2>1 DEF Alive
<1>6. QED
  BY <1>4, <1>5

\* Routing a message makes it alive in the bound queues, and only there.
LEMMA RoutedAlive ==
  ASSUME NEW STATE c, c \in Bag, NEW n \in Messages, NEW q \in Queues, NEW m \in Messages
  PROVE  /\ Alive(Routed(c, n), q, m) <=> Alive(c, q, m) \/ (q \in Route(n.event) /\ m = n)
         /\ Routed(c, n)[q][m]["dead"] = c[q][m]["dead"]
<1>1. \A p \in Places :
        Routed(c, n)[q][m][p] =
          IF q \in Route(n.event) /\ m = n /\ p = "ready" THEN c[q][m][p] + 1 ELSE c[q][m][p]
  BY RoutedCopy
<1>2. {"ready", "dead"} \subseteq Places
  BY DEF Places
<1>3. c[q][m]["ready"] \in Nat
  BY <1>2 DEF Bag
<1>4. CASE q \in Route(n.event) /\ m = n
  <2>1. Routed(c, n)[q][m]["ready"] > 0
    BY <1>1, <1>2, <1>3, <1>4
  <2>2. QED
    BY <1>1, <1>2, <1>4, <2>1 DEF Alive
<1>5. CASE ~(q \in Route(n.event) /\ m = n)
  <2>1. \A p \in Places : Routed(c, n)[q][m][p] = c[q][m][p]
    BY <1>1, <1>5
  <2>2. QED
    BY <1>2, <1>5, <2>1 DEF Alive
<1>6. QED
  BY <1>4, <1>5

\* Requeuing keeps what is alive, and moves nothing forward.
LEMMA RequeuedAlive ==
  ASSUME IInv, NEW q \in Queues, NEW qq \in Queues, NEW mm \in Messages
  PROVE  /\ Alive(Requeued(copies, q), qq, mm) <=> Alive(copies, qq, mm)
         /\ Requeued(copies, q)[qq][mm]["dead"] = copies[qq][mm]["dead"]
         /\ \A p \in Places \ {"ready"} :
              Requeued(copies, q)[qq][mm][p] > 0 => copies[qq][mm][p] > 0
<1>1. \A p \in Places :
        Requeued(copies, q)[qq][mm][p] =
          IF qq # q THEN copies[qq][mm][p]
          ELSE IF p \in Unacked THEN 0
          ELSE IF p = "ready" THEN copies[q][mm]["ready"] + UnackedCopies(q, mm)
          ELSE copies[q][mm][p]
  BY Counts DEF Requeued, Bag
<1>2. \A p \in Places : copies[q][mm][p] \in Nat
  BY Counts
<1>3. CASE qq = q
  <2>1. Alive(Requeued(copies, q), q, mm) <=> copies[q][mm]["ready"] + UnackedCopies(q, mm) > 0
    BY <1>1, <1>3 DEF Alive, Places, Unacked
  <2>2. Alive(copies, q, mm) <=>
          \/ copies[q][mm]["handling"] > 0 \/ copies[q][mm]["handled"] > 0
          \/ copies[q][mm]["backoff"] > 0 \/ copies[q][mm]["republished"] > 0
          \/ copies[q][mm]["stuck"] > 0 \/ copies[q][mm]["ready"] > 0
    BY DEF Alive, Places, Unacked
  <2>3. copies[q][mm]["ready"] + UnackedCopies(q, mm) > 0 <=>
          \/ copies[q][mm]["handling"] > 0 \/ copies[q][mm]["handled"] > 0
          \/ copies[q][mm]["backoff"] > 0 \/ copies[q][mm]["republished"] > 0
          \/ copies[q][mm]["stuck"] > 0 \/ copies[q][mm]["ready"] > 0
    <3>1. /\ copies[q][mm]["handling"] \in Nat /\ copies[q][mm]["handled"] \in Nat
          /\ copies[q][mm]["backoff"] \in Nat /\ copies[q][mm]["republished"] \in Nat
          /\ copies[q][mm]["stuck"] \in Nat /\ copies[q][mm]["ready"] \in Nat
      BY <1>2 DEF Places, Unacked
    <3>2. QED
      BY <3>1 DEF UnackedCopies
  <2>4. QED
    BY <1>1, <1>3, <2>1, <2>2, <2>3 DEF Places, Unacked
<1>4. CASE qq # q
  <2>1. \A p \in Places : Requeued(copies, q)[qq][mm][p] = copies[qq][mm][p]
    BY <1>1, <1>4
  <2>2. QED
    BY <2>1 DEF Alive, Places
<1>5. QED
  BY <1>3, <1>4

-----------------------------------------------------------------------------
(* Every step of the bus is a step of the promise.                         *)

\* A copy moves between places where it may still be handled.
LEMMA MoveStutters ==
  ASSUME IInv, NEW q \in Queues, NEW m \in Messages,
         NEW x \in Places, NEW y \in Places, x # y, x # "dead", y # "dead",
         copies[q][m][x] > 0, copies' = Moved(copies, q, m, x, y)
  PROVE  Pend' = Pend /\ Buried' = Buried
<1>1. \A qq \in Queues, mm \in Messages :
        /\ Alive(copies', qq, mm) <=> Alive(copies, qq, mm)
        /\ copies'[qq][mm]["dead"] = copies[qq][mm]["dead"]
  BY Counts, MovedAlive
<1>2. QED
  BY <1>1, SameAlive

\* The last failure of a handler buries the event.
LEMMA DeadLetterBuries ==
  ASSUME IInv, HandledOnly, NEW q \in Queues, NEW m \in Messages, DeadLetter(q, m)
  PROVE  Promise!Next
<1> DEFINE o == <<m.event, q>>
<1>1. o \in Obligations /\ Alive(copies, q, m)
  BY Counts DEF DeadLetter, HandledOnly, Obligations, Alive
<1>2. \A qq \in Queues, mm \in Messages, p \in Places :
        copies'[qq][mm][p] =
          CASE qq = q /\ mm = m /\ p = "handling" -> copies[q][m]["handling"] - 1
            [] qq = q /\ mm = m /\ p = "dead" -> copies[q][m]["dead"] + 1
            [] OTHER -> copies[qq][mm][p]
  <2>1. copies[q][m]["handling"] > 0 /\ copies' = Moved(copies, q, m, "handling", "dead")
    BY DEF DeadLetter
  <2>2. copies \in Bag /\ "handling" \in Places /\ "dead" \in Places
    BY Counts
  <2>3. QED
    BY <2>1, <2>2, MovedCopy
<1>3. ASSUME NEW qq \in Queues, NEW mm \in Messages, ~(qq = q /\ mm = m)
      PROVE  /\ Alive(copies', qq, mm) <=> Alive(copies, qq, mm)
             /\ copies'[qq][mm]["dead"] = copies[qq][mm]["dead"]
  BY <1>2, <1>3, Counts DEF Alive
<1>4. copies'[q][m]["dead"] > 0
  BY <1>2, Counts
<1>5. ASSUME NEW y \in Obligations, y # o
      PROVE  /\ Live(y[1], y[2])' <=> Live(y[1], y[2])
             /\ Dead(y[1], y[2])' <=> Dead(y[1], y[2])
  <2>1. y[2] \in Queues /\ (y[2] # q \/ y[1] # m.event)
    BY <1>5 DEF Obligations
  <2>2. QED
    BY <1>3, <2>1, LiveAlive DEF Dead
<1>6. o \in Pend
  BY <1>1, LiveAlive DEF Pend
<1>7. Dead(m.event, q)'
  BY <1>4 DEF Dead
<1>8. Buried' = Buried \cup {o}
  BY <1>1, <1>5, <1>7 DEF Buried
<1>9. Pend' \in {Pend, Pend \ {o}}
  BY <1>1, <1>5, <1>6 DEF Pend
<1>10. done' = done
  BY DEF DeadLetter
<1>11. Promise!Bury(o)
  BY <1>6, <1>8, <1>9, <1>10 DEF Promise!Bury, Pend, Buried
<1>12. QED
  BY <1>1, <1>11 DEF Promise!Next

\* A handler that returns, attached or not, makes its obligation done.
LEMMA ReturnSucceeds ==
  ASSUME Pend' = Pend, Buried' = Buried, NEW o \in Obligations, o \in Accounted,
         done' = done \cup {o}
  PROVE  Promise!Next
<1>1. Promise!Succeed(o, {})
  BY DEF Promise!Succeed, Pend, Buried, Accounted
<1>2. QED
  BY <1>1 DEF Promise!Next

\* A step that routes message n, a new one or a retry, and may move a copy.
LEMMA RoutedStep ==
  ASSUME NEW STATE c, c \in Bag, NEW n \in Messages, copies' = Routed(c, n), done' = done,
         \A q \in Queues, m \in Messages :
           /\ Alive(c, q, m) <=> Alive(copies, q, m)
           /\ c[q][m]["dead"] = copies[q][m]["dead"]
  PROVE  Promise!Next
<1>1. \A q \in Queues, m \in Messages :
        /\ Alive(copies', q, m) <=> Alive(copies, q, m) \/ (q \in Route(n.event) /\ m = n)
        /\ copies'[q][m]["dead"] > 0 <=> copies[q][m]["dead"] > 0
  BY RoutedAlive
<1>2. QED
  BY <1>1, RouteStep

\* Action by action: acks settle, returns succeed, the last failure buries,
\* publications route, and the rest is invisible.
LEMMA PromiseStep ==
  ASSUME RInv, [Next]_vars
  PROVE  Promise!Next \/ UNCHANGED Promise!vars
<1> DEFINE Goal == Promise!Next \/ UNCHANGED Promise!vars
<1> USE DEF RInv
<1>0. /\ Places = {"handling", "handled", "backoff", "republished", "stuck", "ready", "dead"}
      /\ copies \in Bag /\ \A m \in Messages : m.event \in Events
  BY Counts
<1>1. ASSUME copies' = copies, done' = done PROVE Goal
  <2>1. Pend' = Pend /\ Buried' = Buried
    BY <1>1, SameAlive
  <2>2. QED
    BY <1>1, <2>1, StutterStep
<1>2. ASSUME NEW q \in Queues, NEW m \in Messages,
             NEW x \in Places, NEW y \in Places, x # y, x # "dead", y # "dead",
             copies[q][m][x] > 0, copies' = Moved(copies, q, m, x, y), done' = done
      PROVE  Goal
  <2>1. Pend' = Pend /\ Buried' = Buried
    BY <1>2, MoveStutters
  <2>2. QED
    BY <1>2, <2>1, StutterStep
<1>a. ASSUME NEW q \in Queues, Start(q) PROVE Goal
  BY <1>1, <1>a DEF Start, history
<1>b. ASSUME NEW e \in Events, Publish(e) PROVE Goal
  <2>1. Message(e, 0) \in Messages /\ copies' = Routed(copies, Message(e, 0)) /\ done' = done
    BY <1>b, FreshIsMessage DEF Publish
  <2>2. QED
    BY <1>0, <2>1, RoutedStep
<1>c. ASSUME NEW q \in Queues, NEW m \in Messages, Deliver(q, m) PROVE Goal
  BY <1>0, <1>2, <1>c DEF Deliver, history
<1>d. ASSUME NEW q \in Queues, NEW m \in Messages, HandlerReturns(q, m) PROVE Goal
  <2> DEFINE o == <<m.event, q>>
  <2>1. Pend' = Pend /\ Buried' = Buried
    BY <1>0, <1>d, MoveStutters DEF HandlerReturns
  <2>2. Alive(copies, q, m) /\ o \in Obligations
    BY <1>0, <1>d DEF HandlerReturns, HandledOnly, Obligations, Alive
  <2>3. o \in Accounted
    BY <2>2, LiveAlive DEF Accounted, Pend
  <2>4. QED
    BY <1>d, <2>1, <2>2, <2>3, ReturnSucceeds DEF HandlerReturns
<1>e. ASSUME NEW q \in Queues, NEW m \in Messages, BackOff(q, m) PROVE Goal
  BY <1>0, <1>2, <1>e DEF BackOff
<1>f. ASSUME NEW q \in Queues, NEW m \in Messages, RepublishError(q, m) PROVE Goal
  BY <1>0, <1>2, <1>f DEF RepublishError, history
<1>g. ASSUME NEW q \in Queues, NEW m \in Messages, DeadLetter(q, m) PROVE Goal
  BY <1>g, DeadLetterBuries
<1>h. ASSUME NEW q \in Queues, NEW m \in Messages, AckUnhandled(q, m) PROVE Goal
  <2>1. \A qq \in Queues, mm \in Messages, p \in Places : ~(qq = q /\ mm = m) =>
          copies'[qq][mm][p] = copies[qq][mm][p]
    BY <1>0, <1>h, WithoutCopy DEF AckUnhandled
  <2>2. \A qq \in Queues, mm \in Messages : mm.event \in Handlers[qq] =>
          /\ Alive(copies', qq, mm) <=> Alive(copies, qq, mm)
          /\ copies'[qq][mm]["dead"] > 0 <=> copies[qq][mm]["dead"] > 0
    BY <1>0, <1>h, <2>1 DEF AckUnhandled, Alive
  <2>3. Pend' = Pend /\ Buried' = Buried
    BY <2>2, SameAlive
  <2>4. QED
    BY <1>h, <2>3, StutterStep DEF AckUnhandled, history
<1>i. ASSUME NEW q \in Queues, NEW m \in Messages, Ack(q, m) PROVE Goal
  <2>1. <<m.event, q>> \in done /\ m.event \in Handlers[q]
    BY <1>0, <1>i DEF Ack, IInv, Safe, HandledDone, HandledOnly
  <2>2. QED
    BY <1>0, <1>i, <2>1, AckSettles DEF Ack, history
<1>j. ASSUME NEW q \in Queues, NEW m \in Messages, AckRepublished(q, m) PROVE Goal
  <2>1. Covered(m.event, q, m.retry + 1) /\ m.event \in Handlers[q]
    BY <1>0, <1>j DEF AckRepublished, IInv, Safe, RetryIsOut, HandledOnly
  <2>2. QED
    BY <1>0, <1>j, <2>1, AckSettles DEF AckRepublished, history
<1>k. ASSUME NEW q \in Queues, NEW m \in Messages, Republish(q, m) PROVE Goal
  <2> DEFINE n == Message(m.event, m.retry + 1)
             c == Moved(copies, q, m, "backoff", "republished")
  <2>1. n \in Messages /\ c \in Bag
    BY <1>k, RepublishCopies DEF IInv
  <2>2. copies[q][m]["backoff"] > 0 /\ copies' = Routed(c, n) /\ done' = done
    BY <1>k DEF Republish, history
  <2>3. \A qq \in Queues, mm \in Messages :
          /\ Alive(c, qq, mm) <=> Alive(copies, qq, mm)
          /\ c[qq][mm]["dead"] = copies[qq][mm]["dead"]
    BY <1>0, <2>2, MovedAlive
  <2> HIDE DEF n, c
  <2>4. QED
    BY <2>1, <2>2, <2>3, RoutedStep
<1>l. ASSUME NEW q \in Queues, Crash(q) \/ LoseConnection(q) PROVE Goal
  <2>1. copies' = Requeued(copies, q) /\ done' = done
    BY <1>l DEF Crash, LoseConnection, history
  <2>2. \A qq \in Queues, mm \in Messages :
          /\ Alive(copies', qq, mm) <=> Alive(copies, qq, mm)
          /\ copies'[qq][mm]["dead"] = copies[qq][mm]["dead"]
    BY <2>1, RequeuedAlive
  <2>3. Pend' = Pend /\ Buried' = Buried
    BY <2>2, SameAlive
  <2>4. QED
    BY <2>1, <2>3, StutterStep
<1>m. ASSUME NEW q \in Queues, NEW m \in Messages, DetachedReturns(q, m) PROVE Goal
  <2> DEFINE o == <<m.event, q>>
  <2>1. copies' = copies /\ done' = done \cup {o} /\ detached[q][m]["handling"] > 0
    BY <1>m DEF DetachedReturns, DetachedExcept
  <2>2. Pend' = Pend /\ Buried' = Buried
    BY <2>1, SameAlive
  <2>3. o \in Obligations /\ o \in Accounted
    BY <1>0, <2>1 DEF HandledOnly, DetachedAccounted, Obligations
  <2>4. QED
    BY <2>1, <2>2, <2>3, ReturnSucceeds
<1>n. ASSUME NEW q \in Queues, NEW m \in Messages, DetachedRaises(q, m) PROVE Goal
  BY <1>1, <1>n DEF DetachedRaises
<1>o. ASSUME NEW q \in Queues, NEW m \in Messages, DetachedRepublish(q, m) PROVE Goal
  <2> DEFINE n == Message(m.event, m.retry + 1)
  <2>1. n \in Messages
    BY <1>o, RetryIsMessage DEF DetachedRepublish, IInv, TypeInv, RetriesRemain
  <2>2. (copies' = copies \/ copies' = Routed(copies, n)) /\ done' = done
    BY <1>o DEF DetachedRepublish, history
  <2> HIDE DEF n
  <2>3. QED
    BY <1>0, <1>1, <2>1, <2>2, RoutedStep
<1>p. CASE UNCHANGED vars
  BY <1>1, <1>p DEF vars, history
<1>q. QED
  BY <1>a, <1>b, <1>c, <1>d, <1>e, <1>f, <1>g, <1>h, <1>i, <1>j, <1>k, <1>l, <1>m, <1>n, <1>o, <1>p
  DEF Next, Task

-----------------------------------------------------------------------------
(* The invariant is kept.                                                  *)

\* Nothing accounted for stops being so under a step of the promise.
LEMMA AccountedGrows ==
  ASSUME Promise!Next \/ UNCHANGED Promise!vars
  PROVE  Accounted \subseteq Accounted'
<1>1. CASE UNCHANGED Promise!vars
  BY <1>1 DEF Promise!vars, Accounted, Pend, Buried
<1>2. ASSUME NEW S \in SUBSET Obligations, Promise!Route(S) PROVE Accounted \subseteq Accounted'
  BY <1>2 DEF Promise!Route, Accounted, Pend, Buried
<1>3. ASSUME NEW S \in SUBSET Obligations, NEW o \in Obligations, Promise!Succeed(o, S)
      PROVE  Accounted \subseteq Accounted'
  BY <1>3 DEF Promise!Succeed, Accounted, Pend, Buried
<1>4. ASSUME NEW o \in Obligations, Promise!Bury(o) PROVE Accounted \subseteq Accounted'
  BY <1>4 DEF Promise!Bury, Accounted, Pend, Buried
<1>5. ASSUME NEW o \in Obligations, Promise!Settle(o) PROVE Accounted \subseteq Accounted'
  BY <1>5 DEF Promise!Settle, Accounted, Pend, Buried
<1>6. QED
  BY <1>1, <1>2, <1>3, <1>4, <1>5 DEF Promise!Next

\* A task that handles a message detached was so before, or has just lost its
\* delivery.
LEMMA DetachedHandling ==
  ASSUME IInv, [Next]_vars, NEW q \in Queues, NEW m \in Messages,
         detached'[q][m]["handling"] > 0
  PROVE  detached[q][m]["handling"] > 0 \/ copies[q][m]["handling"] > 0
<1> DEFINE Goal == detached[q][m]["handling"] > 0 \/ copies[q][m]["handling"] > 0
<1>0. /\ detached \in [Queues -> [Messages -> [Stages -> Nat]]]
      /\ Stages = {"handling", "backoff"}
      /\ copies[q][m]["handling"] \in Nat
  BY Counts DEF IInv, TypeInv, TypeOK, Stages
<1>1. CASE UNCHANGED detached
  BY <1>1
<1>2. ASSUME NEW qq \in Queues, Crash(qq) PROVE Goal
  BY <1>0, <1>2 DEF Crash
<1>3. ASSUME NEW qq \in Queues, LoseConnection(qq) PROVE Goal
  <2>1. CASE qq = q
    <3>1. detached'[q][m]["handling"] = detached[q][m]["handling"] + copies[q][m]["handling"] + 0
      BY <1>0, <1>3, <2>1 DEF LoseConnection
    <3>2. QED
      BY <1>0, <3>1
  <2>2. CASE qq # q
    BY <1>0, <1>3, <2>2 DEF LoseConnection
  <2>3. QED
    BY <2>1, <2>2
<1>4. ASSUME NEW qq \in Queues, NEW mm \in Messages, DetachedExcept(qq, mm) PROVE Goal
  BY <1>0, <1>4 DEF DetachedExcept
<1>5. ASSUME NEW qq \in Queues, NEW mm \in Messages, DetachedRepublish(qq, mm) PROVE Goal
  BY <1>0, <1>5 DEF DetachedRepublish
<1>6. QED
  BY <1>1, <1>2, <1>3, <1>4, <1>5
  DEF Next, Task, vars, Start, Publish, Deliver, AckUnhandled, HandlerReturns, Ack, BackOff,
      DeadLetter, Republish, RepublishError, AckRepublished, DetachedReturns, DetachedRaises

\* A message without a handler gets no further than it was.
LEMMA HandledOnlyStep ==
  ASSUME RInv, [Next]_vars
  PROVE  HandledOnly'
<1> USE DEF RInv
<1>0. /\ Places = {"handling", "handled", "backoff", "republished", "stuck", "ready", "dead"}
      /\ copies \in Bag
      /\ \A q \in Queues, m \in Messages, p \in Places : copies[q][m][p] \in Nat
  BY Counts
<1> SUFFICES ASSUME NEW q \in Queues, NEW m \in Messages, m.event \notin Handlers[q],
                    NEW p \in Places \ {"ready"}, copies'[q][m][p] > 0
             PROVE  copies[q][m][p] > 0
  <2>1. "handling" \in Places \ {"ready"}
    BY <1>0
  <2>2. \A q \in Queues, m \in Messages :
          detached'[q][m]["handling"] > 0 =>
            detached[q][m]["handling"] > 0 \/ copies[q][m]["handling"] > 0
    BY DetachedHandling
  <2>3. QED
    BY <2>1, <2>2 DEF HandledOnly
<1>g. copies \in Bag /\ p \in Places /\ p # "ready"
  BY <1>0
<1>1. CASE UNCHANGED copies
  BY <1>1
<1>2. ASSUME NEW qq \in Queues, NEW mm \in Messages, NEW x \in Places,
             copies[qq][mm][x] > 0, copies' = Without(copies, qq, mm, x)
      PROVE  copies[q][m][p] > 0
  <2>1. copies'[q][m][p] =
          IF q = qq /\ m = mm /\ p = x THEN copies[qq][mm][x] - 1 ELSE copies[q][m][p]
    BY <1>g, <1>2, WithoutCopy
  <2>2. QED
    BY <1>2, <2>1
<1>3. ASSUME NEW qq \in Queues, NEW mm \in Messages, NEW x \in Places, NEW y \in Places,
             mm.event \in Handlers[qq], x # y,
             copies[qq][mm][x] > 0, copies' = Moved(copies, qq, mm, x, y)
      PROVE  copies[q][m][p] > 0
  <2>1. copies'[q][m][p] = copies[q][m][p]
    <3>1. ~(q = qq /\ m = mm)
      BY <1>3
    <3>2. Moved(copies, qq, mm, x, y)[q][m][p] = copies[q][m][p]
      BY <1>g, <1>3, <3>1, MovedCopy
    <3>3. QED
      BY <1>3, <3>2
  <2>2. QED
    BY <2>1
<1>4. ASSUME NEW n \in Messages, copies' = Routed(copies, n) PROVE copies[q][m][p] > 0
  <2>1. Routed(copies, n)[q][m][p] = copies[q][m][p]
    BY <1>g, RoutedCopy
  <2>2. QED
    BY <1>4, <2>1
<1>5. ASSUME NEW qq \in Queues, copies' = Requeued(copies, qq) PROVE copies[q][m][p] > 0
  BY <1>5, RequeuedAlive
<1>a. ASSUME NEW e \in Events, Publish(e) PROVE copies[q][m][p] > 0
  BY <1>4, <1>a, FreshIsMessage DEF Publish
<1>b. ASSUME NEW qq \in Queues, NEW mm \in Messages,
             \/ Deliver(qq, mm) \/ HandlerReturns(qq, mm) \/ BackOff(qq, mm)
             \/ DeadLetter(qq, mm) \/ RepublishError(qq, mm)
      PROVE  copies[q][m][p] > 0
  <2>1. mm.event \in Handlers[qq]
    BY <1>0, <1>b DEF Deliver, HandlerReturns, BackOff, DeadLetter, RepublishError, HandledOnly
  <2>2. QED
    BY <1>0, <1>3, <1>b, <2>1 DEF Deliver, HandlerReturns, BackOff, DeadLetter, RepublishError
<1>c. ASSUME NEW qq \in Queues, NEW mm \in Messages,
             AckUnhandled(qq, mm) \/ Ack(qq, mm) \/ AckRepublished(qq, mm)
      PROVE  copies[q][m][p] > 0
  BY <1>0, <1>2, <1>c DEF AckUnhandled, Ack, AckRepublished
<1>d. ASSUME NEW qq \in Queues, NEW mm \in Messages, Republish(qq, mm)
      PROVE  copies[q][m][p] > 0
  <2>1. copies[qq][mm]["backoff"] > 0
    BY <1>d DEF Republish
  <2>2. mm.event \in Handlers[qq]
    BY <1>0, <2>1 DEF HandledOnly
  <2>3. \A q1 \in Queues, m1 \in Messages :
          /\ \A p1 \in Places : p1 \notin {"ready", "republished"} /\ copies'[q1][m1][p1] > 0 =>
                copies[q1][m1][p1] > 0
          /\ copies'[q1][m1]["republished"] > 0 =>
                copies[q1][m1]["republished"] > 0 \/ (q1 = qq /\ m1 = mm)
    BY <1>d, RepublishCopies DEF IInv
  <2>4. QED
    BY <2>2, <2>3
<1>e. ASSUME NEW qq \in Queues, NEW mm \in Messages, DetachedRepublish(qq, mm)
      PROVE  copies[q][m][p] > 0
  <2>1. Message(mm.event, mm.retry + 1) \in Messages
    BY <1>e, RetryIsMessage DEF DetachedRepublish, IInv, TypeInv, RetriesRemain
  <2>2. QED
    BY <1>1, <1>4, <1>e, <2>1 DEF DetachedRepublish
<1>f. QED
  BY <1>1, <1>5, <1>a, <1>b, <1>c, <1>d, <1>e
  DEF Next, Task, vars, Start, Crash, LoseConnection, DetachedReturns, DetachedRaises

\* What a detached task handles stays accounted for, by AccountedGrows.
LEMMA RInvStep ==
  ASSUME RInv, [Next]_vars
  PROVE  RInv'
<1>1. IInv'
  BY TypeInvStep, SafeStep DEF RInv, IInv
<1>2. Accounted \subseteq Accounted'
  BY PromiseStep, AccountedGrows
<1>3. ASSUME NEW q \in Queues, NEW m \in Messages, copies[q][m]["handling"] > 0
      PROVE  <<m.event, q>> \in Accounted
  <2>1. "handling" \in Places /\ m.event \in Events
    BY Counts DEF RInv
  <2>2. Alive(copies, q, m) /\ m.event \in Handlers[q]
    BY <1>3, <2>1 DEF RInv, HandledOnly, Alive
  <2>3. QED
    BY <2>1, <2>2, LiveAlive DEF Accounted, Pend, Obligations
<1>4. ASSUME NEW q \in Queues, NEW m \in Messages, detached'[q][m]["handling"] > 0
      PROVE  <<m.event, q>> \in Accounted'
  BY <1>2, <1>3, <1>4, DetachedHandling DEF RInv, DetachedAccounted
<1>5. DetachedAccounted'
  BY <1>4 DEF DetachedAccounted
<1>6. QED
  BY <1>1, <1>5, HandledOnlyStep DEF RInv

\* Initially nothing is owed.
LEMMA RInvInit == Init => RInv /\ Promise!Init
<1> SUFFICES ASSUME Init PROVE RInv /\ Promise!Init
  OBVIOUS
<1>1. IInv
  BY TypeInvInit, SafeInit DEF IInv
<1>2. \A q \in Queues, m \in Messages :
        (\A p \in Places : ~(copies[q][m][p] > 0)) /\ ~(detached[q][m]["handling"] > 0)
  BY DEF Init, Stages
<1>3. HandledOnly /\ DetachedAccounted
  BY <1>2 DEF HandledOnly, DetachedAccounted
<1>4. "dead" \in Places
  BY DEF Places
<1>5. Pend = {} /\ Buried = {}
  BY <1>2, <1>4 DEF Pend, Buried, Live, Dead, Obligations
<1>6. Promise!Init
  BY <1>5 DEF Init, Promise!Init, Pend, Buried
<1>7. QED
  BY <1>1, <1>3, <1>6 DEF RInv

\* The bus implements at-least-once delivery with dead-lettering, for any
\* topology, retry limit and number of faults: each of its steps is a step of
\* AtLeastOnce or invisible to it (consumer.py, _handle and _republish).
THEOREM BusImplementsPromise == Spec => ImplementsAtLeastOnce
<1>1. RInv /\ [Next]_vars => RInv'
  BY RInvStep
<1>2. RInv /\ [Next]_vars => [Promise!Next]_(Promise!vars)
  BY PromiseStep
<1>3. QED
  BY <1>1, <1>2, RInvInit, PTL DEF Spec, ImplementsAtLeastOnce, Promise!Spec
=============================================================================
