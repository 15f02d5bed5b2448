------------------------- MODULE OrderServiceProofs -------------------------
(***************************************************************************)
(* Proofs about OrderService for any orders, requests and handler runs.    *)
(***************************************************************************)
EXTENDS OrderService, TLAPS

\* What a request is about to announce has been committed, and stays so: nothing
\* takes an order back to "none", whoever writes its status.
AnnouncesCommitted ==
  /\ \A o \in Orders : placing[o] = "publish" => status[o] # "none"
  /\ \A c \in Cancels : cancel[c] \in {"invalidate", "publish"} => CancelOf[c] \in cancelled

OrderInv == TypeOK /\ AnnouncesCommitted /\ AnnouncedIsCommitted

LEMMA StatusForTypes ==
  ASSUME NEW d \in Deliveries
  PROVE  OrderOf[d] \in Orders /\ StatusFor[Kind[d]] \in Statuses
<1>1. OrderOf[d] \in Orders /\ Kind[d] \in {"StockReserved", "StockUnavailable", "ShipmentCreated"}
  BY OrderAssumption DEF StatusFor
<1>2. QED
  BY <1>1 DEF StatusFor, Statuses

LEMMA OrderInit == Init => OrderInv
  BY DEF Init, OrderInv, TypeOK, AnnouncesCommitted, AnnouncedIsCommitted

LEMMA PlaceStep ==
  ASSUME OrderInv, NEW o \in Orders, Place(o)
  PROVE  OrderInv'
<1>1. CASE CreateOrder(o)
  BY <1>1 DEF CreateOrder, OrderInv, TypeOK, Statuses, AnnouncesCommitted, AnnouncedIsCommitted
<1>2. CASE PublishCreated(o)
  BY <1>2 DEF PublishCreated, OrderInv, TypeOK, AnnouncesCommitted, AnnouncedIsCommitted
<1>3. CASE CreateFails(o)
  BY <1>3 DEF CreateFails, OrderInv, TypeOK, AnnouncesCommitted, AnnouncedIsCommitted
<1>4. QED
  BY <1>1, <1>2, <1>3 DEF Place

LEMMA CancelStep ==
  ASSUME OrderInv, NEW c \in Cancels,
         CancelCheck(c) \/ CancelRefused(c) \/ Cancel(c) \/ CancelFails(c)
  PROVE  OrderInv'
<1>1. CancelOf[c] \in Orders
  BY OrderAssumption
<1>2. CASE CancelCheck(c)
  BY <1>2 DEF CancelCheck, OrderInv, TypeOK, AnnouncesCommitted, AnnouncedIsCommitted
<1>3. CASE CancelRefused(c)
  BY <1>3 DEF CancelRefused, OrderInv, TypeOK, AnnouncesCommitted, AnnouncedIsCommitted
<1>4. CASE CancelCommit(c)
  <2>1. TypeOK'
    BY <1>1, <1>4 DEF CancelCommit, OrderInv, TypeOK, Statuses
  <2>2. AnnouncesCommitted'
    BY <1>1, <1>4 DEF CancelCommit, OrderInv, TypeOK, AnnouncesCommitted
  <2>3. AnnouncedIsCommitted'
    BY <1>1, <1>4 DEF CancelCommit, OrderInv, TypeOK, AnnouncedIsCommitted
  <2>4. QED
    BY <2>1, <2>2, <2>3 DEF OrderInv
<1>5. CASE CancelInvalidate(c)
  BY <1>5 DEF CancelInvalidate, OrderInv, TypeOK, AnnouncesCommitted, AnnouncedIsCommitted
<1>6. CASE CancelPublish(c)
  BY <1>1, <1>6 DEF CancelPublish, OrderInv, TypeOK, AnnouncesCommitted, AnnouncedIsCommitted
<1>7. CASE CancelFails(c)
  BY <1>7 DEF CancelFails, OrderInv, TypeOK, AnnouncesCommitted, AnnouncedIsCommitted
<1>8. QED
  BY <1>2, <1>3, <1>4, <1>5, <1>6, <1>7 DEF Cancel

LEMMA SetStatusStep ==
  ASSUME OrderInv, NEW d \in Deliveries,
         StatusAsIs(d) \/ StatusDiffers(d) \/ SetStatus(d) \/ Fail(d)
  PROVE  OrderInv'
<1>1. CASE StatusCommit(d)
  <2>1. /\ OrderOf[d] \in Orders /\ StatusFor[Kind[d]] \in Statuses
        /\ StatusFor[Kind[d]] # "none"
    BY StatusForTypes DEF Statuses
  <2>2. /\ status' = [status EXCEPT ![OrderOf[d]] = StatusFor[Kind[d]]]
        /\ pc' = [pc EXCEPT ![d] = "invalidate"]
        /\ UNCHANGED <<requests, published, cancelled>>
    BY <1>1 DEF StatusCommit
  <2>3. TypeOK'
    BY <2>1, <2>2 DEF OrderInv, TypeOK, requests
  <2>4. AnnouncesCommitted' /\ AnnouncedIsCommitted'
    BY <2>1, <2>2 DEF OrderInv, TypeOK, AnnouncesCommitted, AnnouncedIsCommitted, requests
  <2>5. QED
    BY <2>3, <2>4 DEF OrderInv
<1>2. CASE StatusAsIs(d) \/ StatusDiffers(d) \/ StatusInvalidate(d) \/ Fail(d)
  <2>1. /\ pc' \in [Deliveries -> {"idle", "write", "invalidate", "done", "failed"}]
        /\ UNCHANGED <<status, requests, published, cancelled>>
    BY <1>2 DEF StatusAsIs, StatusDiffers, StatusInvalidate, Fail, OrderInv, TypeOK
  <2>2. QED
    BY <2>1 DEF OrderInv, TypeOK, AnnouncesCommitted, AnnouncedIsCommitted, requests
<1>3. QED
  BY <1>1, <1>2 DEF SetStatus

LEMMA OrderStep == OrderInv /\ [Next]_vars => OrderInv'
<1>1. SUFFICES ASSUME OrderInv, [Next]_vars PROVE OrderInv'
  OBVIOUS
<1>2. CASE UNCHANGED <<status, requests, pc, published, cancelled>>
  BY <1>1, <1>2 DEF OrderInv, TypeOK, AnnouncesCommitted, AnnouncedIsCommitted, requests
<1>3. UNCHANGED vars => UNCHANGED <<status, requests, pc, published, cancelled>>
  BY DEF vars
<1>4. ASSUME NEW o \in Orders, ExpireEntry(o)
      PROVE  UNCHANGED <<status, requests, pc, published, cancelled>>
  BY <1>4 DEF ExpireEntry
<1>5. ASSUME NEW r \in Readers, FillEntry(r) \/ \E o \in Orders : Read(r, o)
      PROVE  UNCHANGED <<status, requests, pc, published, cancelled>>
  BY <1>5 DEF FillEntry, Read
<1>6. QED
  BY <1>1, <1>2, <1>3, <1>4, <1>5, PlaceStep, CancelStep, SetStatusStep DEF Next

LEMMA OrderHolds == Spec => []OrderInv
  BY OrderInit, OrderStep, PTL DEF Spec

-----------------------------------------------------------------------------
\* The order service keeps its types.
THEOREM OrderTypes == Spec => []TypeOK
<1>1. OrderInv => TypeOK
  BY DEF OrderInv
<1>2. QED
  BY <1>1, OrderHolds, PTL

\* Whatever the order service announces is committed by then, for any number of
\* overlapping requests and handler runs that fail anywhere (create_order,
\* cancel_order).
THEOREM CommittedFirst == Spec => []AnnouncedIsCommitted
<1>1. OrderInv => AnnouncedIsCommitted
  BY DEF OrderInv
<1>2. QED
  BY <1>1, OrderHolds, PTL
=============================================================================
