-------------------------- MODULE InventoryProofs --------------------------
(***************************************************************************)
(* Proofs about Inventory for any products, orders and item lists and any  *)
(* finite set of handler runs.                                             *)
(***************************************************************************)
EXTENDS Inventory, TotalsProofs

\* Handlers select, lock and reserve only products that exist, so creating a
\* product disturbs no handler.
OnlyExisting ==
  /\ \A d \in Deliveries : found[d] \subseteq exists /\ held[d] \subseteq exists
  /\ \A r \in rows : r.product \in exists

\* The products of the reservations a release has read are those it locks.
ReadsFound ==
  \A d \in Deliveries :
    pc[d] = "lock" /\ Kind[d] = "OrderCancelled" =>
      \A r \in mine[d] : r.product \in found[d]

LockInv == TypeOK /\ OnlyExisting /\ ReadsFound /\ LockedIsCurrent /\ NoNegativeStock

LEMMA SequenceElements ==
  ASSUME NEW T, NEW s \in Seq(T)
  PROVE  \A i \in DOMAIN s : s[i] \in T
  OBVIOUS

LEMMA OrderedProducts ==
  ASSUME NEW o \in Orders
  PROVE  Ordered(o) \subseteq Products
<1>1. Items[o] \in Seq([product : Products, quantity : Nat \ {0}])
  BY InventoryAssumption
<1>2. \A i \in DOMAIN Items[o] : Items[o][i] \in [product : Products, quantity : Nat \ {0}]
  BY <1>1, SequenceElements
<1>3. QED
  BY <1>2 DEF Ordered

\* An order wants a natural number of units of a product, and some unit of those
\* that its items name.
LEMMA QuantityType ==
  ASSUME NEW o \in Orders, NEW p \in Products
  PROVE  /\ Quantity(o, p) \in Nat
         /\ p \in Ordered(o) <=> Quantity(o, p) > 0
<1> DEFINE I == {j \in DOMAIN Items[o] : Items[o][j].product = p}
           f == [i \in I |-> Items[o][i].quantity]
<1>1. Items[o] \in Seq([product : Products, quantity : Nat \ {0}])
  BY InventoryAssumption
<1>2. \A i \in DOMAIN Items[o] : Items[o][i].quantity \in Nat /\ Items[o][i].quantity > 0
  <2>1. \A i \in DOMAIN Items[o] : Items[o][i] \in [product : Products, quantity : Nat \ {0}]
    BY <1>1, SequenceElements
  <2>2. QED
    BY <2>1
<1>3. IsFiniteSet(DOMAIN Items[o])
  <2>1. Len(Items[o]) \in Nat /\ DOMAIN Items[o] = 1 .. Len(Items[o])
    BY <1>1
  <2>2. QED
    BY <2>1, FS_Interval
<1>4. IsFiniteSet(I) /\ f \in [I -> Nat]
  BY <1>2, <1>3, FS_Subset
<1>5. Total(f) \in Nat /\ (Total(f) > 0 <=> \E i \in I : f[i] > 0)
  <2> HIDE DEF I, f
  <2> QED
    BY <1>4, TotalType, TotalPositive
<1>6. (\E i \in I : f[i] > 0) <=> p \in Ordered(o)
  BY <1>2 DEF Ordered
<1>7. QED
  BY <1>5, <1>6 DEF Quantity

LEMMA ReturnedType ==
  ASSUME TypeOK, NEW d \in Deliveries, NEW p \in Products
  PROVE  Returned(d, p) \in Nat
<1> DEFINE S == {c \in Deliveries : [by |-> c, product |-> p] \in mine[d]}
<1>1. Cardinality(S) \in Nat
  BY FS_Subset, FS_CardinalityType, InventoryAssumption
<1>2. Quantity(Order(d), p) \in Nat
  BY QuantityType, InventoryAssumption DEF Order
<1>3. \A m, n \in Nat : m * n \in Nat
  OBVIOUS
<1>4. QED
  BY <1>1, <1>2, <1>3 DEF Returned

LEMMA NoReadsType == NoReads \in [Products -> Int]
  BY DEF NoReads

\* Leaving the transaction keeps the types and only drops locks.
LEMMA EndTransactionStep ==
  ASSUME TypeOK, NEW d \in Deliveries, EndTransaction(d)
  PROVE  /\ held' \in [Deliveries -> SUBSET Products]
         /\ snap' \in [Deliveries -> [Products -> Int]]
         /\ mine' \in [Deliveries -> SUBSET Rows]
         /\ held'[d] = {}
         /\ \A c \in Deliveries : c # d => held'[c] = held[c] /\ snap'[c] = snap[c]
  BY NoReadsType DEF EndTransaction, TypeOK

LEMMA LockInvInit == Init => LockInv
<1> SUFFICES ASSUME Init PROVE LockInv
  OBVIOUS
<1>0. overlapped \in BOOLEAN
  BY Zenon DEF Init
<1>1. TypeOK
  BY <1>0, NoReadsType DEF Init, TypeOK, Outcomes
<1>2. OnlyExisting /\ ReadsFound /\ LockedIsCurrent /\ NoNegativeStock
  BY DEF Init, OnlyExisting, ReadsFound, LockedIsCurrent, NoNegativeStock
<1>3. QED
  BY <1>1, <1>2 DEF LockInv

\* A commit adds its delta to the current stock, because what it read under its
\* locks is current; it touches only products it has locked.
LEMMA CommitAddsDelta ==
  ASSUME LockInv, NEW d \in Deliveries, ReserveCommit(d) \/ ReleaseCommit(d)
  PROVE  \A p \in Products :
           /\ stock'[p] = stock[p] + Delta(d, p)
           /\ p \notin held[d] => stock'[p] = stock[p]
           /\ stock'[p] \in Int /\ stock'[p] >= 0
<1>0. TypeOK /\ LockedIsCurrent /\ NoNegativeStock
  BY DEF LockInv
<1>1. \A p \in held[d] : snap[d][p] = stock[p]
  BY <1>0 DEF LockedIsCurrent
<1>2. held[d] = found[d]
  BY DEF ReserveCommit, ReleaseCommit, Selected
<1>3. Order(d) \in Orders
  BY InventoryAssumption DEF Order
<1>4. \A p \in Products : /\ stock[p] \in Int /\ stock[p] >= 0 /\ snap[d][p] \in Int
                          /\ Quantity(Order(d), p) \in Nat
                          /\ Returned(d, p) \in Nat
  BY <1>0, <1>3, QuantityType, ReturnedType DEF TypeOK, NoNegativeStock
<1>5. CASE ReserveCommit(d)
  <2>1. \A p \in Ordered(Order(d)) :
          /\ p \in held[d] /\ snap[d][p] = stock[p] /\ snap[d][p] >= Quantity(Order(d), p)
    BY <1>1, <1>2, <1>5 DEF ReserveCommit, Available
  <2>2. \A p \in Products :
          stock'[p] = IF p \in Ordered(Order(d))
                        THEN snap[d][p] - Quantity(Order(d), p) ELSE stock[p]
    BY <1>5 DEF ReserveCommit
  <2>3. \A p \in Products :
          Delta(d, p) = IF p \in Ordered(Order(d)) THEN -Quantity(Order(d), p) ELSE 0
    BY <1>5 DEF ReserveCommit, Delta
  <2>4. QED
    BY <1>4, <2>1, <2>2, <2>3
<1>6. CASE ReleaseCommit(d)
  <2>1. \A p \in Products :
          stock'[p] = IF p \in found[d] THEN snap[d][p] + Returned(d, p) ELSE stock[p]
    BY <1>6 DEF ReleaseCommit
  <2>2. \A p \in Products : Delta(d, p) = Returned(d, p)
    BY <1>6 DEF ReleaseCommit, Delta
  <2>3. \A p \in Products : p \notin found[d] => Returned(d, p) = 0
    <3>1. SUFFICES ASSUME NEW p \in Products, p \notin found[d] PROVE Returned(d, p) = 0
      OBVIOUS
    <3>2. {c \in Deliveries : [by |-> c, product |-> p] \in mine[d]} = {}
      BY <1>6, <3>1 DEF LockInv, ReleaseCommit, ReadsFound, Selected
    <3>3. QED
      <4>1. Cardinality({}) = 0
        BY FS_EmptySet
      <4>2. Returned(d, p) = 0 * Quantity(Order(d), p)
        BY <3>2, <4>1 DEF Returned
      <4>3. QED
        BY <1>4, <4>2
  <2>4. QED
    BY <1>1, <1>2, <1>4, <2>1, <2>2, <2>3
<1>7. QED
  BY <1>5, <1>6

\* Every action keeps the invariant.
LEMMA LockInvStep ==
  ASSUME LockInv, [Next]_vars
  PROVE  LockInv'
<1>0. TypeOK /\ OnlyExisting /\ ReadsFound /\ LockedIsCurrent /\ NoNegativeStock
  BY DEF LockInv
<1>t. overlapped' \in BOOLEAN
  <2>1. overlapped' = overlapped \/ overlapped' = (overlapped \/ ~OneAtATime')
    BY DEF vars, Next, Track
  <2>2. QED
    BY <2>1 DEF LockInv, TypeOK
<1>a. ASSUME NEW p \in Products, NEW n \in StockLevels, CreateProduct(p, n) PROVE LockInv'
  <2>1. n \in Nat
    BY InventoryAssumption
  <2>2. TypeOK'
    BY <1>0, <1>t, <1>a, <2>1 DEF CreateProduct, TypeOK, task
  <2>3. \A q \in Products : q # p => stock'[q] = stock[q]
    BY <1>0, <1>a DEF CreateProduct, TypeOK
  <2>4. OnlyExisting'
    BY <1>0, <1>a DEF CreateProduct, OnlyExisting, task
  <2>5. LockedIsCurrent'
    BY <1>0, <1>a, <2>3 DEF CreateProduct, LockedIsCurrent, OnlyExisting, TypeOK, task
  <2>6. NoNegativeStock'
    BY <1>0, <1>a, <2>1 DEF CreateProduct, NoNegativeStock, TypeOK
  <2>7. ReadsFound'
    BY <1>0, <1>a DEF CreateProduct, ReadsFound, task
  <2>8. QED
    BY <2>2, <2>4, <2>5, <2>6, <2>7 DEF LockInv
<1>b. ASSUME NEW d \in Deliveries, Begin(d) PROVE LockInv'
  <2>1. UNCHANGED <<shelf, held, snap, published, history>>
    BY <1>b DEF Begin, AlreadyReserved, NotReserved, NothingToRelease, ReadReservations
  <2>2. /\ pc' \in [Deliveries -> {"idle", "lock", "invalidate", "publish", "done", "failed"}]
        /\ outcome' \in [Deliveries -> Outcomes]
    BY <1>0, <1>b
    DEF Begin, AlreadyReserved, NotReserved, NothingToRelease, ReadReservations, TypeOK, Outcomes
  <2>3. RowsOf(Order(d)) \subseteq rows
    BY DEF RowsOf
  <2>4. mine' \in [Deliveries -> SUBSET Rows]
    BY <1>0, <1>b, <2>3
    DEF Begin, AlreadyReserved, NotReserved, NothingToRelease, ReadReservations, TypeOK
  <2>5. /\ {r.product : r \in RowsOf(Order(d))} \subseteq exists
        /\ Ordered(Order(d)) \cap exists \subseteq exists
        /\ exists \subseteq Products
    BY <1>0, <2>3 DEF OnlyExisting, TypeOK
  <2>6. /\ found' \in [Deliveries -> SUBSET Products]
        /\ \A c \in Deliveries : found'[c] \subseteq exists
    <3>1. \/ found' = found
          \/ found' = [found EXCEPT ![d] = Ordered(Order(d)) \cap exists]
          \/ found' = [found EXCEPT ![d] = {r.product : r \in RowsOf(Order(d))}]
      BY <1>b DEF Begin, AlreadyReserved, NotReserved, NothingToRelease, ReadReservations
    <3>2. /\ found \in [Deliveries -> SUBSET Products]
          /\ \A c \in Deliveries : found[c] \subseteq exists
      BY <1>0 DEF TypeOK, OnlyExisting
    <3>3. ASSUME NEW S, S \subseteq exists, found' = [found EXCEPT ![d] = S]
          PROVE  /\ found' \in [Deliveries -> SUBSET Products]
                 /\ \A c \in Deliveries : found'[c] \subseteq exists
      BY <2>5, <3>2, <3>3
    <3>4. QED
      BY <2>5, <3>1, <3>2, <3>3
  <2>7. TypeOK'
    BY <1>0, <1>t, <2>1, <2>2, <2>4, <2>6 DEF TypeOK, shelf, history
  <2>8. OnlyExisting'
    BY <1>0, <2>1, <2>6 DEF OnlyExisting, shelf
  <2>9. LockedIsCurrent' /\ NoNegativeStock'
    BY <1>0, <2>1 DEF LockedIsCurrent, NoNegativeStock, shelf
  <2>10. ReadsFound'
    BY <1>0, <1>b
    DEF Begin, AlreadyReserved, NotReserved, NothingToRelease, ReadReservations, TypeOK,
        ReadsFound
  <2>11. QED
    BY <2>7, <2>8, <2>9, <2>10 DEF LockInv
<1>c. ASSUME NEW d \in Deliveries, NEW p \in Products, LockRow(d, p) PROVE LockInv'
  <2>1. UNCHANGED <<shelf, pc, mine, found, outcome, published, history>>
    BY <1>c DEF LockRow
  <2>2. /\ held' \in [Deliveries -> SUBSET Products]
        /\ held'[d] = held[d] \cup {p}
        /\ \A c \in Deliveries : c # d => held'[c] = held[c]
    BY <1>0, <1>c DEF LockRow, TypeOK
  <2>3. /\ snap' \in [Deliveries -> [Products -> Int]]
        /\ snap'[d][p] = stock[p]
        /\ \A q \in Products : q # p => snap'[d][q] = snap[d][q]
        /\ \A c \in Deliveries : c # d => snap'[c] = snap[c]
    BY <1>0, <1>c DEF LockRow, TypeOK
  <2>4. p \in found[d] /\ \A c \in Deliveries : p \notin held[c]
    BY <1>c DEF LockRow, Locked
  <2>5. TypeOK'
    BY <1>0, <1>t, <2>1, <2>2, <2>3 DEF TypeOK, shelf, history
  <2>6. OnlyExisting'
    BY <1>0, <2>1, <2>2, <2>4 DEF OnlyExisting, shelf
  <2>7. LockedIsCurrent'
    <3>1. SUFFICES ASSUME NEW c \in Deliveries, NEW q \in held'[c]
                   PROVE  /\ snap'[c][q] = stock'[q]
                          /\ \A b \in Deliveries : q \in held'[b] => b = c
      BY DEF LockedIsCurrent
    <3>2. stock' = stock /\ q \in Products
      BY <2>1, <2>2, <3>1 DEF shelf
    <3>3. CASE q = p
      BY <2>2, <2>3, <2>4, <3>1, <3>2, <3>3
    <3>4. CASE q # p
      <4>1. q \in held[c]
        BY <2>2, <3>1, <3>4
      <4>2. snap'[c][q] = snap[c][q] /\ snap[c][q] = stock[q]
        BY <1>0, <2>3, <3>2, <3>4, <4>1 DEF LockedIsCurrent
      <4>3. \A b \in Deliveries : q \in held'[b] => q \in held[b]
        BY <2>2, <3>4
      <4>4. QED
        BY <1>0, <3>2, <4>1, <4>2, <4>3 DEF LockedIsCurrent
    <3>5. QED
      BY <3>3, <3>4
  <2>8. NoNegativeStock'
    BY <1>0, <2>1 DEF NoNegativeStock, shelf
  <2>9. ReadsFound'
    BY <1>0, <2>1 DEF ReadsFound
  <2>10. QED
    BY <2>5, <2>6, <2>7, <2>8, <2>9 DEF LockInv
<1>d. ASSUME NEW d \in Deliveries, Aborted(d) \/ ReserveShort(d) PROVE LockInv'
  <2>1. EndTransaction(d) /\ UNCHANGED <<shelf, published, history>>
    BY <1>d DEF Aborted, ReserveShort
  <2>2. /\ held' \in [Deliveries -> SUBSET Products]
        /\ snap' \in [Deliveries -> [Products -> Int]]
        /\ mine' \in [Deliveries -> SUBSET Rows]
        /\ held'[d] = {}
        /\ \A c \in Deliveries : c # d => held'[c] = held[c] /\ snap'[c] = snap[c]
    BY <1>0, <2>1, EndTransactionStep
  <2>3. /\ pc' \in [Deliveries -> {"idle", "lock", "invalidate", "publish", "done", "failed"}]
        /\ outcome' \in [Deliveries -> Outcomes]
        /\ found' \in [Deliveries -> SUBSET Products]
        /\ \A c \in Deliveries : found'[c] \subseteq found[c]
    BY <1>0, <1>d DEF Aborted, ReserveShort, TypeOK, Outcomes
  <2>4. TypeOK'
    BY <1>0, <1>t, <2>1, <2>2, <2>3 DEF TypeOK, shelf, history
  <2>5. OnlyExisting'
    BY <1>0, <2>1, <2>2, <2>3 DEF OnlyExisting, shelf
  <2>6. stock' = stock
    BY <2>1 DEF shelf
  <2>7. LockedIsCurrent'
    <3>1. SUFFICES ASSUME NEW c \in Deliveries, NEW p \in held'[c]
                   PROVE  /\ snap'[c][p] = stock'[p]
                          /\ \A b \in Deliveries : p \in held'[b] => b = c
      BY DEF LockedIsCurrent
    <3>2. c # d /\ held'[c] = held[c] /\ snap'[c] = snap[c]
      BY <2>2, <3>1
    <3>3. \A b \in Deliveries : p \in held'[b] => p \in held[b]
      BY <2>2
    <3>4. QED
      BY <1>0, <2>6, <3>1, <3>2, <3>3 DEF LockedIsCurrent
  <2>8. NoNegativeStock'
    BY <1>0, <2>6 DEF NoNegativeStock
  <2>9. ReadsFound'
    BY <1>0, <1>d DEF Aborted, ReserveShort, EndTransaction, TypeOK, ReadsFound
  <2>10. QED
    BY <2>4, <2>5, <2>7, <2>8, <2>9 DEF LockInv
<1>e. ASSUME NEW d \in Deliveries, ReserveCommit(d) \/ ReleaseCommit(d) PROVE LockInv'
  <2>1. /\ EndTransaction(d)
        /\ UNCHANGED <<exists, found, published, stocked>>
        /\ pc' = [pc EXCEPT ![d] = "invalidate"]
        /\ \E v \in Outcomes : outcome' = [outcome EXCEPT ![d] = v]
        /\ held[d] = found[d]
    BY <1>e DEF ReserveCommit, ReleaseCommit, Selected, history, Outcomes
  <2>2. /\ held' \in [Deliveries -> SUBSET Products]
        /\ snap' \in [Deliveries -> [Products -> Int]]
        /\ mine' \in [Deliveries -> SUBSET Rows]
        /\ held'[d] = {}
        /\ \A c \in Deliveries : c # d => held'[c] = held[c] /\ snap'[c] = snap[c]
    BY <1>0, <2>1, EndTransactionStep
  <2>3. \A p \in Products : /\ p \notin held[d] => stock'[p] = stock[p]
                            /\ stock'[p] \in Int /\ stock'[p] >= 0
    BY <1>e, CommitAddsDelta
  <2>4. stock' \in [Products -> Int]
    <3>1. stock' = [p \in Products |-> stock'[p]]
      BY <1>e DEF ReserveCommit, ReleaseCommit
    <3>2. QED
      BY <2>3, <3>1
  <2>5. Order(d) \in Orders /\ Ordered(Order(d)) \subseteq Products
    BY OrderedProducts, InventoryAssumption DEF Order
  <2>6. rows' \subseteq Rows /\ released' \subseteq Orders
    BY <1>0, <1>e, <2>5 DEF ReserveCommit, ReleaseCommit, TypeOK, Rows, history
  <2>7. TypeOK'
    BY <1>0, <1>t, <2>1, <2>2, <2>4, <2>6 DEF TypeOK
  <2>8. \A r \in rows' : r.product \in exists
    BY <1>0, <1>e DEF ReserveCommit, ReleaseCommit, OnlyExisting, Available
  <2>9. OnlyExisting'
    BY <1>0, <2>1, <2>2, <2>8 DEF OnlyExisting
  <2>10. LockedIsCurrent'
    <3>1. SUFFICES ASSUME NEW c \in Deliveries, NEW p \in held'[c]
                   PROVE  /\ snap'[c][p] = stock'[p]
                          /\ \A b \in Deliveries : p \in held'[b] => b = c
      BY DEF LockedIsCurrent
    <3>2. c # d /\ p \in held[c] /\ p \in Products
      BY <1>0, <2>2, <3>1 DEF TypeOK
    <3>3. p \notin held[d] /\ snap[c][p] = stock[p]
      BY <1>0, <3>2 DEF LockedIsCurrent
    <3>4. QED
      BY <1>0, <2>2, <2>3, <3>2, <3>3 DEF LockedIsCurrent
  <2>11. NoNegativeStock'
    BY <2>3 DEF NoNegativeStock
  <2>12. ReadsFound'
    BY <1>0, <2>1 DEF EndTransaction, TypeOK, ReadsFound
  <2>13. QED
    BY <2>7, <2>9, <2>10, <2>11, <2>12 DEF LockInv
<1>f. ASSUME NEW d \in Deliveries, NEW p \in Products, Invalidate(d, p) PROVE LockInv'
  <2>1. TypeOK'
    BY <1>0, <1>t, <1>f DEF Invalidate, TypeOK, shelf, history
  <2>2. \A c \in Deliveries : found'[c] \subseteq found[c]
    BY <1>0, <1>f DEF Invalidate, TypeOK
  <2>3. OnlyExisting' /\ LockedIsCurrent' /\ NoNegativeStock'
    BY <1>0, <1>f, <2>2
    DEF Invalidate, OnlyExisting, LockedIsCurrent, NoNegativeStock, shelf
  <2>4. ReadsFound'
    BY <1>0, <1>f DEF Invalidate, TypeOK, ReadsFound
  <2>5. QED
    BY <2>1, <2>3, <2>4 DEF LockInv
<1>g. ASSUME NEW d \in Deliveries, Publish(d) PROVE LockInv'
  <2>1. <<outcome[d], Order(d)>> \in Outcomes \X Orders
    BY <1>0, InventoryAssumption DEF TypeOK, Order
  <2>2. TypeOK'
    BY <1>0, <1>t, <1>g, <2>1 DEF Publish, TypeOK, shelf, history
  <2>3. OnlyExisting' /\ LockedIsCurrent' /\ NoNegativeStock'
    BY <1>0, <1>g DEF Publish, OnlyExisting, LockedIsCurrent, NoNegativeStock, shelf
  <2>4. ReadsFound'
    BY <1>0, <1>g DEF Publish, TypeOK, ReadsFound
  <2>5. QED
    BY <2>2, <2>3, <2>4 DEF LockInv
<1>h. CASE UNCHANGED <<shelf, task, published, history>>
  BY <1>h, <1>0, <1>t DEF shelf, task, history, LockInv, TypeOK, OnlyExisting, ReadsFound,
                    LockedIsCurrent, NoNegativeStock
<1>i. QED
  <2>1. CASE UNCHANGED vars
    BY <1>h, <2>1 DEF vars
  <2>2. CASE Step
    BY <1>a, <1>b, <1>c, <1>d, <1>e, <1>f, <1>g, <1>h, <2>2
    DEF Step, Handle, Fail, DeadlockAbort, Read, Cache
  <2>3. QED
    BY <2>1, <2>2 DEF Next

\* Type correctness of the inventory service's state.
THEOREM InventoryTypes == Spec => []TypeOK
<1>1. LockInv /\ [Next]_vars => LockInv'
  BY LockInvStep
<1>2. LockInv => TypeOK
  BY DEF LockInv
<1>3. QED
  BY <1>1, <1>2, LockInvInit, PTL DEF Spec

\* Row locks keep every read of a locked product current, for any number of
\* overlapping handler runs (reserve_for_order, release_for_order).
THEOREM LocksExclude == Spec => []LockedIsCurrent
<1>1. LockInv /\ [Next]_vars => LockInv'
  BY LockInvStep
<1>2. LockInv => LockedIsCurrent
  BY DEF LockInv
<1>3. QED
  BY <1>1, <1>2, LockInvInit, PTL DEF Spec

\* No commit loses another's update: each adds what it reserves or returns to
\* the quantity its products have at that moment (reserve_for_order,
\* release_for_order).
THEOREM UpdatesNotLost == Spec => NoLostUpdate
<1>1. LockInv /\ [Next]_vars => LockInv'
  BY LockInvStep
<1>2. ASSUME LockInv, [Next]_vars PROVE [\A d \in Deliveries : CommitStep(d)]_vars
  <2>1. SUFFICES ASSUME Next, NEW d \in Deliveries,
                        pc[d] = "lock", pc'[d] = "invalidate"
                 PROVE  \A p \in Products : stock'[p] = stock[p] + Delta(d, p)
    BY <1>2 DEF CommitStep
  <2>2. pc \in [Deliveries -> {"idle", "lock", "invalidate", "publish", "done", "failed"}]
    BY <1>2 DEF LockInv, TypeOK
  <2>3. pc' # pc
    BY <2>1
  <2>4. PICK c \in Deliveries : Begin(c) \/ Handle(c) \/ Fail(c)
    BY <2>1, <2>3 DEF Next, Step, CreateProduct, Read, Cache, task
  <2>5. \E v : pc' = [pc EXCEPT ![c] = v]
    BY <2>3, <2>4 DEF Begin, AlreadyReserved, NotReserved, NothingToRelease,
      ReadReservations, Handle, LockRow, Invalidate, ReserveShort, ReserveCommit,
      ReleaseCommit, Publish, DeadlockAbort, Fail, Aborted
  <2>6. c = d
    BY <2>1, <2>2, <2>5
  <2>7. ReserveCommit(d) \/ ReleaseCommit(d)
    BY <2>1, <2>2, <2>4, <2>6 DEF Begin, AlreadyReserved, NotReserved, NothingToRelease,
      ReadReservations, Handle, LockRow, Invalidate, ReserveShort, Publish,
      DeadlockAbort, Fail, Aborted
  <2>8. QED
    BY <1>2, <2>7, CommitAddsDelta
<1>3. QED
  BY <1>1, <1>2, LockInvInit, PTL DEF Spec, NoLostUpdate

\* quantity_available never goes below zero, for any number of overlapping,
\* repeated and failing handler runs (reserve_for_order).
THEOREM StockNeverNegative == Spec => []NoNegativeStock
<1>1. LockInv /\ [Next]_vars => LockInv'
  BY LockInvStep
<1>2. LockInv => NoNegativeStock
  BY DEF LockInv
<1>3. QED
  BY <1>1, <1>2, LockInvInit, PTL DEF Spec

-----------------------------------------------------------------------------
(* Idempotency, as long as handler runs for one order have not overlapped.  *)

\* An order that is about to be reserved has no reservation: the answer of the
\* unlocked check is still true when the locks are granted.
CheckStillTrue ==
  \A d \in Deliveries :
    pc[d] = "lock" /\ Kind[d] = "OrderCreated" => RowsOf(Order(d)) = {}

\* A release still finds, under its locks, the reservations it has read.
ReadStillTrue ==
  \A d \in Deliveries :
    pc[d] = "lock" /\ Kind[d] = "OrderCancelled" => mine[d] = RowsOf(Order(d))

Serial == LockInv /\ OneAtATime /\ CheckStillTrue /\ ReadStillTrue /\ ReservedOnce

SerialInv == LockInv /\ (~overlapped => Serial)

LEMMA SerialInit == Init => SerialInv
<1>1. Init => OneAtATime /\ CheckStillTrue /\ ReadStillTrue /\ ReservedOnce
  BY DEF Init, OneAtATime, Running, CheckStillTrue, ReadStillTrue, ReservedOnce
<1>2. QED
  BY <1>1, LockInvInit DEF Serial, SerialInv

\* A step that inserts no reservation keeps both facts, if it begins no
\* reservation of an order that has one.
LEMMA NoInsertStep ==
  ASSUME Serial, rows' \subseteq rows,
         \A d \in Deliveries :
           pc'[d] = "lock" /\ Kind[d] = "OrderCreated" =>
             pc[d] = "lock" \/ RowsOf(Order(d)) = {}
  PROVE  CheckStillTrue' /\ ReservedOnce'
  BY DEF Serial, CheckStillTrue, ReservedOnce, RowsOf

\* A run that ends its transaction changes the reservations of its own order
\* only, which no other run is about to release.
LEMMA LeaveStep ==
  ASSUME Serial, NEW d \in Deliveries, pc[d] = "lock" \/ rows' = rows, pc'[d] # "lock",
         \A c \in Deliveries : c # d => pc'[c] = pc[c] /\ mine'[c] = mine[c],
         \A r : Order(r.by) # Order(d) => (r \in rows' <=> r \in rows)
  PROVE  ReadStillTrue'
<1>1. SUFFICES ASSUME NEW c \in Deliveries, pc'[c] = "lock", Kind[c] = "OrderCancelled"
               PROVE  mine'[c] = {r \in rows' : Order(r.by) = Order(c)}
  BY DEF ReadStillTrue, RowsOf, Order
<1>2. c # d /\ pc[c] = "lock" /\ mine'[c] = mine[c]
  BY <1>1
<1>3. mine[c] = {r \in rows : Order(r.by) = Order(c)}
  BY <1>1, <1>2 DEF Serial, ReadStillTrue, RowsOf
<1>4. pc[d] = "lock" => Order(c) # Order(d)
  BY <1>2 DEF Serial, OneAtATime, Running
<1>5. QED
  BY <1>2, <1>3, <1>4

LEMMA ReadStillTrueStep ==
  ASSUME Serial, [Next]_vars
  PROVE  ReadStillTrue'
<1>0. /\ pc \in [Deliveries -> {"idle", "lock", "invalidate", "publish", "done", "failed"}]
      /\ mine \in [Deliveries -> SUBSET Rows]
  BY DEF Serial, LockInv, TypeOK
<1>1. CASE UNCHANGED <<rows, pc, mine>>
  BY <1>1 DEF Serial, ReadStillTrue, RowsOf
<1>a. ASSUME NEW d \in Deliveries, Begin(d) PROVE ReadStillTrue'
  <2>1. rows' = rows
    BY <1>a DEF Begin, AlreadyReserved, NotReserved, NothingToRelease, ReadReservations, shelf
  <2>2. \A c \in Deliveries : pc'[c] = "lock" /\ Kind[c] = "OrderCancelled" =>
          (pc[c] = "lock" /\ mine'[c] = mine[c]) \/ mine'[c] = RowsOf(Order(c))
    BY <1>0, <1>a
    DEF Begin, AlreadyReserved, NotReserved, NothingToRelease, ReadReservations
  <2>3. QED
    BY <2>1, <2>2 DEF Serial, ReadStillTrue, RowsOf
<1>b. ASSUME NEW d \in Deliveries,
             Aborted(d) \/ ReserveShort(d) \/ ReserveCommit(d) \/ ReleaseCommit(d)
      PROVE  ReadStillTrue'
  <2>1. /\ \E v : v # "lock" /\ pc' = [pc EXCEPT ![d] = v]
        /\ mine' = [mine EXCEPT ![d] = {}]
    BY <1>b DEF Aborted, ReserveShort, ReserveCommit, ReleaseCommit, EndTransaction
  <2>2. pc[d] = "lock" \/ rows' = rows
    BY <1>b DEF Aborted, ReserveShort, ReserveCommit, ReleaseCommit, Selected, shelf
  <2>3. \A r : Order(r.by) # Order(d) => (r \in rows' <=> r \in rows)
    <3>1. CASE rows' = rows
      BY <3>1
    <3>2. CASE ReserveCommit(d)
      BY <3>2 DEF ReserveCommit
    <3>3. CASE ReleaseCommit(d)
      <4>1. mine[d] = RowsOf(Order(d)) /\ rows' = rows \ mine[d]
        BY <3>3 DEF ReleaseCommit, Selected, Serial, ReadStillTrue
      <4>2. QED
        BY <4>1 DEF RowsOf
    <3>4. QED
      BY <1>b, <3>1, <3>2, <3>3 DEF Aborted, ReserveShort, shelf
  <2>4. /\ pc'[d] # "lock"
        /\ \A c \in Deliveries : c # d => pc'[c] = pc[c] /\ mine'[c] = mine[c]
    BY <1>0, <2>1
  <2>5. QED
    BY <2>2, <2>3, <2>4, LeaveStep
<1>c. ASSUME NEW d \in Deliveries, (\E p \in Products : Invalidate(d, p)) \/ Publish(d)
      PROVE  ReadStillTrue'
  <2>1. UNCHANGED <<rows, mine>> /\ \E v : v # "lock" /\ pc' = [pc EXCEPT ![d] = v]
    BY <1>0, <1>c DEF Invalidate, Publish, shelf
  <2>2. QED
    BY <1>0, <2>1 DEF Serial, ReadStillTrue, RowsOf
<1>d. CASE UNCHANGED vars
  BY <1>1, <1>d DEF vars, shelf, task
<1>e. CASE Step
  <2>1. CASE \E p \in Products, n \in StockLevels : CreateProduct(p, n)
    BY <1>1, <2>1 DEF CreateProduct, task
  <2>2. CASE Cache \/ \E r \in Readers, p \in Products : Read(r, p)
    BY <1>1, <2>2 DEF Cache, Read, shelf, task
  <2>3. ASSUME NEW d \in Deliveries, NEW p \in Products, LockRow(d, p) PROVE ReadStillTrue'
    BY <1>1, <2>3 DEF LockRow, shelf
  <2>4. QED
    BY <1>a, <1>b, <1>c, <1>e, <2>1, <2>2, <2>3 DEF Step, Handle, Fail, DeadlockAbort
<1>f. QED
  BY <1>d, <1>e DEF Next

LEMMA SerialStep ==
  ASSUME Serial, [Next]_vars, ~overlapped'
  PROVE  Serial'
<1>1. LockInv'
  BY LockInvStep DEF Serial
<1>2. pc \in [Deliveries -> {"idle", "lock", "invalidate", "publish", "done", "failed"}]
  BY DEF Serial, LockInv, TypeOK
<1>3. OneAtATime'
  BY DEF Serial, vars, task, OneAtATime, Running, Next, Track
<1>4. CheckStillTrue' /\ ReservedOnce'
  <2>a. CASE UNCHANGED <<rows, pc>>
    BY <2>a, NoInsertStep
  <2>b. ASSUME NEW d \in Deliveries, Begin(d) PROVE CheckStillTrue' /\ ReservedOnce'
    <3>1. rows' = rows
      BY <2>b DEF Begin, AlreadyReserved, NotReserved, NothingToRelease, ReadReservations, shelf
    <3>2. \A c \in Deliveries : pc'[c] = "lock" /\ Kind[c] = "OrderCreated" =>
            pc[c] = "lock" \/ RowsOf(Order(c)) = {}
      BY <1>2, <2>b
      DEF Begin, AlreadyReserved, NotReserved, NothingToRelease, ReadReservations
    <3>3. QED
      BY <3>1, <3>2, NoInsertStep
  <2>c. ASSUME NEW d \in Deliveries, NEW v, v # "lock", pc' = [pc EXCEPT ![d] = v],
               rows' \subseteq rows
        PROVE  CheckStillTrue' /\ ReservedOnce'
    BY <1>2, <2>c, NoInsertStep
  <2>d. ASSUME NEW d \in Deliveries, ReserveCommit(d) PROVE CheckStillTrue' /\ ReservedOnce'
    <3>1. /\ pc' = [pc EXCEPT ![d] = "invalidate"]
          /\ rows' = rows \cup {[by |-> d, product |-> p] : p \in Ordered(Order(d))}
          /\ pc[d] = "lock"
      BY <2>d DEF ReserveCommit, Selected
    <3>2. RowsOf(Order(d)) = {}
      BY <2>d, <3>1 DEF ReserveCommit, Serial, CheckStillTrue
    <3>3. \A r \in rows' : r \in rows \/ r.by = d
      BY <3>1
    <3>4. \A r \in rows : Order(r.by) # Order(d)
      BY <3>2 DEF RowsOf
    <3>5. ReservedOnce'
      BY <3>3, <3>4 DEF Serial, ReservedOnce
    <3>6. CheckStillTrue'
      <4>1. SUFFICES ASSUME NEW c \in Deliveries, pc'[c] = "lock", Kind[c] = "OrderCreated"
                     PROVE  \A r \in rows' : Order(r.by) # Order(c)
        BY DEF CheckStillTrue, RowsOf
      <4>2. c # d /\ pc[c] = "lock"
        BY <1>2, <3>1, <4>1
      <4>3. Order(c) # Order(d)
        BY <3>1, <4>2 DEF Serial, OneAtATime, Running
      <4>4. \A r \in rows : Order(r.by) # Order(c)
        BY <4>1, <4>2 DEF Serial, CheckStillTrue, RowsOf
      <4>5. QED
        BY <3>3, <4>3, <4>4
    <3>7. QED
      BY <3>5, <3>6
  <2>e. ASSUME NEW d \in Deliveries, NEW p \in Products, Invalidate(d, p)
        PROVE  CheckStillTrue' /\ ReservedOnce'
    <3>1. rows' = rows /\ pc[d] = "invalidate"
      BY <2>e DEF Invalidate, shelf
    <3>2. \E v : v # "lock" /\ pc' = [pc EXCEPT ![d] = v]
      BY <1>2, <2>e, <3>1 DEF Invalidate
    <3>3. QED
      BY <2>c, <3>1, <3>2
  <2>f. ASSUME NEW d \in Deliveries,
               ReserveShort(d) \/ ReleaseCommit(d) \/ Publish(d) \/ Aborted(d)
        PROVE  CheckStillTrue' /\ ReservedOnce'
    <3>1. \E v : v # "lock" /\ pc' = [pc EXCEPT ![d] = v]
      BY <2>f DEF ReserveShort, ReleaseCommit, Publish, Aborted
    <3>2. rows' \subseteq rows
      BY <2>f DEF ReserveShort, ReleaseCommit, Publish, Aborted, shelf
    <3>3. QED
      BY <2>c, <3>1, <3>2
  <2>g. CASE UNCHANGED vars
    BY <2>a, <2>g DEF vars, shelf, task
  <2>h. CASE Step
    <3>1. CASE \E p \in Products, n \in StockLevels : CreateProduct(p, n)
      BY <2>a, <3>1 DEF CreateProduct, task
    <3>2. CASE Cache \/ \E r \in Readers, p \in Products : Read(r, p)
      BY <2>a, <3>2 DEF Cache, Read, shelf, task
    <3>3. ASSUME NEW d \in Deliveries, NEW p \in Products, LockRow(d, p)
          PROVE  CheckStillTrue' /\ ReservedOnce'
      BY <2>a, <3>3 DEF LockRow, shelf
    <3>4. QED
      BY <2>b, <2>d, <2>e, <2>f, <2>h, <3>1, <3>2, <3>3
      DEF Step, Handle, Fail, DeadlockAbort
  <2>i. QED
    BY <2>g, <2>h DEF Next
<1>5. QED
  BY <1>1, <1>3, <1>4, ReadStillTrueStep DEF Serial

LEMMA SerialInvStep == SerialInv /\ [Next]_vars => SerialInv'
<1>1. SUFFICES ASSUME SerialInv, [Next]_vars PROVE SerialInv'
  OBVIOUS
<1>2. LockInv'
  BY <1>1, LockInvStep DEF SerialInv
<1>3. ASSUME ~overlapped' PROVE Serial'
  <2>1. ~overlapped
    BY <1>1, <1>3 DEF vars, Next, Track
  <2>2. QED
    BY <1>1, <1>3, <2>1, SerialStep DEF SerialInv
<1>4. QED
  BY <1>2, <1>3 DEF SerialInv

\* As long as runs for one order have not overlapped, redelivering OrderCreated
\* does not reserve twice, wherever earlier runs failed (the idempotency check of
\* reserve_for_order).
THEOREM SerialIdempotency == Spec => []ReservedOnceIfSerial
<1>1. SerialInv => ReservedOnceIfSerial
  BY DEF SerialInv, Serial, ReservedOnceIfSerial
<1>2. QED
  BY <1>1, SerialInvStep, SerialInit, PTL DEF Spec

-----------------------------------------------------------------------------
(* Conservation of units, as long as runs for one order have not overlapped. *)

\* The reservations of a product, and the quantity of each.
ReservationsOf(p) == {s \in rows : s.product = p}
Quantities(p) == [r \in ReservationsOf(p) |-> Quantity(Order(r.by), p)]

\* A run makes at most one reservation of a product, and there are finitely many runs.
LEMMA ReservationsType ==
  ASSUME TypeOK, NEW p \in Products
  PROVE  /\ IsFiniteSet(ReservationsOf(p))
         /\ Quantities(p) \in [ReservationsOf(p) -> Nat]
         /\ Reserved(p) = Total(Quantities(p))
         /\ Reserved(p) \in Nat
<1> DEFINE C == {c \in Deliveries : [by |-> c, product |-> p] \in rows}
           g == [c \in C |-> [by |-> c, product |-> p]]
<1>1. IsFiniteSet(C)
  BY InventoryAssumption, FS_Subset
<1>2. \A r \in ReservationsOf(p) : r.by \in Deliveries /\ r = [by |-> r.by, product |-> p]
  BY DEF ReservationsOf, TypeOK, Rows
<1>3. g \in Surjection(C, ReservationsOf(p))
  <2>1. g \in [C -> ReservationsOf(p)]
    BY DEF ReservationsOf
  <2>2. ASSUME NEW r \in ReservationsOf(p) PROVE \E c \in C : g[c] = r
    <3>1. r.by \in C
      BY <1>2 DEF ReservationsOf
    <3>2. QED
      BY <1>2, <3>1
  <2>3. QED
    BY <2>1, <2>2 DEF Surjection
<1>4. IsFiniteSet(ReservationsOf(p))
  BY <1>1, <1>3, FS_Surjection
<1>5. Quantities(p) \in [ReservationsOf(p) -> Nat]
  <2>1. \A r \in ReservationsOf(p) : Order(r.by) \in Orders
    BY <1>2, InventoryAssumption DEF Order
  <2>2. QED
    BY <2>1, QuantityType DEF Quantities
<1>6. Reserved(p) = Total(Quantities(p))
  BY DEF Reserved, Quantities, ReservationsOf
<1>7. Total(Quantities(p)) \in Nat
  BY <1>4, <1>5, TotalType
<1>8. QED
  BY <1>4, <1>5, <1>6, <1>7

ReservationsTyped ==
  \A p \in Products :
    /\ IsFiniteSet(ReservationsOf(p))
    /\ Quantities(p) \in [ReservationsOf(p) -> Nat]
    /\ Reserved(p) = Total(Quantities(p))
    /\ Reserved(p) \in Nat

LEMMA ReservationsTypedNext == TypeOK' => ReservationsTyped'
<1>1. TypeOK => ReservationsTyped
  BY ReservationsType DEF ReservationsTyped
<1>2. QED
  BY <1>1, PTL

\* What is reserved of a product changes with its reservations only.
LEMMA ReservedSame ==
  ASSUME NEW p \in Products, ReservationsOf(p)' = ReservationsOf(p)
  PROVE  Reserved(p)' = Reserved(p)
  BY DEF Reserved, ReservationsOf, Order, Quantity

\* One reservation more, one quantity more.
LEMMA ReservedInsert ==
  ASSUME TypeOK, TypeOK', NEW p \in Products, NEW d \in Deliveries,
         NEW r, r = [by |-> d, product |-> p], r \notin rows,
         ReservationsOf(p)' = ReservationsOf(p) \cup {r}
  PROVE  Reserved(p)' = Reserved(p) + Quantity(Order(d), p)
<1> DEFINE S == ReservationsOf(p)
           f == Quantities(p)
           g == [t \in S \cup {r} |-> Quantity(Order(t.by), p)]
<1>1. IsFiniteSet(S) /\ f \in [S -> Nat] /\ Reserved(p) = Total(f)
  BY ReservationsType
<1>2. r \notin S
  BY DEF ReservationsOf
<1>3. Order(d) \in Orders
  BY InventoryAssumption DEF Order
<1>4. Quantity(Order(d), p) \in Nat
  BY <1>3, QuantityType
<1>5. \A t \in S : g[t] = f[t]
  BY DEF Quantities
<1>6. g[r] = Quantity(Order(d), p)
  OBVIOUS
<1>7. g \in [S \cup {r} -> Nat]
  BY <1>1, <1>4, <1>5, <1>6
<1>8. Reserved(p)' = Total(g)
  BY DEF Reserved, ReservationsOf, Order, Quantity
<1>9. Total(g) = Total(f) + g[r]
  <2> HIDE DEF S, f, g
  <2> QED
    BY <1>1, <1>2, <1>5, <1>7, TotalExtend
<1>10. QED
  BY <1>1, <1>6, <1>8, <1>9

BooksBalance == \A p \in Products : stock[p] + Reserved(p) = stocked[p]

\* A reserve inserts the one reservation of each product that its order names.
LEMMA ReserveBalances ==
  ASSUME Serial, LockInv', NEW d \in Deliveries, ReserveCommit(d), BooksBalance
  PROVE  BooksBalance'
<1>1. SUFFICES ASSUME NEW p \in Products PROVE stock'[p] + Reserved(p)' = stocked'[p]
  BY DEF BooksBalance
<1>2. TypeOK /\ TypeOK' /\ LockInv
  BY DEF Serial, LockInv
<1>3. /\ stock'[p] = stock[p] + (IF p \in Ordered(Order(d)) THEN -Quantity(Order(d), p) ELSE 0)
      /\ stocked' = stocked
      /\ rows' = rows \cup {[by |-> d, product |-> q] : q \in Ordered(Order(d))}
      /\ pc[d] = "lock" /\ Kind[d] = "OrderCreated"
  BY <1>2, CommitAddsDelta DEF ReserveCommit, Delta, history, Selected
<1>4. stock[p] + Reserved(p) = stocked[p]
  BY DEF BooksBalance
<1>5. /\ stock[p] \in Int /\ Reserved(p) \in Nat
      /\ Quantity(Order(d), p) \in Nat
  <2>1. Order(d) \in Orders
    BY InventoryAssumption DEF Order
  <2>2. QED
    BY <1>2, <2>1, ReservationsType, QuantityType DEF TypeOK
<1>6. CASE p \in Ordered(Order(d))
  <2>1. PICK r : r = [by |-> d, product |-> p]
    OBVIOUS
  <2>2. r \notin rows
    <3>1. RowsOf(Order(d)) = {}
      BY <1>3 DEF Serial, CheckStillTrue
    <3>2. QED
      BY <2>1, <3>1 DEF RowsOf
  <2>3. ReservationsOf(p)' = ReservationsOf(p) \cup {r}
    BY <1>3, <1>6, <2>1 DEF ReservationsOf
  <2>4. Reserved(p)' = Reserved(p) + Quantity(Order(d), p)
    BY <1>2, <2>1, <2>2, <2>3, ReservedInsert
  <2>5. QED
    BY <1>3, <1>4, <1>5, <1>6, <2>4
<1>7. CASE p \notin Ordered(Order(d))
  <2>1. ReservationsOf(p)' = ReservationsOf(p)
    BY <1>3, <1>7 DEF ReservationsOf
  <2>2. QED
    BY <1>3, <1>4, <1>5, <1>7, <2>1, ReservedSame
<1>8. QED
  BY <1>6, <1>7

\* A release deletes the one reservation of each product that its order holds,
\* and returns what it held.
LEMMA ReleaseBalances ==
  ASSUME Serial, LockInv', NEW d \in Deliveries, ReleaseCommit(d), BooksBalance
  PROVE  BooksBalance'
<1>1. SUFFICES ASSUME NEW p \in Products PROVE stock'[p] + Reserved(p)' = stocked'[p]
  BY DEF BooksBalance
<1> DEFINE C == {c \in Deliveries : [by |-> c, product |-> p] \in mine[d]}
<1>2. TypeOK /\ TypeOK' /\ LockInv
  BY DEF Serial, LockInv
<1>3. /\ stock'[p] = stock[p] + Returned(d, p)
      /\ stocked' = stocked
      /\ rows' = rows \ RowsOf(Order(d))
      /\ mine[d] = RowsOf(Order(d))
  BY <1>2, CommitAddsDelta
  DEF ReleaseCommit, Delta, history, Selected, Serial, ReadStillTrue
<1>4. stock[p] + Reserved(p) = stocked[p]
  BY DEF BooksBalance
<1>5. /\ stock[p] \in Int /\ Reserved(p) \in Nat /\ Reserved(p)' \in Nat
      /\ Quantity(Order(d), p) \in Nat
  <2>1. Order(d) \in Orders
    BY InventoryAssumption DEF Order
  <2>2. Reserved(p)' \in Nat
    BY <1>2, ReservationsTypedNext DEF ReservationsTyped
  <2>3. QED
    BY <1>2, <2>1, <2>2, ReservationsType, QuantityType DEF TypeOK
<1>6. Returned(d, p) = Cardinality(C) * Quantity(Order(d), p)
  BY DEF Returned
<1>7. ReservationsOf(p)' = {r \in ReservationsOf(p) : Order(r.by) # Order(d)}
  BY <1>3 DEF ReservationsOf, RowsOf
<1>8. CASE C = {}
  <2>1. Returned(d, p) = 0
    <3>1. Cardinality(C) = 0
      BY <1>8, FS_EmptySet
    <3>2. QED
      BY <1>5, <1>6, <3>1
  <2>2. ReservationsOf(p)' = ReservationsOf(p)
    <3>1. ASSUME NEW r \in ReservationsOf(p), Order(r.by) = Order(d) PROVE FALSE
      <4>1. r \in mine[d] /\ r.by \in Deliveries /\ r = [by |-> r.by, product |-> p]
        BY <1>2, <1>3, <3>1 DEF ReservationsOf, RowsOf, TypeOK, Rows
      <4>2. QED
        BY <1>8, <4>1
    <3>2. QED
      BY <1>7, <3>1
  <2>3. QED
    BY <1>3, <1>4, <1>5, <2>1, <2>2, ReservedSame
<1>9. CASE C # {}
  <2>1. PICK c \in Deliveries : [by |-> c, product |-> p] \in mine[d]
    BY <1>9
  <2>2. PICK r : r = [by |-> c, product |-> p]
    OBVIOUS
  <2>3. r \in rows /\ Order(c) = Order(d)
    BY <1>3, <2>1, <2>2 DEF RowsOf
  <2>4. \A b \in Deliveries, s \in rows : s.by = b /\ Order(b) = Order(d) => b = c
    BY <2>2, <2>3 DEF Serial, ReservedOnce
  <2>5. C = {c}
    <3>1. ASSUME NEW b \in C PROVE b = c
      <4>1. [by |-> b, product |-> p] \in rows /\ Order(b) = Order(d)
        BY <1>3 DEF RowsOf
      <4>2. QED
        BY <2>4, <4>1
    <3>2. QED
      BY <2>1, <3>1
  <2>6. Returned(d, p) = Quantity(Order(d), p)
    <3>1. Cardinality(C) = 1
      BY <2>5, FS_Singleton
    <3>2. QED
      BY <1>5, <1>6, <3>1
  <2>7. ReservationsOf(p)' = ReservationsOf(p) \ {r}
    <3>1. \A s \in ReservationsOf(p) : Order(s.by) = Order(d) <=> s = r
      <4>1. SUFFICES ASSUME NEW s \in ReservationsOf(p), Order(s.by) = Order(d) PROVE s = r
        BY <2>2, <2>3
      <4>2. s \in rows /\ s.by \in Deliveries /\ s = [by |-> s.by, product |-> p]
        BY <1>2 DEF ReservationsOf, TypeOK, Rows
      <4>3. QED
        BY <2>2, <2>4, <4>1, <4>2
    <3>2. QED
      BY <1>7, <3>1
  <2>8. Reserved(p) = Reserved(p)' + Quantity(Order(d), p)
    <3> DEFINE S == ReservationsOf(p)'
               f == Quantities(p)'
               g == Quantities(p)
    <3>1. IsFiniteSet(S) /\ f \in [S -> Nat] /\ Reserved(p)' = Total(f)
      BY <1>2, ReservationsTypedNext DEF ReservationsTyped
    <3>2. g \in [S \cup {r} -> Nat] /\ Reserved(p) = Total(g)
      <4>1. S \cup {r} = ReservationsOf(p)
        BY <2>2, <2>3, <2>7 DEF ReservationsOf
      <4>2. QED
        BY <1>2, <4>1, ReservationsType
    <3>3. r \notin S /\ g[r] = Quantity(Order(d), p)
      BY <2>2, <2>3, <2>7 DEF Quantities, ReservationsOf
    <3>4. \A s \in S : g[s] = f[s]
      BY <2>7 DEF Quantities, Order, Quantity
    <3>5. Total(g) = Total(f) + g[r]
      <4> HIDE DEF S, f, g
      <4> QED
        BY <3>1, <3>2, <3>3, <3>4, TotalExtend
    <3>6. QED
      BY <3>1, <3>2, <3>3, <3>5
  <2>9. QED
    BY <1>3, <1>4, <1>5, <2>6, <2>8
<1>10. QED
  BY <1>8, <1>9

LEMMA BooksBalanceStep ==
  ASSUME Serial, [Next]_vars, BooksBalance
  PROVE  BooksBalance'
<1>0. LockInv /\ LockInv'
  BY LockInvStep DEF Serial
<1>1. CASE UNCHANGED <<rows, stock, stocked>>
  <2>1. \A p \in Products : Reserved(p)' = Reserved(p)
    BY <1>1, ReservedSame DEF ReservationsOf
  <2>2. QED
    BY <1>1, <2>1 DEF BooksBalance
<1>a. ASSUME NEW p \in Products, NEW n \in StockLevels, CreateProduct(p, n) PROVE BooksBalance'
  <2>1. SUFFICES ASSUME NEW q \in Products PROVE stock'[q] + Reserved(q)' = stocked'[q]
    BY DEF BooksBalance
  <2>2. Reserved(q)' = Reserved(q)
    BY <1>a, ReservedSame DEF CreateProduct, ReservationsOf
  <2>3. CASE q = p
    <3>1. ReservationsOf(p) = {}
      BY <1>0, <1>a DEF CreateProduct, LockInv, OnlyExisting, ReservationsOf
    <3>2. Reserved(p) = 0
      <4>1. /\ Reserved(p) = Total(Quantities(p))
            /\ Quantities(p) \in [ReservationsOf(p) -> Nat]
        BY <1>0, ReservationsType DEF LockInv
      <4>2. QED
        BY <3>1, <4>1, TotalZero
    <3>3. stock'[q] = n /\ stocked'[q] = n /\ n \in Nat
      BY <1>0, <1>a, <2>3, InventoryAssumption DEF CreateProduct, LockInv, TypeOK
    <3>4. QED
      BY <2>2, <2>3, <3>2, <3>3
  <2>4. CASE q # p
    BY <1>0, <1>a, <2>2, <2>4 DEF CreateProduct, LockInv, TypeOK, BooksBalance
  <2>5. QED
    BY <2>3, <2>4
<1>b. ASSUME NEW d \in Deliveries, ReserveCommit(d) \/ ReleaseCommit(d) PROVE BooksBalance'
  BY <1>0, <1>b, ReserveBalances, ReleaseBalances
<1>c. CASE UNCHANGED vars
  BY <1>1, <1>c DEF vars, shelf, history
<1>d. CASE Step
  <2>1. ASSUME NEW d \in Deliveries,
               Begin(d) \/ (\E p \in Products : LockRow(d, p) \/ Invalidate(d, p))
                 \/ ReserveShort(d) \/ Publish(d) \/ Aborted(d)
        PROVE  BooksBalance'
    BY <1>1, <2>1 DEF Begin, AlreadyReserved, NotReserved, NothingToRelease,
      ReadReservations, LockRow, Invalidate, ReserveShort, Publish, Aborted, shelf, history
  <2>2. CASE Cache \/ \E r \in Readers, p \in Products : Read(r, p)
    BY <1>1, <2>2 DEF Cache, Read, shelf, history
  <2>3. QED
    BY <1>a, <1>b, <1>d, <2>1, <2>2 DEF Step, Handle, Fail, DeadlockAbort
<1>e. QED
  BY <1>c, <1>d DEF Next

ConserveInv == SerialInv /\ (~overlapped => BooksBalance)

LEMMA ConserveInit == Init => ConserveInv
<1> SUFFICES ASSUME Init PROVE ConserveInv
  OBVIOUS
<1>1. SerialInv
  BY SerialInit
<1>2. ASSUME NEW p \in Products PROVE stock[p] + Reserved(p) = stocked[p]
  <2>1. TypeOK /\ ReservationsOf(p) = {}
    BY <1>1 DEF SerialInv, LockInv, Init, ReservationsOf
  <2>2. /\ Reserved(p) = Total(Quantities(p))
        /\ Quantities(p) \in [ReservationsOf(p) -> Nat]
    BY <2>1, ReservationsType
  <2>3. Reserved(p) = 0
    BY <2>1, <2>2, TotalZero
  <2>4. QED
    BY <2>3 DEF Init
<1>3. QED
  BY <1>1, <1>2 DEF ConserveInv, BooksBalance

LEMMA ConserveStep == ConserveInv /\ [Next]_vars => ConserveInv'
<1> SUFFICES ASSUME ConserveInv, [Next]_vars PROVE ConserveInv'
  OBVIOUS
<1>1. SerialInv'
  BY SerialInvStep DEF ConserveInv
<1>2. ~overlapped' => ~overlapped
  BY DEF vars, Next, Track
<1>3. ASSUME ~overlapped' PROVE BooksBalance'
  BY <1>2, <1>3, BooksBalanceStep DEF ConserveInv, SerialInv
<1>4. QED
  BY <1>1, <1>3 DEF ConserveInv

\* Units are neither created nor lost as long as runs for one order have not
\* overlapped: redelivered, failing and deadlocked runs, and concurrent runs for
\* other orders, do not disturb the balance (reserve_for_order,
\* release_for_order).
THEOREM UnitsConserved == Spec => []Conserved
<1>1. ConserveInv => Conserved
  BY DEF ConserveInv, BooksBalance, Conserved
<1>2. QED
  BY <1>1, ConserveInit, ConserveStep, PTL DEF Spec

-----------------------------------------------------------------------------
(* What is announced has been reserved.                                    *)

\* The order has a reservation, or had one that was released.
Accounted(o) == RowsOf(o) # {} \/ o \in released

\* A release deletes reservations of its own order only.
ReadsOwn == \A d \in Deliveries : \A r \in mine[d] : Order(r.by) = Order(d)

OutcomeTrue == \A d \in Deliveries : outcome[d] = "StockReserved" => Accounted(Order(d))

AnnounceInv == LockInv /\ ReadsOwn /\ OutcomeTrue /\ AnnouncedWasReserved

LEMMA AnnounceInit == Init => AnnounceInv
<1>1. Init => ReadsOwn /\ OutcomeTrue /\ AnnouncedWasReserved
  BY DEF Init, ReadsOwn, OutcomeTrue, AnnouncedWasReserved
<1>2. QED
  BY <1>1, LockInvInit DEF AnnounceInv

\* Every order wants some product.
LEMMA OrderedNonEmpty ==
  ASSUME NEW o \in Orders
  PROVE  Ordered(o) # {}
<1>1. Items[o] \in Seq([product : Products, quantity : Nat \ {0}]) /\ Items[o] # <<>>
  BY InventoryAssumption
<1>2. \A T : \A s \in Seq(T) : s # <<>> => 1 \in DOMAIN s
  OBVIOUS
<1>3. 1 \in DOMAIN Items[o]
  BY <1>1, <1>2
<1>4. QED
  BY <1>3 DEF Ordered

\* A step of a run or of the environment: what it does to the reservations, to
\* what was read of them, to the outcomes and to the announcements.
LEMMA AnnounceCases ==
  ASSUME AnnounceInv, [Next]_vars
  PROVE  /\ \A o \in Orders : Accounted(o) => Accounted(o)'
         /\ ReadsOwn'
         /\ \A d \in Deliveries :
              outcome'[d] = "StockReserved" => outcome[d] = "StockReserved" \/ Accounted(Order(d))'
         /\ \A o \in Orders :
              <<"StockReserved", o>> \in published' =>
                \/ <<"StockReserved", o>> \in published
                \/ \E d \in Deliveries : Order(d) = o /\ outcome[d] = "StockReserved"
<1> DEFINE Goal ==
      /\ \A o \in Orders : Accounted(o) => Accounted(o)'
      /\ ReadsOwn'
      /\ \A d \in Deliveries :
           outcome'[d] = "StockReserved" => outcome[d] = "StockReserved" \/ Accounted(Order(d))'
      /\ \A o \in Orders :
           <<"StockReserved", o>> \in published' =>
             \/ <<"StockReserved", o>> \in published
             \/ \E d \in Deliveries : Order(d) = o /\ outcome[d] = "StockReserved"
<1>0. /\ outcome \in [Deliveries -> Outcomes] /\ mine \in [Deliveries -> SUBSET Rows]
      /\ ReadsOwn /\ \A d \in Deliveries : Order(d) \in Orders
  BY InventoryAssumption DEF AnnounceInv, LockInv, TypeOK, Order
<1>1. CASE UNCHANGED <<rows, released, mine, outcome, published>>
  BY <1>0, <1>1 DEF Accounted, RowsOf, ReadsOwn
<1>a. ASSUME NEW d \in Deliveries, AlreadyReserved(d) PROVE Goal
  <2>1. /\ UNCHANGED <<rows, released, mine, published>>
        /\ outcome' = [outcome EXCEPT ![d] = "StockReserved"]
        /\ RowsOf(Order(d)) # {}
    BY <1>a DEF AlreadyReserved, shelf, history
  <2>2. \A o \in Orders : Accounted(o)' <=> Accounted(o)
    BY <2>1 DEF Accounted, RowsOf
  <2>3. Accounted(Order(d))'
    BY <1>0, <2>1, <2>2 DEF Accounted
  <2>4. ReadsOwn'
    BY <1>0, <2>1 DEF ReadsOwn
  <2>5. QED
    BY <1>0, <2>1, <2>2, <2>3, <2>4
<1>b. ASSUME NEW d \in Deliveries, ReadReservations(d) PROVE Goal
  <2>1. /\ UNCHANGED <<rows, released, outcome, published>>
        /\ mine' = [mine EXCEPT ![d] = RowsOf(Order(d))]
    BY <1>b DEF ReadReservations, shelf, history
  <2>2. \A r \in RowsOf(Order(d)) : Order(r.by) = Order(d)
    BY DEF RowsOf
  <2>3. ReadsOwn'
    BY <1>0, <2>1, <2>2 DEF ReadsOwn
  <2>4. QED
    BY <2>1, <2>3 DEF Accounted, RowsOf
<1>c. ASSUME NEW d \in Deliveries, ReserveShort(d) \/ Aborted(d) PROVE Goal
  <2>1. /\ UNCHANGED <<rows, released, published>>
        /\ mine' = [mine EXCEPT ![d] = {}]
        /\ outcome' = outcome \/ outcome' = [outcome EXCEPT ![d] = "StockUnavailable"]
    BY <1>c DEF ReserveShort, Aborted, EndTransaction, shelf, history
  <2>2. ReadsOwn'
    BY <1>0, <2>1 DEF ReadsOwn
  <2>3. QED
    BY <1>0, <2>1, <2>2 DEF Accounted, RowsOf
<1>d. ASSUME NEW d \in Deliveries, ReserveCommit(d) PROVE Goal
  <2>1. /\ UNCHANGED <<released, published>>
        /\ rows' = rows \cup {[by |-> d, product |-> p] : p \in Ordered(Order(d))}
        /\ mine' = [mine EXCEPT ![d] = {}]
        /\ outcome' = [outcome EXCEPT ![d] = "StockReserved"]
    BY <1>d DEF ReserveCommit, EndTransaction, history
  <2>2. \A o \in Orders : Accounted(o) => Accounted(o)'
    BY <2>1 DEF Accounted, RowsOf
  <2>3. PICK p : p \in Ordered(Order(d))
    BY <1>0, OrderedNonEmpty
  <2>4. Accounted(Order(d))'
    <3>1. [by |-> d, product |-> p] \in rows'
      BY <2>1, <2>3
    <3>2. QED
      BY <3>1 DEF Accounted, RowsOf
  <2>5. ReadsOwn'
    BY <1>0, <2>1 DEF ReadsOwn
  <2>6. QED
    BY <1>0, <2>1, <2>2, <2>4, <2>5
<1>e. ASSUME NEW d \in Deliveries, ReleaseCommit(d) PROVE Goal
  <2>1. /\ UNCHANGED published
        /\ rows' = rows \ mine[d] /\ released' = released \cup {Order(d)}
        /\ mine' = [mine EXCEPT ![d] = {}]
        /\ outcome' = [outcome EXCEPT ![d] = "StockReleased"]
    BY <1>e DEF ReleaseCommit, EndTransaction
  <2>2. ASSUME NEW o \in Orders, Accounted(o) PROVE Accounted(o)'
    <3>1. CASE o = Order(d)
      BY <2>1, <3>1 DEF Accounted
    <3>2. CASE o # Order(d)
      BY <1>0, <2>1, <2>2, <3>2 DEF Accounted, RowsOf, ReadsOwn
    <3>3. QED
      BY <3>1, <3>2
  <2>3. ReadsOwn'
    BY <1>0, <2>1 DEF ReadsOwn
  <2>4. QED
    BY <1>0, <2>1, <2>2, <2>3
<1>f. ASSUME NEW d \in Deliveries, Publish(d) PROVE Goal
  <2>1. /\ UNCHANGED <<rows, released, mine, outcome>>
        /\ published' = published \cup {<<outcome[d], Order(d)>>}
    BY <1>f DEF Publish, shelf, history
  <2>2. QED
    BY <1>0, <2>1 DEF Accounted, RowsOf, ReadsOwn
<1>g. CASE Step
  BY <1>1, <1>a, <1>b, <1>c, <1>d, <1>e, <1>f, <1>g
  DEF Step, Begin, Handle, Fail, DeadlockAbort, NotReserved, NothingToRelease, LockRow, Invalidate,
      CreateProduct, Read, Cache, shelf, task, history
<1>h. CASE UNCHANGED vars
  BY <1>1, <1>h DEF vars, shelf, task, history
<1>i. QED
  BY <1>g, <1>h DEF Next

\* StockReserved is announced only for an order whose stock was reserved, for any
\* number of overlapping, repeated and failing runs (_on_order_created).
THEOREM AnnouncedReserved == Spec => []AnnouncedWasReserved
<1>1. AnnounceInv /\ [Next]_vars => AnnounceInv'
  <2>1. SUFFICES ASSUME AnnounceInv, [Next]_vars PROVE AnnounceInv'
    OBVIOUS
  <2>2. LockInv' /\ ReadsOwn'
    BY <2>1, LockInvStep, AnnounceCases DEF AnnounceInv
  <2>3. \A d \in Deliveries : Order(d) \in Orders
    BY InventoryAssumption DEF Order
  <2>4. OutcomeTrue'
    BY <2>1, <2>3, AnnounceCases DEF AnnounceInv, OutcomeTrue
  <2>5. \A o \in Orders : <<"StockReserved", o>> \in published' => Accounted(o)'
    BY <2>1, <2>3, AnnounceCases DEF AnnounceInv, OutcomeTrue, AnnouncedWasReserved, Accounted
  <2>6. AnnouncedWasReserved'
    BY <2>5 DEF AnnouncedWasReserved, Accounted
  <2>7. QED
    BY <2>2, <2>4, <2>6 DEF AnnounceInv
<1>2. AnnounceInv => AnnouncedWasReserved
  BY DEF AnnounceInv
<1>3. QED
  BY <1>1, <1>2, AnnounceInit, PTL DEF Spec
-----------------------------------------------------------------------------
(* The service implements Reservations.                                    *)

\* The orders with a reservation, and what each order asks for.
Holding == {Order(r.by) : r \in rows}
Wants == [o \in Orders |-> [p \in Products |-> Quantity(o, p)]]

\* An order is reserved in full: a run that made a reservation of it made one of
\* each product that the order names, and of no other.
InFull ==
  \A r \in rows :
    /\ r.product \in Ordered(Order(r.by))
    /\ \A p \in Ordered(Order(r.by)) : [by |-> r.by, product |-> p] \in rows

AtomicInv == SerialInv /\ (~overlapped => InFull)

\* What a step does to the tables.
LEMMA ShelfCases ==
  ASSUME [Next]_vars
  PROVE  \/ UNCHANGED shelf
         \/ \E p \in Products, n \in StockLevels : CreateProduct(p, n)
         \/ \E d \in Deliveries : ReserveCommit(d) \/ ReleaseCommit(d)
<1>1. ASSUME NEW d \in Deliveries, Begin(d) PROVE UNCHANGED shelf
  BY <1>1 DEF Begin, AlreadyReserved, NotReserved, NothingToRelease, ReadReservations
<1>2. ASSUME NEW d \in Deliveries, Handle(d) \/ Fail(d)
      PROVE  UNCHANGED shelf \/ ReserveCommit(d) \/ ReleaseCommit(d)
  BY <1>2 DEF Handle, LockRow, Invalidate, ReserveShort, Publish, DeadlockAbort, Fail, Aborted
<1>3. ASSUME Cache \/ \E r \in Readers, p \in Products : Read(r, p) PROVE UNCHANGED shelf
  BY <1>3 DEF Cache, Read
<1>4. QED
  BY <1>1, <1>2, <1>3 DEF Next, Step, vars

\* A release under its locks deletes all reservations of its order.
LEMMA ReleaseDeletesAll ==
  ASSUME Serial, NEW d \in Deliveries, ReleaseCommit(d)
  PROVE  /\ mine[d] = RowsOf(Order(d))
         /\ rows' = {r \in rows : Order(r.by) # Order(d)}
<1>1. mine[d] = RowsOf(Order(d)) /\ rows' = rows \ mine[d]
  BY DEF ReleaseCommit, Selected, Serial, ReadStillTrue
<1>2. QED
  BY <1>1 DEF RowsOf

\* Commits insert and delete the reservations of an order together.
LEMMA InFullStep ==
  ASSUME Serial, InFull, [Next]_vars
  PROVE  InFull'
<1>1. CASE rows' = rows
  BY <1>1 DEF InFull, Order, Ordered
<1>2. ASSUME NEW d \in Deliveries, ReserveCommit(d) PROVE InFull'
  <2>1. rows' = rows \cup {[by |-> d, product |-> p] : p \in Ordered(Order(d))}
    BY <1>2 DEF ReserveCommit
  <2>2. ASSUME NEW r \in rows', r \notin rows
        PROVE  /\ r.product \in Ordered(Order(r.by))
               /\ \A p \in Ordered(Order(r.by)) : [by |-> r.by, product |-> p] \in rows'
    BY <2>1, <2>2
  <2>3. ASSUME NEW r \in rows
        PROVE  /\ r.product \in Ordered(Order(r.by))
               /\ \A p \in Ordered(Order(r.by)) : [by |-> r.by, product |-> p] \in rows'
    BY <2>1 DEF InFull
  <2>4. QED
    BY <2>2, <2>3 DEF InFull, Order, Ordered
<1>3. ASSUME NEW d \in Deliveries, ReleaseCommit(d) PROVE InFull'
  <2>1. rows' = {r \in rows : Order(r.by) # Order(d)}
    BY <1>3, ReleaseDeletesAll
  <2>2. ASSUME NEW r \in rows'
        PROVE  /\ r.product \in Ordered(Order(r.by))
               /\ \A p \in Ordered(Order(r.by)) : [by |-> r.by, product |-> p] \in rows'
    <3>1. r \in rows /\ Order(r.by) # Order(d)
      BY <2>1
    <3>2. \A p \in Ordered(Order(r.by)) : [by |-> r.by, product |-> p] \in rows
      BY <3>1 DEF InFull
    <3>3. QED
      BY <2>1, <3>1, <3>2 DEF InFull
  <2>3. QED
    BY <2>2 DEF InFull, Order, Ordered
<1>4. QED
  BY <1>1, <1>2, <1>3, ShelfCases DEF shelf, CreateProduct

\* The tables are empty at first, as the promise's are.
LEMMA AtomicInit == Init => AtomicInv /\ Atomic!Init
<1>1. Init => InFull
  BY DEF Init, InFull
<1>2. Init => Atomic!Init
  BY DEF Init, Atomic!Init
<1>3. QED
  BY <1>1, <1>2, SerialInit DEF AtomicInv

\* Every action keeps the invariant.
LEMMA AtomicInvStep == AtomicInv /\ [Next]_vars => AtomicInv'
<1> SUFFICES ASSUME AtomicInv, [Next]_vars PROVE AtomicInv'
  OBVIOUS
<1>1. SerialInv'
  BY SerialInvStep DEF AtomicInv
<1>2. ~overlapped' => ~overlapped
  BY DEF vars, Next, Track
<1>3. ASSUME ~overlapped' PROVE InFull'
  BY <1>2, <1>3, InFullStep DEF AtomicInv, SerialInv
<1>4. QED
  BY <1>1, <1>3 DEF AtomicInv

\* Once runs for one order have overlapped, the tables stay well formed.
LEMMA DisturbStep ==
  ASSUME LockInv, [Next]_vars, overlapped'
  PROVE  Atomic!Disturb
<1>1. LockInv'
  BY LockInvStep
<1>2. overlapped' = TRUE
  BY <1>1 DEF LockInv, TypeOK
<1>3. exists \subseteq exists' /\ exists' \subseteq Products
  BY <1>1, ShelfCases DEF LockInv, TypeOK, shelf, CreateProduct, ReserveCommit, ReleaseCommit
<1>4. stock' \in [Products -> Nat]
  BY <1>1 DEF LockInv, TypeOK, NoNegativeStock
<1>5. {Order(r.by) : r \in rows'} \subseteq Orders
  <2>1. \A r \in rows' : r.by \in Deliveries
    BY <1>1 DEF LockInv, TypeOK, Rows
  <2>2. QED
    BY <2>1, InventoryAssumption DEF Order
<1>6. QED
  BY <1>2, <1>3, <1>4, <1>5 DEF Atomic!Disturb, Order

\* A commit of reserve_for_order reserves its order in full, in one step.
LEMMA ReserveStep ==
  ASSUME Serial, NEW d \in Deliveries, ReserveCommit(d), UNCHANGED overlapped
  PROVE  Atomic!Reserve(Order(d))
<1> DEFINE o == Order(d)
<1>0. LockInv /\ o \in Orders /\ Ordered(o) \subseteq Products
  BY OrderedProducts, InventoryAssumption DEF Serial, Order
<1>1. /\ pc[d] = "lock" /\ Kind[d] = "OrderCreated" /\ held[d] = found[d]
      /\ exists' = exists
      /\ rows' = rows \cup {[by |-> d, product |-> p] : p \in Ordered(o)}
  BY DEF ReserveCommit, Selected
<1>2. o \notin Holding
  BY <1>1 DEF Serial, CheckStillTrue, RowsOf, Holding
<1>3. \A p \in Products : Quantity(o, p) \in Nat /\ (p \in Ordered(o) <=> Quantity(o, p) > 0)
  BY <1>0, QuantityType
<1>4. \A p \in Products : Quantity(o, p) > 0 => p \in exists /\ stock[p] >= Quantity(o, p)
  <2>1. SUFFICES ASSUME NEW p \in Products, p \in Ordered(o)
                 PROVE  p \in exists /\ stock[p] >= Quantity(o, p)
    BY <1>3
  <2>2. p \in found[d] /\ snap[d][p] >= Quantity(o, p)
    BY <2>1 DEF ReserveCommit, Available
  <2>3. p \in exists /\ snap[d][p] = stock[p]
    BY <1>0, <1>1, <2>2 DEF LockInv, OnlyExisting, LockedIsCurrent
  <2>4. QED
    BY <2>2, <2>3
<1>5. stock' = [p \in Products |-> stock[p] - Quantity(o, p)]
  <2>1. stock' = [p \in Products |-> stock'[p]]
    BY DEF ReserveCommit
  <2>2. ASSUME NEW p \in Products PROVE stock'[p] = stock[p] - Quantity(o, p)
    <3>1. stock'[p] = stock[p] + (IF p \in Ordered(o) THEN -Quantity(o, p) ELSE 0)
      BY <1>0, <1>1, CommitAddsDelta DEF Delta
    <3>2. stock[p] \in Int
      BY <1>0 DEF LockInv, TypeOK
    <3>3. QED
      BY <1>3, <3>1, <3>2
  <2>3. QED
    BY <2>1, <2>2
<1>6. {Order(r.by) : r \in rows'} = Holding \cup {o}
  <2>1. PICK p : p \in Ordered(o)
    BY <1>0, OrderedNonEmpty
  <2>2. [by |-> d, product |-> p] \in rows'
    BY <1>1, <2>1
  <2>3. \A r \in rows' : r \in rows \/ r.by = d
    BY <1>1
  <2>4. QED
    BY <1>1, <2>2, <2>3 DEF Holding
<1>7. /\ \A p \in Products : Wants[o][p] = Quantity(o, p)
      /\ [p \in Products |-> stock[p] - Wants[o][p]] = [p \in Products |-> stock[p] - Quantity(o, p)]
  BY <1>0 DEF Wants
<1> HIDE DEF o
<1>8. Atomic!Fits(o)
  BY <1>4, <1>7 DEF Atomic!Fits, Wants
<1>9. Atomic!Reserve(o)
  BY <1>1, <1>2, <1>5, <1>6, <1>7, <1>8 DEF Atomic!Reserve, Wants, Holding, Order
<1>10. QED
  BY <1>9 DEF o

\* A commit of release_for_order gives back what its order holds, in one step.
LEMMA ReleaseStep ==
  ASSUME Serial, InFull, NEW d \in Deliveries, ReleaseCommit(d), UNCHANGED overlapped
  PROVE  Atomic!Release(Order(d)) \/ UNCHANGED Atomic!vars
<1> DEFINE o == Order(d)
           C(p) == {c \in Deliveries : [by |-> c, product |-> p] \in mine[d]}
<1>0. LockInv /\ o \in Orders /\ Ordered(o) \subseteq Products
  BY OrderedProducts, InventoryAssumption DEF Serial, Order
<1>1. /\ mine[d] = RowsOf(o) /\ exists' = exists /\ Kind[d] = "OrderCancelled"
      /\ rows' = {r \in rows : Order(r.by) # o}
  BY ReleaseDeletesAll DEF ReleaseCommit
<1>2. \A p \in Products : /\ Quantity(o, p) \in Nat /\ (p \in Ordered(o) <=> Quantity(o, p) > 0)
                          /\ stock[p] \in Int
                          /\ Returned(d, p) = Cardinality(C(p)) * Quantity(o, p)
                          /\ stock'[p] = stock[p] + Returned(d, p)
  <2>1. \A p \in Products : stock'[p] = stock[p] + Returned(d, p)
    BY <1>0, <1>1, CommitAddsDelta DEF Delta
  <2>2. QED
    BY <1>0, <2>1, QuantityType DEF LockInv, TypeOK, Returned
<1>3. stock' = [p \in Products |-> stock'[p]] /\ stock = [p \in Products |-> stock[p]]
  BY <1>0 DEF ReleaseCommit, LockInv, TypeOK
<1>4. CASE RowsOf(o) = {}
  <2>1. rows' = rows
    BY <1>1, <1>4 DEF RowsOf
  <2>2. ASSUME NEW p \in Products PROVE stock'[p] = stock[p]
    <3>1. Cardinality(C(p)) = 0
      BY <1>1, <1>4, FS_EmptySet
    <3>2. QED
      BY <1>2, <3>1
  <2>3. stock' = stock
    BY <1>3, <2>2
  <2>4. QED
    BY <1>1, <2>1, <2>3 DEF Atomic!vars, Order
<1>5. CASE RowsOf(o) # {}
  <2>1. PICK r : r \in rows /\ Order(r.by) = o
    BY <1>5 DEF RowsOf
  <2>2. ASSUME NEW p \in Products PROVE Returned(d, p) = Quantity(o, p)
    <3>1. CASE p \in Ordered(o)
      <4>1. C(p) = {r.by}
        <5>1. r.by \in Deliveries /\ [by |-> r.by, product |-> p] \in mine[d]
          BY <1>0, <1>1, <2>1, <3>1 DEF InFull, RowsOf, LockInv, TypeOK, Rows
        <5>2. ASSUME NEW c \in C(p) PROVE c = r.by
          <6>1. [by |-> c, product |-> p] \in rows /\ Order(c) = o
            BY <1>1 DEF RowsOf
          <6>2. \A s \in rows : Order(s.by) = Order(r.by) => s.by = r.by
            BY <2>1 DEF Serial, ReservedOnce
          <6>3. QED
            BY <2>1, <6>1, <6>2
        <5>3. QED
          BY <5>1, <5>2
      <4>2. Cardinality(C(p)) = 1
        BY <4>1, FS_Singleton
      <4>3. QED
        BY <1>2, <4>2
    <3>2. CASE p \notin Ordered(o)
      <4>1. Quantity(o, p) = 0
        <5>1. Quantity(o, p) \in Nat /\ ~(Quantity(o, p) > 0)
          BY <1>0, <3>2, QuantityType
        <5>2. \A n \in Nat : ~(n > 0) => n = 0
          OBVIOUS
        <5>3. QED
          BY <5>1, <5>2
      <4>2. ASSUME NEW c \in C(p) PROVE FALSE
        <5>1. [by |-> c, product |-> p] \in rows /\ Order(c) = o
          BY <1>1 DEF RowsOf
        <5>2. QED
          BY <3>2, <5>1 DEF InFull
      <4>3. Cardinality(C(p)) = 0
        BY <4>2, FS_EmptySet
      <4>4. QED
        BY <1>2, <4>1, <4>3
    <3>3. QED
      BY <3>1, <3>2
  <2>3. stock' = [p \in Products |-> stock[p] + Wants[o][p]]
    <3>1. \A p \in Products : stock'[p] = stock[p] + Quantity(o, p)
      BY <1>2, <2>2
    <3>2. \A p \in Products : Wants[o][p] = Quantity(o, p)
      BY <1>0 DEF Wants
    <3>3. QED
      BY <1>3, <3>1, <3>2
  <2>4. o \in Holding /\ {Order(s.by) : s \in rows'} = Holding \ {o}
    BY <1>1, <2>1 DEF Holding
  <2> HIDE DEF o
  <2>5. Atomic!Release(o)
    BY <1>1, <2>3, <2>4 DEF Atomic!Release, Wants, Holding, Order
  <2>6. QED
    BY <2>5 DEF o
<1>6. QED
  BY <1>4, <1>5

\* Every step is a step of the promise or invisible to it.
LEMMA AtomicStep == AtomicInv /\ [Next]_vars => [Atomic!Next]_(Atomic!vars)
<1> SUFFICES ASSUME AtomicInv, [Next]_vars PROVE [Atomic!Next]_(Atomic!vars)
  OBVIOUS
<1>1. CASE overlapped'
  BY <1>1, DisturbStep DEF AtomicInv, SerialInv, Atomic!Next
<1>2. CASE ~overlapped'
  <2>1. overlapped = FALSE /\ UNCHANGED overlapped
    <3>1. overlapped \in BOOLEAN /\ overlapped' \in BOOLEAN
      BY LockInvStep DEF AtomicInv, SerialInv, LockInv, TypeOK
    <3>2. ~overlapped
      BY <1>2 DEF vars, Next, Track
    <3>3. QED
      BY <1>2, <3>1, <3>2
  <2>2. Serial /\ InFull
    BY <2>1 DEF AtomicInv, SerialInv
  <2>3. CASE UNCHANGED shelf
    BY <2>1, <2>3 DEF shelf, Atomic!vars, Order
  <2>4. ASSUME NEW p \in Products, NEW n \in StockLevels, CreateProduct(p, n)
        PROVE  Atomic!Next
    <3>1. Atomic!CreateProduct(p, n)
      BY <2>1, <2>4 DEF CreateProduct, Atomic!CreateProduct, Order
    <3>2. QED
      BY <3>1 DEF Atomic!Next
  <2>5. ASSUME NEW d \in Deliveries, ReserveCommit(d) \/ ReleaseCommit(d)
        PROVE  [Atomic!Next]_(Atomic!vars)
    <3>1. Order(d) \in Orders
      BY InventoryAssumption DEF Order
    <3>2. Atomic!Reserve(Order(d)) \/ Atomic!Release(Order(d)) \/ UNCHANGED Atomic!vars
      BY <2>1, <2>2, <2>5, ReserveStep, ReleaseStep
    <3>3. QED
      BY <3>1, <3>2 DEF Atomic!Next
  <2>6. QED
    BY <2>3, <2>4, <2>5, ShelfCases
<1>3. QED
  BY <1>1, <1>2

\* The service implements Reservations, for any orders, item lists, products and
\* handler runs: as long as runs for one order have not overlapped, an order is
\* reserved once and in full or not at all, and a release gives back exactly what
\* it holds, in one step each (reserve_for_order, release_for_order).
THEOREM ReservationsAtomic == Spec => ImplementsReservations
<1>1. QED
  BY AtomicInit, AtomicInvStep, AtomicStep, PTL DEF Spec, ImplementsReservations, Atomic!Spec
=============================================================================
