---------------------------- MODULE MCInventory ----------------------------
(* Instances of Inventory for TLC.                                         *)
EXTENDS Inventory, TLC

CONSTANTS o1, o2, p1, p2

Item(p, n) == [product |-> p, quantity |-> n]

\* Two orders that want both products; o1 names p1 twice.
CrossedItems == (o1 :> <<Item(p1, 1), Item(p2, 1), Item(p1, 1)>>)
                 @@ (o2 :> <<Item(p2, 1), Item(p1, 1)>>)

\* One unit of one product each.
SingleItems == [o \in Orders |-> <<Item(p1, 1)>>]

\* Deliveries are numbered.  o1 is created, its event delivered twice, and
\* cancelled; o2 is created.
RedeliveredOrder == [d \in Deliveries |-> <<o1, o1, o1, o2>>[d]]
RedeliveredKind ==
  [d \in Deliveries |-> IF d = 3 THEN "OrderCancelled" ELSE "OrderCreated"]
=============================================================================
