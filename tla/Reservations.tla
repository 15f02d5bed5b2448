---------------------------- MODULE Reservations ----------------------------
(***************************************************************************)
(* What the docstrings of reserve_for_order and release_for_order promise: *)
(* an order's stock is reserved atomically, in full or not at all, and     *)
(* once however often it is asked for; a release gives back exactly what   *)
(* the order holds.  The promise assumes that requests for one order do    *)
(* not overlap; after they have, what is left of it is that no product's   *)
(* quantity goes below zero.                                               *)
(***************************************************************************)
EXTENDS Integers

CONSTANTS
  Orders,
  Products,
  Wanted,        \* Wanted[o][p]: units of p that o asks for
  StockLevels    \* quantities a product is created with

VARIABLES
  exists,      \* products created
  available,   \* available[p]: units of p that are not reserved
  reserved,    \* orders whose stock is reserved
  disturbed    \* whether requests for one order have overlapped

vars == <<exists, available, reserved, disturbed>>

Init ==
  /\ exists = {}
  /\ available = [p \in Products |-> 0]
  /\ reserved = {}
  /\ disturbed = FALSE

CreateProduct(p, n) ==
  /\ p \notin exists
  /\ exists' = exists \cup {p}
  /\ available' = [available EXCEPT ![p] = n]
  /\ UNCHANGED <<reserved, disturbed>>

\* Every product that o asks for exists and is not short.
Fits(o) == \A p \in Products : Wanted[o][p] > 0 => p \in exists /\ available[p] >= Wanted[o][p]

Reserve(o) ==
  /\ o \notin reserved /\ Fits(o)
  /\ available' = [p \in Products |-> available[p] - Wanted[o][p]]
  /\ reserved' = reserved \cup {o}
  /\ UNCHANGED <<exists, disturbed>>

Release(o) ==
  /\ o \in reserved
  /\ available' = [p \in Products |-> available[p] + Wanted[o][p]]
  /\ reserved' = reserved \ {o}
  /\ UNCHANGED <<exists, disturbed>>

Disturb ==
  /\ disturbed' = TRUE
  /\ exists \subseteq exists' /\ exists' \subseteq Products
  /\ available' \in [Products -> Nat]
  /\ reserved' \subseteq Orders

Next ==
  \/ \E p \in Products, n \in StockLevels : CreateProduct(p, n)
  \/ \E o \in Orders : Reserve(o) \/ Release(o)
  \/ Disturb

Spec == Init /\ [][Next]_vars
=============================================================================
