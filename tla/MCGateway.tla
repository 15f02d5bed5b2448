----------------------------- MODULE MCGateway -----------------------------
(* Instances of Gateway for TLC.                                           *)
EXTENDS Gateway

Ann == "ann@example.com"
Bob == "bob@example.com"

\* Requests are numbered.  1 and 2 register Ann with different roles, 3 registers
\* Bob; 4 logs in as Ann with the password of 2, 5 as Ann with that of 1 but for
\* what comes after its 72nd byte, 6 as Bob.
Emails == [r \in 1 .. 6 |-> <<Ann, Ann, Bob, Ann, Ann, Bob>>[r]]
Passwords == [r \in 1 .. 6 |-> <<"long1", "p", "q", "p", "long2", "q">>[r]]
FirstBytes == [long1 |-> "long", long2 |-> "long", p |-> "p", q |-> "q"]
MixedRoles == [r \in Registrations |-> IF r = 1 THEN "ADMIN" ELSE "CUSTOMER"]
MixedRoutes == [c \in Calls |-> IF c = 1 THEN "create_product" ELSE "create_order"]

\* Call 2 comes with identity headers of its own, call 1 without.
OwnHeaders == [c \in Calls |-> [user |-> IF c = 2 THEN {3} ELSE {},
                                role |-> IF c = 2 THEN {"CUSTOMER"} ELSE {}]]
=============================================================================
