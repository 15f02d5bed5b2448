------------------------------- MODULE Totals -------------------------------
(* The total of a function's values, counted unit by unit: unlike a fold, it *)
(* is within reach of the theorems about cardinality.                        *)
EXTENDS Integers, FiniteSets

\* f[x] units for every x.
Units(f) == UNION {{x} \X (1 .. f[x]) : x \in DOMAIN f}

Total(f) == Cardinality(Units(f))
=============================================================================
