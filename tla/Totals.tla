------------------------------- MODULE Totals -------------------------------
(***************************************************************************)
(* The total of a function with natural values: how many units its domain  *)
(* holds altogether.  Counting the units, rather than folding the function,*)
(* lets the facts about totals be proved from those about cardinalities.   *)
(***************************************************************************)
EXTENDS Integers, FiniteSets

\* One pair <<x, i>> for each of the f[x] units that x holds.
Units(f) == UNION {{x} \X (1..f[x]) : x \in DOMAIN f}

Total(f) == Cardinality(Units(f))
=============================================================================
