--------------------------------- MODULE Totals ---------------------------------
(* The sum of the values of a function into the naturals with a finite     *)
(* domain, as the number of units its arguments own: a form of the sum     *)
(* that needs no recursion.                                                *)
EXTENDS Naturals, FiniteSets

Units(f) == UNION {{x} \X (1..f[x]) : x \in DOMAIN f}

Total(f) == Cardinality(Units(f))
=============================================================================
