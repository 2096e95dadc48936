----------------------------- MODULE MCPayoutSweep -----------------------------
(* Small instances of PayoutSweep.                                         *)
EXTENDS PayoutSweep

CONSTANTS m1, m2

OneLot  == [m \in Markets |-> 1]
TwoLots == [m \in Markets |-> 2]
NoFloat == {0}
=============================================================================
