----------------------------- MODULE MCSessionSpend -----------------------------
(* SessionSpend on a small instance: three executions of cost 1 or 2, two  *)
(* limit settings (cap 3, lowered to cap 2 and back), a window of two      *)
(* ticks and an expiry inside the run.                                     *)
EXTENDS SessionSpend, TLC

Limits == {[maxTradeSize |-> 2, dailyVolumeCap |-> 3],
           [maxTradeSize |-> 1, dailyVolumeCap |-> 2]}

Symmetry == Permutations(Execs)
=============================================================================
