---------------------------- MODULE MCSpendReconcile ----------------------------
(* SpendReconcile on two executions, one reconciling request and one       *)
(* restart, under one pair of limits: two trades of the largest size fill  *)
(* the cap.                                                                *)
EXTENDS SpendReconcile

TwoUnits == {[maxTradeSize |-> 2, dailyVolumeCap |-> 2]}
OneUnit  == {[maxTradeSize |-> 1, dailyVolumeCap |-> 2]}
=============================================================================
