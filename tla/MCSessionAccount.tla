---------------------------- MODULE MCSessionAccount ----------------------------
(* SessionAccount with a capped and an unlimited grant, or with the capped *)
(* one only; a day of two ticks.                                           *)
EXTENDS SessionAccount

Max == 9

CappedAndOpen == {[maxTradeSize |-> 2, dailyVolumeCap |-> 2, durationSec |-> 3],
                  [maxTradeSize |-> Max, dailyVolumeCap |-> Max, durationSec |-> 2]}

OneCapped == {[maxTradeSize |-> 2, dailyVolumeCap |-> 2, durationSec |-> 4]}
=============================================================================
