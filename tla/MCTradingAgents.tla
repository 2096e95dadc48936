---------------------------- MODULE MCTradingAgents ----------------------------
(* The agents' cycle treats its markets alike, and the custom agents among *)
(* themselves; nothing chooses one of them, and no other part mentions     *)
(* them.                                                                   *)
EXTENDS TradingAgents, TLC

Symmetry == Permutations(Markets) \cup Permutations(Customs)
=============================================================================
