------------------------------- MODULE MCServices -------------------------------
(* Services on a small instance: two polls of a market that closes at 2,   *)
(* two connections of one address, three updates of two fields.            *)
EXTENDS Services

OneAddress == [s \in Sockets |-> 1]
=============================================================================
