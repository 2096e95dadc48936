-------------------------------- MODULE Services --------------------------------
(* Five services that feed, watch and carry the trading and share no       *)
(* state, in one run: the market book, the telemetry gateway, a user's     *)
(* swarm configuration, the price feed and the queue of the operator       *)
(* wallet.  In each behaviour one of them runs and the others stay where   *)
(* they begin.                                                             *)
EXTENDS Integers, FiniteSets

CONSTANTS
    Polls, Close, Resolve, BookTime,              \* see MarketBook
    Sockets, Ips, IpOf, MaxClients, MaxPerIp,     \* see Gateway
    MaxPerWindow, Strikes, Window, Decay, StaleAfter, MaxInvalid, GateTime,
    Updates, Fields, Mode,                        \* see UserSwarm
    Calls, MaxRetries, NoCall                     \* see OperatorTxQueue

(* Every connection has an address, a limit admits one and a window, a     *)
(* decay and an age are spans of time.                                     *)
ASSUME GatewayAssumption ==
    /\ IsFiniteSet(Sockets)
    /\ IpOf \in [Sockets -> Ips]
    /\ {MaxClients, MaxPerIp, MaxPerWindow, Strikes, MaxInvalid} \subseteq Nat \ {0}
    /\ {Window, Decay, StaleAfter, GateTime} \subseteq Nat

(* A market closes, and later its resolution window ends.                  *)
ASSUME MarketAssumption ==
    /\ {Close, Resolve, BookTime} \subseteq Nat
    /\ 0 < Close /\ Close < Resolve

ASSUME UserAssumption ==
    /\ Updates \subseteq Nat \ {0}
    /\ Mode \in Fields

(* A call is tried at least once.                                          *)
ASSUME QueueAssumption ==
    /\ MaxRetries \in Nat \ {0}
    /\ NoCall \notin Calls

VARIABLES
    part,  \* the one that runs
    now,   \* the clock of that one
    spot, chain, indexed, active, archive, isPolling, poll, heard,
    up, conn, silent, clients, seats, bucket, log, limited,
    cache, row, update, tail, loading, looking, events, latest, disturbed,
    running, sock, lost, polling, waiting, armed, exchangeUp, fresh,
    txQueue, current, call, operations, sentTxs

Book == INSTANCE MarketBook WITH MaxTime <- BookTime
Gate == INSTANCE Gateway WITH MaxTime <- GateTime
User == INSTANCE UserSwarm
Feed == INSTANCE PriceFeed
Queue == INSTANCE OperatorTxQueue WITH running <- operations

(* Their variables without the clock.                                      *)
bookRest == <<spot, chain, indexed, active, archive, isPolling, poll, heard>>
gateRest == <<up, conn, silent, clients, seats, bucket, log, limited>>
userVars == <<cache, row, update, tail, loading, looking, events, latest, disturbed>>
feedVars == <<running, sock, lost, polling, waiting, armed, exchangeUp, fresh>>
queueVars == <<txQueue, current, call, operations, sentTxs>>

vars == <<part, now, bookRest, gateRest, userVars, feedVars, queueVars>>

Init ==
    /\ part \in {"book", "gate", "user", "feed", "queue"}
    /\ Book!Init
    /\ part # "book" => spot = "above"
    /\ Gate!Init
    /\ User!Init
    /\ Feed!Init
    /\ part # "feed" => exchangeUp
    /\ Queue!Init

Next ==
    \/ /\ part = "book"
       /\ Book!Next
       /\ UNCHANGED <<part, gateRest, userVars, feedVars, queueVars>>
    \/ /\ part = "gate"
       /\ Gate!Next
       /\ UNCHANGED <<part, bookRest, userVars, feedVars, queueVars>>
    \/ /\ part = "user"
       /\ User!Next
       /\ UNCHANGED <<part, now, bookRest, gateRest, feedVars, queueVars>>
    \/ /\ part = "feed"
       /\ Feed!Next
       /\ UNCHANGED <<part, now, bookRest, gateRest, userVars, queueVars>>
    \/ /\ part = "queue"
       /\ Queue!Next
       /\ UNCHANGED <<part, now, bookRest, gateRest, userVars, feedVars>>

(* Nothing of a part that does not run is enabled, so its fairness asks    *)
(* for nothing.                                                            *)
Spec == Init /\ [][Next]_vars /\ Gate!Fairness /\ Feed!Fairness /\ Queue!Fairness

(* The same, but a handshake with the exchange may hang.                   *)
HangingSpec == Init /\ [][Next]_vars /\ Gate!Fairness /\ Feed!Timers
-----------------------------------------------------------------------------
(* The types of the one that runs.                                         *)
TypeOK ==
    /\ part = "book" => Book!TypeOK
    /\ part = "gate" => Gate!TypeOK
    /\ part = "user" => User!TypeOK
    /\ part = "feed" => Feed!TypeOK
    /\ part = "queue" => Queue!TypeOK

(* Once a poll has brought a market's result home, nothing replaces it.    *)
ChainHasLastWord == Book!ChainHasLastWord

(* A market that resolves keeps its price, but for the one the chain       *)
(* publishes, and does not open again, unless a poll ends that read the    *)
(* clock before the close.                                                 *)
SettlingStays == Book!SettlingStays

(* The seats of an address are its known clients, within the caps.         *)
SeatsCounted == Gate!SeatsCounted

(* A connection is closed for its rate only for sustained abuse.           *)
OnlySustainedAbuse == Gate!OnlySustainedAbuse

(* A peer that is gone without a word loses its seat.                      *)
SilentPeersLeave == Gate!SilentPeersLeave

(* Overlapping updates of a configuration all reach the row.               *)
NoUpdateLost == User!NoUpdateLost

(* Once the exchange is there for good, the feed streams again.            *)
FeedRecovers == Feed!FeedRecovers

(* Nothing runs against the operator wallet but the operation being        *)
(* awaited and those of callers that were told of a time-out.              *)
OnlyTimeOutsLinger == Queue!OnlyTimeOutsLinger

(* Success means that a transaction was sent, and no call sends more often *)
(* than it was tried.                                                      *)
AnswersAreHonest == Queue!AnswersAreHonest

(* Every call of the queue is answered.                                    *)
EveryCallAnswered == Queue!EveryCallAnswered

-----------------------------------------------------------------------------
(* What the documentation says and the code does not do (section 5 of the  *)
(* README).  A resolving market opens again.                               *)
NoReopening == Book!NoReopening

(* The winner of an archived market changes.                               *)
WinnerStays == Book!WinnerStays

(* A connection is closed for windows that are not consecutive.            *)
OnlyConsecutiveWindows == Gate!OnlyConsecutiveWindows

(* A shutdown waits for connections nobody ends.                           *)
ShutdownEnds == Gate!ShutdownEnds

(* An update is lost to the change event of an earlier one.                *)
NoUpdateLostToEvents == User!NoUpdateLostToEvents

(* An update is lost to a reset.                                           *)
NoUpdateLostToResets == User!NoUpdateLostToResets

(* A read that misses the cache leads to the row being overwritten.        *)
ReadsOverwriteNothing == User!ReadsOverwriteNothing

(* A handshake that hangs leaves the service without prices.               *)
PricesFlow == Feed!PricesFlow

(* Two operations of the wallet run at the same time after a time-out.     *)
OperationsAreSerial == Queue!OperationsAreSerial
=============================================================================
