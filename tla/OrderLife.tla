------------------------------ MODULE OrderLife ------------------------------
(***************************************************************************)
(* What becomes of a booked order on an on-chain market                    *)
(* (services/order-service.ts): cancelOrderFor, settleOrdersForMarket,     *)
(* syncResolvedOrdersPnLAsync and reconcileSettledOrdersWithOnChain, which *)
(* all change one shared record around awaits of their own.                *)
(*                                                                         *)
(* The pool is external: it fills a resting order whenever it likes, and   *)
(* mines a cancellation some time after it was sent.  The order's row and  *)
(* the refund of orders with an operator's collateral are left out.        *)
(***************************************************************************)
EXTENDS Integers, FiniteSets

CONSTANTS
    Cancels,        \* cancellation requests (bounded)
    MaxSettles,     \* bound on calls of settleOrdersForMarket
    Syncs,          \* runs of syncResolvedOrdersPnLAsync at a time (bounded)
    Reconciles      \* reconciliations (bounded)

VARIABLES
    order,     \* the record: status, isSettled, pnl (0, or the sign of the result)
    byAgent,   \* the order was placed by a custom agent
    resting,   \* chain: the order is, wholly or in part, in the book
    filled,    \* chain: some of it was filled
    result,    \* chain: whether its outcome wins
    resolved,  \* chain: the market is resolved
    cancel,    \* per request: idle, sending or ended
    mining,    \* cancellations sent and not mined
    sync,      \* per run: whether it has the order, and has seen the market resolved
    reconcile, \* per reconciliation: idle, running or ended, and the same
    credits,   \* results reported to the agent by recordTradeSettlement
    settles

lifeVars == <<order, byAgent, resting, filled, result, resolved, cancel, mining, sync,
              reconcile, credits, settles>>

Filled == {"FILLED", "PARTIALLY_FILLED"}
Booked == Filled \cup {"PENDING"}
Idle == [running |-> FALSE, candidate |-> FALSE, seen |-> FALSE]
Waiting == [state |-> "idle", seen |-> FALSE]

TypeOK ==
    /\ order \in [status : Booked \cup {"CANCELLED", "EXPIRED"}, isSettled : BOOLEAN,
                  pnl : -1..1]
    /\ {byAgent, resting, filled, resolved} \subseteq BOOLEAN
    /\ result \in {-1, 1}
    /\ cancel \in [Cancels -> {"idle", "sending", "ended"}]
    /\ mining \subseteq Cancels
    /\ sync \in [Syncs -> [running : BOOLEAN, candidate : BOOLEAN, seen : BOOLEAN]]
    /\ reconcile \in [Reconciles -> [state : {"idle", "running", "ended"}, seen : BOOLEAN]]
    /\ credits \in Nat
    /\ settles \in 0..MaxSettles

-----------------------------------------------------------------------------
(* Orders as they were booked: what rests was filled in part at most.      *)
Init ==
    /\ \E s \in Booked :
          /\ order = [status |-> s, isSettled |-> FALSE, pnl |-> 0]
          /\ filled = (s \in Filled)
          /\ resting = (s # "FILLED")
    /\ byAgent \in BOOLEAN
    /\ result \in {-1, 1}
    /\ resolved = FALSE
    /\ cancel = [c \in Cancels |-> "idle"]
    /\ mining = {}
    /\ sync = [s \in Syncs |-> Idle]
    /\ reconcile = [r \in Reconciles |-> Waiting]
    /\ credits = 0
    /\ settles = 0

-----------------------------------------------------------------------------
(* The chain                                                               *)

PoolFills ==
    /\ resting
    /\ ~resolved
    /\ filled' = TRUE
    /\ resting' \in BOOLEAN
    /\ UNCHANGED <<order, byAgent, result, resolved, cancel, mining, sync, reconcile, credits,
                   settles>>

MarketResolves ==
    /\ ~resolved
    /\ resolved' = TRUE
    /\ UNCHANGED <<order, byAgent, resting, filled, result, cancel, mining, sync, reconcile,
                   credits, settles>>

CancellationMined(c) ==
    /\ c \in mining
    /\ mining' = mining \ {c}
    /\ resting' = FALSE
    /\ UNCHANGED <<order, byAgent, filled, result, resolved, cancel, sync, reconcile, credits,
                   settles>>

-----------------------------------------------------------------------------
(* cancelOrderFor                                                          *)

(* The checks on the status come before the awaits: only an order that is  *)
(* pending or filled in part goes on.                                      *)
CancelOrderFor(c) ==
    /\ cancel[c] = "idle"
    /\ cancel' = [cancel EXCEPT ![c] = IF order.status \in {"PENDING", "PARTIALLY_FILLED"}
                                       THEN "sending" ELSE "ended"]
    /\ UNCHANGED <<order, byAgent, resting, filled, result, resolved, mining, sync, reconcile,
                   credits, settles>>

(* The cancellation is sent, which the pool lets happen while the order    *)
(* rests, and the status is set without a second look.                     *)
CancelSent(c) ==
    /\ cancel[c] = "sending"
    /\ resting
    /\ cancel' = [cancel EXCEPT ![c] = "ended"]
    /\ mining' = mining \cup {c}
    /\ order' = [order EXCEPT !.status = "CANCELLED"]
    /\ UNCHANGED <<byAgent, resting, filled, result, resolved, sync, reconcile, credits, settles>>

(* Neither the pool nor the fallback takes it: the request fails.          *)
CancelFails(c) ==
    /\ cancel[c] = "sending"
    /\ cancel' = [cancel EXCEPT ![c] = "ended"]
    /\ UNCHANGED <<order, byAgent, resting, filled, result, resolved, mining, sync, reconcile,
                   credits, settles>>

-----------------------------------------------------------------------------
(* Settlement                                                              *)

(* A mutation: whatever did not fill expires.                              *)
ExpireOrSettle ==
    IF order.status \in Filled
    THEN /\ order' = [order EXCEPT !.isSettled = TRUE, !.pnl = result]
         /\ credits' = credits + (IF byAgent THEN 1 ELSE 0)
    ELSE /\ order' = [status |-> "EXPIRED", isSettled |-> TRUE, pnl |-> 0]
         /\ UNCHANGED credits

(* An order that did not fill expires, unless it was cancelled; one that   *)
(* did gets its result, which its custom agent is told.                    *)
SettleOrder ==
    IF order.status \in Filled
    THEN /\ order' = [order EXCEPT !.isSettled = TRUE, !.pnl = result]
         /\ credits' = credits + (IF byAgent THEN 1 ELSE 0)
    ELSE /\ order' = [status |-> IF order.status = "CANCELLED" THEN "CANCELLED" ELSE "EXPIRED",
                      isSettled |-> TRUE, pnl |-> 0]
         /\ UNCHANGED credits

(* settleOrdersForMarket runs from its choice of orders to their new state *)
(* without an await.                                                       *)
SettleOrdersForMarket ==
    /\ settles < MaxSettles
    /\ settles' = settles + 1
    /\ resolved
    /\ IF order.status \in Booked /\ ~order.isSettled THEN SettleOrder
       ELSE UNCHANGED <<order, credits>>
    /\ UNCHANGED <<byAgent, resting, filled, result, resolved, cancel, mining, sync, reconcile>>

(* syncResolvedOrdersPnLAsync: one at a time, except that those who forced *)
(* one wait for the one in flight and then all begin.  The candidates are  *)
(* chosen first, the chain is asked next.                                  *)
SyncBegins(s) ==
    /\ ~sync[s].running
    /\ sync' = [sync EXCEPT ![s] = [running |-> TRUE, seen |-> FALSE,
                     candidate |-> ~order.isSettled /\ order.status \in Booked]]
    /\ UNCHANGED <<order, byAgent, resting, filled, result, resolved, cancel, mining, reconcile,
                   credits, settles>>

(* The market's state as the node answered, or no answer in time.          *)
SyncLoads(s) ==
    /\ sync[s].running
    /\ ~sync[s].seen
    /\ resolved
    /\ sync' = [sync EXCEPT ![s].seen = TRUE]
    /\ UNCHANGED <<order, byAgent, resting, filled, result, resolved, cancel, mining, reconcile,
                   credits, settles>>

(* A mutation: candidates are settled without a second look at them.       *)
SyncTrustsSnapshot(s) ==
    /\ sync[s].running
    /\ sync' = [sync EXCEPT ![s] = Idle]
    /\ IF sync[s].candidate /\ sync[s].seen THEN SettleOrder
       ELSE UNCHANGED <<order, credits>>
    /\ UNCHANGED <<byAgent, resting, filled, result, resolved, cancel, mining, reconcile, settles>>

(* The loop over the candidates, without an await: those settled meanwhile *)
(* are passed over.                                                        *)
SyncEnds(s) ==
    /\ sync[s].running
    /\ sync' = [sync EXCEPT ![s] = Idle]
    /\ IF sync[s].candidate /\ sync[s].seen /\ ~order.isSettled THEN SettleOrder
       ELSE UNCHANGED <<order, credits>>
    /\ UNCHANGED <<byAgent, resting, filled, result, resolved, cancel, mining, reconcile, settles>>

(* reconcileSettledOrdersWithOnChain asks the chain about the markets ...  *)
ReconcileBegins(r) ==
    /\ reconcile[r].state = "idle"
    /\ \E seen \in {FALSE, resolved} :
          reconcile' = [reconcile EXCEPT ![r] = [state |-> "running", seen |-> seen]]
    /\ UNCHANGED <<order, byAgent, resting, filled, result, resolved, cancel, mining, sync,
                   credits, settles>>

(* ... and corrects every order, settled or not, to what it says; an agent *)
(* is not told.                                                            *)
ReconcileEnds(r) ==
    /\ reconcile[r].state = "running"
    /\ reconcile' = [reconcile EXCEPT ![r].state = "ended"]
    /\ order' = IF ~reconcile[r].seen THEN order
                ELSE IF order.status \in Filled
                THEN [order EXCEPT !.isSettled = TRUE, !.pnl = result]
                ELSE [status |-> IF order.status = "CANCELLED" THEN "CANCELLED" ELSE "EXPIRED",
                      isSettled |-> TRUE, pnl |-> 0]
    /\ UNCHANGED <<byAgent, resting, filled, result, resolved, cancel, mining, sync, credits,
                   settles>>

Next ==
    \/ PoolFills \/ MarketResolves
    \/ \E c \in Cancels : CancellationMined(c) \/ CancelOrderFor(c) \/ CancelSent(c) \/ CancelFails(c)
    \/ SettleOrdersForMarket
    \/ \E s \in Syncs : SyncBegins(s) \/ SyncLoads(s) \/ SyncEnds(s)
    \/ \E r \in Reconciles : ReconcileBegins(r) \/ ReconcileEnds(r)

Spec == Init /\ [][Next]_lifeVars
-----------------------------------------------------------------------------
(* Properties                                                              *)

(* The result of an order is added to its agent's books at most once,      *)
(* although the event, the periodic sync and the reconciliation may settle *)
(* it in any order and around each other's awaits.                         *)
AgentCreditedOnce == credits =< 1

(* An order the user was told is cancelled stays cancelled, and an order   *)
(* that was booked as filled stays filled: no settlement whose choice of   *)
(* orders is older than the change undoes it.                              *)
FinalStatusStays ==
    [][order.status \in {"CANCELLED", "FILLED"} => order'.status = order.status]_lifeVars

(* "Unmatched resting limit orders at expiration hold collateral, not      *)
(* outcome tokens" (order-service.ts:3185): what expires without a result  *)
(* was never filled.                                                       *)
OnlyUnmatchedExpire == order.status = "EXPIRED" => ~filled

(* "Synchronize realized PnL to originating custom agent"                  *)
(* (order-service.ts:3264): an agent's order that has its result was       *)
(* reported to it.                                                         *)
SettledIsCredited ==
    byAgent /\ order.isSettled /\ order.status \in Filled => credits > 0
=============================================================================
