---------------------------- MODULE AgentExecution ----------------------------
(***************************************************************************)
(* The on-chain half of executeAgentDecision (services/order-service.ts):  *)
(* preflight, placement and booking of orders that run concurrently, and   *)
(* what failures do to the ones after them: a circuit breaker over all     *)
(* orders and a cool-down per pool.                                        *)
(*                                                                         *)
(* Balances, the chain and the pools are external.  The spend gate before  *)
(* this half is module SessionSpend.                                       *)
(***************************************************************************)
EXTENDS Integers, FiniteSets

CONSTANTS
    Execs,       \* executions (bounded)
    Pools,
    Threshold,   \* CIRCUIT_BREAKER_THRESHOLD
    BreakerTime, \* CIRCUIT_BREAKER_COOLDOWN_MS
    PoolTime,    \* POOL_FAILURE_COOLDOWN_MS
    MaxTime      \* bound on the clock

VARIABLES
    now,
    consecutiveOnChainReverts, circuitBreakerUntil, poolFailureUntil,
    fauceting,   \* faucetingPromise is pending
    exec,        \* per execution: stage, pool, whether the operator trades for itself
    chain,       \* per execution: what became of its transaction
    book,        \* per execution: the status its order was booked with
    begun,       \* history: when each execution began
    failedAt     \* history: per execution, when its placement was counted as a failure

execVars == <<now, consecutiveOnChainReverts, circuitBreakerUntil, poolFailureUntil, fauceting,
              exec, chain, book, begun, failedAt>>
gates == <<consecutiveOnChainReverts, circuitBreakerUntil, poolFailureUntil>>
histories == <<begun, failedAt>>

Never == -1
Matches == {"FILLED", "PARTIALLY_FILLED", "PENDING"}  \* as the chain saw the order
Stages == {"idle", "gas", "funds", "faucet", "funded", "expiry", "placing", "ended",
           "unanswered"}

TypeOK ==
    /\ now \in 0..MaxTime
    /\ consecutiveOnChainReverts \in 0..Threshold + Cardinality(Execs)
    /\ circuitBreakerUntil \in 0..MaxTime + BreakerTime
    /\ poolFailureUntil \in [Pools -> 0..MaxTime + PoolTime]
    /\ fauceting \in BOOLEAN
    /\ exec \in [Execs -> [stage : Stages, pool : Pools, operator : BOOLEAN]]
    /\ chain \in [Execs -> Matches \cup {"none", "sent", "nothing", "reverted"}]
    /\ book \in [Execs -> Matches \cup {"none"}]
    /\ {begun, failedAt} \subseteq [Execs -> Never..MaxTime]

-----------------------------------------------------------------------------
(* Orders before those of the run may have failed.                         *)
Init ==
    /\ now = 0
    /\ consecutiveOnChainReverts \in 0..Threshold - 1
    /\ circuitBreakerUntil = 0
    /\ poolFailureUntil = [p \in Pools |-> 0]
    /\ fauceting = FALSE
    /\ exec = [e \in Execs |-> [stage |-> "idle", pool |-> CHOOSE p \in Pools : TRUE,
                                operator |-> TRUE]]
    /\ chain = [e \in Execs |-> "none"]
    /\ book = [e \in Execs |-> "none"]
    /\ begun = [e \in Execs |-> Never]
    /\ failedAt = [e \in Execs |-> Never]

At(e, stage) == exec[e].stage = stage
Goto(e, stage) == exec' = [exec EXCEPT ![e].stage = stage]

isOnChainCircuitBroken == now < circuitBreakerUntil

(* An order reaches assertFunded, which asks for the operator's gas.       *)
Begin(e) ==
    /\ At(e, "idle")
    /\ \E p \in Pools, operator \in BOOLEAN :
          exec' = [exec EXCEPT ![e] = [stage |-> "gas", pool |-> p, operator |-> operator]]
    /\ begun' = [begun EXCEPT ![e] = now]
    /\ UNCHANGED <<now, gates, fauceting, chain, book, failedAt>>

(* Too little gas or an open breaker ends it; otherwise balances are read. *)
CheckBreaker(e) ==
    /\ At(e, "gas")
    /\ Goto(e, "ended") \/ (~isOnChainCircuitBroken /\ Goto(e, "funds"))
    /\ UNCHANGED <<now, gates, fauceting, chain, book, histories>>

(* assertFunded: short of collateral, a user's order ends, the operator's  *)
(* waits for the faucet, which an open breaker has it skip; a faucet that  *)
(* runs is shared.                                                         *)
CheckFunds(e) ==
    /\ At(e, "funds")
    /\ \/ Goto(e, "funded") /\ UNCHANGED fauceting
       \/ ~exec[e].operator /\ Goto(e, "ended") /\ UNCHANGED fauceting
       \/ /\ exec[e].operator
          /\ IF isOnChainCircuitBroken /\ ~fauceting
             THEN Goto(e, "funded") /\ UNCHANGED fauceting
             ELSE Goto(e, "faucet") /\ fauceting' = TRUE
    /\ UNCHANGED <<now, gates, chain, book, histories>>

(* ensureOperatorCollateral ends for all who wait for it, funded or not;   *)
(* funding forgives the reverts so far.                                    *)
FaucetEnds ==
    /\ fauceting
    /\ fauceting' = FALSE
    /\ consecutiveOnChainReverts' \in {consecutiveOnChainReverts, 0}
    /\ exec' = [e \in Execs |-> IF At(e, "faucet") THEN [exec[e] EXCEPT !.stage = "funded"]
                                ELSE exec[e]]
    /\ UNCHANGED <<now, circuitBreakerUntil, poolFailureUntil, chain, book, histories>>

(* A pool that failed lately is left alone; otherwise its expiry is read.  *)
CheckPool(e) ==
    /\ At(e, "funded")
    /\ Goto(e, IF now < poolFailureUntil[exec[e].pool] THEN "ended" ELSE "expiry")
    /\ UNCHANGED <<now, gates, fauceting, chain, book, histories>>

(* The market is about to close, its state does not allow trading, or a    *)
(* user's session key, clone, pool or balance is not in order.             *)
Decline(e) ==
    /\ At(e, "expiry")
    /\ Goto(e, "ended")
    /\ UNCHANGED <<now, gates, fauceting, chain, book, histories>>

(* The transaction is sent, by the operator or by a session key.           *)
Place(e) ==
    /\ At(e, "expiry")
    /\ Goto(e, "placing")
    /\ chain' = [chain EXCEPT ![e] = "sent"]
    /\ UNCHANGED <<now, gates, fauceting, book, histories>>

(* The chain executes it, whether or not anybody still waits: the order is *)
(* filled, filled in part, rests, is refused silently, or reverts.         *)
Mine(e) ==
    /\ chain[e] = "sent"
    /\ \E result \in Matches \cup {"nothing", "reverted"} : chain' = [chain EXCEPT ![e] = result]
    /\ UNCHANGED <<now, gates, fauceting, exec, book, histories>>

(* A mutation: a failure that trips the breaker does not mark its pool.    *)
RecordTripOnly(e) ==
    /\ consecutiveOnChainReverts' = consecutiveOnChainReverts + 1
    /\ IF consecutiveOnChainReverts + 1 >= Threshold
       THEN circuitBreakerUntil' = now + BreakerTime /\ UNCHANGED poolFailureUntil
       ELSE /\ poolFailureUntil' = [poolFailureUntil EXCEPT ![exec[e].pool] = now + PoolTime]
            /\ UNCHANGED circuitBreakerUntil
    /\ failedAt' = [failedAt EXCEPT ![e] = now]

(* recordOnChainRevert and the pool's cool-down.  The count is not reset   *)
(* when the breaker opens: late failures prolong it.                       *)
RecordFailure(e) ==
    /\ consecutiveOnChainReverts' = consecutiveOnChainReverts + 1
    /\ circuitBreakerUntil' = IF consecutiveOnChainReverts + 1 >= Threshold
                              THEN now + BreakerTime ELSE circuitBreakerUntil
    /\ poolFailureUntil' = [poolFailureUntil EXCEPT ![exec[e].pool] = now + PoolTime]
    /\ failedAt' = [failedAt EXCEPT ![e] = now]

(* The receipt says the order reverted.                                    *)
Reverted(e) ==
    /\ At(e, "placing")
    /\ chain[e] = "reverted"
    /\ Goto(e, "ended")
    /\ RecordFailure(e)
    /\ UNCHANGED <<now, fauceting, chain, book, begun>>

(* Placing it fails otherwise.  Errors about allowance, collateral or gas  *)
(* are passed over, any other counts as a failure; the operator may be     *)
(* told of one when an earlier attempt has sent the transaction after all. *)
PlacementFails(e) ==
    /\ At(e, "placing")
    /\ \/ chain[e] = "sent" /\ chain' = [chain EXCEPT ![e] = "nothing"] /\ Goto(e, "ended")
       \/ exec[e].operator /\ UNCHANGED chain /\ Goto(e, "unanswered")
    /\ RecordFailure(e) \/ UNCHANGED <<gates, failedAt>>
    /\ UNCHANGED <<now, fauceting, book, begun>>

(* No answer in time.  A receipt's time-out is recognised as one; the one  *)
(* of the operator's queue reads "Somnia RPC operation timed out", which   *)
(* is none of the texts looked for, and counts as a failure.               *)
TimesOut(e) ==
    /\ At(e, "placing")
    /\ Goto(e, "unanswered")
    /\ IF exec[e].operator THEN RecordFailure(e) ELSE UNCHANGED <<gates, failedAt>>
    /\ UNCHANGED <<now, fauceting, chain, book, begun>>

(* A mutation: an order with an identity rests, whatever was filled.       *)
RestingFirst(e) == IF chain[e] = "nothing" THEN "none" ELSE "PENDING"

(* The status of the operator's order is read off the fills the receipt    *)
(* lists, then off its identity on the book.                               *)
StatusOf(e) == IF chain[e] = "nothing" THEN "none" ELSE chain[e]

(* Success: the operator's order is booked as the receipt says, or not at  *)
(* all; a user's as filled, for the clone's receipt is not looked into.    *)
(* An order refused silently resets the count or not, with its kind.       *)
Booked(e) ==
    /\ At(e, "placing")
    /\ chain[e] \in Matches \cup {"nothing"}
    /\ Goto(e, "ended")
    /\ book' = [book EXCEPT ![e] = IF exec[e].operator THEN StatusOf(e) ELSE "FILLED"]
    /\ \/ consecutiveOnChainReverts' = 0
       \/ exec[e].operator /\ chain[e] = "nothing" /\ UNCHANGED consecutiveOnChainReverts
    /\ UNCHANGED <<now, circuitBreakerUntil, poolFailureUntil, fauceting, chain, histories>>

Tick ==
    /\ now < MaxTime
    /\ now' = now + 1
    /\ UNCHANGED <<gates, fauceting, exec, chain, book, histories>>

Next ==
    \/ \E e \in Execs : \/ Begin(e) \/ CheckBreaker(e) \/ CheckFunds(e) \/ CheckPool(e)
                        \/ Decline(e) \/ Place(e) \/ Mine(e)
                        \/ Reverted(e) \/ PlacementFails(e) \/ TimesOut(e) \/ Booked(e)
    \/ FaucetEnds
    \/ Tick

Spec == Init /\ [][Next]_execVars
-----------------------------------------------------------------------------
(* Properties                                                              *)

Sends(e) == chain[e] = "none" /\ chain'[e] = "sent"

(* Failures hold back those who come after them, although checks, awaits   *)
(* and the failures of others interleave: an order that began after the    *)
(* last failure on its pool is not sent there before the cool-down is over,*)
(* and one that began after the breaker tripped is not sent while it is    *)
(* open.                                                                   *)
FailuresHoldBack ==
    [][\A e \in Execs :
          Sends(e) =>
            /\ \A f \in Execs :
                  /\ failedAt[f] # Never
                  /\ exec[f].pool = exec[e].pool
                  /\ begun[e] > failedAt[f]
                  => now >= failedAt[f] + PoolTime
            /\ isOnChainCircuitBroken => begun[e] =< circuitBreakerUntil - BreakerTime]_execVars

(* The books and the chain agree on every order whose placement was        *)
(* answered: one that is in the market was booked, what the operator       *)
(* placed for itself is booked as the chain matched it, and nothing that   *)
(* reverted is booked.                                                     *)
BooksMatchChain ==
    \A e \in Execs :
        /\ At(e, "ended") /\ chain[e] \in Matches => book[e] # "none"
        /\ book[e] # "none" => chain[e] # "reverted"
        /\ book[e] # "none" /\ exec[e].operator => book[e] = chain[e]

(* "Receipt timeout ... not marking pool as failed" (order-service.ts:1706)*)
(* : a pool is only left alone after one of its orders was refused.        *)
TimeOutsSparePool ==
    \A p \in Pools :
        now < poolFailureUntil[p] =>
            \E e \in Execs : exec[e].pool = p /\ failedAt[e] # Never
                             /\ chain[e] \in {"reverted", "nothing"}
=============================================================================
