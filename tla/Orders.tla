--------------------------------- MODULE Orders ---------------------------------
(* Four parts of orders and payouts that share no state, in one run: the   *)
(* submission of wallet-signed orders, the placement of session orders,    *)
(* the life of a booked order and the books of payouts.  In each behaviour *)
(* one of them runs and the others stay where they begin.                  *)
EXTENDS Integers, FiniteSets

CONSTANTS
    Hashes, Fakes, Spellings, Requests, CacheSize, MaxOthers, MaxRestarts,  \* see OrderReplay
    Execs, Pools, Threshold, BreakerTime, PoolTime, MaxTime,      \* see AgentExecution
    Cancels, MaxSettles, Syncs, Reconciles,                       \* see OrderLife
    Sweeps, Loaders, PageSize, RecordCap, ClaimCap, MaxStamps, MaxReboots  \* see SweepLedger

(* A hash that verification refuses placed no order.                       *)
ASSUME ReplayAssumption ==
    /\ Hashes \cap Fakes = {}
    /\ {CacheSize, MaxOthers, MaxRestarts} \subseteq Nat

(* There is a pool, a breaker opens after a failure at the earliest, and   *)
(* cool-downs are spans of time.                                           *)
ASSUME ExecAssumption ==
    /\ Pools # {}
    /\ Threshold \in Nat \ {0}
    /\ {BreakerTime, PoolTime, MaxTime} \subseteq Nat

(* A page has a row and a list a record at least.                          *)
ASSUME LedgerAssumption ==
    /\ IsFiniteSet(Sweeps) /\ Sweeps \subseteq Int
    /\ {PageSize, RecordCap, ClaimCap} \subseteq Nat \ {0}
    /\ MaxStamps \in Nat

VARIABLES
    part,  \* the one that runs
    inFlightTxHashes, orders, table, request, booked, unguarded, others, restarts,
    now, consecutiveOnChainReverts, circuitBreakerUntil, poolFailureUntil, fauceting, exec,
        chain, book, begun, failedAt,
    order, byAgent, resting, filled, result, resolved, cancel, mining, sync, reconcile,
        credits, settles,
    payout, claimedAt, sweeps, total, loaded, sweepRows, writing, loader, evicted, here, reboots

Replay == INSTANCE OrderReplay
Exec == INSTANCE AgentExecution
Life == INSTANCE OrderLife
Ledger == INSTANCE SweepLedger WITH
    table <- sweepRows, restarts <- reboots, MaxRestarts <- MaxReboots

replayVars == <<inFlightTxHashes, orders, table, request, booked, unguarded, others, restarts>>
execVars == <<now, consecutiveOnChainReverts, circuitBreakerUntil, poolFailureUntil, fauceting,
              exec, chain, book, begun, failedAt>>
lifeVars == <<order, byAgent, resting, filled, result, resolved, cancel, mining, sync,
              reconcile, credits, settles>>
ledgerVars == <<payout, claimedAt, sweeps, total, loaded, sweepRows, writing, loader, evicted,
                here, reboots>>
vars == <<part, replayVars, execVars, lifeVars, ledgerVars>>

Init ==
    /\ part \in {"replay", "exec", "life", "ledger"}
    /\ Replay!Init
    /\ Exec!Init
    /\ part # "exec" => consecutiveOnChainReverts = 0
    /\ Life!Init
    /\ part # "life" => order.status = "FILLED" /\ ~byAgent /\ result = 1
    /\ Ledger!Init

Next ==
    \/ /\ part = "replay"
       /\ Replay!Next
       /\ UNCHANGED <<part, execVars, lifeVars, ledgerVars>>
    \/ /\ part = "exec"
       /\ Exec!Next
       /\ UNCHANGED <<part, replayVars, lifeVars, ledgerVars>>
    \/ /\ part = "life"
       /\ Life!Next
       /\ UNCHANGED <<part, replayVars, execVars, ledgerVars>>
    \/ /\ part = "ledger"
       /\ Ledger!Next
       /\ UNCHANGED <<part, replayVars, execVars, lifeVars>>

Spec == Init /\ [][Next]_vars
-----------------------------------------------------------------------------
(* The types of all four.                                                  *)
TypeOK == Replay!TypeOK /\ Exec!TypeOK /\ Life!TypeOK /\ Ledger!TypeOK

(* A wallet's transaction becomes an order at most once in each spelling   *)
(* of its hash (submitUserOrder), as long as the database kept its row and *)
(* answered for it; its submissions are never on their way together.       *)
BookedOnce == Replay!BookedOnce

(* Only a transaction that has a row stays reserved for good.              *)
LockedOutOnlyIfBooked == Replay!LockedOutOnlyIfBooked

(* The books and the chain agree on every order whose placement by         *)
(* executeAgentDecision was answered.                                      *)
BooksMatchChain == Exec!BooksMatchChain

(* A pool's cool-down and the open breaker hold back every order that      *)
(* began after the failure.                                                *)
FailuresHoldBack == Exec!FailuresHoldBack

(* A custom agent is told the result of its order at most once, however    *)
(* the settlements of an order overlap.                                    *)
AgentCreditedOnce == Life!AgentCreditedOnce

(* No settlement with an old choice of orders undoes a cancellation or a   *)
(* fill.                                                                   *)
FinalStatusStays == Life!FinalStatusStays

(* Whatever pages shift, fail or race with payouts: the total of a loaded  *)
(* user misses none, the list misses no row, and it holds none twice       *)
(* (recordSweep, claimMarketPayout, ensureUserSweepsLoaded,                *)
(* initializeFromDb).                                                      *)
PayoutBooksSound ==
    Ledger!PaymentsSubtracted /\ Ledger!LoadedIsComplete /\ Ledger!HistoryHasNoDuplicates
-----------------------------------------------------------------------------
(* What the documentation says and the code does not do (section 5 of the  *)
(* README).  A transaction becomes one order, however its hash is written. *)
BookedOnceInAnySpelling == Replay!BookedOnceInAnySpelling

(* A placement that timed out does not count against its pool.             *)
TimeOutsSparePool == Exec!TimeOutsSparePool

(* Only orders nobody matched expire.                                      *)
OnlyUnmatchedExpire == Life!OnlyUnmatchedExpire

(* The agent hears of every result.                                        *)
SettledIsCredited == Life!SettledIsCredited

(* The total of a user counts no payout twice.                             *)
NeverDoubleCounted == Ledger!NeverDoubleCounted

(* The total of a user counts every payout of his list.                    *)
ListedIsCounted == Ledger!ListedIsCounted
=============================================================================
