----------------------------- MODULE SessionAccount -----------------------------
(***************************************************************************)
(* The on-chain half of delegated trading: one user's session account      *)
(* (contracts/DreamPulseSessionAccountV2.sol).  Session keys trade within  *)
(* the policy the owner granted; pools are only ever allowed to draw what  *)
(* the running order costs; the owner alone withdraws.                     *)
(*                                                                         *)
(* A transaction that reverts has no effect and is no step.  executeOrder  *)
(* is split where it calls out: OpenOrder checks, books and approves, the  *)
(* pool acts, CloseOrder takes the approval back.  Nothing else runs in    *)
(* between (nonReentrant, and the chain is serial), except what a pool or  *)
(* the token may do by itself.  The owner is an externally owned account.  *)
(***************************************************************************)
EXTENDS Integers, Sequences, FiniteSets, Totals

CONSTANTS
    Keys,          \* session keys
    Pools,         \* market contracts
    MaxCost,       \* largest tradeCost tried
    Grants,        \* the arguments the owner may pass to authorizeSession
    Unlimited,     \* type(uint256).max
    Day,           \* 1 days
    Fee,           \* WITHDRAWAL_FEE and MIN_WITHDRAWAL_AMOUNT
    FeeRecipient,  \* whether a fee recipient is set
    Funds,         \* what the owner's wallet holds at first
    MaxTime,       \* bound on block.timestamp
    MaxTrades,     \* bound on the trades of a key under one authorization
    None           \* no order is running

ASSUME AccountAssumption ==
    /\ MaxCost \in Nat
    /\ Unlimited \in Nat
    /\ MaxCost <= Unlimited
    /\ Grants \subseteq [maxTradeSize : 0..Unlimited, dailyVolumeCap : 0..Unlimited,
                         durationSec : Nat]
    /\ Day \in Nat \ {0}
    /\ Fee \in Nat \ {0}
    /\ FeeRecipient \in BOOLEAN
    /\ Funds \in Nat
    /\ MaxTime \in Nat
    /\ MaxTrades \in Nat
    /\ None \notin [pool : Pools, cost : Nat]

VARIABLES
    now,       \* block.timestamp
    policy,    \* sessionPolicies
    trust,     \* poolRegistry set?, pools it approves, authorizedPools
    allowance, \* collateral allowance of each pool over the account
    ledger,    \* collateral of the owner's wallet, the account, pools and fees
    call,      \* the executeOrder that is calling out
    log        \* history: each key's trades under its present authorization

accountVars == <<now, policy, trust, allowance, ledger, call, log>>

Policies == [maxTradeSize : 0..Unlimited, dailyVolumeCap : 0..Unlimited, spentToday : Nat,
             lastSpendReset : Nat, expiresAt : Nat, isActive : BOOLEAN]
Trades   == [at : Nat, cost : 0..MaxCost]

TypeOK ==
    /\ now \in Nat
    /\ policy \in [Keys -> Policies]
    /\ trust \in [registry : BOOLEAN, approved : SUBSET Pools, authorized : SUBSET Pools]
    /\ allowance \in [Pools -> Nat]
    /\ ledger \in [wallet : Nat, account : Nat, pools : Nat, fees : Nat]
    /\ call \in [pool : Pools, cost : Nat] \cup {None}
    /\ log \in [Keys -> Seq(Trades)]

-----------------------------------------------------------------------------
Capped(k) == policy[k].dailyVolumeCap < Unlimited

DayOver(k) == now >= policy[k].lastSpendReset + Day

isPoolAuthorized(p) == p \in trust.authorized \/ (trust.registry /\ p \in trust.approved)

(* The spend of k as executeOrder finds it, after the daily reset.         *)
SpentNow(k) == IF DayOver(k) THEN 0 ELSE policy[k].spentToday

(* The checks of executeOrder on the policy.                               *)
Accepts(k, c) ==
    /\ policy[k].isActive
    /\ now <= policy[k].expiresAt
    /\ policy[k].maxTradeSize < Unlimited => c <= policy[k].maxTradeSize
    /\ Capped(k) => SpentNow(k) + c <= policy[k].dailyVolumeCap

(* A mutation: the new day's first trade does not move the reset.          *)
ChargedWithoutReset(k, c) ==
    IF Capped(k)
    THEN [policy[k] EXCEPT !.spentToday = SpentNow(k) + c]
    ELSE policy[k]

(* The policy of k once a trade of cost c is booked: an unlimited key      *)
(* keeps no count.                                                         *)
Charged(k, c) ==
    IF Capped(k)
    THEN [policy[k] EXCEPT !.spentToday = SpentNow(k) + c,
                           !.lastSpendReset = IF DayOver(k) THEN now ELSE @]
    ELSE policy[k]

(* A mutation: the view shows yesterday's spend until the next trade.      *)
StaleView(k) ==
    [remaining |-> IF policy[k].dailyVolumeCap > policy[k].spentToday
                   THEN policy[k].dailyVolumeCap - policy[k].spentToday ELSE 0,
     active    |-> policy[k].isActive /\ now <= policy[k].expiresAt]

(* getSession: [remaining allowance, active], for display and pre-checks.  *)
SessionView(k) ==
    [remaining |-> IF policy[k].dailyVolumeCap > SpentNow(k)
                   THEN policy[k].dailyVolumeCap - SpentNow(k) ELSE 0,
     active    |-> policy[k].isActive /\ now <= policy[k].expiresAt]

NoPolicy == [maxTradeSize |-> 0, dailyVolumeCap |-> 0, spentToday |-> 0,
             lastSpendReset |-> 0, expiresAt |-> 0, isActive |-> FALSE]

Init ==
    /\ now = 0
    /\ policy = [k \in Keys |-> NoPolicy]
    /\ trust \in [registry : BOOLEAN, approved : SUBSET Pools, authorized : {{}}]
    /\ allowance = [p \in Pools |-> 0]
    /\ ledger = [wallet |-> Funds, account |-> 0, pools |-> 0, fees |-> 0]
    /\ call = None
    /\ log = [k \in Keys |-> <<>>]

(* The owner grants a policy; granting again starts a new budget.          *)
authorizeSession(k, g) ==
    /\ call = None
    /\ g.durationSec > 0
    /\ g.maxTradeSize > 0
    /\ g.dailyVolumeCap >= g.maxTradeSize
    /\ policy' = [policy EXCEPT ![k] =
          [maxTradeSize |-> g.maxTradeSize, dailyVolumeCap |-> g.dailyVolumeCap,
           spentToday |-> 0, lastSpendReset |-> now, expiresAt |-> now + g.durationSec,
           isActive |-> TRUE]]
    /\ log' = [log EXCEPT ![k] = <<>>]
    /\ UNCHANGED <<now, trust, allowance, ledger, call>>

revokeSession(k) ==
    /\ call = None
    /\ policy' = [policy EXCEPT ![k].isActive = FALSE]
    /\ UNCHANGED <<now, trust, allowance, ledger, call, log>>

(* setPoolAuthorization and setPoolRegistry by the owner, and the          *)
(* registry's own decisions about pools.                                   *)
ChangeTrust ==
    /\ call = None
    /\ \/ \E p \in Pools : \/ trust' = [trust EXCEPT !.authorized = @ \cup {p}]
                           \/ trust' = [trust EXCEPT !.authorized = @ \ {p}]
                           \/ trust' = [trust EXCEPT !.approved = @ \cup {p}]
                           \/ trust' = [trust EXCEPT !.approved = @ \ {p}]
       \/ \E b \in BOOLEAN : trust' = [trust EXCEPT !.registry = b]
    /\ UNCHANGED <<now, policy, allowance, ledger, call, log>>

(* executeOrder up to the external call: the spend is booked, a shortfall  *)
(* is pulled from the owner's wallet, and the pool is approved for exactly *)
(* the cost (a cancel or a reduce costs nothing and is not approved).      *)
OpenOrder(k, p, c) ==
    LET shortfall == IF ledger.account < c THEN c - ledger.account ELSE 0 IN
    /\ call = None
    /\ Accepts(k, c)
    /\ isPoolAuthorized(p)
    /\ shortfall <= ledger.wallet
    /\ Len(log[k]) < MaxTrades
    /\ policy' = [policy EXCEPT ![k] = Charged(k, c)]
    /\ ledger' = [ledger EXCEPT !.wallet = @ - shortfall, !.account = @ + shortfall]
    /\ allowance' = [allowance EXCEPT ![p] = IF @ < c THEN c ELSE @]
    /\ call' = [pool |-> p, cost |-> c]
    /\ log' = [log EXCEPT ![k] = Append(@, [at |-> now, cost |-> c])]
    /\ UNCHANGED <<now, trust>>

(* transferFrom(account, pool, a): a pool may use whatever allowance it    *)
(* has, whenever it has one.                                               *)
PoolDraws(p, a) ==
    /\ a <= allowance[p]
    /\ a <= ledger.account
    /\ allowance' = [allowance EXCEPT ![p] = @ - a]
    /\ ledger' = [ledger EXCEPT !.account = @ - a, !.pools = @ + a]
    /\ UNCHANGED <<now, policy, trust, call, log>>

(* A mutation: the residual allowance stays.                               *)
CloseKeepsAllowance ==
    /\ call # None
    /\ call' = None
    /\ UNCHANGED <<now, policy, trust, allowance, ledger, log>>

(* The rest of executeOrder: the residual allowance goes.                  *)
CloseOrder ==
    /\ call # None
    /\ allowance' = [allowance EXCEPT ![call.pool] = 0]
    /\ call' = None
    /\ UNCHANGED <<now, policy, trust, ledger, log>>

(* Fills, refunds and redeemed winnings arrive on the account.             *)
Deliver(a) ==
    /\ a <= ledger.pools
    /\ ledger' = [ledger EXCEPT !.account = @ + a, !.pools = @ - a]
    /\ UNCHANGED <<now, policy, trust, allowance, call, log>>

(* A mutation: the fee comes on top of the amount that was checked.        *)
WithdrawPlusFee(a) ==
    /\ call = None
    /\ a >= Fee
    /\ a <= ledger.account
    /\ ledger' = [ledger EXCEPT !.account = @ - a - Fee, !.wallet = @ + a, !.fees = @ + Fee]
    /\ UNCHANGED <<now, policy, trust, allowance, call, log>>

(* withdraw(collateral, a): without a fee recipient the fee stays put.     *)
withdraw(a) ==
    LET fee == IF FeeRecipient THEN Fee ELSE 0 IN
    /\ call = None
    /\ a >= Fee
    /\ fee + (a - Fee) <= ledger.account
    /\ ledger' = [ledger EXCEPT !.account = @ - (fee + (a - Fee)), !.wallet = @ + (a - Fee),
                                !.fees = @ + fee]
    /\ UNCHANGED <<now, policy, trust, allowance, call, log>>

Tick ==
    /\ call = None
    /\ now < MaxTime
    /\ now' = now + 1
    /\ UNCHANGED <<policy, trust, allowance, ledger, call, log>>

Next ==
    \/ \E k \in Keys, g \in Grants : authorizeSession(k, g)
    \/ \E k \in Keys : revokeSession(k)
    \/ ChangeTrust
    \/ \E k \in Keys, p \in Pools, c \in 0..MaxCost : OpenOrder(k, p, c)
    \/ \E p \in Pools, a \in 1..MaxCost : PoolDraws(p, a)
    \/ CloseOrder
    \/ \E a \in 1..MaxCost : Deliver(a)
    \/ \E a \in 1..(Funds + Fee) : withdraw(a)
    \/ Tick

Spec == Init /\ [][Next]_accountVars
-----------------------------------------------------------------------------
(* Properties                                                              *)

(* The trades of a log made at from or later but before to, and their cost. *)
Span(L, from, to) == {j \in DOMAIN L : from <= L[j].at /\ L[j].at < to}

SpanCost(L, from, to) == Total([j \in Span(L, from, to) |-> L[j].cost])

(* What key k has traded in that time under its present grant.             *)
TradedIn(k, from, to) == SpanCost(log[k], from, to)

(* The count the gate relies on is exact and within the cap: no trade of   *)
(* the running day is missing from it, whatever resets, re-grants and      *)
(* revocations came before.                                                *)
BudgetExact ==
    \A k \in Keys : Capped(k) =>
        /\ policy[k].spentToday = TradedIn(k, policy[k].lastSpendReset, now + 1)
        /\ policy[k].spentToday <= policy[k].dailyVolumeCap

(* Whatever 24 hours one looks at, a capped key trades at most twice its   *)
(* cap: the reset at a fixed instant lets two budgets meet, never three.   *)
TwoBudgetsPerDay ==
    \A k \in Keys : Capped(k) =>
        \A t \in 0..now : TradedIn(k, t, t + Day) <= 2 * policy[k].dailyVolumeCap

(* "a 24h rolling dailyVolumeCap" (DreamPulseSessionAccountV2.sol:35).     *)
RollingDailyCap ==
    \A k \in Keys : Capped(k) =>
        \A t \in 0..now : TradedIn(k, t, t + Day) <= policy[k].dailyVolumeCap

(* "no standing approval remains": outside an order no pool can draw, and  *)
(* inside one only its pool, and no more than the order was booked at.     *)
NoStandingAllowance ==
    \A p \in Pools : allowance[p] > 0 => /\ call # None
                                         /\ call.pool = p
                                         /\ allowance[p] <= call.cost

(* getSession, which the backend reads before it trades, promises what     *)
(* executeOrder then accepts, at every instant around resets and expiry.   *)
ViewMatchesGate ==
    \A k \in Keys, c \in 0..MaxCost :
        Accepts(k, c) <=> /\ SessionView(k).active
                          /\ c <= policy[k].maxTradeSize
                          /\ c <= SessionView(k).remaining

(* The owner's collateral shrinks only by the fee of a withdrawal or by a  *)
(* draw of the pool an order is running on, up to that order's cost.       *)
FundsLeaveOnlyByOrders ==
    [][LET own == ledger.wallet + ledger.account IN
       own' < own => \/ ledger'.fees = ledger.fees + (own - own')
                     \/ /\ call # None
                        /\ isPoolAuthorized(call.pool)
                        /\ own - own' <= call.cost]_accountVars
=============================================================================
