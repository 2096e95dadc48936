# DreamPulse in TLA+

A verification development kept beside DreamPulse, a trading terminal for binary
prediction markets on Somnia. Users delegate trading to the backend through
*sessions*: a session key that may trade, within a trade-size limit and a daily cap,
out of an on-chain account that only the user can withdraw from. Autonomous agents, copy
trading and the user's own terminal all place orders through these sessions. What
must not go wrong is money: more spent than was delegated, spending after a
revocation, an operator wallet that pays twice, a payout made twice or never.

The reference is the source; paths below are relative to the repository root.

## 1. Inventory

| Part | State it keeps | Operations | Hard behaviour | What makes it correct |
|---|---|---|---|---|
| **Session spend gate** `backend/src/services/session-service.ts` | per session: `spentToday`, window start, limits, activity, pending reservations (memory only); the same row in Postgres | validate, reserve, consume, update limits, reset, revoke, change-event handler | holds span many awaits; window roll-over, limit changes and stale row images in between; lost writes | concurrent executions never jointly overspend; books miss no order; revocation is final |
| **Order execution** `services/order-service.ts` `executeAgentDecision` | order cache, circuit breaker, cool-downs, market cache | gate, market read, funding check, on-chain placement, settle the hold, persist | time-outs with a transaction under way, partial fills, dozens of early returns | every execution ends in booked spend or a hold that expires |
| **Spend reconciliation** `api/routes.ts` status and portfolio requests, `getDailySpendStats` | none of their own: they overwrite the session's spend | sum orders in cache and table, assign | the sum is old when it is assigned; two requests race | spend converges to the truth and never drops below it |
| **Session registry** `session-service.ts` | session records, index user → session, `sessions` table | register, look up, revoke, expire, reload, change events | three copies of the truth, all requests interleave at awaits; restart | one active session; revocations stick; a nonce is used once |
| **Session account contract** `contracts/DreamPulseSessionAccountV2.sol` | policy per key, allow-lists, collateral, allowances | authorize, revoke, executeOrder, withdraw, redeem, trust settings | boundaries of time; calls out to pools in the middle of an order | exact budget, no standing allowance, funds leave only by orders or to the owner |
| **Operator transaction queue** `config/somnia.ts` `executeOperatorTx` | promise chain, nonce manager | enqueue, race against a timer, retry | promises cannot be cancelled | every call answered; answers mean what they say |
| **User orders and replay guard** `order-service.ts` `submitUserOrder` | in-flight transaction hashes, orders, unique index | submit, verify, record | check, await, act; slot released on every path? | one order per transaction, no slot leaked |
| **Cancellation** `cancelOrderFor` | orders, refunds | cancel on chain, mark, refund | fills racing the cancel | no refund of what was filled |
| **Settlement and sweeps** `services/settlement-service.ts`, `agents/sweeper.ts` | sweep records, totals per user and market, scan caches | scan, batch sweep, claim, hydrate | concurrent sweeps, redeem succeeds and payout fails, reloads | each position paid once; totals count each sweep once |
| **Wallet authentication** `services/auth-service.ts`, `middleware/wallet-auth.ts` | nonce cache | verify, remember, evict | check before an await, remember after; eviction | a nonce is accepted once while it is valid |
| **Swarm runner and agents** `agents/*` | last-trade times, evaluation flag | start, stop, evaluate | stop and start while a cycle runs | one cycle at a time |
| **Custom agents** `services/custom-agent-service.ts` | allowance, trade counts, P&L | fill, settlement, edit, deploy | read, await, write back | no update lost; allowance not exceeded |
| **Social copy** `services/social-copy-service.ts` | caps and spend per copier | mirror an order | cap checked before, counted after execution | cap per copier |
| **User swarm configuration** `services/user-swarm-service.ts` | cached configuration, its row, a chain of promises per user | update, reset, read, load, change events | whole entries written after awaits; rows read early and cached late | no update is lost to another |
| **WebSocket gateway** `websocket/*` | clients, connections per address, rate buckets | connect, message, heartbeat, clean up, close | four handlers clean up one socket; silent peers; limits by time | seats equal known clients; silent peers leave; only sustained abuse is closed |
| **Price feed** `services/price-feed-service.ts` | prices, socket, reconnect timer, polling | connect, reconnect, fail over | connections that fail, are refused or are lost without an event | the stream comes back whenever the exchange does |
| **Market service** `services/market-service.ts` | active book, archive of past markets | poll the indexer, close and finalise by the clock | a poll spans awaits while a 250 ms timer works on the same entry | the chain's result stays; a closed market keeps its price |
| **LLM client** `llm/*` | key index, initialisation | rotate, call | initialisation race | a working key is found |
| **Database client** `config/supabase.ts`, `supabase/migrations` | breaker | query | fails closed and open | (appears as outcomes of writes) |
| **Process life cycle** `utils/process-safety.ts`, `index.ts` | – | start, shut down | in-flight work, connections that stay | the shutdown comes to its end |
| Rate limiter, analytics, leaderboard, anomaly, export, backtest, pricing, frontend, first contract | caches, aggregates | reads | – | not modelled, see section 8 |

Interaction: a request or a swarm cycle calls `executeAgentDecision`, which takes a hold in
the *gate*, signs with the session's key an `executeOrder` of the *contract*, and settles
the hold. The frontend polls the *reconciliation*. Revocations reach the
backend by a request or as a *change event* of the sessions table. Payouts and
operator writes go through the *queue*. Everything runs on one Node.js event loop: code
between two awaits is atomic, and everything else interleaves.

## 2. Modules

| Module | Models | Extends or instantiates |
|---|---|---|
| `Totals` | the sum of a function, without recursion | |
| `SessionSpend` | the spend gate of one session and the executions through it | `Totals`, `TradeBudget` |
| `TradeBudget` | what the gate promises: the abstract specification `SessionSpend` implements | |
| `SpendReconcile` | the gate with reconciling requests, the orders table and restarts | `SessionSpend` |
| `SessionRegistry` | which session of a user is active: memory, index, table | |
| `SessionAccount` | the account contract | `Totals` |
| `OperatorTxQueue` | the queue of the operator wallet | |
| `OrderReplay` | wallet-signed orders, submitted by transaction hash and booked once | |
| `AgentExecution` | placement of session orders: preflight, breaker, cool-downs, time-outs, booking | |
| `OrderLife` | a booked order: fills, cancellations, settlement, synchronisation, reconciliation | |
| `SweepLedger` | the books of payouts and their page-by-page hydration | |
| `PayoutSweep` | redeeming and paying winnings: scans, batch sweeps, claims | `Totals` |
| `AuthNonce` | the replay guard of signed log-ins | |
| `SwarmCycle` | the evaluation cycle of the agents | |
| `CustomAgentBooks` | spend and result of one custom agent: memory and row | |
| `SocialCopy` | one follower copying one forecaster under a daily cap | |
| `MarketBook` | one market between the active book and the archive | |
| `Gateway` | seats, heartbeat and limits of the telemetry gateway, and the end of the process | |
| `UserSwarm` | the swarm configuration of one user: cache, row, serialised updates | |
| `PriceFeed` | the price stream, its watchdog, reconnects and the polling | |
| `Orders` | `OrderReplay`, `AgentExecution`, `OrderLife`, `SweepLedger` side by side | those four |
| `TradingAgents` | `AuthNonce`, `SwarmCycle`, `CustomAgentBooks`, `SocialCopy` side by side | those four |
| `Services` | `MarketBook`, `Gateway`, `UserSwarm`, `PriceFeed`, `OperatorTxQueue` side by side | those five |
| `MCSessionSpend`, `MCSpendReconcile`, `MCSessionAccount`, `MCPayoutSweep`, `MCServices`, `MCTradingAgents` | constants of the small instances, and a symmetry in the last | the module they name |
| `TotalsTheorems` | the laws of sums | `Totals` |
| `SessionSpendProofs` | theorems about `SessionSpend` and `SpendReconcile` | `SpendReconcile`, `TotalsTheorems` |
| `SessionAccountProofs`, `SessionRegistryProofs`, `PayoutSweepProofs` | theorems | the module they name |
| `OrdersProofs`, `TradingAgentsProofs`, `ServicesProofs` | theorems about the parts | the module they name |

`Orders`, `TradingAgents` and `Services` put modules that share no state beside each other: a variable
`part` says which of them runs, the others stay in one initial state. The states of such a run
are the sum, not the product, of the parts', and each property and theorem is about one part.
The assumptions about the parts' constants (`ReplayAssumption`, `ExecAssumption`, `AuthAssumption`, ...)
stand in these modules, which declare the constants.

In each module the definitions commented "A mutation" are plausible wrong versions of a
definition, placed before it; they are not part of any specification. They serve to confirm
that each property fails when the code is broken in that way.

### SessionSpend

| Model | Code |
|---|---|
| `session` | `SessionRecord.spentToday`, `lastSpendResetTimestamp`, `isActive` |
| `limits` | `maxTradeSize`, `dailyVolumeCap` (never taken from change events) |
| `hold[e]` | the entry of `pendingReservations` made by execution `e` |
| `exec[e]` | where `executeAgentDecision` is: before the gate, between hold and fill, booked, dead |
| `order[e]` | the order it put into the cache |
| `row`, `wire` | the row in Postgres, row images on the realtime channel |
| `booked`, `peak` | history: orders since the last reset, the largest cap granted |

The gate is synchronous, so `Reserve` is one action. It does what the code does on every
check, granted or refused: roll the window when 24 hours have passed, prune expired holds.
`Fill` books the actual cost and drops the hold without a second look at activity or
window. `Abandon` is every early return behind the gate: no release, the hold ages out.
`Persist` is a Supabase write: it lands and is echoed, or is lost; the code never finds
out. Messages on the channel are a set, so they are late and reordered at will.

Amounts are units, times are ticks. `MaxLatency =< ReservationTtl` is the comment at
session-service.ts:1165 ("TTL comfortably exceeds worst-case on-chain placement latency"),
made an assumption: without it a late fill comes on top of what others were granted.

### SpendReconcile

`BeginPoll`, `QueryOrders`, `ApplySpend` are the three parts of a status or portfolio request
between its awaits. `PersistOrder` is the insert at the end of an execution. `Restart` loses
holds, requests, unsaved orders and running executions, and reloads the row as
`loadActiveSessionsFromDb` does. A failed query leaves the sum with the cached orders.

### SessionRegistry

One user. `mem`, `index`, `row` are the three copies; `reg`, `lookup`, `revoke`, `boot` say
where each request, and the reload after a start, is between its awaits. A registration is
cut at its awaits: nonce in memory, nonce in table, supersede in memory, supersede in table, install,
insert. `RegisterReject` is the throw on a private key that does not fit, which comes after the
supersession; `over` keeps which session was superseded. `RegisterInstall` also takes registrations whose
`expiresAt` has passed: their record is inactive and the index is cleared. The unique index on
(user, nonce) is in `RegisterInsert`. Ids are in the order of registration only through `table`,
which the newest-first queries use.

### SessionAccount

A reverting transaction is no step. `executeOrder` is cut where it calls the pool:
`OpenOrder`, the pool's `PoolDraws` and `Deliver`, `CloseOrder`; `nonReentrant` keeps every
other guarded entry point out, and the owner is a plain account that cannot act within
the call. A pool may draw whenever it has an allowance, whether or not an order is running, so
that `NoStandingAllowance` is a claim about the code and not about pools.
`ledger` holds the collateral of wallet, account, pools and fee recipient.

### OperatorTxQueue

`running` (`operations` in `Services`, where `running` belongs to the price feed) are operations
that have been called and have not settled. `TimeOut` answers the
caller and leaves the operation where it is; `Send` may therefore come after it.
`RejectNonce` may hit an operation that was sent ("already known").

### TradeBudget

Three variables: what is committed, the cap, whether the session is open. `Commit` needs an
open session and stays within the cap; `Release` lowers the commitment and may close;
`SetCap` needs an open session. `SessionSpend` maps to it with
`committed <- Committed` (orders of the window and executions in flight), `cap <-
limits.dailyVolumeCap`, `open <- session.isActive`. Holds, rows, messages and roll-overs are gone: the abstract specification
says what they are for.

### OrderReplay

| Model | Code |
|---|---|
| `inFlightTxHashes`, `orders`, `table` | the set, the bounded cache, the `orders` table with its unique index |
| a pair of `TxHashes` | a hash as it is written: the hash, which `toLowerCase` gives, and its spelling |
| `Submit` | `submitUserOrder` up to its first await: refuse, or reserve the hash; set and cache are searched for the lower-cased hash |
| `CheckDatabase` | the query for an earlier row, by the hash as written; it answers, or fails |
| `Refuse`, `Book`, `Persist` | verification fails; the order enters the cache; its row is written and the slot released |
| `OtherOrder` | any other order entering the cache, which may push a submitted one out |
| `Restart` | the process dies; the cache is reloaded from the table |

`unguarded` collects hashes whose database check failed or whose row was lost: the code goes
on without its last guard there, and says so in its log. Query, insert and unique index compare hashes as
they are written (order-service.ts:1974, 2080; migration 022). So `BookedOnce` is about each
spelling, and says that submissions in different spellings are not under way together; one after the other they are
booked twice once the cache has forgotten the first (finding 26).

### AgentExecution

The part of `executeAgentDecision` behind the gate. An execution is cut at its awaits: gas,
balances, the operator's faucet (one call shared by all who wait), the market, the placement. `Mine` is the chain; it may
mine a transaction after the caller gave up. `RecordFailure` is `recordOnChainRevert` with the
pool's cool-down. `StatusOf` maps what the receipt says to the booked status, which differs
between the operator's own wallet and an account clone. A time-out ends an execution
`unanswered`: nothing is booked, and the pool is not blamed.

### OrderLife

One record changed by four parties: `cancelOrderFor` (several requests at once, each with its own
transaction), `settleOrdersForMarket` (synchronous), `syncResolvedOrdersPnLAsync` and
`reconcileSettledOrdersWithOnChain`, which read, await and write. Several synchronisations
run at once: market-service.ts:679 forces them, forced ones wait for the one that
runs, and then start together. The pool fills, the oracle resolves and the chain
mines when they like.

### SweepLedger and PayoutSweep

`SweepLedger`: list, total and table of the payouts of one user and market. `UserPage` is a page of
`ensureUserSweepsLoaded` (by offset), `InitializePage` one of `initializeFromDb` (by cursor).
`PayoutSweep`: one trader, several markets. `tokens` says who holds the winning tokens;
`Others` are other traders' tokens in the operator's pooled balance. `Sent` gives the
ways a transaction may end: done, failed, and, if `Faults` allows it, `late` (reported as timed
out, and mined) and `void` (hash returned, then dropped). Reads that fail count as
zero, as in the code.

### AuthNonce, SwarmCycle, CustomAgentBooks, SocialCopy

`AuthNonce`: `CheckNonce` before the await of the verification, `Accept` or `Reject` after it;
`nonceCache` is the code's `Map`: it
gives each remembered message the number of its insertion, and `Evict`, the clean-up of a full cache, drops what
has expired and then the oldest. `SwarmCycle`: `Begin...` takes the notes a part of the cycle
makes before its awaits, `Evaluate...` decides one pair of agent and market, `OrderEnds` comes back with
or without an order; markets close and the user trades between them. The custom agents of the user take their turns
one after the other (`BeginCustomAgent`). Each finds the user's positions as they are at its turn: what the runner
calls an index of the positions (`agents/swarm-runner.ts:802`) is the map `getUserPositionsMap` returns
(`services/order-service.ts:850`), no copy of it, which `indexUserOrder` (811) goes on to update with each order, and line
864 asks it anew for each agent. Were it a copy, two custom agents could open one market: this is the mutation
`BeginWithCopy`, which TLC refutes. `CustomAgentBooks`: look-ups
replace the copy in memory by a row read earlier, edits write all columns, fills and settlements
write their own. `SocialCopy`: `heap` keeps relation objects, because a dispatch counts
on the object it holds, which may no longer be the one in the map.

### MarketBook

| Model | Code |
|---|---|
| `active`, `archive` | the market's entry in `markets` and in `historicalMarkets` |
| `BeginPoll`, `ListingsArrive`, then `UpsertListed`, `KeepUnlisted` or `PollInVain` | `pollOnChainMarkets` between its awaits; `isPolling` keeps polls apart |
| `poll[p].at` | the `now` taken before the order books are awaited |
| `Refresh` | `refreshMarketTimersAndFairValues`, four times a second |
| `chain`, `indexed`, `spot` | the market on chain, what the indexer knows of it, the ticker |

A tick is half a second, because the code rounds the time left down to whole seconds: the last half
second counts as closed. A listing may leave the market out, or be empty after the time-out. A final
listing carries its winner; a settling or final one may carry the chain's settlement price, which comes before the
recorded one (market-service.ts:433). Voided markets are filtered out by the code and left out here.

### Gateway

`Connect`, `PeerLeaves`, `CloseEnds`, `ErrorEvent`, `Pong` and the `Message...` actions are the
handlers of one socket, `Heartbeat` and `DropBucket` the two intervals, `ShutDown` is `close()`.
`Cleanup` is `cleanupClient`, which four of them call. A socket that is being closed still delivers what is buffered, as
in the library. `log` is history: the windows of an address and whether each was over the limit.
`Exit` is the hook that runs after the gateway's (index.ts:161): the HTTP server's close, which
calls back when every connection has ended.

### UserSwarm

A configuration is a function from fields to the number of the update its value comes from, which is
enough to see whose value was lost. `Ask`, `Execute`, `Written` are an upsert before, between and after its awaits; `tail`
is the promise in `userLocks`. `Reset` is `resetToCopy`, which does not join the chain.
`PutIntoCache` is what the load, a look-up and a change event do with a row. `disturbed`
collects, per cause, what came between the updates: `NoUpdateLost` says that it takes one of these.

### PriceFeed

`waiting` is `reconnectTimeout`, `armed` the timer behind it: two variables, because a timer that has
fired and is still remembered would block every later reconnect. `lost` is an open stream
whose peer is gone; only the watchdog notices. `exchangeUp` is the environment.

## 3. Runs

| Run | Instance | Checks | Shows |
|---|---|---|---|
| `session_spend` | 3 executions of cost 1–2, caps 3 and 2, a window that is over after 2 ticks, TTL = latency = 1, expiry at 3 | `NoJointOverspend`, `HoldSurvivesFlight`, `BooksTruthful`, `ImplementsTradeBudget` | the gate is correct on its own, and refines `TradeBudget` |
| `spend_reconcile` | 2 executions of cost 1, 1 request, 1 restart | `ChangeEventsOnlyTighten`, `SpendKeepsBeingCorrected` | what distorts the spend is repaired |
| `spend_reconcile_overspend` | cost 1–2, cap 2, no restart | `NoJointOverspend` | **violated**: finding 1 |
| `session_account` | 1 key, 1 pool, capped and unlimited grant, day of 2 ticks, 3 trades, 4 ticks | `BudgetExact`, `TwoBudgetsPerDay`, `NoStandingAllowance`, `ViewMatchesGate`, `FundsLeaveOnlyByOrders` | the contract keeps its books and its funds |
| `session_account_rolling` | the same instance | `RollingDailyCap` | **violated**: finding 2 |
| `session_registry` | 2 registrations, 1 look-up, 3 requests at a time, lost writes, 1 restart | `NothingRevives` | what survives full concurrency and failure: a revocation in the table is final, and only the table brings back others |
| `session_registry_serial` | 3 registrations, one request at a time, no lost writes | `RevocationSticks`, `NonceUsedOnce`, `OneIndexedSession` | what holds when requests do not overlap, rejected and late registrations included, change events still arriving late |
| `payout_sweep` | 2 markets, tokens with clone or operator, one sweep at a time, late transactions | `ConfirmedIsPaid`, `NeverOutOfPocket`, `EveryWinIsSettled` | nothing is recorded that was not received; the operator pays what it redeemed; every win of a trader who is swept again and again is settled |
| `payout_sweep_claims` | 1 market, 2 claims and 1 sweep at a time, tokens with user or operator, nobody else's tokens | `NeverPaidTwice` | overlapping claims and sweeps do not pay twice, as long as the operator holds nobody else's tokens |
| `orders` | *replay*: 2 hashes and a fake in 2 spellings each, 3 submissions, a cache of 1, 1 restart; *execution*: 2 executions, 2 pools, breaker after 2 failures, 2 ticks; *life*: 2 cancellations, 2 settlements, 2 synchronisations, 2 reconciliations; *ledger*: 2 payouts, 3 hydrations, pages of 1, list bound 2 (claims: 1), 1 restart | `BookedOnce`, `LockedOutOnlyIfBooked`; `BooksMatchChain`, `FailuresHoldBack`; `AgentCreditedOnce`, `FinalStatusStays`; `PayoutBooksSound` | one order per transaction and spelling; books that agree with the chain; one credit per result, final statuses that stay; a loaded user's payouts are all counted and listed once |
| `agents` | *nonces*: 3 messages, 4 requests, a cache of 1, 1 restart; *cycle*: 2 agents and 2 custom ones, 2 markets, 2 ticks, symmetry of markets and custom agents; *books*: 2 calls, 2 fills, 1 settlement; *copies*: 2 dispatches, caps 2 and 3, 3 objects | `NoncesHold`; `OnePositionEach`; `ExactUnlessOverlapped`; `CapUnlessDisturbed` | what each service keeps, and under which overlaps only |
| `services` | *book*: 2 polls, close at tick 2, resolution at 3, 4 ticks; *gate*: 2 sockets of 1 address with 1 seat, 1 message per window, 2 strikes, 3 ticks; *user*: 3 updates of 2 fields; *feed*: unbounded; *queue*: 3 calls, 2 attempts | `ChainHasLastWord`, `SettlingStays`; `SeatsCounted`, `OnlySustainedAbuse`, `SilentPeersLeave`; `NoUpdateLost`; `FeedRecovers`; `OnlyTimeOutsLinger`, `AnswersAreHonest`, `EveryCallAnswered` | results and prices stay; seats and violations are counted right and silent peers leave; serialised updates lose nothing by themselves; the stream always comes back; no call of the wallet's queue is starved or lied to |

No run lists a type invariant: every one that a theorem needs is a conjunct of its inductive
invariant (section 6) and proved with it.

Why the bounds are enough. Overspending takes two executions, and a third lets one fill
while one is in flight and one is being checked; costs 1 and 2 against caps 3 and 2 make
each outcome of the check occur. Windows, TTLs and days of one or two ticks put every
boundary (just before, at, just after) inside a run of three or four ticks. A lost
update takes two requests, and the three registrations of the serial run allow a session
to be superseded twice. One restart is enough for state to be lost once and reloaded while
requests run. `SpendReconcile` has a window of one tick and unit costs to leave room for the
restart and for the liveness check. In the contract keys only share the account's
collateral, which no budget property mentions, so one key suffices; a single pool can
draw at any time and stands for the others except in the allow-list, which is
independent per pool. What the small instances could miss there, the theorems of section 6 settle
for every value of the constants.

Caches of size 1 put eviction next to every other step: a second order, nonce or page is enough
to push the first out. Double payment, double booking and double credit take two actors, and three
submissions let two meet and the third come after an eviction or a restart. A breaker of two failures trips
with two executions, or with one when the run starts with a failure on record. Two
markets make a batch whose split pays one and skips the other. In `services` two polls are enough, because a third could only wait for the same flag; a window of
no length, a decay of two ticks and a clock of three let violations fall into one window, within the decay and
beyond it; three updates make a chain in which the last waits for one that waits; `StaleAfter` equals `Decay` there
(60 s and 30 s in the code), so that buckets do get dropped within the clock. Markets and
custom agents are interchangeable in `agents`: no definition names one, and no property of its parts is about
liveness, so that the symmetry is sound. The parts of `orders`, `agents`
and `services` are exhausted, to about two million states at most; their
instances were chosen so that dropping a guard (the mutations) is found.

Deadlock is checked for the contract, where withdrawals, grants and revocations
remain possible for ever. It is off elsewhere: when all executions, requests or calls of the
instance have ended, nothing more happens.

### Further configurations

These files are not among the runs above. They check properties that a comment
or document promises and the code does not have; TLC answers with a counterexample. They are kept
to reproduce the findings of section 5 (`tlc -config X.cfg M`). TLC stops at the first violation, so a
file that lists several properties is used with one of them at a time.

| Configuration | Module | Property | Finding |
|---|---|---|---|
| `SessionRegistryPairs` | `SessionRegistry` | `RevocationSticks`, `OneActiveSession`, `NonceUsedOnce` | 3, 4, 5 |
| `PayoutSweepClaim` | `MCPayoutSweep` | `NeverOutOfPocket` | 9 |
| `PayoutSweepWallet`, `PayoutSweepRace` | `MCPayoutSweep` | `NeverPaidTwice` | 11, 12 |
| `PayoutSweepFindings` | `MCPayoutSweep` | `PreservedIsPaid`, `ConfirmedIsPaid` | 10, 13 |

The other findings need no instance of their own. The property stands at the end of the module, and
takes the place of the properties in the configuration of its run (modules `MCServices`, `Orders`, `MCTradingAgents`, `SessionRegistry`), as an
`INVARIANT`; `PersonalLimitHolds`, `WinnerStays`, `NoReopening`, `ShutdownEnds` and `PricesFlow` as a `PROPERTY`:

| Configuration | Property | Finding |
|---|---|---|
| `Services` | `OperationsAreSerial` | 6 |
| `Orders` | `NeverDoubleCounted`, `ListedIsCounted` | 7, 8 |
| `Orders` | `OnlyUnmatchedExpire`, `SettledIsCredited` | 14, 15 |
| `Orders` | `TimeOutsSparePool` | 16 |
| `Orders` | `BookedOnceInAnySpelling` | 26 |
| `SessionRegistrySerial` | `FailedRegistrationIsHarmless` | 25 |
| `Agents` | `PersonalLimitHolds`, `NoFillForgotten`, `CapHolds` | 17, 18, 19 |
| `Services` | `WinnerStays`, `NoReopening`, `OnlyConsecutiveWindows`, `ShutdownEnds`, `NoUpdateLostToEvents`, `NoUpdateLostToResets`, `ReadsOverwriteNothing` | 20–23 |
| `Services`, with `SPECIFICATION HangingSpec` | `PricesFlow` | 24 |

## 4. Fairness

- `SpendReconcile`: weak fairness of each request's steps. Clients poll status and portfolio
  pages (`frontend/src/lib/polling.ts`), and a request that has begun runs to its end. Nothing
  else is fair: executions may hang, writes may be lost, messages may never arrive.
- `OperatorTxQueue` (run `services`): weak fairness of `Start`, `TimeOut` and `Retry`, which are the microtask
  queue and two timers. Operations owe nothing: `EveryCallAnswered` holds even if
  the network never answers.
- `PayoutSweep` (`FairSpec`, run `payout_sweep`): weak fairness of the indexer's answer, of the end of
  a scan and of the steps of a sweep that has begun: queries have time-outs that end them one way or the
  other, and a sweep runs to its end. Beginning a sweep is not fair. The daemon need not get to a trader: it returns
  on the open breaker (`agents/swarm-runner.ts:211`) or for want of gas (215-220), its sweeper may be switched off, it takes 15
  traders at a time (509) and those above a minimum (519). So `EveryWinIsSettled` is conditional: if the trader is
  swept again and again, by the daemon or by himself (`SweptAgainAndAgain`), his wins are all settled for good. Nothing
  requires a transaction to succeed or a read to tell the truth: the property is about orders leaving the queue, not about payment.
- `Gateway` (run `services`): weak fairness of the heartbeat, an interval of the process; of the end of some close,
  because the `ws` library destroys a socket whose close is not answered within 30 s; and of the
  exit, which the shutdown sequence awaits. Nothing requires peers to answer, leave or speak.
- `PriceFeed` (run `services`): weak fairness of the end of the first snapshot (aborted after 4 s), the watchdog, the reconnect
  timer, the close event and messages of a live stream; strong fairness of the polling, whose
  interval (3 s) fits into every wait for a reconnect (4 s). `Fairness` adds the environment's part: a handshake with an
  exchange that is there completes. `HangingSpec` leaves that out.
- All other specifications are safety only.

## 5. Findings

1. **A status request can undo a booking** (`backend/src/api/routes.ts:481-491`, `1422-1429`).
   The orders are summed, an await follows, then the sum replaces `spentToday`. A fill booked
   meanwhile is forgotten until the next poll, and further executions pass the cap.
   `session-service.ts:1178-1180` promises that concurrent callers "cannot both pass
   and jointly overspend". On-chain the contract's own cap still binds the key.
2. **The contract's cap is not rolling** (`contracts/DreamPulseSessionAccountV2.sol:341`). Lines
   35 and 66 say "24h rolling"; the window restarts at an instant, and up to two
   caps fit into 24 hours. `TwoBudgetsPerDay` shows that two is the limit.
3. **A revocation can be undone by a look-up** (`session-service.ts:809-875`). Between retiring
   the session in memory and the end of its database write, `getUserActiveSession` finds no
   indexed session, reads the row, which is still active, and installs it. Line 1288: "Revokes
   an active session immediately."
4. **Two registrations can leave two active sessions** (`session-service.ts:562-581`): the
   comment says "Deactivate previous active sessions for this user".
5. **A nonce can be used by two registrations** (`session-service.ts:458-481`,
   `supabase/migrations/018_session_nonce.sql:18`): the unique index refuses the second row, but
   the error is not looked at and the session is active in memory.
6. **Operator writes are not serialised after a time-out** (`config/somnia.ts:177`, doc at 154):
   the operation that lost its race runs on beside the next.

7. **Hydration counts payouts twice** (`services/settlement-service.ts:222`): every row read is added to
   the total, also one that is in it already; only the list is checked. Line 262: "must never
   double-count CONFIRMED totals that anti-double-claim checks rely on". Later payouts come out too low.
8. **Claims are missing from the totals** (`settlement-service.ts:1814`): `claimMarketPayout` books its
   sweep beside `recordSweep` and leaves `userSweptTotals` alone. Line 237 promises the "total swept
   amount for a given user and market".
9. **A claim pays what it redeemed into the clone once more** (`settlement-service.ts:1727`): the amount
   is computed from the open orders because some transaction has a hash. Line 1170: "The operator
   must NEVER pay winning payouts out-of-pocket."
10. **A preserved position is not paid** (`settlement-service.ts:1411`: "Keep position un-settled so
    scanner retries payout when operator balance/gas is topped up."): the retry pays what it can redeem
    again, which is nothing, and settles the position.
11. **Winnings in the trader's wallet are paid by the operator** (`settlement-service.ts:1200`) when it
    holds other traders' tokens of the market. Line 1198: "never mark swept, never pay from the operator".
12. **Two sweeps pay twice** (`settlement-service.ts:1040`) from the pooled tokens.
    `agents/swarm-runner.ts:514`: "Process targets sequentially so on-chain transfers never race against
    operator nonce/balance" orders the daemon's own sweeps only.
13. **A dropped payout counts as made** (`settlement-service.ts:1380`): the wait for its receipt is
    `.catch(() => {})`. Line 1402: "Only mark settled when the individual payout succeeds".
14. **Filled resting orders expire unsettled** (`services/order-service.ts:3185`: "Unmatched resting limit
    orders at expiration hold collateral, not outcome tokens"): a fill after booking never changes
    `PENDING`, and settlement takes the order for unmatched, with a result of zero.
15. **Results an agent never hears of** (`order-service.ts:3264`: "Synchronize realized PnL to originating
    custom agent"): the reconciliation and the periodic synchronisation settle orders without it.
16. **A queue time-out is taken for a revert** (`order-service.ts:1706`: "not marking pool as failed"):
    the operator queue's text, "Somnia RPC operation timed out after", is not among those
    `isTimeoutError` knows, so that the pool is shunned for ten minutes and the breaker counts a revert.
17. **The limit of three positions is read once per cycle** (`agents/swarm-runner.ts:646`: "Global
    per-user active position limit (3 concurrent)"): orders the user places during the
    awaits are not seen.
18. **A look-up forgets a fill** (`services/custom-agent-service.ts:616`: "Check DB first for freshest
    persisted state"): a row read before the fill's write replaces the copy in memory, and an
    edit writes it back for good.
19. **Copies exceed the cap** (`services/social-copy-service.ts:299`: "Validate copier relation daily
    volume cap"): dispatches overlap between check and count; a switch under a dispatch loses its
    count; a late change event lowers the spend.

20. **A resolving market opens again, and its winner changes** (`services/market-service.ts:321`, `689`): a poll that noted the time before
    the close and ends after it writes the market back as open and drops the recorded price; one whose listing lags
    brings an archived market back, to be finalised anew at another price. Line 735
    calls the first one the "authoritative settlement price".
21. **Violations need not be consecutive** (`websocket/server.ts:471`): a quiet window between two violating ones
    does not reset the count, only 30 s do. Lines 59 and 468: "consecutive violating windows".
22. **A shutdown waits for connections nobody ends** (`websocket/server.ts:1287`, `index.ts:161`): `wss.close()` leaves the clients
    connected and the heartbeat is stopped, and then `server.close` waits for all of them.
    `utils/process-safety.ts:9`: "Manage clean, graceful shutdown hooks on SIGTERM/SIGINT (… flushing WS frames, closing HTTP sockets)".
23. **Updates of a configuration are lost** (`services/user-swarm-service.ts`): to a change event of an earlier update that arrives
    between two (98), and to a reset, which does not join the chain (451). Line 249: "Serialize per-user updates to prevent
    concurrent read-modify-write race conditions". The default that a read caches (195) is the base of the next
    update, which writes it over the row. Line 196: "reads must never overwrite the database!"
24. **A handshake that hangs leaves the service without prices** (`services/price-feed-service.ts:177`): it has no time-out, the watchdog
    looks at open streams only, and the polling begins with the first close.
25. **A rejected registration ends the session that was there** (`services/session-service.ts:603-614`). The key pair is checked
    after the previous session has been deactivated (562-581), so that the user is left without a session and the index goes
    on naming the old one. Lines 600-601: "reject a mismatched pair instead of storing a key". The look-up that finds the
    inactive session in the index serves it until it expires.
26. **A transaction can be booked once per spelling** (`services/order-service.ts:1974`, `2080`). The in-flight set and the cache
    compare lower-cased hashes (1944-1957), the query and the insert take them as the client wrote them, and the pattern (486)
    allows both cases. After an eviction or a restart the same transaction in other letters is booked again.
    `supabase/migrations/022_unique_order_tx_hash.sql:2`: "Enforce unique tx_hash on orders to prevent tx replay attacks".

Observed while modelling, without a configuration of their own: `ensureMarketPersisted` (market-service.ts:848) writes a
row with `status: existing?.status || 'Active'` over that of an archived market; markets finalised by a poll are
never persisted as finalised; `stop()` during the price feed's first snapshot leaves its watchdog running; a database error in the duplicate check of `submitUserOrder`
(order-service.ts:1978) throws before the `try` whose `finally` "releases on every exit path" (1965), but only for a hash that has its row,
so the slot does no harm; two overlapping cancellations both send a transaction; a
partly filled order that is cancelled loses the result of its filled part; the clone branch of
`executeAgentDecision` books resting and refused orders as `FILLED`.

## 6. Theorems

All proofs are checked by TLAPS, from the named assumptions of the modules only.

**The gate** (`SessionSpendProofs`, from `SpendAssumption`: finitely many executions, limits
whose trade size is within the cap, `MaxLatency =< ReservationTtl`): `TypeCorrect`,
`GateHolds` (`NoJointOverspend`), `HoldsSurvive`, `BooksStayTruthful`, `LimitsBind`
(`CommitWithinCap`), `RevokedForGood` (`RevocationIsFinal`), `GateImplementsBudget`
(`ImplementsTradeBudget`).

`NoJointOverspend` is not inductive: the check compares what the *gate* counts (spend plus
live holds) with the cap, while the property is about what *is* committed (orders of the window
plus executions in flight). The strengthening `GateInv` relates the two: every
execution in flight still has its hold in full, for it is younger than the TTL
(`FlightsAreYoung`); `spentToday` misses no order of the window; every booked execution has its
order; the cap is at most its peak. Then commitment =< spend + holds, by the
monotonicity of sums (`TotalMonotone`), and a successful check bounds it by the cap. Steps are
grouped: `QuietStep` covers all that leave the executions alone, `ReserveStep` and the fill
carry the argument.

The refinement uses the same invariant. `BudgetInit` maps the initial states, `BudgetStep` every step: a reservation
commits, because `ReserveStep` bounds the new commitment by the cap; fills for less, deaths, roll-overs
and revocations release; a limit change sets the cap; the rest stutters. `CommitmentIsNatural` gives the
arithmetic its types, `InactiveStays` the closing.

**The gate with requests and restarts** (`SessionSpendProofs`, also from `ReconcileAssumption`: a natural
number of restarts): `ReconcileTypeCorrect`, `EventsOnlyTighten` (`ChangeEventsOnlyTighten`). That a
late image does not move the window back is not inductive: `ReconcileInv` says that the row and every
image on the channel have a reset no later than memory's (`RowsBehind`), which the reload at a restart keeps,
and that a request has only summed recorded orders (`SeenIsRecorded`), so that the sum it assigns is a natural number.

**The contract** (`SessionAccountProofs`, from `AccountAssumption`): `AccountTypeCorrect` (no
balance is ever negative), `BudgetIsExact`, `AtMostTwoBudgets`, `AllowancesAreTransient`,
`ViewIsHonest`, `FundsAreSafe` (`FundsLeaveOnlyByOrders`). The strengthening `AccountInv` says of each capped key that its count is the
cost of the log since the last reset, within the cap; that all trades lie within a day of that
reset and none is ahead of the clock; and that the day before the reset held at most one cap. The
two-budget bound then follows by cutting a day at the reset (`SpanCover`). The lemmas about spans of a log
(`SpanAppend`, `SpanMonotone`, `SpanCover`) need no induction: an append adds one index.
`FundsAreSafe` adds `CallTrusted`: the pool an order is running on is still trusted when it draws, because
trust cannot be changed within the call.

**The registry** (`SessionRegistryProofs`, from `RegistryAssumption`: finitely many ids and look-ups).
`RevocationIsFinal` (`NothingRevives`) holds for any number of overlapping requests, lost writes and restarts. It has three parts: a session
inactive in memory and table stays so, once no answer taken before and no insert is under way; any other inactive session becomes active only by
its own registration or by an answer the table gave while the row was active, which is all that is left of a revocation whose write was lost; and no
change event activates one.
`RegistryInv` adds that a row in the table belongs to a registration that is over (`UnwrittenHasNoRow`) and
that what a reload has read is there still (`BootReadRows`): then no installation, insert or reload can
undo a revocation both sides know of. The other three are about requests that do not overlap and a process that stays up,
`OneAtATime == MaxConcurrent = 1 /\ MaxRestarts = 0`, which is what the code assumes; without it they are false (findings 3 to 5).
`NonceIsUsedOnce` and `OneSessionIndexed` then hold even if writes are lost; `RevokedStaysRevoked`
(`RevocationSticks`) needs writes that arrive, `~WritesMayFail`. Their invariant `SerialInv` says that a registration that
goes on has found its nonce unused and that it stays so (`NonceSearched`), and that the index names whatever is active
and names nothing during a look-up (`IndexFollows`); what it may name that is not active is an expired session, or one that a registration
at work or failed has superseded; `RevocationInv` says that the table agrees
with memory on what is revoked, and that no look-up holds such a row.

**Orders** (`OrdersProofs`, from `ReplayAssumption`, `ExecAssumption`, `LedgerAssumption`). `OrdersInv` is one invariant per part:

- `ReplayInv`, for `NeverBookedTwice` (`BookedOnce`) and `NobodyLockedOut` (`LockedOutOnlyIfBooked`), with any number of hashes, submissions and restarts
  and a cache of any size: of the submissions of one hash, however it is written, only one is under way (`SlotHeld`), and what was booked
  in a spelling
  has its row or a submission that will write it, so that what passes the database check was not booked before (`BookedIsGuarded`).
- `ExecInv`, for `BooksFollowChain` (`BooksMatchChain`) and `FailuresAlwaysHoldBack` (`FailuresHoldBack`), with any
  number of executions, pools, any threshold and cool-downs. The second is about the moment of sending, two
  awaits after the check: `ChecksHold` says what an execution that passed a check still knows, `Timely` that a pool's cool-down covers each of its failures.
- `LifeInv`, for `ResultToldOnce` (`AgentCreditedOnce`) and `FinalIsFinal` (`FinalStatusStays`): a filled order does not rest, and who credits the agent has settled the order first.
- `LedgerInv`, for `PayoutsSubtracted` (`PayoutBooksSound`), with any number of payouts and hydrations and a page and a list of any size. A row is
  `Known` if it is in the list or was dropped for its length; the total covers every sweep that is known, and an insert on
  its way is known already. A load by offset that has read *n* pages knows every row at a place below *n* pages of the order *now* (`HasRead`): a
  row inserted in between is known and pushes the others back only (`PlaceGrows`), and a short page reaches the last place,
  for the rows take all places from 0 on (`PlacesTaken`, `ShortPage`). The pages by cursor never mark a user as loaded and need no such claim; they may
  skip rows of one timestamp. What is assumed of the database: a query sees the rows of one moment, and rows of
  one timestamp keep their order from page to page, which the query, ordered by `claimed_at` alone, leaves to the database.

**Agents** (`TradingAgentsProofs`, from `AuthAssumption`, `SwarmAssumption`, `BooksAssumption`, `CopyAssumption`).

- `NoncesAlwaysHold` (`NoncesHold`): what this process accepted is remembered or has expired, unless it was crowded out (`SpentGuarded`), and
  the cache is at most one over its bound (`AuthInv`). That the clean-up drops the oldest needs that insertions
  are numbered, so that a smallest number exists (`SmallestOfSome`).
- `OnePositionAlways` (`OnePositionEach`): the cycle works on notes taken before its awaits. `SwarmInv` says what keeps them good: no
  pair of agent and market that is left is in a market with a position or an order on its way (`LeftIsFree`), and an agent
  that holds a position was noted or has marked its trade (`AgentsNoted`). A custom agent's pairs are made at its turn, when no
  order is on its way, which is why any number of custom agents keep it.
- `ExactBooks` (`ExactUnlessOverlapped`): as long as nothing overlapped, memory, every row a look-up holds and
  every column no write is on its way to equal the truth less what is still asked for (`AllKnow`).
- `CopiesWithinCap` (`CapUnlessDisturbed`): undisturbed, the object in use counts the copies, and the one that is placed fits (`PlacedFits`).

**Services** (`ServicesProofs`, from `MarketAssumption`, `GatewayAssumption`, `UserAssumption`, `QueueAssumption`). `ServicesInv`, again one invariant per part:

- `BookInv`, for `ResultStays` (`ChainHasLastWord`) and `SettlingIsKept` (`SettlingStays`): there is one poll at a time (`OnePoll`), a listing with a
  result is the chain's last, and once it is known no listing without it is on its way (`ResultsAreFinal`); a listing that carries a settlement price
  carries the chain's, which does not change (`PublishedStays`).
- `SeatsInv` and `AbuseInv`, for `SeatsAlwaysCounted` (`SeatsCounted`) and `ClosedForAbuseOnly` (`OnlySustainedAbuse`), with any number of connections,
  addresses and limits: an address has its strikes from as many windows of the log, each close enough to the next for the
  decay (`StruckIn`). A witness, because the bucket forgets the windows themselves.
- `UserInv`, for `UpdatesReachTheRow` (`NoUpdateLost`): each update waits for the last unfinished one before it (`ChainOrdered`), so that one write at most is
  on its way; undisturbed, the cache leads and the row follows (`CacheLeads`).
- `QueueInv`, for `WalletLeftToCurrentCall` (`OnlyTimeOutsLinger`) and `AnswersHonest` (`AnswersAreHonest`): a call is in the queue once and has
  one turn (`QueueHoldsWaiting`, `TurnIsTaken`), has one operation, and each operation that has not sent yet has an attempt
  that pays for it (`SendsCovered`). `SerialUntilTimeOut` gives the exact limit of what `config/somnia.ts:154` promises: as
  long as no call has timed out, operations are serial.

**Payouts** (`PayoutSweepProofs`, from `SweepAssumption`: finitely many markets and sweepers). `SweepTypeCorrect` holds unconditionally. The others
have hypotheses, each of which a finding shows to be needed:

- `RecordedIsPaid` (`ConfirmedIsPaid`), for sweeps and claims of any number that overlap, unless a hash comes back for a
  transaction without effect (`"void"`, finding 13). Inductive with the types.
- `PaidFromWinnings` (`NeverOutOfPocket`), for any number of sweeps that overlap, without claims (finding 9) and `"void"`. The
  property is about the operator's balance, which all sweeps use. The invariant `Pocket` bounds it by what it was plus
  *all* that *all* sweeps have redeemed and not paid yet, a sum of sums (`OwedByAll`); a bound per sweep would not be inductive.
- `NobodyPaidTwice` (`NeverPaidTwice`), for any number of sweeps and claims that overlap, under `OneTrader`: the operator's pool holds nobody else's tokens
  (finding 12), no winnings begin in the clone (finding 9) and transactions end as they are reported. `WinningsInv` says that a
  market's winnings are with the operator, or with the trader, or promised by *one* call, or paid, never two of these (`Winnings`); and that
  nobody has found only some of what the operator holds (`FoundWhole`), for the code redeems the lesser of what it found and what is there.

**Sums** (`TotalsTheorems`). A sum is the number of units its arguments own
(`Cardinality` of a union of blocks), which makes its laws consequences of the laws
of finite cardinalities: `TotalExtend`, `TotalMonotone`, `TotalType`, `TotalEmpty`.

Only model-checked:

- Liveness: `SpendKeepsBeingCorrected`, `EveryWinIsSettled`, `SilentPeersLeave`, `FeedRecovers`, `EveryCallAnswered`. The proof system does not
  reason about `ENABLED`, and so not about weak fairness.

No theorem is about a recursive definition; no module declares one.

Proving corrected the models in places no run could see. In `MarketBook` and `SessionRegistry` a `CASE` said
less in the logic than in TLC, which takes the first arm that fits: the guards are explicit now. The pages of
`SweepLedger` are defined by the places of rows, which can be counted, where a sorted sequence was cut before.
The nonce cache was a sequence of messages; it is the code's map now, whose order is that of insertions.

## 7. Plan

Modelled: everything of section 2. Proved: every safety property of the runs. Next, in this order:

1. `NoLaterReplay` across a restart, and the exact bound of copies under two overlapping dispatches.
2. `AgentExecution` composed with `SessionSpend` and `SessionAccount`, to state what backend and chain agree on
   after a time-out.
3. `SessionRegistry` with the on-chain authorization flag and server-side nonces.
4. The LLM client's key rotation; the breaker of the database client.

## 8. Not modelled

- Several backend processes. The code keeps its holds and indexes in one process, and the
  deployment runs one.
- The lazy sending of `void supabase...update(...)`: whether such a write is ever sent is left
  open; it lands or is lost.
- In `SessionSpend`: `releaseReservation` (only tests call it), the fallback for stubbed
  validation, fractions of a unit, resting orders that never fill. In `SpendReconcile`:
  wallet-signed orders and cancellations, which the sum counts and forgets.
- In `SessionRegistry`: `getNextSessionNonce`, `setSessionCopyTradeEnabled`,
  `refreshOnChainAuthorizations`.
- In `SessionAccount`: `redeemWinnings`' grants and `trustedModule`, `withdrawNative`, `init`,
  foreign tokens, the factory, selectors; what pools do with collateral.
- The nonce manager, the RPC node and the chain behind `OperatorTxQueue`.
- In `OrderReplay`: orders without a hash, what verification reads. In `AgentExecution`: choice
  of market, price and lot, self-trade protection, the insert. In `OrderLife`: the order's row, refunds,
  voided markets.
- In `PayoutSweep`: voided markets, the operator's own-wallet branch, batches beyond 25
  positions, thresholds, the summary cache. In `SweepLedger`: other users' rows.
- In `AuthNonce`: signatures, the middleware's cookie. In `SwarmCycle`: decisions, the breaker, start and stop of
  the loop, opportunity keys. In `CustomAgentBooks`: creation and deletion, trade counts, edits that
  set the spend themselves (`api/routes.ts:1810` passes the body on). In `SocialCopy`: sizing and the
  follower's session.
- In `MarketBook`: depth and fair values, voided markets, the archive's bound of 1000, rows. In `Gateway`: origin and token
  checks, subscriptions, broadcasts. In `UserSwarm`: the sessions' copy-trade switch, the resubscription's
  back-off. In `PriceFeed`: `stop()`, which only tests call, candle history, and the two REST sources, which answer as one.
- Some hazards have no place in a run: the on-chain authorization flag that change events flip during a
  refresh (`session-service.ts:215`), cancelled and wallet-signed orders in the spend sum (`order-service.ts:4029`), and
  those the findings of section 5 show the code to meet.
- LLM client, database breaker: planned above.
- Rate limiter, analytics, leaderboard, anomaly detection, export, backtest,
  pricing, agents' heuristics, frontend: read-only or numeric, or without a protocol. The
  repository also holds tooling scripts (`.agents/`) that are no part of the program.
