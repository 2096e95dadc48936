------------------------------ MODULE PayoutSweep ------------------------------
(***************************************************************************)
(* Paying out winnings to one trader (services/settlement-service.ts):     *)
(* scanUnclaimedSettlements finds what is due, triggerBatchSweep redeems   *)
(* it and pays, claimMarketPayout does so for one market.                  *)
(*                                                                         *)
(* Winning outcome tokens lie in the trader's wallet, in his account       *)
(* clone, or with the operator, who also holds other traders' tokens of    *)
(* the same market.  Every sweep is a chain of awaits; the market pages,   *)
(* the daemon and settleOrdersForMarket start sweeps at will, so that      *)
(* several run at a time.  One token redeems to one unit of collateral.    *)
(***************************************************************************)
EXTENDS Integers, FiniteSets, Totals

CONSTANTS
    Markets,   \* finalized markets the trader has won in
    Lots,      \* what his orders in each of them are due
    Holders,   \* where his tokens may be: "user", "clone", "operator"
    Others,    \* other traders' tokens of each market the operator holds
    Floats,    \* collateral the operator may start with
    Sweepers,  \* triggerBatchSweep calls running at a time
    Claimers,  \* claimMarketPayout calls running at a time
    Faults     \* subset of {"late", "void"}, see Sent

ASSUME SweepAssumption ==
    /\ IsFiniteSet(Markets) /\ IsFiniteSet(Sweepers)
    /\ Lots \in [Markets -> Nat \ {0}]
    /\ Holders \subseteq {"user", "clone", "operator"}
    /\ Others \in Nat
    /\ Floats \subseteq Nat
    /\ Faults \subseteq {"late", "void"}

VARIABLES
    tokens,    \* winning tokens, by holder and market
    float,     \* the operator's collateral
    settled,   \* the trader's orders: open, settled, settled 15 minutes ago
    swept,     \* userSweptTotals (hydration is SweepLedger's)
    listed,    \* the CONFIRMED amounts in this.sweeps
    quiet,     \* knownFinalizedZeroBalances
    cache,     \* scanCache: the positions, or Nothing
    scan,      \* inFlightScanPromise and how far it is
    sweep,     \* per call of triggerBatchSweep
    claim,     \* per call of claimMarketPayout
    paid,      \* history: collateral the trader received, by market
    float0,    \* history: what the operator started with
    preserved, \* history: positions left unsettled for a retry
    untold     \* history: a transaction took effect that was reported as failed

sweepVars == <<tokens, float, settled, swept, listed, quiet, cache, scan, sweep, claim, paid,
               float0, preserved, untold>>

Places    == {"user", "clone", "operator"}
Zeros     == [m \in Markets |-> 0]
Nothing   == [pc |-> "none", found |-> Zeros]
Asleep    == [pc |-> "idle", todo |-> {}, found |-> Zeros, pay |-> Zeros, gas |-> FALSE,
              at |-> {}, amount |-> 0]
NoClaim   == [pc |-> "idle", at |-> {}, op |-> 0, clone |-> 0, gas |-> FALSE, hash |-> FALSE,
              amount |-> 0]
Amounts   == [Markets -> Nat]

(* Where a call may be, and what it has noted on the way.                  *)
SweepCalls ==
    [pc : {"idle", "loading", "scanning", "working", "cloneRedeem", "opRedeem", "batch", "split"},
     todo : SUBSET Markets, found : Amounts, pay : Amounts, gas : BOOLEAN, at : SUBSET Markets,
     amount : Nat]
ClaimCalls ==
    [pc : {"idle", "clone", "operator", "paying"}, at : SUBSET Markets, op : Nat, clone : Nat,
     gas : BOOLEAN, hash : BOOLEAN, amount : Nat]

TypeOK ==
    /\ tokens \in [Places -> Amounts]
    /\ float \in Nat
    /\ settled \in [Markets -> {"open", "recent", "old"}]
    /\ swept \in Amounts
    /\ listed \in Amounts
    /\ quiet \subseteq Markets
    /\ cache \in [pc : {"none", "fresh"}, found : Amounts]
    /\ scan \in [pc : {"none", "indexer", "chain"}, found : Amounts]
    /\ sweep \in [Sweepers -> SweepCalls]
    /\ claim \in [Claimers -> ClaimCalls]
    /\ paid \in Amounts
    /\ float0 \in Nat
    /\ preserved \subseteq Markets
    /\ untold \in BOOLEAN

-----------------------------------------------------------------------------
Lesser(a, b) == IF a =< b THEN a ELSE b
Positive(a)  == IF a > 0 THEN a ELSE 0

(* settleUnclaimedPosition: orders that are still open become settled.     *)
Settle(S) ==
    settled' = [m \in Markets |-> IF m \in S /\ settled[m] = "open" THEN "recent" ELSE settled[m]]

(* A balance query that fails counts as zero.                              *)
Readings(b) == {0, b}

(* recordSweep of CONFIRMED sweeps of these amounts.                       *)
Record(amounts) ==
    /\ swept' = [m \in Markets |-> swept[m] + amounts[m]]
    /\ listed' = [m \in Markets |-> listed[m] + amounts[m]]

Only(m, a) == [Zeros EXCEPT ![m] = a]

(* How a transaction ends that was sent, if it could take effect:          *)
(*   done   it took effect and its hash was returned;                      *)
(*   void   its hash was returned but it was dropped, or reverted because  *)
(*          of another one mined first: no receipt's status is read, and   *)
(*          the wait for the one of a transfer is .catch(() => {});        *)
(*   late   it took effect after its time-out was reported as a failure.   *)
Sent(ok) == (IF ok THEN {"done"} \cup Faults ELSE {}) \cup {"failed"}
Tell(end) == untold' = (untold \/ end = "late")
Took(end) == end \in {"done", "late"}
Reported(end) == end \in {"done", "void"}

(* A transfer of collateral from the operator to the trader.               *)
Transfer(end, amounts) ==
    IF Took(end)
    THEN /\ float' = float - Total(amounts)
         /\ paid' = [m \in Markets |-> paid[m] + amounts[m]]
    ELSE UNCHANGED <<float, paid>>

Init ==
    /\ \E home \in [Markets -> Holders] :
          tokens = [p \in Places |-> [m \in Markets |->
                      (IF home[m] = p THEN Lots[m] ELSE 0)
                        + (IF p = "operator" THEN Others ELSE 0)]]
    /\ float \in Floats
    /\ float0 = float
    /\ settled \in [Markets -> {"open", "recent"}]
    /\ swept = Zeros
    /\ listed = Zeros
    /\ quiet = {}
    /\ cache = Nothing
    /\ scan = Nothing
    /\ sweep = [r \in Sweepers |-> Asleep]
    /\ claim = [c \in Claimers |-> NoClaim]
    /\ paid = Zeros
    /\ preserved = {}
    /\ untold = FALSE

-----------------------------------------------------------------------------
(* scanUnclaimedSettlements                                                *)

(* What the indexer reports for the addresses that answer, the wallet      *)
(* before the clone, less what was swept or is known to be empty.          *)
Claimable(answered) ==
    [m \in Markets |->
        LET heldBy == {p \in answered \ {"operator"} : tokens[p][m] > swept[m]} IN
        IF m \in quiet \/ heldBy = {} THEN 0
        ELSE tokens[IF "user" \in heldBy THEN "user" ELSE "clone"][m]]

(* What is due on the chain and by the orders, for markets not found yet:  *)
(* wallet tokens of a market without a sweep; else the open orders, less   *)
(* the list; else the orders not settled long ago, less the totals.        *)
Due(m, read, balance) ==
    LET byWallet == IF read /\ listed[m] = 0 THEN balance ELSE 0
        byOpen   == IF read /\ balance = 0 /\ settled[m] = "open"
                    THEN Positive(Lots[m] - listed[m]) ELSE 0
        byOrders == IF settled[m] # "old" /\ m \notin quiet
                    THEN Positive(Lots[m] - swept[m]) ELSE 0
    IN IF byWallet > 0 THEN byWallet ELSE IF byOpen > 0 THEN byOpen ELSE byOrders

Working(s, found) == [s EXCEPT !.pc = "working", !.found = found,
                               !.todo = {m \in Markets : found[m] > 0}]

BeginScan ==
    /\ cache = Nothing
    /\ scan = Nothing
    /\ scan' = [Nothing EXCEPT !.pc = "indexer"]

(* A summary or unclaimed page, or the daemon's look before its sweep.     *)
Browse ==
    /\ BeginScan
    /\ UNCHANGED <<tokens, float, settled, swept, listed, quiet, cache, sweep, claim, paid,
                   float0, preserved, untold>>

IndexerAnswers ==
    /\ scan.pc = "indexer"
    /\ \E answered \in SUBSET {"user", "clone"} :
          scan' = [pc |-> "chain", found |-> Claimable(answered)]
    /\ UNCHANGED <<tokens, float, settled, swept, listed, quiet, cache, sweep, claim, paid,
                   float0, preserved, untold>>

(* The positions are cached and handed to everybody who waits for them.    *)
ScanEnds ==
    /\ scan.pc = "chain"
    /\ \E read \in SUBSET Markets : \E balanced \in SUBSET read :
          LET balance(m) == IF m \in balanced THEN tokens["user"][m] ELSE 0
              found == [m \in Markets |-> IF scan.found[m] > 0 THEN scan.found[m]
                                          ELSE Due(m, m \in read, balance(m))]
          IN /\ cache' = [pc |-> "fresh", found |-> found]
             /\ sweep' = [r \in Sweepers |-> IF sweep[r].pc = "scanning"
                                             THEN Working(sweep[r], found) ELSE sweep[r]]
    /\ scan' = Nothing
    /\ UNCHANGED <<tokens, float, settled, swept, listed, quiet, claim, paid, float0, preserved, untold>>

(* Ten seconds; fifteen minutes; five minutes.                             *)
CacheExpires ==
    /\ cache # Nothing
    /\ cache' = Nothing
    /\ UNCHANGED <<tokens, float, settled, swept, listed, quiet, scan, sweep, claim, paid,
                   float0, preserved, untold>>

OrdersAge(m) ==
    /\ settled[m] = "recent"
    /\ settled' = [settled EXCEPT ![m] = "old"]
    /\ UNCHANGED <<tokens, float, swept, listed, quiet, cache, scan, sweep, claim, paid, float0,
                   preserved, untold>>

QuietExpires(m) ==
    /\ m \in quiet
    /\ quiet' = quiet \ {m}
    /\ UNCHANGED <<tokens, float, settled, swept, listed, cache, scan, sweep, claim, paid,
                   float0, preserved, untold>>

(* invalidateCache                                                         *)
Invalidate == cache' = Nothing /\ quiet' = {}

-----------------------------------------------------------------------------
(* triggerBatchSweep                                                       *)

Goto(r, pc) == sweep' = [sweep EXCEPT ![r].pc = pc]

(* The next position, or the payment once there is none left.              *)
Next1(s) == [s EXCEPT !.pc = "working", !.todo = @ \ s.at, !.at = {}, !.amount = 0]

TriggerBatchSweep(r) ==
    /\ sweep[r].pc = "idle"
    /\ Invalidate
    /\ Goto(r, "loading")
    /\ UNCHANGED <<tokens, float, settled, swept, listed, scan, claim, paid, float0, preserved, untold>>

(* After the user's sweeps are loaded: somebody's fresh scan, somebody's   *)
(* scan under way, or a scan of its own.  Then the operator's gas is read. *)
ObtainPositions(r) ==
    /\ sweep[r].pc = "loading"
    /\ \E gas \in BOOLEAN :
          LET ready == [sweep[r] EXCEPT !.gas = gas] IN
          \/ /\ cache # Nothing
             /\ sweep' = [sweep EXCEPT ![r] = Working(ready, cache.found)]
             /\ UNCHANGED scan
          \/ /\ cache = Nothing
             /\ sweep' = [sweep EXCEPT ![r] = [ready EXCEPT !.pc = "scanning"]]
             /\ BeginScan \/ (scan # Nothing /\ UNCHANGED scan)
    /\ UNCHANGED <<tokens, float, settled, swept, listed, quiet, cache, claim, paid, float0,
                   preserved, untold>>

(* A mutation: the market is kept out of scans but its orders stay open.   *)
WriteOffForNow(r, m) ==
    /\ UNCHANGED settled
    /\ quiet' = quiet \cup {m}
    /\ sweep' = [sweep EXCEPT ![r] = Next1([@ EXCEPT !.at = {m}])]

(* "Settle locally so the scanner never loops": orders settled, market     *)
(* kept out of scans for a while, a FAILED sweep nobody adds up.           *)
WriteOff(r, m) ==
    /\ Settle({m})
    /\ quiet' = quiet \cup {m}
    /\ sweep' = [sweep EXCEPT ![r] = Next1([@ EXCEPT !.at = {m}])]

(* The three balances of the winning token are read together, and decide.  *)
(* Without gas, or when the market cannot be read, nothing is redeemed.    *)
Examine(r, m) ==
    LET wanted == sweep[r].found[m] IN
    /\ sweep[r].pc = "working"
    /\ m \in sweep[r].todo
    /\ \/ WriteOff(r, m)
       \/ /\ sweep[r].gas
          /\ \E op \in Readings(tokens["operator"][m]), usr \in Readings(tokens["user"][m]),
                clone \in Readings(tokens["clone"][m]) :
             \/ /\ clone > 0
                /\ sweep' = [sweep EXCEPT ![r] = [@ EXCEPT !.pc = "cloneRedeem", !.at = {m},
                                                           !.amount = Lesser(clone, wanted)]]
                /\ UNCHANGED <<settled, quiet>>
             \/ /\ clone = 0 /\ op = 0 /\ usr > 0
                /\ Settle({m})
                /\ sweep' = [sweep EXCEPT ![r] = Next1([@ EXCEPT !.at = {m}])]
                /\ UNCHANGED quiet
             \/ /\ clone = 0 /\ op > 0
                /\ sweep' = [sweep EXCEPT ![r] = [@ EXCEPT !.pc = "opRedeem", !.at = {m},
                                                           !.amount = Lesser(op, wanted)]]
                /\ UNCHANGED <<settled, quiet>>
    /\ UNCHANGED <<tokens, float, swept, listed, cache, scan, claim, paid, float0, preserved, untold>>

(* clone.redeemWinnings: the collateral stays in the trader's clone.       *)
RedeemFromClone(r, m) ==
    LET amount == sweep[r].amount IN
    /\ sweep[r].pc = "cloneRedeem"
    /\ sweep[r].at = {m}
    /\ \E end \in Sent(tokens["clone"][m] >= amount) :
          /\ Tell(end)
          /\ IF Took(end)
             THEN /\ tokens' = [tokens EXCEPT !["clone"][m] = @ - amount]
                  /\ paid' = [paid EXCEPT ![m] = @ + amount]
             ELSE UNCHANGED <<tokens, paid>>
          /\ IF Reported(end)
             THEN /\ Record(Only(m, amount))
                  /\ Settle({m})
                  /\ sweep' = [sweep EXCEPT ![r] = Next1(@)]
                  /\ UNCHANGED quiet
             ELSE WriteOff(r, m) /\ UNCHANGED <<swept, listed>>
    /\ UNCHANGED <<float, cache, scan, claim, float0, preserved>>

(* trader.redeem on the operator's own tokens, whoever they are held for.  *)
OperatorRedeems(end, m, amount) ==
    IF Took(end)
    THEN /\ tokens' = [tokens EXCEPT !["operator"][m] = @ - amount]
         /\ float' = float + amount
    ELSE UNCHANGED <<tokens, float>>

(* A mutation: the position is paid whether or not it was redeemed.        *)
RedeemOrNot(r, m) ==
    /\ sweep[r].pc = "opRedeem"
    /\ sweep[r].at = {m}
    /\ \E end \in Sent(tokens["operator"][m] >= sweep[r].amount) :
          Tell(end) /\ OperatorRedeems(end, m, sweep[r].amount)
    /\ sweep' = [sweep EXCEPT ![r] = Next1([@ EXCEPT !.pay[m] = sweep[r].amount])]
    /\ UNCHANGED <<settled, quiet, swept, listed, cache, scan, claim, paid, float0, preserved>>

RedeemFromOperator(r, m) ==
    /\ sweep[r].pc = "opRedeem"
    /\ sweep[r].at = {m}
    /\ \E end \in Sent(tokens["operator"][m] >= sweep[r].amount) :
          /\ Tell(end)
          /\ OperatorRedeems(end, m, sweep[r].amount)
          /\ IF Reported(end)
             THEN /\ sweep' = [sweep EXCEPT ![r] = Next1([@ EXCEPT !.pay[m] = sweep[r].amount])]
                  /\ UNCHANGED <<settled, quiet>>
             ELSE WriteOff(r, m)
    /\ UNCHANGED <<swept, listed, cache, scan, claim, paid, float0, preserved>>

(* All positions examined: the operator's balance is read, or fails and    *)
(* counts as zero.  A batch is tried only if it covers everything.         *)
ReadBalance(r) ==
    /\ sweep[r].pc = "working"
    /\ sweep[r].todo = {}
    /\ \E balance \in Readings(float) :
          sweep' = [sweep EXCEPT ![r] =
                      [@ EXCEPT !.pc = IF balance >= Total(sweep[r].pay) THEN "batch" ELSE "split",
                                !.todo = {m \in Markets : sweep[r].pay[m] > 0},
                                !.amount = balance]]
    /\ UNCHANGED <<tokens, float, settled, swept, listed, quiet, cache, scan, claim, paid,
                   float0, preserved, untold>>

Finish(r) == sweep' = [sweep EXCEPT ![r] = Asleep] /\ Invalidate

(* One transfer for all.  If it fails, each market is paid on its own.     *)
PayBatch(r) ==
    /\ sweep[r].pc = "batch"
    /\ \E end \in Sent(float >= Total(sweep[r].pay)) :
          /\ Tell(end)
          /\ Transfer(end, sweep[r].pay)
          /\ IF Reported(end)
             THEN Record(sweep[r].pay) /\ Settle(sweep[r].todo) /\ Finish(r)
             ELSE Goto(r, "split") /\ UNCHANGED <<settled, swept, listed, quiet, cache>>
    /\ UNCHANGED <<tokens, scan, claim, float0, preserved>>

(* A mutation: the balance read before is not consulted.                   *)
CoversAnything(r, amount) == TRUE

(* remainingBalance >= pos.rawAmount                                       *)
Covers(r, amount) == sweep[r].amount >= amount

(* A mutation: a skipped position is recorded like a paid one.             *)
PayOneRegardless(r, m) ==
    LET amount == sweep[r].pay[m] IN
    /\ sweep[r].pc = "split"
    /\ m \in sweep[r].todo
    /\ \E end \in Sent(Covers(r, amount) /\ float >= amount) :
          Tell(end) /\ Transfer(end, Only(m, amount))
    /\ Record(Only(m, amount))
    /\ Settle({m})
    /\ sweep' = [sweep EXCEPT ![r].todo = @ \ {m}]
    /\ UNCHANGED <<tokens, quiet, cache, scan, claim, float0, preserved>>

(* A position is paid if the balance read before covers it; skipped or     *)
(* failed, it is left unsettled for a later sweep.                         *)
PayOne(r, m) ==
    LET amount == sweep[r].pay[m] IN
    /\ sweep[r].pc = "split"
    /\ m \in sweep[r].todo
    /\ \E end \in Sent(Covers(r, amount) /\ float >= amount) :
          /\ Tell(end)
          /\ Transfer(end, Only(m, amount))
          /\ IF Reported(end)
             THEN /\ Record(Only(m, amount))
                  /\ Settle({m})
                  /\ sweep' = [sweep EXCEPT ![r] = [sweep[r] EXCEPT !.todo = @ \ {m},
                                                                    !.amount = @ - amount]]
                  /\ UNCHANGED preserved
             ELSE /\ sweep' = [sweep EXCEPT ![r].todo = @ \ {m}]
                  /\ preserved' = preserved \cup {m}
                  /\ UNCHANGED <<settled, swept, listed>>
    /\ UNCHANGED <<tokens, quiet, cache, scan, claim, float0>>

EndSweep(r) ==
    /\ sweep[r].pc = "split"
    /\ sweep[r].todo = {}
    /\ Finish(r)
    /\ UNCHANGED <<tokens, float, settled, swept, listed, scan, claim, paid, float0, preserved, untold>>

-----------------------------------------------------------------------------
(* claimMarketPayout                                                       *)

(* Balances, session and gas are read; a failing query ends the claim.     *)
(* Tokens in the trader's wallet alone are his to redeem.                  *)
BeginClaim(c, m) ==
    LET op    == tokens["operator"][m]
        usr   == tokens["user"][m]
        clone == tokens["clone"][m]
    IN
    /\ claim[c].pc = "idle"
    /\ IF op = 0 /\ clone = 0 /\ usr > 0
       THEN Settle({m}) /\ UNCHANGED claim
       ELSE /\ \E gas \in BOOLEAN :
                  claim' = [claim EXCEPT ![c] =
                              [NoClaim EXCEPT !.pc = "clone", !.at = {m}, !.op = op,
                                              !.clone = clone, !.gas = gas]]
            /\ UNCHANGED settled
    /\ UNCHANGED <<tokens, float, swept, listed, quiet, cache, scan, sweep, paid, float0,
                   preserved, untold>>

ClaimFromClone(c, m) ==
    LET amount == claim[c].clone IN
    /\ claim[c].pc = "clone"
    /\ claim[c].at = {m}
    /\ \E end \in Sent(amount > 0 /\ tokens["clone"][m] >= amount) :
          /\ Tell(end)
          /\ IF Took(end)
             THEN /\ tokens' = [tokens EXCEPT !["clone"][m] = @ - amount]
                  /\ paid' = [paid EXCEPT ![m] = @ + amount]
             ELSE UNCHANGED <<tokens, paid>>
          /\ claim' = [claim EXCEPT ![c] = [@ EXCEPT !.pc = "operator", !.hash = Reported(end)]]
    /\ UNCHANGED <<float, settled, swept, listed, quiet, cache, scan, sweep, float0, preserved>>

(* A mutation: owed whether or not anything was redeemed.                  *)
OwedAnyway(m, hash) == IF settled[m] = "open" THEN Positive(Lots[m] - listed[m]) ELSE 0

(* What the open orders expect less the list, if something was redeemed.   *)
Owed(m, hash) == IF hash /\ settled[m] = "open" THEN Positive(Lots[m] - listed[m]) ELSE 0

(* The operator's whole holding is redeemed.                               *)
ClaimFromOperator(c, m) ==
    /\ claim[c].pc = "operator"
    /\ claim[c].at = {m}
    /\ IF claim[c].op > 0 /\ claim[c].gas
       THEN /\ \E end \in Sent(tokens["operator"][m] >= claim[c].op) :
                  /\ Tell(end)
                  /\ OperatorRedeems(end, m, claim[c].op)
                  /\ claim' = [claim EXCEPT ![c] =
                                  [@ EXCEPT !.pc = "paying",
                                            !.hash = claim[c].hash \/ Reported(end),
                                            !.amount = IF Reported(end) THEN Owed(m, TRUE) ELSE 0]]
            /\ UNCHANGED settled
       ELSE /\ claim' = [claim EXCEPT ![c] = [@ EXCEPT !.pc = "paying",
                                                       !.amount = Owed(m, claim[c].hash)]]
            /\ IF claim[c].hash THEN UNCHANGED settled ELSE Settle({m})
            /\ UNCHANGED <<tokens, float, untold>>
    /\ UNCHANGED <<swept, listed, quiet, cache, scan, sweep, paid, float0, preserved>>

(* The trader is paid if the operator can; the sweep is booked either way. *)
ClaimPays(c, m) ==
    LET amount == claim[c].amount IN
    /\ claim[c].pc = "paying"
    /\ claim[c].at = {m}
    /\ IF amount > 0
       THEN /\ \E end \in Sent(float >= amount) : Tell(end) /\ Transfer(end, Only(m, amount))
            /\ listed' = [listed EXCEPT ![m] = @ + amount]
            /\ Settle({m})
       ELSE UNCHANGED <<float, paid, listed, settled, untold>>
    /\ claim' = [claim EXCEPT ![c] = NoClaim]
    /\ IF claim[c].hash THEN Invalidate ELSE UNCHANGED <<cache, quiet>>
    /\ UNCHANGED <<tokens, swept, scan, sweep, float0, preserved>>

SweepStep(r) ==
    \/ ObtainPositions(r) \/ ReadBalance(r) \/ PayBatch(r) \/ EndSweep(r)
    \/ \E m \in Markets : \/ Examine(r, m) \/ PayOne(r, m)
                          \/ RedeemFromClone(r, m) \/ RedeemFromOperator(r, m)

ClaimStep(c) ==
    \E m \in Markets : ClaimFromClone(c, m) \/ ClaimFromOperator(c, m) \/ ClaimPays(c, m)

Next ==
    \/ Browse \/ IndexerAnswers \/ ScanEnds \/ CacheExpires
    \/ \E m \in Markets : OrdersAge(m) \/ QuietExpires(m)
    \/ \E r \in Sweepers : TriggerBatchSweep(r) \/ SweepStep(r)
    \/ \E c \in Claimers : ClaimStep(c) \/ \E m \in Markets : BeginClaim(c, m)

Spec == Init /\ [][Next]_sweepVars

(* What has begun goes on: awaits come back, and what is called with a     *)
(* timer ends with it.  Nobody owes a trader the beginning of a sweep: the *)
(* daemon may be disabled, without gas or behind an open breaker, takes    *)
(* fifteen traders at a time and leaves small sums alone.                  *)
FairSpec ==
    /\ Spec
    /\ WF_sweepVars(IndexerAnswers) /\ WF_sweepVars(ScanEnds)
    /\ \A r \in Sweepers : WF_sweepVars(SweepStep(r))
-----------------------------------------------------------------------------
(* Properties                                                              *)

(* What the totals say a trader received in a market he has received,      *)
(* whatever was skipped, failed or timed out on the way ("Only mark        *)
(* settled when the individual payout succeeds",                           *)
(* settlement-service.ts:1402).                                            *)
ConfirmedIsPaid == \A m \in Markets : swept[m] =< paid[m]

(* "The operator must NEVER pay winning payouts out-of-pocket."            *)
(* (settlement-service.ts:1170): what it pays it has redeemed before, as   *)
(* long as no payment it took for failed was repeated.                     *)
NeverOutOfPocket == ~untold => float >= float0

(* What a trader received in a market and what he still holds of it come   *)
(* to no more than his orders are due: nobody is paid by the operator for  *)
(* winnings he can redeem himself, nor for the same winnings twice         *)
(* ("never mark swept, never pay from the operator",                       *)
(* settlement-service.ts:1198; "so on-chain transfers never race",         *)
(* swarm-runner.ts:514).                                                   *)
NeverPaidTwice ==
    \A m \in Markets : paid[m] + tokens["user"][m] + tokens["clone"][m] =< Lots[m]

(* "Settle locally so the scanner never loops on un-redeemable or          *)
(* already-handled positions" (settlement-service.ts:1259): every winning  *)
(* order of a trader whose winnings go on being swept is settled in the    *)
(* end, and stays so, whatever fails in those sweeps.                      *)
SweptAgainAndAgain == []<>(\E r \in Sweepers : sweep[r].pc = "loading")

EveryWinIsSettled == SweptAgainAndAgain => \A m \in Markets : <>[](settled[m] # "open")

(* "Keep position un-settled so scanner retries payout when operator       *)
(* balance/gas is topped up." (settlement-service.ts:1411): a position     *)
(* kept for a retry is not settled without having been paid.               *)
PreservedIsPaid == \A m \in preserved : settled[m] # "open" => paid[m] > 0
=============================================================================
