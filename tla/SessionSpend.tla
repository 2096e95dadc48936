------------------------------ MODULE SessionSpend ------------------------------
(***************************************************************************)
(* The daily-spend gate of one delegated trading session                  *)
(* (services/session-service.ts) together with the executions that go      *)
(* through it (services/order-service.ts, executeAgentDecision).           *)
(*                                                                         *)
(* An execution reserves head-room synchronously, then awaits the market   *)
(* read, the funding check and the on-chain placement, and finally either  *)
(* turns the hold into spend or dies and leaves the hold to its TTL.       *)
(* Between the two, other executions, the 24-hour roll-over, a limit       *)
(* change, a reset by the user, a revocation and database change events    *)
(* all touch the same record.  Amounts are whole units; time is a clock    *)
(* of abstract ticks.                                                      *)
(***************************************************************************)
EXTENDS Integers, FiniteSets, Totals

CONSTANTS
    Execs,           \* executions of executeAgentDecision against the session
    MaxCost,         \* largest cost a decision can ask for
    RiskLimits,      \* the [maxTradeSize, dailyVolumeCap] pairs the owner may set
    Day,             \* 24 * 3600 * 1000 in the code
    ReservationTtl,  \* RESERVATION_TTL_MS
    MaxLatency,      \* longest time an execution stays between hold and fill
    ExpiresAt,       \* session expiry
    MaxTime,         \* bound on the clock
    None             \* "no reservation" / "no order"

(* "TTL comfortably exceeds worst-case on-chain placement latency"         *)
(* (session-service.ts:1165) is the assumption MaxLatency =< ReservationTtl.*)
ASSUME SpendAssumption ==
    /\ IsFiniteSet(Execs)
    /\ MaxCost \in Nat \ {0}
    /\ RiskLimits \subseteq [maxTradeSize : 1..MaxCost, dailyVolumeCap : Nat]
    /\ RiskLimits # {}
    /\ \A l \in RiskLimits : l.maxTradeSize =< l.dailyVolumeCap
    /\ Day \in Nat
    /\ ReservationTtl \in Nat
    /\ MaxLatency \in Nat
    /\ MaxLatency =< ReservationTtl
    /\ ExpiresAt \in Nat
    /\ MaxTime \in Nat
    /\ None \notin [amount : 1..MaxCost, createdAt : Nat]
    /\ None \notin [totalCost : 1..MaxCost, createdAt : Nat]

VARIABLES
    now,        \* Date.now()
    session,    \* the in-memory SessionRecord: spend, window start, activity
    limits,     \* its maxTradeSize and dailyVolumeCap
    hold,       \* session.pendingReservations, by the execution that made it
    exec,       \* where each execution is, its quoted cost and when it began
    order,      \* the OrderExecution an execution recorded
    row,        \* the same three fields of the sessions row in Postgres
    wire,       \* row images on the realtime channel, not yet delivered
    booked,     \* history: executions booked since the last spend reset
    peak        \* history: largest dailyVolumeCap in force so far

vars == <<now, session, limits, hold, exec, order, row, wire, booked, peak>>

Costs        == 1..MaxCost
Reservations == [amount : Costs, createdAt : Nat]
Orders       == [totalCost : Costs, createdAt : Nat]
Executions   == [pc : {"idle", "flight", "booked", "dead"}, totalCost : 0..MaxCost,
                 startedAt : Nat]
SessionRows  == [spentToday : Nat, lastSpendResetTimestamp : Nat, isActive : BOOLEAN]

TypeOK ==
    /\ now \in Nat
    /\ session \in SessionRows
    /\ limits \in RiskLimits
    /\ hold \in [Execs -> Reservations \cup {None}]
    /\ exec \in [Execs -> Executions]
    /\ order \in [Execs -> Orders \cup {None}]
    /\ row \in SessionRows
    /\ wire \subseteq SessionRows
    /\ booked \subseteq Execs
    /\ peak \in Nat

-----------------------------------------------------------------------------
(* A mutation: a reservation stops counting one tick early.                *)
LiveTooShort ==
    {e \in Execs : hold[e] # None /\ now - hold[e].createdAt < ReservationTtl}

(* Reservations that still count: not older than the TTL.                  *)
Live == {e \in Execs : hold[e] # None /\ now - hold[e].createdAt =< ReservationTtl}

(* A mutation: the gate looks at booked spend only.                        *)
HoldsIgnored == 0

LiveReservationTotal == Total([e \in Live |-> hold[e].amount])

InFlight == {e \in Execs : exec[e].pc = "flight"}

(* What executions still waiting for their fill may yet spend.             *)
Outstanding == Total([e \in InFlight |-> exec[e].totalCost])

(* What the orders of the executions in S have cost.                       *)
CostOf(S) == Total([e \in S |-> order[e].totalCost])

(* What the orders recorded since the last reset have cost.                *)
WindowCost == CostOf(booked)

-----------------------------------------------------------------------------
Larger(a, b) == IF a >= b THEN a ELSE b

Expired   == now >= ExpiresAt
WindowOver == now - session.lastSpendResetTimestamp > Day

(* supabase.update(): lands (and is echoed on the channel) or is lost.     *)
(* Errors are swallowed everywhere, and the `void supabase...` writes are  *)
(* never awaited.                                                          *)
Persist(r) == \/ row' = r /\ wire' = wire \cup {r}
              \/ UNCHANGED <<row, wire>>

(* The row after the window fields of s have been written to it.           *)
WithSpend(r, s) == [r EXCEPT !.spentToday = s.spentToday,
                             !.lastSpendResetTimestamp = s.lastSpendResetTimestamp]

NoSpend(s) == [s EXCEPT !.spentToday = 0, !.lastSpendResetTimestamp = now]

(* 24 hours after the last reset the spend starts again from zero; holds   *)
(* are kept.                                                               *)
RollWindow ==
    IF WindowOver
    THEN /\ session' = NoSpend(session)
         /\ booked' = {}
         /\ Persist(WithSpend(row, NoSpend(session)))
    ELSE UNCHANGED <<session, booked, row, wire>>

SpentAfterRoll == IF WindowOver THEN 0 ELSE session.spentToday

(* liveReservationTotal drops the expired reservations from the list.      *)
Pruned == [e \in Execs |-> IF e \in Live THEN hold[e] ELSE None]

(* The checks of validateTradeAllowance that precede the window roll-over. *)
Permitted(c) == ~Expired /\ session.isActive /\ c =< limits.maxTradeSize

Init ==
    /\ now = 0
    /\ session = [spentToday |-> 0, lastSpendResetTimestamp |-> 0, isActive |-> TRUE]
    /\ limits \in RiskLimits
    /\ peak = limits.dailyVolumeCap
    /\ row = session
    /\ hold = [e \in Execs |-> None]
    /\ exec = [e \in Execs |-> [pc |-> "idle", totalCost |-> 0, startedAt |-> 0]]
    /\ order = [e \in Execs |-> None]
    /\ wire = {}
    /\ booked = {}

(* validateTradeAllowance on an expired session deactivates it in memory.  *)
CheckExpired ==
    /\ Expired
    /\ session.isActive
    /\ session' = [session EXCEPT !.isActive = FALSE]
    /\ UNCHANGED <<now, limits, hold, exec, order, row, wire, booked, peak>>

(* validateTradeAllowance without a hold: the pre-checks of the swarm      *)
(* runner and of copy trading, and every reservation refused at the cap.   *)
(* Whatever it answers, it rolls the window and prunes the list.           *)
CheckAllowance(c) ==
    /\ Permitted(c)
    /\ RollWindow
    /\ hold' = Pruned
    /\ UNCHANGED <<now, limits, exec, order, peak>>

(* reserveTradeSpend: check and hold, with no await in between.            *)
Reserve(e, c) ==
    /\ exec[e].pc = "idle"
    /\ Permitted(c)
    /\ SpentAfterRoll + LiveReservationTotal + c =< limits.dailyVolumeCap
    /\ RollWindow
    /\ hold' = [Pruned EXCEPT ![e] = [amount |-> c, createdAt |-> now]]
    /\ exec' = [exec EXCEPT ![e] = [pc |-> "flight", totalCost |-> c, startedAt |-> now]]
    /\ UNCHANGED <<now, limits, order, peak>>

(* Mutations: a fill takes its cost out of the hold instead of dropping    *)
(* it, or drops the hold and books nothing.                                *)
FillKeepsHold(e, a) ==
    /\ exec[e].pc = "flight"
    /\ a =< exec[e].totalCost
    /\ session' = [session EXCEPT !.spentToday = @ + a]
    /\ hold' = [hold EXCEPT ![e].amount = @ - a]
    /\ order' = [order EXCEPT ![e] = [totalCost |-> a, createdAt |-> now]]
    /\ booked' = booked \cup {e}
    /\ exec' = [exec EXCEPT ![e].pc = "booked"]
    /\ UNCHANGED <<now, limits, row, wire, peak>>

FillUnbooked(e, a) ==
    /\ exec[e].pc = "flight"
    /\ a =< exec[e].totalCost
    /\ hold' = [hold EXCEPT ![e] = None]
    /\ order' = [order EXCEPT ![e] = [totalCost |-> a, createdAt |-> now]]
    /\ booked' = booked \cup {e}
    /\ exec' = [exec EXCEPT ![e].pc = "booked"]
    /\ UNCHANGED <<now, session, limits, row, wire, peak>>

(* Placement succeeded: consumeReservation with the actual cost (a partial *)
(* fill costs less than was held), and the order is cached.  Neither the   *)
(* session's activity nor its window is looked at again.                   *)
Fill(e, a) ==
    /\ exec[e].pc = "flight"
    /\ a =< exec[e].totalCost
    /\ session' = [session EXCEPT !.spentToday = @ + a]
    /\ hold' = [hold EXCEPT ![e] = None]
    /\ order' = [order EXCEPT ![e] = [totalCost |-> a, createdAt |-> now]]
    /\ booked' = booked \cup {e}
    /\ exec' = [exec EXCEPT ![e].pc = "booked"]
    /\ UNCHANGED <<now, limits, row, wire, peak>>

(* Any early return after the gate (funding, cool-down, market closed,     *)
(* revert, time-out, zero fills): the hold is left to its TTL.             *)
Abandon(e) ==
    /\ exec[e].pc = "flight"
    /\ exec' = [exec EXCEPT ![e].pc = "dead"]
    /\ UNCHANGED <<now, session, limits, hold, order, row, wire, booked, peak>>

(* updateSessionRisk: the owner raises or lowers the limits; the write     *)
(* echoes the whole row, its possibly outdated spend included.  The index  *)
(* names the session while it is active; that it may still name it just    *)
(* after its expiry is left out, for an expired session never trades.      *)
UpdateSessionRisk(l) ==
    /\ session.isActive
    /\ limits' = l
    /\ peak' = Larger(peak, l.dailyVolumeCap)
    /\ Persist(row)
    /\ UNCHANGED <<now, session, hold, exec, order, booked>>

(* POST /sessions/:user/reset-spend: updateSessionSpend(id, 0).            *)
ResetSpend ==
    /\ session.isActive
    /\ ~Expired
    /\ session' = NoSpend(session)
    /\ booked' = {}
    /\ Persist(WithSpend(row, NoSpend(session)))
    /\ UNCHANGED <<now, limits, hold, exec, order, peak>>

(* revokeSession: executions already in flight are not recalled.           *)
RevokeSession ==
    /\ session.isActive
    /\ session' = [session EXCEPT !.isActive = FALSE]
    /\ Persist([row EXCEPT !.isActive = FALSE])
    /\ UNCHANGED <<now, limits, hold, exec, order, booked, peak>>

(* Mutations: the handler believes the spend, or the activity, of the row  *)
(* image it is sent.                                                       *)
DeliverSpend(img) ==
    /\ wire' = wire \ {img}
    /\ session' = [session EXCEPT
          !.isActive = @ /\ img.isActive /\ ~Expired,
          !.spentToday = img.spentToday]
    /\ UNCHANGED <<now, limits, hold, exec, order, row, booked, peak>>

DeliverActivity(img) ==
    /\ wire' = wire \ {img}
    /\ session' = [session EXCEPT !.isActive = img.isActive /\ ~Expired]
    /\ UNCHANGED <<now, limits, hold, exec, order, row, booked, peak>>

(* The realtime handler: a row image never reactivates, never lowers the   *)
(* spend of the current window and never touches the limits.               *)
DeliverChange(img) ==
    LET newer == img.lastSpendResetTimestamp > session.lastSpendResetTimestamp IN
    /\ wire' = wire \ {img}
    /\ session' = [session EXCEPT
          !.isActive = @ /\ img.isActive /\ ~Expired,
          !.spentToday = IF newer THEN img.spentToday ELSE Larger(@, img.spentToday),
          !.lastSpendResetTimestamp = Larger(@, img.lastSpendResetTimestamp)]
    /\ booked' = IF newer THEN {} ELSE booked
    /\ UNCHANGED <<now, limits, hold, exec, order, row, peak>>

(* Time passes; an execution finishes or dies within MaxLatency.           *)
Tick ==
    /\ now < MaxTime
    /\ \A e \in InFlight : now + 1 - exec[e].startedAt =< MaxLatency
    /\ now' = now + 1
    /\ UNCHANGED <<session, limits, hold, exec, order, row, wire, booked, peak>>

Next ==
    \/ CheckExpired
    \/ \E c \in Costs : CheckAllowance(c)
    \/ \E e \in Execs, c \in Costs : Reserve(e, c)
    \/ \E e \in Execs, a \in Costs : Fill(e, a)
    \/ \E e \in Execs : Abandon(e)
    \/ \E l \in RiskLimits : UpdateSessionRisk(l)
    \/ ResetSpend
    \/ RevokeSession
    \/ \E img \in wire : DeliverChange(img)
    \/ Tick

Spec == Init /\ [][Next]_vars
-----------------------------------------------------------------------------
(* Properties                                                              *)

Committed == WindowCost + Outstanding

(* Concurrent executions cannot jointly overspend: what has been booked in *)
(* the current window plus what executions in flight may still book never  *)
(* exceeds the largest cap the owner granted (session-service.ts:1178).    *)
NoJointOverspend == Committed =< peak

(* The reservation of an execution is still held, for the full amount,     *)
(* when its fill arrives: neither the TTL, nor a window roll-over, nor a   *)
(* refused check of another execution has removed it.                      *)
HoldSurvivesFlight ==
    \A e \in InFlight :
        hold[e] = [amount |-> exec[e].totalCost, createdAt |-> exec[e].startedAt]

(* "Books stay truthful": no order of the current window is missing from   *)
(* spentToday, whatever order fills, resets and change events come in.     *)
BooksTruthful == WindowCost =< session.spentToday

(* A lowered limit binds at once: no step raises the commitment above the  *)
(* cap then in force, even with executions in flight from before.          *)
CommitWithinCap ==
    [][Committed' > Committed => Committed' =< limits'.dailyVolumeCap]_vars

(* After a revocation or expiry nothing reactivates the session, a stale   *)
(* row image included, and no execution can take off any more.             *)
RevocationIsFinal ==
    [][~session.isActive => ~session'.isActive /\ InFlight' \subseteq InFlight]_vars

(* The budget a session stands for: its reservations, window, row and      *)
(* change events are the gate's own affair.                                *)
Budget == INSTANCE TradeBudget WITH
    Caps <- {l.dailyVolumeCap : l \in RiskLimits},
    committed <- Committed, cap <- limits.dailyVolumeCap, open <- session.isActive

(* validateTradeAllowance, reserveTradeSpend and consumeReservation        *)
(* implement that budget: nothing is committed beyond the cap of that      *)
(* moment, a cap lowered under executions in flight included, nor in a     *)
(* session that was ever revoked or has expired.                           *)
ImplementsTradeBudget == Budget!Spec
=============================================================================
