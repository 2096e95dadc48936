--------------------------- MODULE SessionSpendProofs ---------------------------
(* For every number of executions, every limit setting, window, TTL and    *)
(* latency with MaxLatency =< ReservationTtl: the gate of SessionSpend is  *)
(* type-correct, keeps the hold of every execution in flight, keeps its    *)
(* books and never lets executions jointly overspend.  With any number of  *)
(* reconciling requests and restarts (SpendReconcile), no change event     *)
(* loosens the gate.                                                       *)
EXTENDS SpendReconcile, TotalsTheorems

USE SpendAssumption DEF Costs

(* Every step keeps the types.                                             *)
LEMMA TypeStep == TypeOK /\ [Next]_vars => TypeOK'
<1> SUFFICES ASSUME TypeOK, [Next]_vars PROVE TypeOK'
    OBVIOUS
<1> USE DEF TypeOK, SessionRows, Executions, Reservations, Orders
<1>n. NoSpend(session) \in SessionRows
    BY DEF NoSpend
<1>w. \A r, s \in SessionRows : WithSpend(r, s) \in SessionRows
    BY DEF WithSpend
<1>r. ASSUME RollWindow
      PROVE  session' \in SessionRows /\ booked' \subseteq Execs
             /\ row' \in SessionRows /\ wire' \subseteq SessionRows
    BY <1>r, <1>n, <1>w DEF RollWindow, Persist
<1>p. Pruned \in [Execs -> Reservations \cup {None}]
    BY DEF Pruned
<1>1. CASE CheckExpired
    BY <1>1 DEF CheckExpired
<1>2. ASSUME NEW c \in Costs, CheckAllowance(c) PROVE TypeOK'
    BY <1>2, <1>r, <1>p DEF CheckAllowance
<1>3. ASSUME NEW e \in Execs, NEW c \in Costs, Reserve(e, c) PROVE TypeOK'
    BY <1>3, <1>r, <1>p DEF Reserve
<1>4. ASSUME NEW e \in Execs, NEW a \in Costs, Fill(e, a) PROVE TypeOK'
    BY <1>4 DEF Fill
<1>5. ASSUME NEW e \in Execs, Abandon(e) PROVE TypeOK'
    BY <1>5 DEF Abandon
<1>6. ASSUME NEW l \in RiskLimits, UpdateSessionRisk(l) PROVE TypeOK'
    BY <1>6 DEF UpdateSessionRisk, Larger, Persist
<1>7. CASE ResetSpend
    BY <1>7, <1>n, <1>w DEF ResetSpend, Persist
<1>8. CASE RevokeSession
    BY <1>8 DEF RevokeSession, Persist
<1>9. ASSUME NEW img \in wire, DeliverChange(img) PROVE TypeOK'
    BY <1>9 DEF DeliverChange, Larger
<1>10. CASE Tick
    BY <1>10 DEF Tick
<1>11. CASE UNCHANGED vars
    BY <1>11 DEF vars
<1> QED BY <1>1, <1>2, <1>3, <1>4, <1>5, <1>6, <1>7, <1>8, <1>9, <1>10, <1>11 DEF Next

(* Every variable keeps its type, whatever the constants.                  *)
THEOREM TypeCorrect == Spec => []TypeOK
<1>1. Init => TypeOK
    BY DEF Init, TypeOK, SessionRows, Executions
<1> QED BY <1>1, TypeStep, PTL DEF Spec
-----------------------------------------------------------------------------
(* The strengthening.  NoJointOverspend needs that the commitment counted  *)
(* by the gate (spentToday plus the live reservations) covers the real one *)
(* (orders of the window plus executions in flight): the books miss no     *)
(* order, and no execution in flight has lost its hold.  A hold is lost    *)
(* only to the TTL, so that the age of an execution must be bounded too.   *)

FlightsAreYoung ==
    \A e \in InFlight : /\ exec[e].totalCost \in Costs
                        /\ exec[e].startedAt =< now
                        /\ now - exec[e].startedAt =< MaxLatency

BookedHaveOrders ==
    \A e \in booked : exec[e].pc = "booked" /\ order[e] # None

GateInv ==
    /\ TypeOK
    /\ HoldSurvivesFlight
    /\ FlightsAreYoung
    /\ BookedHaveOrders
    /\ limits.dailyVolumeCap =< peak
    /\ BooksTruthful
    /\ NoJointOverspend

-----------------------------------------------------------------------------
(* The sums of the model are natural numbers.                              *)
LEMMA SumsAreNaturals ==
    ASSUME TypeOK, BookedHaveOrders
    PROVE  /\ [e \in InFlight |-> exec[e].totalCost] \in [InFlight -> 0..MaxCost]
           /\ IsFiniteSet(Units([e \in InFlight |-> exec[e].totalCost]))
           /\ Outstanding \in Nat
           /\ [e \in booked |-> order[e].totalCost] \in [booked -> 0..MaxCost]
           /\ IsFiniteSet(Units([e \in booked |-> order[e].totalCost]))
           /\ WindowCost \in Nat
           /\ [e \in Live |-> hold[e].amount] \in [Live -> 0..MaxCost]
           /\ IsFiniteSet(Units([e \in Live |-> hold[e].amount]))
           /\ LiveReservationTotal \in Nat
<1>1. IsFiniteSet(InFlight) /\ IsFiniteSet(booked) /\ IsFiniteSet(Live)
    BY FS_Subset DEF InFlight, Live, TypeOK
<1>2. [e \in InFlight |-> exec[e].totalCost] \in [InFlight -> 0..MaxCost]
    BY DEF InFlight, TypeOK, Executions
<1>3. [e \in booked |-> order[e].totalCost] \in [booked -> 0..MaxCost]
    BY DEF BookedHaveOrders, TypeOK, Orders
<1>4. [e \in Live |-> hold[e].amount] \in [Live -> 0..MaxCost]
    BY DEF Live, TypeOK, Reservations
<1>5. MaxCost \in Nat
    OBVIOUS
<1> QED BY <1>1, <1>2, <1>3, <1>4, <1>5, TotalType
        DEF Outstanding, WindowCost, CostOf, LiveReservationTotal

(* Every execution in flight has a live reservation of at least its cost.  *)
LEMMA ReservationsCoverFlights ==
    ASSUME TypeOK, BookedHaveOrders, HoldSurvivesFlight, FlightsAreYoung
    PROVE  InFlight \subseteq Live /\ Outstanding =< LiveReservationTotal
<1> DEFINE f == [e \in InFlight |-> exec[e].totalCost]
           g == [e \in Live |-> hold[e].amount]
<1>1. ASSUME NEW e \in InFlight PROVE e \in Live /\ f[e] =< g[e]
    <2>1. /\ hold[e] = [amount |-> exec[e].totalCost, createdAt |-> exec[e].startedAt]
          /\ exec[e].totalCost \in Costs
          /\ now - exec[e].startedAt =< MaxLatency
          /\ exec[e].startedAt \in Nat
          /\ now \in Nat
        BY DEF HoldSurvivesFlight, FlightsAreYoung, TypeOK, Executions, InFlight
    <2>2. hold[e] \in Reservations /\ hold[e] # None
        BY <2>1 DEF Reservations
    <2>3. e \in Live
        BY <2>1, <2>2 DEF Live, InFlight
    <2> QED BY <2>1, <2>3
<1>2. f \in [InFlight -> Nat] /\ g \in [Live -> Nat] /\ IsFiniteSet(Units(g))
    <2>1. f \in [InFlight -> 0..MaxCost] /\ g \in [Live -> 0..MaxCost]
        BY SumsAreNaturals
    <2> QED BY <2>1, SumsAreNaturals
<1>3. InFlight \subseteq Live
    BY <1>1
<1>4. Total(f) =< Total(g)
    <2> HIDE DEF f, g
    <2> QED BY <1>1, <1>2, <1>3, TotalMonotone
<1> QED BY <1>3, <1>4 DEF Outstanding, LiveReservationTotal
-----------------------------------------------------------------------------
(* What a step must establish beside its type.                             *)
StepFact == GateInv' /\ (Committed' > Committed => Committed' =< limits'.dailyVolumeCap)

(* Steps that touch neither the executions, their holds and orders nor the *)
(* window, nor lower the spend, the limits aside.                          *)
LEMMA QuietStep ==
    ASSUME GateInv, TypeOK', now' = now, exec' = exec, order' = order,
           \A e \in InFlight : hold'[e] = hold[e],
           booked' = booked \/ booked' = {},
           limits'.dailyVolumeCap =< peak',
           peak' >= peak,
           booked' # {} => session'.spentToday >= session.spentToday
    PROVE  StepFact /\ Committed' =< Committed
<1> USE DEF GateInv
<1>1. InFlight' = InFlight /\ Outstanding' = Outstanding
    BY DEF InFlight, Outstanding
<1>2. HoldSurvivesFlight' /\ FlightsAreYoung' /\ BookedHaveOrders'
    BY <1>1 DEF HoldSurvivesFlight, FlightsAreYoung, BookedHaveOrders
<1>3. WindowCost \in Nat /\ WindowCost' \in Nat /\ Outstanding \in Nat
    <2>1. WindowCost \in Nat /\ Outstanding \in Nat
        BY SumsAreNaturals
    <2>2. (TypeOK /\ BookedHaveOrders => WindowCost \in Nat)'
        BY SumsAreNaturals, PTL
    <2> QED BY <1>2, <2>1, <2>2
<1>4. WindowCost' =< WindowCost /\ BooksTruthful'
    <2>1. CASE booked' = booked /\ booked' # {}
        <3>1. WindowCost' = WindowCost
            BY <2>1 DEF WindowCost, CostOf
        <3> QED BY <1>3, <2>1, <3>1 DEF BooksTruthful, TypeOK, SessionRows
    <2>2. CASE booked' = {}
        <3>1. WindowCost' = 0
            BY <2>2, TotalEmpty DEF WindowCost, CostOf
        <3> QED BY <1>3, <3>1 DEF BooksTruthful, TypeOK, SessionRows
    <2> QED BY <2>1, <2>2
<1>5. Committed' =< Committed /\ Committed \in Nat /\ Committed' \in Nat
    <2>1. Committed = WindowCost + Outstanding /\ Committed' = WindowCost' + Outstanding'
        BY DEF Committed
    <2>2. PICK w \in Nat : w = WindowCost'
        BY <1>3
    <2>3. w =< WindowCost /\ Committed' = w + Outstanding
        BY <1>1, <1>4, <2>1, <2>2
    <2> QED BY <1>3, <2>1, <2>3
<1>6. Committed =< peak /\ peak \in Nat /\ peak' \in Nat
    BY DEF NoJointOverspend, TypeOK
<1>7. NoJointOverspend'
    <2>1. PICK w \in Nat, p \in Nat : w = Committed' /\ p = peak'
        BY <1>5, <1>6
    <2>2. w =< p
        BY <1>5, <1>6, <2>1
    <2> QED BY <2>1, <2>2 DEF NoJointOverspend
<1> QED BY <1>2, <1>4, <1>5, <1>7 DEF StepFact

(* The roll-over empties the window and the spend together, or neither.    *)
LEMMA RollStep ==
    ASSUME GateInv, RollWindow
    PROVE  /\ booked' = booked \/ booked' = {}
           /\ session'.spentToday = SpentAfterRoll
           /\ booked' # {} => session'.spentToday = session.spentToday
<1>1. CASE WindowOver
    BY <1>1 DEF GateInv, TypeOK, SessionRows, RollWindow, NoSpend, SpentAfterRoll
<1>2. CASE ~WindowOver
    BY <1>2 DEF RollWindow, SpentAfterRoll
<1> QED BY <1>1, <1>2

(* Pruning spares the executions in flight.                                *)
LEMMA PruneSparesFlights ==
    ASSUME GateInv
    PROVE  \A e \in InFlight : Pruned[e] = hold[e]
BY ReservationsCoverFlights DEF GateInv, Pruned, InFlight

(* Time passes: no execution outlives its hold, because it ends within     *)
(* MaxLatency.                                                             *)
LEMMA TickStep == GateInv /\ TypeOK' /\ Tick => StepFact /\ Committed' =< Committed
<1> SUFFICES ASSUME GateInv, TypeOK', Tick PROVE StepFact /\ Committed' =< Committed
    OBVIOUS
<1> USE DEF GateInv
<1>1. InFlight' = InFlight /\ Committed' = Committed
    BY DEF Tick, InFlight, Committed, Outstanding, WindowCost, CostOf
<1>2. HoldSurvivesFlight' /\ BookedHaveOrders' /\ BooksTruthful' /\ NoJointOverspend'
    BY <1>1 DEF Tick, HoldSurvivesFlight, BookedHaveOrders, BooksTruthful, NoJointOverspend,
                WindowCost, CostOf
<1>3. FlightsAreYoung'
    BY <1>1 DEF Tick, FlightsAreYoung, TypeOK, Executions, InFlight
<1>4. Committed \in Nat
    BY SumsAreNaturals DEF Committed
<1> QED BY <1>1, <1>2, <1>3, <1>4 DEF StepFact, Tick

(* A new hold: the check of the gate bounds the commitment it adds.        *)
LEMMA ReserveStep ==
    ASSUME NEW e \in Execs, NEW c \in Costs, GateInv, TypeOK', Reserve(e, c)
    PROVE  StepFact
<1> USE DEF GateInv
<1>1. InFlight' = InFlight \cup {e} /\ e \notin InFlight /\ e \notin booked
    BY DEF Reserve, InFlight, TypeOK, Executions, BookedHaveOrders
<1>2. \A x \in InFlight : exec'[x] = exec[x] /\ hold'[x] = hold[x]
    BY <1>1, PruneSparesFlights DEF Reserve, InFlight, TypeOK, Pruned
<1>3. exec'[e] = [pc |-> "flight", totalCost |-> c, startedAt |-> now]
      /\ hold'[e] = [amount |-> c, createdAt |-> now]
    BY DEF Reserve, TypeOK, Pruned
<1>4. HoldSurvivesFlight'
    BY <1>1, <1>2, <1>3 DEF HoldSurvivesFlight
<1>5. FlightsAreYoung'
    BY <1>1, <1>2, <1>3 DEF FlightsAreYoung, Reserve, TypeOK
<1>6. booked' = booked \/ booked' = {}
    BY RollStep DEF Reserve
<1>7. BookedHaveOrders'
    BY <1>1, <1>6 DEF BookedHaveOrders, Reserve, TypeOK
<1>8. Outstanding' = Outstanding + c
    <2> DEFINE f == [x \in InFlight |-> exec[x].totalCost]
               g == [x \in InFlight \cup {e} |-> exec'[x].totalCost]
    <2>1. f \in [InFlight -> 0..MaxCost] /\ IsFiniteSet(Units(f))
        BY SumsAreNaturals
    <2>2. f \in [InFlight -> Nat]
        BY <2>1
    <2>3. g[e] = c /\ \A x \in InFlight : g[x] = f[x]
        BY <1>2, <1>3
    <2>4. g \in [InFlight \cup {e} -> Nat]
        BY DEF TypeOK, Executions, InFlight
    <2>5. Total(g) = Total(f) + g[e]
        <3> HIDE DEF f, g
        <3>1. e \notin InFlight
            BY <1>1
        <3> QED BY ONLY <3>1, <2>1, <2>2, <2>3, <2>4, TotalExtend
    <2>6. Outstanding' = Total(g) /\ Outstanding = Total(f)
        BY <1>1 DEF Outstanding
    <2> QED BY <2>3, <2>5, <2>6
<1>9. WindowCost \in Nat /\ Outstanding \in Nat /\ LiveReservationTotal \in Nat
    BY SumsAreNaturals
<1>10. WindowCost' \in Nat /\ WindowCost' =< SpentAfterRoll /\ session'.spentToday = SpentAfterRoll
    <2>1. session'.spentToday = SpentAfterRoll /\ order' = order
        BY RollStep DEF Reserve
    <2>2. CASE booked' = {}
        <3>1. WindowCost' = 0
            BY <2>2, TotalEmpty DEF WindowCost, CostOf
        <3> QED BY <2>1, <3>1 DEF TypeOK, SessionRows
    <2>3. CASE booked' = booked /\ booked # {}
        <3>1. WindowCost' = WindowCost
            BY <2>1, <2>3 DEF WindowCost, CostOf
        <3>2. SpentAfterRoll = session.spentToday
            BY <2>1, <2>3, RollStep DEF Reserve
        <3> QED BY <1>9, <2>1, <3>1, <3>2 DEF BooksTruthful
    <2> QED BY <1>6, <2>2, <2>3
<1>11. SpentAfterRoll + LiveReservationTotal + c =< limits.dailyVolumeCap
       /\ limits' = limits /\ peak' = peak /\ limits.dailyVolumeCap \in Nat
       /\ SpentAfterRoll \in Nat
    BY DEF Reserve, TypeOK, SpentAfterRoll, SessionRows
<1>12. Outstanding =< LiveReservationTotal
    BY ReservationsCoverFlights
<1>13. Committed' =< limits'.dailyVolumeCap
    BY <1>8, <1>9, <1>10, <1>11, <1>12 DEF Committed
<1>14. NoJointOverspend' /\ BooksTruthful'
    BY <1>8, <1>9, <1>10, <1>11, <1>13 DEF NoJointOverspend, BooksTruthful, Committed, TypeOK
<1> QED BY <1>4, <1>5, <1>7, <1>11, <1>13, <1>14 DEF StepFact

(* A fill moves at most the quoted cost from the executions in flight to   *)
(* the orders of the window.                                               *)
LEMMA FillStep ==
    ASSUME NEW e \in Execs, NEW a \in Costs, GateInv, TypeOK', Fill(e, a)
    PROVE  StepFact /\ Committed' =< Committed
<1> USE DEF GateInv
<1>1. InFlight = InFlight' \cup {e} /\ e \notin InFlight' /\ e \notin booked
      /\ booked' = booked \cup {e}
    BY DEF Fill, InFlight, TypeOK, Executions, BookedHaveOrders
<1>2. /\ order'[e] = [totalCost |-> a, createdAt |-> now]
      /\ \A x \in booked : order'[x] = order[x]
      /\ \A x \in InFlight' : exec'[x] = exec[x] /\ hold'[x] = hold[x]
    BY <1>1 DEF Fill, TypeOK, InFlight
<1>3. HoldSurvivesFlight'
    BY <1>1, <1>2 DEF HoldSurvivesFlight
<1>4. FlightsAreYoung'
    BY <1>1, <1>2 DEF FlightsAreYoung, Fill
<1>5. BookedHaveOrders'
    <2>1. order'[e] \in Orders
        BY <1>2 DEF Orders, TypeOK
    <2>2. exec'[e].pc = "booked" /\ \A x \in booked : exec'[x] = exec[x]
        BY <1>1 DEF Fill, TypeOK, Executions
    <2> QED BY <1>1, <1>2, <2>1, <2>2 DEF BookedHaveOrders, Orders
<1>6. Outstanding = Outstanding' + exec[e].totalCost /\ Outstanding' \in Nat
    <2> DEFINE R == InFlight \ {e}
               f == [x \in R |-> exec[x].totalCost]
               g == [x \in InFlight |-> exec[x].totalCost]
    <2>1. f \in [R -> 0..MaxCost] /\ IsFiniteSet(R)
        BY FS_Subset DEF TypeOK, Executions, InFlight
    <2>2. IsFiniteSet(Units(f)) /\ Total(f) \in Nat /\ f \in [R -> Nat]
        <3> HIDE DEF f, R
        <3>1. MaxCost \in Nat
            OBVIOUS
        <3> QED BY <2>1, <3>1, TotalType
    <2>3. g \in [InFlight -> 0..MaxCost]
        BY SumsAreNaturals
    <2>4. R \cup {e} = InFlight /\ e \notin R /\ R = InFlight'
        BY <1>1
    <2>5. g \in [R \cup {e} -> Nat] /\ \A x \in R : g[x] = f[x]
        BY <2>3, <2>4
    <2>6. Total(g) = Total(f) + g[e]
        <3>1. e \notin DOMAIN f /\ DOMAIN g = DOMAIN f \cup {e} /\ g[e] \in Nat
              /\ \A x \in DOMAIN f : g[x] = f[x]
            BY <2>3, <2>4, <2>5
        <3> HIDE DEF f, g, R
        <3> QED BY <2>2, <3>1, TotalExtend
    <2>7. g[e] = exec[e].totalCost /\ Total(g) = Outstanding
        BY <1>1 DEF Outstanding
    <2>8. f = [x \in InFlight' |-> exec'[x].totalCost]
        BY <1>2, <2>4
    <2>9. Total(f) = Outstanding'
        BY <2>8 DEF Outstanding
    <2> QED BY <2>2, <2>6, <2>7, <2>9
<1>7. WindowCost' = WindowCost + a
    <2> DEFINE f == [x \in booked |-> order[x].totalCost]
               g == [x \in booked \cup {e} |-> order'[x].totalCost]
    <2>1. f \in [booked -> 0..MaxCost] /\ IsFiniteSet(Units(f))
        BY SumsAreNaturals
    <2>2. f \in [booked -> Nat]
        BY <2>1
    <2>3. g[e] = a /\ \A x \in booked : g[x] = f[x]
        BY <1>2
    <2>4. g \in [booked \cup {e} -> Nat]
        BY <2>2, <2>3
    <2>5. Total(g) = Total(f) + g[e]
        <3>1. e \notin DOMAIN f /\ DOMAIN g = DOMAIN f \cup {e} /\ g[e] \in Nat
              /\ \A x \in DOMAIN f : g[x] = f[x]
            BY <1>1, <2>3
        <3> HIDE DEF f, g
        <3> QED BY <2>1, <3>1, TotalExtend
    <2>6. WindowCost' = Total(g) /\ WindowCost = Total(f)
        BY <1>1 DEF WindowCost, CostOf
    <2> QED BY <2>3, <2>5, <2>6
<1>8. WindowCost \in Nat /\ exec[e].totalCost \in Nat /\ a =< exec[e].totalCost
    BY SumsAreNaturals DEF Fill, TypeOK, Executions
<1>9. BooksTruthful'
    BY <1>7, <1>8 DEF Fill, BooksTruthful, TypeOK, SessionRows
<1>10. Committed' =< Committed /\ Committed \in Nat /\ Committed' \in Nat
    <2>1. PICK o \in Nat, w \in Nat : o = Outstanding' /\ w = WindowCost'
        BY <1>6, <1>7, <1>8
    <2>2. Committed' = w + o
        BY <2>1 DEF Committed
    <2>3. w = WindowCost + a
        BY <1>7, <2>1
    <2>4. Committed = WindowCost + (o + exec[e].totalCost)
        BY <1>6, <2>1 DEF Committed
    <2>5. w + o \in Nat /\ WindowCost + (o + exec[e].totalCost) \in Nat
          /\ w + o =< WindowCost + (o + exec[e].totalCost)
        BY ONLY <1>8, <2>3, o \in Nat, w \in Nat, a \in Nat
    <2> QED BY <2>2, <2>4, <2>5
<1>11. NoJointOverspend' /\ limits' = limits /\ peak' = peak
    <2>1. PICK w \in Nat : w = Committed'
        BY <1>10
    <2>2. w =< Committed /\ peak' = peak /\ peak \in Nat /\ Committed =< peak
        BY <1>10, <2>1 DEF Fill, NoJointOverspend, TypeOK
    <2>3. w =< peak
        BY <1>10, <2>2
    <2> QED BY <2>1, <2>2, <2>3 DEF NoJointOverspend, Fill
<1> QED BY <1>3, <1>4, <1>5, <1>9, <1>10, <1>11 DEF StepFact

(* A dying execution takes its claim with it.                              *)
LEMMA AbandonStep ==
    ASSUME NEW e \in Execs, GateInv, TypeOK', Abandon(e)
    PROVE  StepFact /\ Committed' =< Committed
<1> USE DEF GateInv
<1>1. InFlight' \subseteq InFlight /\ e \notin booked
      /\ \A x \in InFlight' : exec'[x] = exec[x]
    BY DEF Abandon, InFlight, TypeOK, Executions, BookedHaveOrders
<1>2. HoldSurvivesFlight' /\ FlightsAreYoung'
    BY <1>1 DEF HoldSurvivesFlight, FlightsAreYoung, Abandon
<1>3. BookedHaveOrders'
    BY <1>1 DEF BookedHaveOrders, Abandon, TypeOK
<1>4. WindowCost' = WindowCost /\ BooksTruthful'
    BY DEF Abandon, WindowCost, CostOf, BooksTruthful
<1>5. Outstanding' \in Nat /\ Outstanding' =< Outstanding
    <2> DEFINE f == [x \in InFlight' |-> exec[x].totalCost]
               g == [x \in InFlight |-> exec[x].totalCost]
    <2>1. g \in [InFlight -> 0..MaxCost] /\ IsFiniteSet(Units(g))
        BY SumsAreNaturals
    <2>2. f \in [InFlight' -> 0..MaxCost] /\ IsFiniteSet(InFlight')
        <3>1. IsFiniteSet(InFlight)
            BY FS_Subset DEF InFlight
        <3> QED BY <1>1, <2>1, <3>1, FS_Subset
    <2>3. f \in [InFlight' -> Nat] /\ g \in [InFlight -> Nat]
          /\ \A x \in InFlight' : f[x] =< g[x]
        <3>1. \A x \in InFlight' : f[x] = g[x] /\ g[x] \in Nat
            BY <1>1, <2>1
        <3> QED BY <2>1, <2>2, <3>1
    <2>4. MaxCost \in Nat
        OBVIOUS
    <2>5. Total(f) \in Nat /\ Total(f) =< Total(g)
        <3> HIDE DEF f, g
        <3> QED BY <1>1, <2>1, <2>2, <2>3, <2>4, TotalType, TotalMonotone
    <2>6. f = [x \in InFlight' |-> exec'[x].totalCost]
        BY <1>1
    <2>7. Total(f) = Outstanding' /\ Total(g) = Outstanding
        BY <2>6 DEF Outstanding
    <2> QED BY <2>5, <2>7
<1>6. Committed' =< Committed /\ Committed \in Nat /\ Committed' \in Nat
    <2>1. PICK o \in Nat : o = Outstanding'
        BY <1>5
    <2>2. Committed' = WindowCost + o /\ Committed = WindowCost + Outstanding /\ o =< Outstanding
        BY <1>4, <1>5, <2>1 DEF Committed
    <2>3. WindowCost \in Nat /\ Outstanding \in Nat
        BY SumsAreNaturals
    <2>4. WindowCost + o \in Nat /\ WindowCost + Outstanding \in Nat
          /\ WindowCost + o =< WindowCost + Outstanding
        BY <2>2, <2>3
    <2> QED BY <2>2, <2>4
<1>7. NoJointOverspend'
    <2>1. PICK w \in Nat : w = Committed'
        BY <1>6
    <2>2. w =< Committed /\ peak' = peak /\ peak \in Nat /\ Committed =< peak
        BY <1>6, <2>1 DEF Abandon, NoJointOverspend, TypeOK
    <2>3. w =< peak
        BY <1>6, <2>2
    <2> QED BY <2>1, <2>2, <2>3 DEF NoJointOverspend
<1> QED BY <1>2, <1>3, <1>4, <1>6, <1>7 DEF StepFact, Abandon
-----------------------------------------------------------------------------
(* Every step keeps the strengthening and takes no commitment beyond the   *)
(* cap.                                                                    *)
LEMMA CommitmentStep ==
    ASSUME GateInv, [Next]_vars
    PROVE  StepFact /\ (Committed' =< Committed \/ \E e \in Execs, c \in Costs : Reserve(e, c))
<1> DEFINE Release == StepFact /\ Committed' =< Committed
<1>t. TypeOK' /\ TypeOK
    BY TypeStep DEF GateInv
<1>l. limits.dailyVolumeCap =< peak /\ peak \in Nat /\ limits.dailyVolumeCap \in Nat
    BY DEF GateInv, TypeOK
<1>1. CASE CheckExpired
    BY <1>1, <1>t, <1>l, QuietStep DEF CheckExpired, TypeOK, SessionRows
<1>2. ASSUME NEW c \in Costs, CheckAllowance(c) PROVE Release
    <2>1. booked' = booked \/ booked' = {}
        BY <1>2, RollStep DEF CheckAllowance
    <2>2. booked' # {} => session'.spentToday >= session.spentToday
        BY <1>2, <1>t, RollStep DEF CheckAllowance, TypeOK, SessionRows
    <2>3. \A e \in InFlight : hold'[e] = hold[e]
        BY <1>2, PruneSparesFlights DEF CheckAllowance
    <2> QED BY <1>2, <1>t, <1>l, <2>1, <2>2, <2>3, QuietStep DEF CheckAllowance
<1>3. ASSUME NEW e \in Execs, NEW c \in Costs, Reserve(e, c) PROVE StepFact
    BY <1>3, <1>t, ReserveStep
<1>4. ASSUME NEW e \in Execs, NEW a \in Costs, Fill(e, a) PROVE Release
    BY <1>4, <1>t, FillStep
<1>5. ASSUME NEW e \in Execs, Abandon(e) PROVE Release
    BY <1>5, <1>t, AbandonStep
<1>6. ASSUME NEW l \in RiskLimits, UpdateSessionRisk(l) PROVE Release
    <2>1. limits'.dailyVolumeCap =< peak' /\ peak' >= peak
        BY <1>6, <1>l DEF UpdateSessionRisk, Larger
    <2> QED BY <1>6, <1>t, <2>1, QuietStep DEF UpdateSessionRisk, TypeOK, SessionRows
<1>7. CASE ResetSpend
    BY <1>7, <1>t, <1>l, QuietStep DEF ResetSpend
<1>8. CASE RevokeSession
    BY <1>8, <1>t, <1>l, QuietStep DEF RevokeSession, TypeOK, SessionRows
<1>9. ASSUME NEW img \in wire, DeliverChange(img) PROVE Release
    <2>1. booked' = booked \/ booked' = {}
        BY <1>9 DEF DeliverChange
    <2>2. booked' # {} => session'.spentToday >= session.spentToday
        <3>1. booked' # {} => session'.spentToday = Larger(session.spentToday, img.spentToday)
            BY <1>9, <1>t DEF DeliverChange, TypeOK, SessionRows
        <3> QED BY <1>t, <3>1 DEF Larger, TypeOK, SessionRows
    <2> QED BY <1>9, <1>t, <1>l, <2>1, <2>2, QuietStep DEF DeliverChange
<1>10. CASE Tick
    BY <1>10, <1>t, TickStep
<1>11. CASE UNCHANGED vars
    BY <1>11, <1>t, <1>l, QuietStep DEF vars, TypeOK, SessionRows
<1> QED BY <1>1, <1>2, <1>3, <1>4, <1>5, <1>6, <1>7, <1>8, <1>9, <1>10, <1>11 DEF Next

(* It holds at first, when there is no order and no hold.                  *)
LEMMA GateInit == Init => GateInv
<1> SUFFICES ASSUME Init PROVE GateInv
    OBVIOUS
<1>1. TypeOK
    BY DEF Init, TypeOK, SessionRows, Executions
<1>2. InFlight = {} /\ booked = {}
    BY DEF Init, InFlight
<1>3. Outstanding = 0 /\ WindowCost = 0
    BY <1>2, TotalEmpty DEF Outstanding, WindowCost, CostOf
<1>4. limits.dailyVolumeCap \in Nat /\ peak = limits.dailyVolumeCap /\ session.spentToday = 0
    BY DEF Init
<1> QED BY <1>1, <1>2, <1>3, <1>4
        DEF GateInv, HoldSurvivesFlight, FlightsAreYoung, BookedHaveOrders, BooksTruthful,
            NoJointOverspend, Committed

(* The strengthening is an invariant.                                      *)
LEMMA GateInvariant == Spec => []GateInv
<1>1. GateInv /\ [Next]_vars => GateInv'
    BY CommitmentStep DEF StepFact
<1> QED BY <1>1, GateInit, PTL DEF Spec

(* Concurrent executions never jointly overspend: for any number of        *)
(* executions and any limits, orders booked in the window and executions   *)
(* in flight stay within the largest cap the owner granted.                *)
THEOREM GateHolds == Spec => []NoJointOverspend
BY GateInvariant, PTL DEF GateInv

(* No execution in flight ever loses its hold.                             *)
THEOREM HoldsSurvive == Spec => []HoldSurvivesFlight
BY GateInvariant, PTL DEF GateInv

(* No order of the window is ever missing from spentToday.                 *)
THEOREM BooksStayTruthful == Spec => []BooksTruthful
BY GateInvariant, PTL DEF GateInv

(* No step raises the commitment above the cap in force when it is taken.  *)
THEOREM LimitsBind == Spec => CommitWithinCap
<1>1. GateInv /\ [Next]_vars =>
        [Committed' > Committed => Committed' =< limits'.dailyVolumeCap]_vars
    BY CommitmentStep DEF StepFact
<1> QED BY <1>1, GateInvariant, PTL DEF Spec, CommitWithinCap

(* Once inactive, a session stays so and no execution takes off in it.     *)
LEMMA InactiveStays ==
    ASSUME TypeOK, [Next]_vars, ~session.isActive
    PROVE  ~session'.isActive /\ InFlight' \subseteq InFlight
<1> USE DEF InFlight
<1>1. ASSUME exec' = exec PROVE InFlight' \subseteq InFlight
    BY <1>1
<1>2. CASE Tick \/ UNCHANGED vars
    BY <1>1, <1>2 DEF Tick, vars
<1>3. ASSUME NEW e \in Execs, NEW a \in Costs, Fill(e, a)
      PROVE  ~session'.isActive /\ InFlight' \subseteq InFlight
    BY <1>3 DEF Fill, TypeOK, SessionRows, Executions
<1>4. ASSUME NEW e \in Execs, Abandon(e)
      PROVE  ~session'.isActive /\ InFlight' \subseteq InFlight
    BY <1>4 DEF Abandon, TypeOK, Executions
<1>5. ASSUME NEW img \in wire, DeliverChange(img)
      PROVE  ~session'.isActive /\ InFlight' \subseteq InFlight
    BY <1>1, <1>5 DEF DeliverChange, TypeOK, SessionRows
<1> QED BY <1>2, <1>3, <1>4, <1>5
        DEF Next, CheckExpired, CheckAllowance, Reserve, Permitted, UpdateSessionRisk,
            ResetSpend, RevokeSession

(* An inactive session stays inactive and lets nothing take off.           *)
THEOREM RevokedForGood == Spec => RevocationIsFinal
<1> DEFINE A == ~session.isActive => ~session'.isActive /\ InFlight' \subseteq InFlight
<1>1. TypeOK /\ [Next]_vars => [A]_vars
    BY InactiveStays
<1> QED BY <1>1, TypeCorrect, PTL DEF Spec, RevocationIsFinal
-----------------------------------------------------------------------------
(* The gate implements the budget, step by step: a reservation commits, a  *)
(* change of the limits sets the cap, and every other step releases or     *)
(* leaves the budget as it is.                                             *)

(* A gate that begins has committed nothing.                               *)
LEMMA BudgetInit == Init => Budget!Init
<1> SUFFICES ASSUME Init PROVE Budget!Init
    OBVIOUS
<1>1. InFlight = {} /\ booked = {}
    BY DEF Init, InFlight
<1>2. Committed = 0
    BY <1>1, TotalEmpty DEF Committed, Outstanding, WindowCost, CostOf
<1> QED BY <1>2 DEF Init, Budget!Init

(* Commitments can be compared.                                            *)
LEMMA CommitmentIsNatural == GateInv => Committed \in Nat
BY SumsAreNaturals DEF GateInv, Committed

(* Every step of the gate is a step of the budget or leaves it unchanged.  *)
LEMMA BudgetStep ==
    ASSUME GateInv, [Next]_vars
    PROVE  [Budget!Next]_(Budget!budgetVars)
<1>t. TypeOK /\ TypeOK'
    BY TypeStep DEF GateInv
<1>a. session.isActive \in BOOLEAN /\ session'.isActive \in BOOLEAN
    BY <1>t DEF TypeOK, SessionRows
<1>n. Committed \in Nat /\ Committed' \in Nat
    <2>1. (GateInv => Committed \in Nat)'
        BY CommitmentIsNatural, PTL
    <2> QED BY <2>1, CommitmentIsNatural, CommitmentStep DEF StepFact
<1>1. ASSUME NEW e \in Execs, NEW c \in Costs, Reserve(e, c) PROVE Budget!Next
    <2>1. session.isActive /\ limits' = limits
        BY <1>1 DEF Reserve, Permitted
    <2>2. session'.isActive = session.isActive
        <3>1. session' = NoSpend(session) \/ session' = session
            BY <1>1 DEF Reserve, RollWindow
        <3>2. session \in SessionRows
            BY <1>t DEF TypeOK
        <3> QED BY <3>1, <3>2 DEF NoSpend, SessionRows
    <2>3. Committed' > Committed => Committed' =< limits'.dailyVolumeCap
        BY CommitmentStep DEF StepFact
    <2>4. CASE Committed' > Committed
        BY <2>1, <2>2, <2>3, <2>4 DEF Budget!Next, Budget!Commit
    <2>5. CASE Committed' =< Committed
        BY <2>1, <2>2, <2>5 DEF Budget!Next, Budget!Release
    <2> QED BY <1>n, <2>4, <2>5
<1>2. ASSUME NEW l \in RiskLimits, UpdateSessionRisk(l) PROVE Budget!Next
    <2>1. Committed' = Committed
        BY <1>2 DEF UpdateSessionRisk, Committed, WindowCost, CostOf, Outstanding, InFlight
    <2> QED BY <1>2, <2>1 DEF UpdateSessionRisk, Budget!Next, Budget!SetCap
<1>3. ASSUME Committed' =< Committed, limits' = limits,
             ~session.isActive => ~session'.isActive
      PROVE  Budget!Next
    BY <1>3, <1>a DEF Budget!Next, Budget!Release
<1>4. CASE limits' # limits
    BY <1>2, <1>4 DEF Next, CheckExpired, CheckAllowance, Reserve, Fill, Abandon, ResetSpend,
                      RevokeSession, DeliverChange, Tick, vars
<1> QED BY <1>1, <1>3, <1>4, CommitmentStep, InactiveStays, <1>t

(* For any executions, limits, window, TTL and latency, every behaviour of *)
(* the gate is a behaviour of the abstract budget.                         *)
THEOREM GateImplementsBudget == Spec => ImplementsTradeBudget
<1>1. GateInv /\ [Next]_vars => [Budget!Next]_(Budget!budgetVars)
    BY BudgetStep
<1> QED BY <1>1, BudgetInit, GateInvariant, PTL DEF Spec, ImplementsTradeBudget, Budget!Spec

-----------------------------------------------------------------------------
(* The gate with reconciling requests and restarts.                        *)

(* A request has only seen orders that are recorded, and so has the table. *)
SeenIsRecorded ==
    /\ saved \subseteq Recorded
    /\ \A r \in Readers : reader[r].seen \subseteq Recorded

(* Neither the row nor any image of it on the channel has a later reset    *)
(* than memory, and memory none later than now.                            *)
RowsBehind ==
    /\ session.lastSpendResetTimestamp =< now
    /\ row.lastSpendResetTimestamp =< session.lastSpendResetTimestamp
    /\ \A img \in wire : img.lastSpendResetTimestamp =< session.lastSpendResetTimestamp

ReconcileInv == ReconcileTypeOK /\ SeenIsRecorded /\ RowsBehind

(* What the orders a request has seen have cost is a natural number.       *)
LEMMA SeenCost ==
    ASSUME ReconcileTypeOK, NEW S, S \subseteq Recorded
    PROVE  CostOf(S) \in Nat
<1> DEFINE f == [e \in S |-> order[e].totalCost]
<1>1. S \subseteq Execs
    BY DEF Recorded
<1>2. IsFiniteSet(S)
    BY <1>1, FS_Subset
<1>3. \A e \in S : order[e] \in Orders
    BY DEF Recorded, ReconcileTypeOK, TypeOK
<1>4. f \in [S -> 0..MaxCost] /\ MaxCost \in Nat
    BY <1>3 DEF Orders
<1> HIDE DEF f
<1>5. Total(f) \in Nat
    BY <1>2, <1>4, TotalType
<1> QED BY <1>5 DEF CostOf, f

(* A write puts the row, and its echo, no further ahead than memory.       *)
LEMMA PersistBehind ==
    ASSUME RowsBehind, NEW r \in SessionRows, Persist(r),
           session.lastSpendResetTimestamp \in Nat, now \in Nat, row \in SessionRows,
           wire \subseteq SessionRows,
           session'.lastSpendResetTimestamp \in {session.lastSpendResetTimestamp, now},
           r.lastSpendResetTimestamp =< session'.lastSpendResetTimestamp,
           now' = now
    PROVE  RowsBehind'
<1>1. row.lastSpendResetTimestamp \in Nat
      /\ \A img \in wire : img.lastSpendResetTimestamp \in Nat
      /\ r.lastSpendResetTimestamp \in Nat
    BY DEF SessionRows
<1>2. /\ session.lastSpendResetTimestamp =< now
      /\ row.lastSpendResetTimestamp =< session.lastSpendResetTimestamp
      /\ \A img \in wire : img.lastSpendResetTimestamp =< session.lastSpendResetTimestamp
    BY DEF RowsBehind
<1>3. /\ session'.lastSpendResetTimestamp =< now
      /\ row.lastSpendResetTimestamp =< session'.lastSpendResetTimestamp
      /\ \A img \in wire : img.lastSpendResetTimestamp =< session'.lastSpendResetTimestamp
    BY <1>1, <1>2
<1>4. CASE row' = r /\ wire' = wire \cup {r}
    BY <1>3, <1>4 DEF RowsBehind
<1>5. CASE UNCHANGED <<row, wire>>
    BY <1>3, <1>5 DEF RowsBehind
<1> QED BY <1>4, <1>5 DEF Persist

(* What the steps of the gate leave to the rest, and do with the orders.   *)
LEMMA GateKeepsOrders ==
    ASSUME TypeOK, [Next]_vars
    PROVE  Recorded \subseteq Recorded'
<1>1. CASE order' = order
    BY <1>1 DEF Recorded
<1>2. ASSUME NEW e \in Execs, NEW a \in Costs, Fill(e, a) PROVE Recorded \subseteq Recorded'
    <2>1. order' = [order EXCEPT ![e] = [totalCost |-> a, createdAt |-> now]]
        BY <1>2 DEF Fill
    <2>2. [totalCost |-> a, createdAt |-> now] # None
        BY DEF TypeOK
    <2> QED BY <2>1, <2>2 DEF Recorded, TypeOK
<1>3. ASSUME \A e \in Execs, a \in Costs : ~Fill(e, a) PROVE order' = order
    <2>1. ASSUME NEW c \in Costs, CheckAllowance(c) PROVE order' = order
        BY <2>1 DEF CheckAllowance
    <2>2. ASSUME NEW e \in Execs, NEW c \in Costs, Reserve(e, c) PROVE order' = order
        BY <2>2 DEF Reserve
    <2>3. ASSUME NEW e \in Execs, Abandon(e) PROVE order' = order
        BY <2>3 DEF Abandon
    <2>4. ASSUME NEW l \in RiskLimits, UpdateSessionRisk(l) PROVE order' = order
        BY <2>4 DEF UpdateSessionRisk
    <2>5. ASSUME NEW img \in wire, DeliverChange(img) PROVE order' = order
        BY <2>5 DEF DeliverChange
    <2>6. CheckExpired \/ ResetSpend \/ RevokeSession \/ Tick \/ UNCHANGED vars
            => order' = order
        BY DEF CheckExpired, ResetSpend, RevokeSession, Tick, vars
    <2> QED BY <1>3, <2>1, <2>2, <2>3, <2>4, <2>5, <2>6 DEF Next
<1> QED BY <1>1, <1>2, <1>3

(* A window that rolls, in memory and in the row.                          *)
LEMMA RollBehind ==
    ASSUME TypeOK, TypeOK', RowsBehind, RollWindow, now' = now
    PROVE  RowsBehind'
<1> USE DEF TypeOK, SessionRows
<1>1. CASE WindowOver
    <2>1. /\ session'.lastSpendResetTimestamp = now
          /\ WithSpend(row, NoSpend(session)) \in SessionRows
          /\ WithSpend(row, NoSpend(session)).lastSpendResetTimestamp = now
        BY <1>1 DEF RollWindow, NoSpend, WithSpend
    <2>2. Persist(WithSpend(row, NoSpend(session)))
        BY <1>1 DEF RollWindow
    <2> QED BY <2>1, <2>2, PersistBehind
<1>2. CASE ~WindowOver
    BY <1>2 DEF RollWindow, RowsBehind
<1> QED BY <1>1, <1>2

(* The gate and the owner put no row ahead of memory; a change event       *)
(* cannot, because it takes the later of two resets.                       *)
LEMMA GateBehind ==
    ASSUME TypeOK, TypeOK', RowsBehind, [Next]_vars
    PROVE  RowsBehind'
<1> USE DEF TypeOK, SessionRows
<1>1. CASE CheckExpired
    BY <1>1 DEF CheckExpired, RowsBehind
<1>2. ASSUME NEW c \in Costs, CheckAllowance(c) PROVE RowsBehind'
    BY <1>2, RollBehind DEF CheckAllowance
<1>3. ASSUME NEW e \in Execs, NEW c \in Costs, Reserve(e, c) PROVE RowsBehind'
    BY <1>3, RollBehind DEF Reserve
<1>4. ASSUME NEW e \in Execs, NEW a \in Costs, Fill(e, a) PROVE RowsBehind'
    BY <1>4 DEF Fill, RowsBehind
<1>5. ASSUME NEW e \in Execs, Abandon(e) PROVE RowsBehind'
    BY <1>5 DEF Abandon, RowsBehind
<1>6. ASSUME NEW l \in RiskLimits, UpdateSessionRisk(l) PROVE RowsBehind'
    <2>1. UNCHANGED <<now, session>> /\ Persist(row)
        BY <1>6 DEF UpdateSessionRisk
    <2>2. row.lastSpendResetTimestamp =< session.lastSpendResetTimestamp
        BY DEF RowsBehind
    <2> QED BY <2>1, <2>2, PersistBehind
<1>7. CASE ResetSpend
    <2>1. /\ session'.lastSpendResetTimestamp = now
          /\ WithSpend(row, NoSpend(session)) \in SessionRows
          /\ WithSpend(row, NoSpend(session)).lastSpendResetTimestamp = now
        BY <1>7 DEF ResetSpend, NoSpend, WithSpend
    <2>2. Persist(WithSpend(row, NoSpend(session))) /\ now' = now
        BY <1>7 DEF ResetSpend
    <2> QED BY <2>1, <2>2, PersistBehind
<1>8. CASE RevokeSession
    <2> DEFINE r == [row EXCEPT !.isActive = FALSE]
    <2>1. /\ session'.lastSpendResetTimestamp = session.lastSpendResetTimestamp
          /\ r \in SessionRows /\ r.lastSpendResetTimestamp = row.lastSpendResetTimestamp
          /\ Persist(r) /\ now' = now
        BY <1>8 DEF RevokeSession
    <2>2. row.lastSpendResetTimestamp =< session.lastSpendResetTimestamp
        BY DEF RowsBehind
    <2> HIDE DEF r
    <2> QED BY <2>1, <2>2, PersistBehind
<1>9. ASSUME NEW img \in wire, DeliverChange(img) PROVE RowsBehind'
    <2>1. img.lastSpendResetTimestamp =< session.lastSpendResetTimestamp
        BY DEF RowsBehind
    <2>2. session'.lastSpendResetTimestamp = session.lastSpendResetTimestamp
        BY <1>9, <2>1 DEF DeliverChange, Larger
    <2>3. UNCHANGED <<now, row>> /\ wire' \subseteq wire
        BY <1>9 DEF DeliverChange
    <2> QED BY <2>2, <2>3 DEF RowsBehind
<1>10. CASE Tick
    BY <1>10 DEF Tick, RowsBehind
<1>11. CASE UNCHANGED vars
    BY <1>11 DEF vars, RowsBehind
<1> QED BY <1>1, <1>2, <1>3, <1>4, <1>5, <1>6, <1>7, <1>8, <1>9, <1>10, <1>11 DEF Next

(* A step of the gate, the database or the owner.                          *)
LEMMA GateReconciled ==
    ASSUME ReconcileInv, GateStep
    PROVE  ReconcileInv'
<1>1. TypeOK /\ [Next]_vars /\ UNCHANGED <<saved, reader, restarts>>
    BY DEF ReconcileInv, ReconcileTypeOK, GateStep
<1>2. TypeOK'
    BY <1>1, TypeStep
<1>3. ReconcileTypeOK'
    BY <1>1, <1>2 DEF ReconcileInv, ReconcileTypeOK
<1>4. SeenIsRecorded'
    BY <1>1, GateKeepsOrders DEF ReconcileInv, SeenIsRecorded
<1>5. RowsBehind'
    BY <1>1, <1>2, GateBehind DEF ReconcileInv
<1> QED BY <1>3, <1>4, <1>5 DEF ReconcileInv

(* A request that begins rolls the window and looks at the cache; then it  *)
(* reads the table.                                                        *)
LEMMA PollReconciled ==
    ASSUME ReconcileInv, NEW r \in Readers, BeginPoll(r) \/ QueryOrders(r)
    PROVE  ReconcileInv'
<1> DEFINE Place == [pc : {"idle", "querying", "answered"}, since : Nat, seen : SUBSET Execs]
<1> USE DEF ReconcileInv, ReconcileTypeOK
<1>1. CASE BeginPoll(r)
    <2>1. RollWindow /\ UNCHANGED <<now, limits, hold, exec, order, peak, saved, restarts>>
        BY <1>1 DEF BeginPoll
    <2>2. TypeOK'
        <3> USE DEF TypeOK, SessionRows
        <3>1. NoSpend(session) \in SessionRows
            BY DEF NoSpend
        <3>2. WithSpend(row, NoSpend(session)) \in SessionRows
            BY <3>1 DEF WithSpend
        <3>3. session' \in SessionRows /\ booked' \subseteq Execs
              /\ row' \in SessionRows /\ wire' \subseteq SessionRows
            BY <2>1, <3>1, <3>2 DEF RollWindow, Persist
        <3> QED BY <2>1, <3>3
    <2>3. PICK t \in Nat : t = session'.lastSpendResetTimestamp
        BY <2>2 DEF TypeOK, SessionRows
    <2>4. PICK S \in SUBSET Recorded : S = Since(Recorded, t)
        BY DEF Since
    <2>5. reader' = [reader EXCEPT ![r] = [pc |-> "querying", since |-> t, seen |-> S]]
        BY <1>1, <2>3, <2>4 DEF BeginPoll
    <2>6. [pc |-> "querying", since |-> t, seen |-> S] \in Place
        BY DEF Recorded
    <2>7. ReconcileTypeOK'
        BY <2>1, <2>2, <2>5, <2>6
    <2>8. SeenIsRecorded'
        BY <2>1, <2>5 DEF SeenIsRecorded, Recorded
    <2>9. RowsBehind'
        BY <2>1, <2>2, RollBehind
    <2> QED BY <2>7, <2>8, <2>9
<1>2. CASE QueryOrders(r)
    <2>1. UNCHANGED <<vars, saved, restarts>>
        BY <1>2 DEF QueryOrders
    <2>2. PICK found \in {{}, Since(saved, reader[r].since)} :
             reader' = [reader EXCEPT ![r].pc = "answered", ![r].seen = @ \cup found]
        BY <1>2 DEF QueryOrders
    <2>3. found \subseteq Recorded
        BY <2>2 DEF Since, SeenIsRecorded
    <2>4. reader[r] \in Place
        OBVIOUS
    <2>5. PICK q : q = [reader[r] EXCEPT !.pc = "answered", !.seen = @ \cup found]
        OBVIOUS
    <2>6. q \in Place /\ q.seen = reader[r].seen \cup found
        BY <2>3, <2>4, <2>5 DEF Recorded
    <2>7. reader' = [reader EXCEPT ![r] = q]
        BY <2>2, <2>4, <2>5
    <2>8. TypeOK' /\ RowsBehind' /\ Recorded' = Recorded
        BY <2>1 DEF vars, TypeOK, RowsBehind, Recorded
    <2>9. ReconcileTypeOK'
        BY <2>1, <2>6, <2>7, <2>8
    <2>10. SeenIsRecorded'
        BY <2>1, <2>3, <2>6, <2>7, <2>8 DEF SeenIsRecorded
    <2> QED BY <2>8, <2>9, <2>10
<1> QED BY <1>1, <1>2

(* The sum replaces the spend; only a sum of zero moves the reset, to now. *)
LEMMA ApplyReconciled ==
    ASSUME ReconcileInv, NEW r \in Readers, ApplySpend(r)
    PROVE  ReconcileInv'
<1> USE DEF ReconcileInv
<1>1. PICK c \in Nat : c = CostOf(reader[r].seen)
    BY SeenCost DEF SeenIsRecorded
<1>2. PICK s : s = [session EXCEPT
                      !.spentToday = c,
                      !.lastSpendResetTimestamp = IF c = 0 THEN now ELSE @]
    OBVIOUS
<1>3. s \in SessionRows /\ s.lastSpendResetTimestamp \in {session.lastSpendResetTimestamp, now}
    BY <1>2 DEF ReconcileTypeOK, TypeOK, SessionRows
<1>4. /\ WithSpend(row, s) \in SessionRows
      /\ WithSpend(row, s).lastSpendResetTimestamp = s.lastSpendResetTimestamp
    BY <1>3 DEF WithSpend, ReconcileTypeOK, TypeOK, SessionRows
<1>5. /\ (session' = s /\ Persist(WithSpend(row, s))) \/ UNCHANGED <<session, row, wire>>
      /\ reader' = [reader EXCEPT ![r] = Idle]
      /\ UNCHANGED <<now, limits, hold, exec, order, booked, peak, saved, restarts>>
    BY <1>1, <1>2 DEF ApplySpend
<1>6. session' \in SessionRows /\ row' \in SessionRows /\ wire' \subseteq SessionRows
    BY <1>3, <1>4, <1>5 DEF Persist, ReconcileTypeOK, TypeOK
<1>7. Idle \in [pc : {"idle", "querying", "answered"}, since : Nat, seen : SUBSET Execs]
      /\ Idle.seen = {}
    BY DEF Idle
<1>8. ReconcileTypeOK'
    BY <1>5, <1>6, <1>7 DEF ReconcileTypeOK, TypeOK
<1>9. SeenIsRecorded'
    BY <1>5, <1>7 DEF SeenIsRecorded, Recorded, ReconcileTypeOK
<1>10. CASE session' = s /\ Persist(WithSpend(row, s))
    <2>1. /\ session.lastSpendResetTimestamp \in Nat /\ now \in Nat
          /\ row \in SessionRows /\ wire \subseteq SessionRows
        BY DEF ReconcileTypeOK, TypeOK, SessionRows
    <2>2. WithSpend(row, s).lastSpendResetTimestamp =< session'.lastSpendResetTimestamp
        BY <1>3, <1>4, <1>10, <2>1
    <2>3. RowsBehind'
        BY <1>3, <1>4, <1>5, <1>8, <1>10, <2>1, <2>2, PersistBehind
    <2> QED BY <1>8, <1>9, <2>3
<1>11. CASE UNCHANGED <<session, row, wire>>
    BY <1>5, <1>8, <1>9, <1>11 DEF RowsBehind
<1> QED BY <1>5, <1>10, <1>11

(* A restart forgets what was on its way, and starts from the row.         *)
LEMMA RestartReconciled ==
    ASSUME ReconcileInv, Restart
    PROVE  ReconcileInv'
<1> USE DEF ReconcileInv
<1>1. TypeOK /\ saved \subseteq Recorded /\ saved \subseteq Execs
    BY DEF ReconcileTypeOK, SeenIsRecorded
<1> DEFINE stale == now - row.lastSpendResetTimestamp > Day
<1>3. PICK loaded : loaded = [row EXCEPT !.isActive = @ /\ ~Expired]
    OBVIOUS
<1>4. loaded \in SessionRows /\ loaded.lastSpendResetTimestamp = row.lastSpendResetTimestamp
    BY <1>1, <1>3 DEF TypeOK, SessionRows
<1>5. /\ restarts < MaxRestarts /\ restarts' = restarts + 1
      /\ session' = IF stale THEN NoSpend(loaded) ELSE loaded
      /\ booked' = IF stale THEN {} ELSE booked \cap saved
      /\ row' \in {row, IF stale THEN WithSpend(row, NoSpend(row)) ELSE row}
      /\ wire' = {}
      /\ hold' = [e \in Execs |-> None]
      /\ exec' = [e \in Execs |-> IF e \in InFlight THEN [exec[e] EXCEPT !.pc = "dead"]
                                                    ELSE exec[e]]
      /\ order' = [e \in Execs |-> IF e \in saved THEN order[e] ELSE None]
      /\ reader' = [r \in Readers |-> Idle]
      /\ UNCHANGED <<now, limits, peak, saved>>
    BY <1>3 DEF Restart
<1> HIDE DEF stale
<1>6. /\ NoSpend(loaded) \in SessionRows /\ NoSpend(loaded).lastSpendResetTimestamp = now
      /\ NoSpend(row) \in SessionRows /\ NoSpend(row).lastSpendResetTimestamp = now
    BY <1>1, <1>4 DEF NoSpend, TypeOK, SessionRows
<1>7. /\ WithSpend(row, NoSpend(row)) \in SessionRows
      /\ WithSpend(row, NoSpend(row)).lastSpendResetTimestamp = now
    BY <1>1, <1>6 DEF WithSpend, TypeOK, SessionRows
<1>8. session' \in SessionRows /\ row' \in SessionRows
    BY <1>1, <1>4, <1>5, <1>6, <1>7 DEF TypeOK
<1>9. exec' \in [Execs -> Executions]
    <2>1. \A e \in Execs : [exec[e] EXCEPT !.pc = "dead"] \in Executions /\ exec[e] \in Executions
        BY <1>1 DEF TypeOK, Executions
    <2> QED BY <1>5, <2>1
<1>10. order' \in [Execs -> Orders \cup {None}]
    BY <1>1, <1>5 DEF TypeOK
<1>11. TypeOK'
    BY <1>1, <1>5, <1>8, <1>9, <1>10 DEF TypeOK
<1>12. Idle \in [pc : {"idle", "querying", "answered"}, since : Nat, seen : SUBSET Execs]
       /\ Idle.seen = {}
    BY DEF Idle
<1>13. restarts' \in 0..MaxRestarts
    BY <1>5, ReconcileAssumption DEF ReconcileTypeOK
<1>14. ReconcileTypeOK'
    BY <1>1, <1>5, <1>11, <1>12, <1>13 DEF ReconcileTypeOK
<1>15. SeenIsRecorded'
    BY <1>1, <1>5, <1>12 DEF SeenIsRecorded, Recorded
<1>16. RowsBehind'
    <2>1. row.lastSpendResetTimestamp \in Nat /\ now \in Nat
          /\ row.lastSpendResetTimestamp =< now
        BY <1>1 DEF RowsBehind, TypeOK, SessionRows
    <2>2. CASE stale
        <3>1. session'.lastSpendResetTimestamp = now
              /\ row'.lastSpendResetTimestamp \in {row.lastSpendResetTimestamp, now}
            BY <1>5, <1>6, <1>7, <2>2
        <3> QED BY <1>5, <2>1, <3>1 DEF RowsBehind
    <2>3. CASE ~stale
        <3>1. session'.lastSpendResetTimestamp = row.lastSpendResetTimestamp /\ row' = row
            BY <1>4, <1>5, <2>3
        <3> QED BY <1>5, <2>1, <3>1 DEF RowsBehind
    <2> QED BY <2>2, <2>3
<1> QED BY <1>14, <1>15, <1>16

(* Every step keeps the invariant.                                         *)
LEMMA ReconcileStep == ReconcileInv /\ [ReconcileNext]_reconcileVars => ReconcileInv'
<1> SUFFICES ASSUME ReconcileInv, [ReconcileNext]_reconcileVars PROVE ReconcileInv'
    OBVIOUS
<1>1. CASE GateStep
    BY <1>1, GateReconciled
<1>2. ASSUME NEW e \in Execs, PersistOrder(e) PROVE ReconcileInv'
    <2>1. /\ e \in Recorded /\ saved' = saved \cup {e}
          /\ UNCHANGED <<now, session, limits, hold, exec, order, row, wire, booked, peak,
                         reader, restarts>>
        BY <1>2 DEF PersistOrder, vars
    <2> QED BY <2>1 DEF ReconcileInv, ReconcileTypeOK, TypeOK, SeenIsRecorded, Recorded, RowsBehind
<1>3. ASSUME NEW r \in Readers, ReaderStep(r) PROVE ReconcileInv'
    BY <1>3, PollReconciled, ApplyReconciled DEF ReaderStep
<1>4. CASE Restart
    BY <1>4, RestartReconciled
<1>5. CASE UNCHANGED reconcileVars
    <2>1. UNCHANGED <<now, session, limits, hold, exec, order, row, wire, booked, peak,
                      saved, reader, restarts>>
        BY <1>5 DEF reconcileVars, vars
    <2> QED BY <2>1 DEF ReconcileInv, ReconcileTypeOK, TypeOK, SeenIsRecorded, Recorded, RowsBehind
<1> QED BY <1>1, <1>2, <1>3, <1>4, <1>5 DEF ReconcileNext

(* The invariant holds at first, hence always.                             *)
LEMMA ReconcileInvariant == ReconcileSpec => []ReconcileInv
<1>1. ReconcileInit => ReconcileInv
    <2> SUFFICES ASSUME ReconcileInit PROVE ReconcileInv
        OBVIOUS
    <2>1. TypeOK
        BY DEF ReconcileInit, Init, TypeOK, SessionRows, Executions
    <2>2. ReconcileTypeOK /\ SeenIsRecorded
        BY <2>1, ReconcileAssumption DEF ReconcileInit, ReconcileTypeOK, SeenIsRecorded, Idle
    <2>3. RowsBehind
        BY DEF ReconcileInit, Init, RowsBehind
    <2> QED BY <2>2, <2>3 DEF ReconcileInv
<1> QED BY <1>1, ReconcileStep, PTL DEF ReconcileSpec

(* With any number of reconciling requests, restarts and lost writes, each *)
(* variable keeps its type; the spend is never negative nor undefined,     *)
(* because no request sums an order that a restart has taken away.         *)
THEOREM ReconcileTypeCorrect == ReconcileSpec => []ReconcileTypeOK
<1>1. ReconcileInv => ReconcileTypeOK
    BY DEF ReconcileInv
<1> QED BY <1>1, ReconcileInvariant, PTL

(* However late a change event is delivered, it neither lowers the spend   *)
(* nor moves the window: no row image is ever ahead of memory, although    *)
(* polls and restarts rewrite both.                                        *)
THEOREM EventsOnlyTighten == ReconcileSpec => ChangeEventsOnlyTighten
<1> DEFINE Tightens ==
        \A img \in wire : DeliverChange(img) =>
          /\ session'.spentToday >= session.spentToday
          /\ session'.lastSpendResetTimestamp = session.lastSpendResetTimestamp
<1>1. ASSUME ReconcileInv PROVE Tightens
    <2> SUFFICES ASSUME NEW img \in wire, DeliverChange(img)
                 PROVE  /\ session'.spentToday >= session.spentToday
                        /\ session'.lastSpendResetTimestamp = session.lastSpendResetTimestamp
        OBVIOUS
    <2>1. session \in SessionRows /\ img \in SessionRows
        BY <1>1 DEF ReconcileInv, ReconcileTypeOK, TypeOK
    <2>2. img.lastSpendResetTimestamp =< session.lastSpendResetTimestamp
        BY <1>1 DEF ReconcileInv, RowsBehind
    <2> QED BY <2>1, <2>2 DEF DeliverChange, SessionRows, Larger
<1>2. ReconcileInv /\ [ReconcileNext]_reconcileVars => [Tightens]_reconcileVars
    BY <1>1
<1>3. ReconcileSpec => [][Tightens]_reconcileVars
    <2> HIDE DEF Tightens
    <2> QED BY <1>2, ReconcileInvariant, PTL DEF ReconcileSpec
<1> QED BY <1>3 DEF ChangeEventsOnlyTighten
=============================================================================
