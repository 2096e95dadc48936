----------------------------- MODULE SpendReconcile -----------------------------
(***************************************************************************)
(* SessionSpend with the two things that rewrite the session's spend from  *)
(* outside the gate: the status and portfolio requests, which replace it   *)
(* by the sum of the user's orders (api/routes.ts:476-492 and 1406-1429,   *)
(* order-service.ts getDailySpendStats), and a restart of the process,     *)
(* which reloads the session from its row (session-service.ts              *)
(* loadActiveSessionsFromDb).                                              *)
(***************************************************************************)
EXTENDS SessionSpend

CONSTANTS
    Readers,     \* requests that reconcile the spend
    MaxRestarts  \* bound on process restarts

ASSUME ReconcileAssumption == MaxRestarts \in Nat

VARIABLES
    saved,     \* orders that reached the orders table
    reader,    \* per request: where it is, its cut-off, the orders it has seen
    restarts

reconcileVars == <<vars, saved, reader, restarts>>

Recorded == {e \in Execs : order[e] # None}

Since(S, t) == {e \in S : order[e].createdAt >= t}

ReconcileTypeOK ==
    /\ TypeOK
    /\ saved \subseteq Execs
    /\ reader \in [Readers -> [pc : {"idle", "querying", "answered"},
                               since : Nat, seen : SUBSET Execs]]
    /\ restarts \in 0..MaxRestarts

Idle == [pc |-> "idle", since |-> 0, seen |-> {}]

ReconcileInit ==
    /\ Init
    /\ saved = {}
    /\ reader = [r \in Readers |-> Idle]
    /\ restarts = 0

(* A step of the gate, the executions, the database or the owner.          *)
GateStep == Next /\ UNCHANGED <<saved, reader, restarts>>

(* The tail of executeAgentDecision: insert the order, errors swallowed.   *)
PersistOrder(e) ==
    /\ e \in Recorded \ saved
    /\ saved' = saved \cup {e}
    /\ UNCHANGED <<vars, reader, restarts>>

(* getUserActiveSession rolls the window; the request then fixes its       *)
(* cut-off and reads the cached orders, all before its first real await.   *)
BeginPoll(r) ==
    /\ reader[r].pc = "idle"
    /\ session.isActive
    /\ ~Expired
    /\ RollWindow
    /\ LET since == session'.lastSpendResetTimestamp IN
       reader' = [reader EXCEPT ![r] =
                    [pc |-> "querying", since |-> since, seen |-> Since(Recorded, since)]]
    /\ UNCHANGED <<now, limits, hold, exec, order, peak, saved, restarts>>

(* The database answers with the rows it has at that moment, or fails.     *)
QueryOrders(r) ==
    /\ reader[r].pc = "querying"
    /\ \E found \in {{}, Since(saved, reader[r].since)} :
          reader' = [reader EXCEPT ![r].pc = "answered", ![r].seen = @ \cup found]
    /\ UNCHANGED <<vars, saved, restarts>>

(* A mutation: the sum is taken over only when it is larger.               *)
ApplyLargerSpend(r) ==
    LET realSpend == CostOf(reader[r].seen)
        corrected == [session EXCEPT !.spentToday = realSpend]
    IN
    /\ reader[r].pc = "answered"
    /\ IF realSpend > session.spentToday
       THEN session' = corrected /\ Persist(WithSpend(row, corrected))
       ELSE UNCHANGED <<session, row, wire>>
    /\ reader' = [reader EXCEPT ![r] = Idle]
    /\ UNCHANGED <<now, limits, hold, exec, order, booked, peak, saved, restarts>>

(* The sum replaces spentToday whatever happened since it was taken        *)
(* (updateSessionSpend): a sum of zero also restarts the window.           *)
ApplySpend(r) ==
    LET realSpend == CostOf(reader[r].seen)
        corrected == [session EXCEPT
                        !.spentToday = realSpend,
                        !.lastSpendResetTimestamp = IF realSpend = 0 THEN now ELSE @]
    IN
    /\ reader[r].pc = "answered"
    /\ IF realSpend # session.spentToday
       THEN session' = corrected /\ Persist(WithSpend(row, corrected))
       ELSE UNCHANGED <<session, row, wire>>
    /\ reader' = [reader EXCEPT ![r] = Idle]
    /\ UNCHANGED <<now, limits, hold, exec, order, booked, peak, saved, restarts>>

(* The process dies and comes back: holds, requests, executions and        *)
(* unsaved orders are gone; the session is what its row says.              *)
Restart ==
    LET stale  == now - row.lastSpendResetTimestamp > Day
        loaded == [row EXCEPT !.isActive = @ /\ ~Expired]
    IN
    /\ restarts < MaxRestarts
    /\ restarts' = restarts + 1
    /\ session' = IF stale THEN NoSpend(loaded) ELSE loaded
    /\ booked' = IF stale THEN {} ELSE booked \cap saved
    /\ row' \in {row, IF stale THEN WithSpend(row, NoSpend(row)) ELSE row}
    /\ wire' = {}
    /\ hold' = [e \in Execs |-> None]
    /\ exec' = [e \in Execs |-> IF e \in InFlight THEN [exec[e] EXCEPT !.pc = "dead"]
                                                  ELSE exec[e]]
    /\ order' = [e \in Execs |-> IF e \in saved THEN order[e] ELSE None]
    /\ reader' = [r \in Readers |-> Idle]
    /\ UNCHANGED <<now, limits, peak, saved>>

ReaderStep(r) == BeginPoll(r) \/ QueryOrders(r) \/ ApplySpend(r)

ReconcileNext ==
    \/ GateStep
    \/ \E e \in Execs : PersistOrder(e)
    \/ \E r \in Readers : ReaderStep(r)
    \/ Restart

(* Clients poll their status and portfolio pages for as long as they are   *)
(* open, and every request runs to its end.                                *)
ReconcileSpec ==
    /\ ReconcileInit
    /\ [][ReconcileNext]_reconcileVars
    /\ \A r \in Readers : WF_reconcileVars(ReaderStep(r))
-----------------------------------------------------------------------------
(* Properties                                                              *)

(* A change event never loosens the gate: no row image in flight is ahead  *)
(* of memory, so that delivering one neither lowers the spend nor moves    *)
(* the window, across polls and restarts (session-service.ts:172-182).     *)
ChangeEventsOnlyTighten ==
    [][\A img \in wire : DeliverChange(img) =>
          /\ session'.spentToday >= session.spentToday
          /\ session'.lastSpendResetTimestamp = session.lastSpendResetTimestamp
      ]_reconcileVars

(* However stale echoes, lost writes, restarts and racing polls distort    *)
(* it, a live session's spend is again and again equal to what its orders  *)
(* since the last reset have cost.                                         *)
SpendKeepsBeingCorrected ==
    []<>(session.isActive =>
            session.spentToday = CostOf(Since(Recorded, session.lastSpendResetTimestamp)))
=============================================================================
