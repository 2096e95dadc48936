------------------------------ MODULE SwarmCycle ------------------------------
(***************************************************************************)
(* The evaluation cycle of the agents (agents/swarm-runner.ts): the        *)
(* operator's swarm, the personal swarm of one user and his custom agents, *)
(* one after the other, each awaiting its orders.  The user trades by hand *)
(* meanwhile.                                                              *)
(*                                                                         *)
(* A run looks at one wallet, the operator's or the user's; the orders of  *)
(* the other only take time.  What an agent decides, whether the breaker,  *)
(* the gas, the session or a repeated opportunity stops it, and what       *)
(* becomes of its order is left open; positions are the orders as the      *)
(* books have them.                                                        *)
(***************************************************************************)
EXTENDS Integers, FiniteSets

CONSTANTS
    Agents,     \* the trading agents
    Customs,    \* the user's deployed custom agents
    Markets,
    Cooldown,   \* between trades of one agent, 60 s
    Stale,      \* a resting order counts for so long, 90 s
    Limit,      \* positions a wallet may hold, 3
    MaxOrders,  \* bound on booked orders
    MaxTime     \* bound on the clock

VARIABLES
    now,
    closed,     \* markets past their close
    wallet,     \* whose orders are looked at: the operator's or the user's
    positions,  \* its orders in the books, with the time of those that rest
    lastTrade,  \* per agent: when it last tried with this wallet
    phase,      \* isEvaluating and the part of the cycle
    cycle,      \* the cycle's open markets, pairs not yet traded, and the part's notes
    placing     \* the order being awaited

swarmVars == <<now, closed, wallet, positions, lastTrade, phase, cycle, placing>>

Manual == "Manual"
Traders == Agents \cup Customs
Idle == [by |-> "none"]
NoNotes == [open |-> {}, left |-> {}, agents |-> {}, now |-> 0]

TypeOK ==
    /\ now \in 0..MaxTime
    /\ closed \subseteq Markets
    /\ wallet \in {"operator", "user"}
    /\ positions \subseteq [by : Traders \cup {Manual}, market : Markets, resting : BOOLEAN,
                            at : 0..MaxTime]
    /\ lastTrade \in [Traders -> -Cooldown..MaxTime]
    /\ phase \in {"idle", "operator", "personal", "custom"}
    /\ cycle \in [open : SUBSET Markets, left : SUBSET (Traders \X Markets),
                  agents : SUBSET Traders, now : 0..MaxTime]
    /\ placing = Idle \/ placing \in [by : Traders, market : Markets]

-----------------------------------------------------------------------------
Init ==
    /\ now = 0
    /\ closed = {}
    /\ wallet \in {"operator", "user"}
    /\ positions = {}
    /\ lastTrade = [a \in Traders |-> -Cooldown]
    /\ phase = "idle"
    /\ cycle = NoNotes
    /\ placing = Idle

Counts(p) == p.market \notin closed /\ (p.resting => now - p.at =< Stale)
Active == {p \in positions : Counts(p)}

(* The cool-down of an agent, by the time its part of the cycle goes by.   *)
Rested(a, t) == t - lastTrade[a] >= Cooldown

(* The attempt is noted before the order is awaited; it may be stopped yet.*)
Attempt(a, m, t) ==
    /\ lastTrade' = [lastTrade EXCEPT ![a] = t]
    /\ placing' \in {Idle, [by |-> a, market |-> m]}

(* evaluateCycle begins if none is running, with the markets then open.    *)
BeginCycle ==
    /\ phase = "idle"
    /\ phase' = "operator"
    /\ cycle' = [NoNotes EXCEPT !.open = Markets \ closed, !.left = Agents \X (Markets \ closed)]
    /\ UNCHANGED <<now, closed, wallet, positions, lastTrade, placing>>

(* An order of the operator's swarm: everything is read afresh.            *)
EvaluateOperator(a, m) ==
    /\ wallet = "operator"
    /\ phase = "operator"
    /\ placing = Idle
    /\ <<a, m>> \in cycle.left
    /\ \A p \in Active : p.market # m /\ p.by # a
    /\ Cardinality(Active) < Limit
    /\ Rested(a, now)
    /\ Attempt(a, m, now)
    /\ cycle' = [cycle EXCEPT !.left = @ \ {<<a, m>>}]
    /\ UNCHANGED <<now, closed, wallet, positions, phase>>

(* No agent wants any other order.  evaluatePersonalSwarms for the user    *)
(* comes next: positions are counted and the time is taken once, before    *)
(* the first order.                                                        *)
BeginPersonal ==
    /\ phase = "operator"
    /\ placing = Idle
    /\ phase' = "personal"
    /\ cycle' = [open |-> cycle.open,
                 left |-> IF Cardinality(Active) >= Limit THEN {}
                          ELSE Agents \X (cycle.open \ {p.market : p \in positions}),
                 agents |-> {p.by : p \in Active} \cap Agents,
                 now |-> now]
    /\ UNCHANGED <<now, closed, wallet, positions, lastTrade, placing>>

(* An order of the personal swarm, after which its market is done with.    *)
EvaluatePersonal(a, m) ==
    /\ wallet = "user"
    /\ phase = "personal"
    /\ placing = Idle
    /\ <<a, m>> \in cycle.left
    /\ a \notin cycle.agents
    /\ Rested(a, cycle.now)
    /\ Attempt(a, m, cycle.now)
    /\ cycle' = [cycle EXCEPT !.left = @ \ (Agents \X {m})]
    /\ UNCHANGED <<now, closed, wallet, positions, phase>>

(* evaluateCustomAgents.  What it calls an index of the positions is the   *)
(* map that orderService goes on to update.                                *)
BeginCustom ==
    /\ phase = "personal"
    /\ placing = Idle
    /\ phase' = "custom"
    /\ cycle' = [NoNotes EXCEPT !.open = cycle.open]
    /\ UNCHANGED <<now, closed, wallet, positions, lastTrade, placing>>

(* A mutation: all custom agents go by a copy of the positions, taken when *)
(* the first has its turn.                                                 *)
BeginWithCopy(c) ==
    LET free == IF cycle.agents = {} THEN cycle.open \ {p.market : p \in positions}
                ELSE cycle.open
    IN
    /\ wallet = "user"
    /\ phase = "custom"
    /\ placing = Idle
    /\ c \notin cycle.agents
    /\ cycle' = [cycle EXCEPT !.open = free, !.left = {c} \X free, !.agents = cycle.agents \cup {c}]
    /\ UNCHANGED <<now, closed, wallet, positions, lastTrade, phase, placing>>

(* The next custom agent: its user's positions are looked up in the map    *)
(* now, after the orders of the agents before it.                          *)
BeginCustomAgent(c) ==
    /\ wallet = "user"
    /\ phase = "custom"
    /\ placing = Idle
    /\ c \notin cycle.agents
    /\ cycle' = [cycle EXCEPT !.left = {c} \X (cycle.open \ {p.market : p \in positions}),
                              !.agents = cycle.agents \cup {c}]
    /\ UNCHANGED <<now, closed, wallet, positions, lastTrade, phase, placing>>

(* One order of a custom agent per cycle.                                  *)
EvaluateCustom(c, m) ==
    /\ phase = "custom"
    /\ placing = Idle
    /\ <<c, m>> \in cycle.left
    /\ Rested(c, now)
    /\ Attempt(c, m, now)
    /\ cycle' = [cycle EXCEPT !.left = {}]
    /\ UNCHANGED <<now, closed, wallet, positions, phase>>

EndCycle ==
    /\ phase = "custom"
    /\ placing = Idle
    /\ phase' = "idle"
    /\ cycle' = NoNotes
    /\ UNCHANGED <<now, closed, wallet, positions, lastTrade, placing>>

(* executeAgentDecision ends: the order is booked, filled or resting, or   *)
(* there is none.                                                          *)
OrderEnds ==
    /\ placing # Idle
    /\ placing' = Idle
    /\ \/ UNCHANGED positions
       \/ \E resting \in BOOLEAN :
             /\ Cardinality(positions) < MaxOrders
             /\ positions' = positions \cup
                   {[by |-> placing.by, market |-> placing.market, resting |-> resting,
                     at |-> IF resting THEN now ELSE 0]}
    /\ UNCHANGED <<now, closed, wallet, lastTrade, phase, cycle>>

(* The user's own order is booked, at any time.                            *)
ManualOrder(m) ==
    /\ Cardinality(positions) < MaxOrders
    /\ wallet = "user"
    /\ m \notin closed
    /\ positions' = positions \cup {[by |-> Manual, market |-> m, resting |-> FALSE, at |-> 0]}
    /\ UNCHANGED <<now, closed, wallet, lastTrade, phase, cycle, placing>>

CloseMarket(m) ==
    /\ m \notin closed
    /\ closed' = closed \cup {m}
    /\ UNCHANGED <<now, wallet, positions, lastTrade, phase, cycle, placing>>

Tick ==
    /\ now < MaxTime
    /\ now' = now + 1
    /\ UNCHANGED <<closed, wallet, positions, lastTrade, phase, cycle, placing>>

Next ==
    \/ BeginCycle \/ BeginPersonal \/ BeginCustom \/ EndCycle
    \/ \E m \in Markets : \/ \E a \in Agents : EvaluateOperator(a, m) \/ EvaluatePersonal(a, m)
                          \/ \E c \in Customs : EvaluateCustom(c, m)
                          \/ ManualOrder(m) \/ CloseMarket(m)
    \/ \E c \in Customs : BeginCustomAgent(c)
    \/ OrderEnds
    \/ Tick

Spec == Init /\ [][Next]_swarmVars
-----------------------------------------------------------------------------
(* Properties                                                              *)

(* An agent holds one position at a time and no two agents hold one in the *)
(* same market, custom agents included, in the operator's wallet as in the *)
(* user's, however long the orders of a cycle take and whatever the user   *)
(* trades meanwhile; orders that rest for too long are not counted.  A     *)
(* custom agent may hold one in each market.                               *)
OnePositionEach ==
    \A p, q \in {r \in Active : r.by \in Traders} :
        p # q => /\ p.market # q.market
                 /\ p.by # q.by \/ p.by \in Customs

(* "Global per-user active position limit (3 concurrent)"                  *)
(* (swarm-runner.ts:646): the personal swarm leaves a full wallet alone.   *)
PersonalLimitHolds ==
    [][phase = "personal" /\ placing = Idle /\ placing' # Idle
         => Cardinality(Active) < Limit]_swarmVars
=============================================================================
