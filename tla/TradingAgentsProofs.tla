-------------------------- MODULE TradingAgentsProofs --------------------------
(* For all values of the constants: the agents of the swarm hold one       *)
(* position each.                                                          *)
EXTENDS TradingAgents, FiniteSetTheorems, SequenceTheorems, WellFoundedInduction, TLAPS

-----------------------------------------------------------------------------
(* The agents' cycle.  Between the checks of an order and its booking only *)
(* the user trades; what a cycle notes once is kept true by its own orders.*)

SwarmTypes ==
    /\ now \in Nat
    /\ positions \subseteq [by : Swarm!Traders \cup {Swarm!Manual}, market : Markets,
                            resting : BOOLEAN, at : Nat]
    /\ lastTrade \in [Swarm!Traders -> Int]
    /\ phase \in {"idle", "operator", "personal", "custom"}
    /\ cycle \in [open : SUBSET Markets, left : SUBSET (Swarm!Traders \X Markets),
                  agents : SUBSET Swarm!Traders, now : Nat]
    /\ placing = Swarm!Idle \/ placing \in [by : Swarm!Traders, market : Markets]

(* The positions of agents.                                                *)
Theirs == {p \in positions : p.by \in Swarm!Traders}
Held == {p \in Theirs : Swarm!Counts(p)}

(* The order being awaited may be booked.                                  *)
OrderFits ==
    placing # Swarm!Idle =>
        \A p \in Held : /\ p.market # placing.market
                        /\ p.by # placing.by \/ p.by \in Customs

(* No pair that is left is in a market with a position or an order.        *)
LeftIsFree ==
    phase \in {"personal", "custom"} =>
        \A x \in cycle.left :
            /\ \A p \in Theirs : p.market # x[2]
            /\ placing # Swarm!Idle => placing.market # x[2]
            /\ phase = "personal" => x[1] \in Agents

(* The personal swarm noted who holds a position, or the note of its       *)
(* attempt makes the agent rest.                                           *)
AgentsNoted ==
    phase = "personal" =>
        /\ \A p \in Held : p.by \in Agents => p.by \in cycle.agents \/ lastTrade[p.by] = cycle.now
        /\ placing # Swarm!Idle /\ placing.by \in Agents => lastTrade[placing.by] = cycle.now

OneEach ==
    \A p, q \in Held : p # q => /\ p.market # q.market
                                /\ p.by # q.by \/ p.by \in Customs

SwarmInv == SwarmTypes /\ OrderFits /\ LeftIsFree /\ AgentsNoted /\ OneEach

(* Positions cease to count, and never begin to count again.               *)
LEMMA HeldShrinks ==
    ASSUME SwarmInv, positions' = positions, closed \subseteq closed', now' \in Nat, now =< now'
    PROVE  Theirs' = Theirs /\ Held' \subseteq Held
<1>1. Theirs' = Theirs
    BY DEF Theirs
<1>2. ASSUME NEW p \in positions, Swarm!Counts(p)' PROVE Swarm!Counts(p)
    <2>1. p.at \in Nat /\ Stale \in Nat /\ now \in Nat
        BY SwarmAssumption DEF SwarmInv, SwarmTypes
    <2> QED BY <1>2, <2>1 DEF Swarm!Counts
<1> QED BY <1>1, <1>2 DEF Held, Theirs

(* A step that touches neither the cycle nor the orders.                   *)
LEMMA SwarmQuiet ==
    ASSUME SwarmInv, positions' = positions, closed \subseteq closed', now' \in Nat, now =< now',
           UNCHANGED <<lastTrade, phase, cycle, placing>>
    PROVE  SwarmInv'
<1>1. Theirs' = Theirs /\ Held' \subseteq Held
    BY HeldShrinks
<1>2. SwarmTypes'
    BY DEF SwarmInv, SwarmTypes
<1> QED BY <1>1, <1>2 DEF SwarmInv, OrderFits, LeftIsFree, AgentsNoted, OneEach

(* The cycle goes on to another part.                                      *)
LEMMA PhaseBegins ==
    ASSUME SwarmInv,
           \/ Swarm!BeginCycle \/ Swarm!BeginPersonal \/ Swarm!BeginCustom \/ Swarm!EndCycle
           \/ \E c \in Customs : Swarm!BeginCustomAgent(c)
    PROVE  SwarmInv'
<1>0. UNCHANGED <<now, closed, positions, lastTrade, placing>>
    BY DEF Swarm!BeginCycle, Swarm!BeginPersonal, Swarm!BeginCustom, Swarm!EndCycle, Swarm!BeginCustomAgent
<1>1. Theirs' = Theirs /\ Held' = Held
    BY <1>0 DEF Theirs, Held, Swarm!Counts
<1>2. OrderFits' /\ OneEach'
    BY <1>0, <1>1 DEF SwarmInv, OrderFits, OneEach
<1>3. now \in Nat /\ cycle.open \subseteq Markets
    BY DEF SwarmInv, SwarmTypes
<1>4. Agents \subseteq Swarm!Traders /\ Customs \subseteq Swarm!Traders
    BY DEF Swarm!Traders
<1>5. phase' \in {"idle", "operator", "personal", "custom"}
    BY DEF Swarm!BeginCycle, Swarm!BeginPersonal, Swarm!BeginCustom, Swarm!EndCycle, Swarm!BeginCustomAgent
<1>9. cycle' \in [open : SUBSET Markets, left : SUBSET (Swarm!Traders \X Markets),
                  agents : SUBSET Swarm!Traders, now : Nat]
    <2>1. CASE Swarm!BeginCycle
        BY <2>1, <1>4 DEF Swarm!BeginCycle, Swarm!NoNotes
    <2>2. CASE Swarm!EndCycle
        BY <2>2 DEF Swarm!EndCycle, Swarm!NoNotes
    <2>3. CASE Swarm!BeginCustom
        BY <2>3, <1>3 DEF Swarm!BeginCustom, Swarm!NoNotes
    <2>4. CASE Swarm!BeginPersonal
        <3> DEFINE free == Agents \X (cycle.open \ {p.market : p \in positions})
                   noted == {p.by : p \in Swarm!Active} \cap Agents
        <3>1. PICK left \in {{}, free} :
                  cycle' = [open |-> cycle.open, left |-> left, agents |-> noted, now |-> now]
            <4>1. \/ cycle' = [open |-> cycle.open, left |-> {}, agents |-> noted, now |-> now]
                  \/ cycle' = [open |-> cycle.open, left |-> free, agents |-> noted, now |-> now]
                BY <2>4, Zenon DEF Swarm!BeginPersonal
            <4> QED BY <4>1
        <3>2. left \subseteq Swarm!Traders \X Markets /\ noted \subseteq Swarm!Traders
            BY <1>3, <1>4
        <3> HIDE DEF free, noted
        <3> QED BY <3>1, <3>2, <1>3
    <2>5. ASSUME NEW c \in Customs, Swarm!BeginCustomAgent(c)
          PROVE  cycle' \in [open : SUBSET Markets, left : SUBSET (Swarm!Traders \X Markets),
                             agents : SUBSET Swarm!Traders, now : Nat]
        <3> DEFINE free == {c} \X (cycle.open \ {p.market : p \in positions})
                   done == cycle.agents \cup {c}
        <3>1. cycle' = [cycle EXCEPT !.left = free, !.agents = done]
            BY <2>5 DEF Swarm!BeginCustomAgent
        <3>2. free \subseteq Swarm!Traders \X Markets /\ done \subseteq Swarm!Traders
            BY <1>3, <1>4 DEF SwarmInv, SwarmTypes
        <3> HIDE DEF free, done
        <3> QED BY <3>1, <3>2 DEF SwarmInv, SwarmTypes
    <2> QED BY <2>1, <2>2, <2>3, <2>4, <2>5
<1>6. SwarmTypes'
    BY <1>0, <1>5, <1>9 DEF SwarmInv, SwarmTypes
<1>7. LeftIsFree'
    <2>1. CASE Swarm!BeginCycle
        BY <2>1 DEF Swarm!BeginCycle, LeftIsFree
    <2>2. CASE Swarm!EndCycle
        BY <2>2 DEF Swarm!EndCycle, LeftIsFree
    <2>3. CASE \/ Swarm!BeginPersonal \/ Swarm!BeginCustom
               \/ \E c \in Customs : Swarm!BeginCustomAgent(c)
        <3>1. cycle'.left \subseteq Swarm!Traders \X (cycle.open \ {p.market : p \in positions})
            <4>1. CASE Swarm!BeginPersonal
                BY <4>1, <1>4 DEF Swarm!BeginPersonal
            <4>2. CASE Swarm!BeginCustom
                BY <4>2 DEF Swarm!BeginCustom, Swarm!NoNotes
            <4>3. ASSUME NEW c \in Customs, Swarm!BeginCustomAgent(c)
                  PROVE  cycle'.left \subseteq Swarm!Traders \X (cycle.open \ {p.market : p \in positions})
                <5>1. cycle'.left = {c} \X (cycle.open \ {p.market : p \in positions})
                    BY <4>3 DEF Swarm!BeginCustomAgent, SwarmInv, SwarmTypes
                <5> QED BY <5>1, <1>4
            <4> QED BY <2>3, <4>1, <4>2, <4>3
        <3>2. \A x \in cycle'.left : \A p \in Theirs' : p.market # x[2]
            BY <3>1, <1>1 DEF Theirs
        <3>3. placing = Swarm!Idle
            BY <2>3 DEF Swarm!BeginPersonal, Swarm!BeginCustom, Swarm!BeginCustomAgent
        <3>4. Swarm!BeginPersonal => cycle'.left \subseteq Agents \X cycle.open
            BY DEF Swarm!BeginPersonal
        <3>5. phase' = "personal" => \A x \in cycle'.left : x[1] \in Agents
            BY <2>3, <3>4 DEF Swarm!BeginPersonal, Swarm!BeginCustom, Swarm!BeginCustomAgent
        <3> QED BY <3>2, <3>3, <3>5, <1>0 DEF LeftIsFree
    <2> QED BY <2>1, <2>2, <2>3
<1>8. AgentsNoted'
    <2>1. CASE Swarm!BeginPersonal
        <3>1. cycle'.agents = {p.by : p \in Swarm!Active} \cap Agents /\ placing = Swarm!Idle
            BY <2>1 DEF Swarm!BeginPersonal
        <3>2. Held \subseteq Swarm!Active
            BY DEF Held, Theirs, Swarm!Active
        <3> QED BY <3>1, <3>2, <1>0, <1>1 DEF AgentsNoted
    <2>2. CASE ~Swarm!BeginPersonal
        BY <2>2 DEF Swarm!BeginCycle, Swarm!BeginCustom, Swarm!BeginCustomAgent, Swarm!EndCycle, AgentsNoted
    <2> QED BY <2>1, <2>2
<1> QED BY <1>2, <1>6, <1>7, <1>8 DEF SwarmInv

(* An order is attempted that fits, in a market that is then done with     *)
(* for the part of the cycle; the attempt is noted.                        *)
LEMMA Attempted ==
    ASSUME SwarmInv, NEW a \in Swarm!Traders, NEW m \in Markets, NEW t \in Nat,
           Swarm!Attempt(a, m, t), placing = Swarm!Idle,
           UNCHANGED <<now, closed, positions, phase>>,
           cycle' \in [open : SUBSET Markets, left : SUBSET (Swarm!Traders \X Markets),
                       agents : SUBSET Swarm!Traders, now : Nat],
           cycle'.left \subseteq cycle.left,
           phase \in {"personal", "custom"} => \A x \in cycle'.left : x[2] # m,
           phase = "personal" => cycle'.agents = cycle.agents /\ cycle'.now = cycle.now /\ t = cycle.now,
           \A p \in Held : p.market # m /\ (p.by # a \/ a \in Customs)
    PROVE  SwarmInv'
<1>1. Theirs' = Theirs /\ Held' = Held
    BY DEF Theirs, Held, Swarm!Counts
<1>2. /\ lastTrade' = [lastTrade EXCEPT ![a] = t]
      /\ placing' = Swarm!Idle \/ placing' = [by |-> a, market |-> m]
    BY DEF Swarm!Attempt
<1>3. placing' # Swarm!Idle => placing'.by = a /\ placing'.market = m
    BY <1>2
<1>4. SwarmTypes'
    BY <1>2 DEF SwarmInv, SwarmTypes
<1>5. OrderFits' /\ OneEach'
    BY <1>1, <1>3 DEF SwarmInv, OrderFits, OneEach
<1>6. LeftIsFree'
    BY <1>1, <1>3 DEF SwarmInv, LeftIsFree
<1>7. AgentsNoted'
    <2>1. lastTrade \in [Swarm!Traders -> Int] /\ Agents \subseteq Swarm!Traders
        BY DEF SwarmInv, SwarmTypes, Swarm!Traders
    <2>2. lastTrade'[a] = t /\ \A b \in Agents \ {a} : lastTrade'[b] = lastTrade[b]
        BY <1>2, <2>1
    <2> QED BY <1>1, <1>3, <2>2 DEF SwarmInv, AgentsNoted
<1> QED BY <1>4, <1>5, <1>6, <1>7 DEF SwarmInv

LEMMA EvaluateStep ==
    ASSUME SwarmInv, NEW m \in Markets,
           \/ \E a \in Agents : Swarm!EvaluateOperator(a, m) \/ Swarm!EvaluatePersonal(a, m)
           \/ \E c \in Customs : Swarm!EvaluateCustom(c, m)
    PROVE  SwarmInv'
<1>1. /\ Agents \subseteq Swarm!Traders /\ Customs \subseteq Swarm!Traders
      /\ now \in Nat /\ cycle.now \in Nat
      /\ cycle \in [open : SUBSET Markets, left : SUBSET (Swarm!Traders \X Markets),
                    agents : SUBSET Swarm!Traders, now : Nat]
      /\ lastTrade \in [Swarm!Traders -> Int]
    BY DEF SwarmInv, SwarmTypes, Swarm!Traders
<1> DEFINE Without(gone) == [cycle EXCEPT !.left = @ \ gone]
<1>2. ASSUME NEW gone
      PROVE  /\ Without(gone) \in [open : SUBSET Markets, left : SUBSET (Swarm!Traders \X Markets),
                                   agents : SUBSET Swarm!Traders, now : Nat]
             /\ Without(gone).left = cycle.left \ gone
             /\ Without(gone).agents = cycle.agents
             /\ Without(gone).now = cycle.now
    BY <1>1
<1>3. ASSUME NEW a \in Agents, Swarm!EvaluateOperator(a, m) PROVE SwarmInv'
    <2>1. /\ phase = "operator" /\ placing = Swarm!Idle /\ Swarm!Attempt(a, m, now)
          /\ cycle' = Without({<<a, m>>})
          /\ \A p \in Swarm!Active : p.market # m /\ p.by # a
          /\ UNCHANGED <<now, closed, positions, phase>>
        BY <1>3 DEF Swarm!EvaluateOperator
    <2>2. \A p \in Held : p.market # m /\ p.by # a
        BY <2>1 DEF Held, Theirs, Swarm!Active
    <2> HIDE DEF Without
    <2> QED BY <1>1, <1>2, <2>1, <2>2, Attempted
<1>4. ASSUME NEW a \in Agents, Swarm!EvaluatePersonal(a, m) PROVE SwarmInv'
    <2>1. /\ phase = "personal" /\ placing = Swarm!Idle /\ Swarm!Attempt(a, m, cycle.now)
          /\ cycle' = Without(Agents \X {m})
          /\ <<a, m>> \in cycle.left /\ a \notin cycle.agents /\ Swarm!Rested(a, cycle.now)
          /\ UNCHANGED <<now, closed, positions, phase>>
        BY <1>4 DEF Swarm!EvaluatePersonal
    <2>2. \A p \in Held : p.market # m
        BY <2>1 DEF SwarmInv, LeftIsFree, Held
    <2>3. lastTrade[a] # cycle.now
        <3>1. cycle.now - lastTrade[a] >= Cooldown
            BY <2>1 DEF Swarm!Rested
        <3>2. lastTrade[a] \in Int /\ Cooldown \in Nat \ {0}
            BY <1>1, SwarmAssumption
        <3> QED BY <1>1, <3>1, <3>2
    <2>4. \A p \in Held : p.by # a
        BY <2>1, <2>3 DEF SwarmInv, AgentsNoted
    <2>5. \A x \in cycle'.left : x[2] # m
        <3>1. cycle'.left = cycle.left \ (Agents \X {m})
            BY <1>2, <2>1
        <3>2. cycle.left \subseteq Agents \X Markets
            <4>1. \A x \in cycle.left : x[1] \in Agents /\ x \in Swarm!Traders \X Markets
                BY <1>1, <2>1 DEF SwarmInv, LeftIsFree
            <4> QED BY <4>1
        <3> QED BY <3>1, <3>2
    <2> HIDE DEF Without
    <2> QED BY <1>1, <1>2, <2>1, <2>2, <2>4, <2>5, Attempted
<1>5. ASSUME NEW c \in Customs, Swarm!EvaluateCustom(c, m) PROVE SwarmInv'
    <2>1. /\ phase = "custom" /\ placing = Swarm!Idle /\ Swarm!Attempt(c, m, now)
          /\ cycle' = [cycle EXCEPT !.left = {}]
          /\ <<c, m>> \in cycle.left
          /\ UNCHANGED <<now, closed, positions, phase>>
        BY <1>5 DEF Swarm!EvaluateCustom
    <2>2. \A p \in Held : p.market # m
        BY <2>1 DEF SwarmInv, LeftIsFree, Held
    <2>3. /\ cycle'.left = {}
          /\ cycle' \in [open : SUBSET Markets, left : SUBSET (Swarm!Traders \X Markets),
                         agents : SUBSET Swarm!Traders, now : Nat]
        BY <1>1, <2>1
    <2> QED BY <1>1, <2>1, <2>2, <2>3, Attempted
<1> QED BY <1>3, <1>4, <1>5

(* The order that was awaited is booked, or is not.                        *)
LEMMA OrderEndsStep ==
    ASSUME SwarmInv, Swarm!OrderEnds
    PROVE  SwarmInv'
<1>0. /\ placing # Swarm!Idle /\ placing' = Swarm!Idle
      /\ UNCHANGED <<now, closed, lastTrade, phase, cycle>>
      /\ placing.by \in Swarm!Traders /\ placing.market \in Markets
      /\ now \in Nat
    BY DEF Swarm!OrderEnds, SwarmInv, SwarmTypes
<1>1. CASE positions' = positions
    <2>1. Theirs' = Theirs /\ Held' = Held
        BY <1>0, <1>1 DEF Theirs, Held, Swarm!Counts
    <2>2. SwarmTypes'
        BY <1>0, <1>1 DEF SwarmInv, SwarmTypes
    <2> QED BY <1>0, <2>1, <2>2 DEF SwarmInv, OrderFits, LeftIsFree, AgentsNoted, OneEach
<1>2. CASE \E resting \in BOOLEAN :
              positions' = positions \cup
                  {[by |-> placing.by, market |-> placing.market, resting |-> resting,
                    at |-> IF resting THEN now ELSE 0]}
    <2>1. PICK resting \in BOOLEAN :
              positions' = positions \cup
                  {[by |-> placing.by, market |-> placing.market, resting |-> resting,
                    at |-> IF resting THEN now ELSE 0]}
        BY <1>2
    <2> DEFINE new == [by |-> placing.by, market |-> placing.market, resting |-> resting,
                    at |-> IF resting THEN now ELSE 0]
    <2>2. /\ new.by = placing.by /\ new.market = placing.market
          /\ new \in [by : Swarm!Traders \cup {Swarm!Manual}, market : Markets,
                      resting : BOOLEAN, at : Nat]
          /\ positions' = positions \cup {new}
        BY <1>0, <2>1
    <2> HIDE DEF new
    <2>3. Theirs' = Theirs \cup {new} /\ Held' \subseteq Held \cup {new}
        BY <1>0, <2>2 DEF Theirs, Held, Swarm!Counts
    <2>4. SwarmTypes'
        BY <1>0, <2>2 DEF SwarmInv, SwarmTypes
    <2>5. OneEach'
        BY <1>0, <2>2, <2>3 DEF SwarmInv, OrderFits, OneEach
    <2>6. LeftIsFree'
        BY <1>0, <2>2, <2>3 DEF SwarmInv, LeftIsFree
    <2>7. AgentsNoted'
        BY <1>0, <2>2, <2>3 DEF SwarmInv, AgentsNoted
    <2>8. OrderFits'
        BY <1>0 DEF OrderFits
    <2> QED BY <2>4, <2>5, <2>6, <2>7, <2>8 DEF SwarmInv
<1> QED BY <1>1, <1>2 DEF Swarm!OrderEnds

(* The user's own order is of no agent.                                    *)
LEMMA ManualOrderStep ==
    ASSUME SwarmInv, NEW m \in Markets, Swarm!ManualOrder(m)
    PROVE  SwarmInv'
<1> DEFINE new == [by |-> Swarm!Manual, market |-> m, resting |-> FALSE, at |-> 0]
<1>1. /\ UNCHANGED <<now, closed, lastTrade, phase, cycle, placing>>
      /\ positions' = positions \cup {new}
      /\ now \in Nat
    BY DEF Swarm!ManualOrder, SwarmInv, SwarmTypes
<1>2. /\ new.by = Swarm!Manual
      /\ new \in [by : Swarm!Traders \cup {Swarm!Manual}, market : Markets,
                  resting : BOOLEAN, at : Nat]
    BY <1>1
<1>3. Swarm!Manual \notin Swarm!Traders
    BY SwarmAssumption DEF Swarm!Manual, Swarm!Traders
<1> HIDE DEF new
<1>4. Theirs' = Theirs /\ Held' = Held
    BY <1>1, <1>2, <1>3 DEF Theirs, Held, Swarm!Counts
<1>5. SwarmTypes'
    BY <1>1, <1>2 DEF SwarmInv, SwarmTypes
<1> QED BY <1>1, <1>4, <1>5 DEF SwarmInv, OrderFits, LeftIsFree, AgentsNoted, OneEach

LEMMA SwarmStep ==
    ASSUME SwarmInv, Swarm!Next
    PROVE  SwarmInv'
<1>1. now \in Nat
    BY DEF SwarmInv, SwarmTypes
<1>2. CASE \E m \in Markets : Swarm!CloseMarket(m)
    BY <1>1, <1>2, SwarmQuiet DEF Swarm!CloseMarket
<1>3. CASE Swarm!Tick
    BY <1>1, <1>3, SwarmQuiet DEF Swarm!Tick
<1> QED BY <1>2, <1>3, PhaseBegins, EvaluateStep, OrderEndsStep, ManualOrderStep
        DEF Swarm!Next

-----------------------------------------------------------------------------
(* The books of a custom agent.  As long as nothing overlaps, whatever     *)
(* knows the books knows what was recorded: the copy in memory, the images *)
(* that were read, the writes on their way and the columns of the row that *)
(* no write is on its way to.                                              *)

Columns == {"spent", "pnl"}
Writer(col) == IF col = "spent" THEN "fill" ELSE "settlement"
Images == [Columns -> Int]
Stages == {"idle", "asked", "answered", "ended"}

BooksTypes ==
    /\ memory \in Images
    /\ agentRow \in Images
    /\ truth \in Images
    /\ writes \subseteq [by : {"fill", "settlement", "edit"}, set : Images]
    /\ call \in [Calls -> [kind : Agent!Kinds, stage : Stages, image : Images]]
    /\ overlapped \in BOOLEAN

(* What took place and does not wait for its look-up.                      *)
Recorded(col) == truth[col] - Agent!Pending(Writer(col))
Knows(image) == \A col \in Columns : image[col] = Recorded(col)

AllKnow ==
    /\ \A col \in Columns : Recorded(col) >= 0
    /\ memory # Agent!None => Knows(memory)
    /\ \A c \in Calls : call[c].stage = "answered" /\ call[c].image # Agent!None
                          => Knows(call[c].image)
    /\ \A col \in Columns :
          /\ \A w \in writes : w.set[col] # Agent!Keep
                                => w.by \in {Writer(col), "edit"} /\ w.set[col] = Recorded(col)
          /\ (\A w \in writes : w.set[col] = Agent!Keep) => agentRow[col] = Recorded(col)

BooksInv == BooksTypes /\ (~overlapped => AllKnow)

LEMMA SameBookCount == \A S : Agent!Cardinality(S) = Cardinality(S)
BY SMT DEF Agent!Cardinality, Cardinality

(* Books are read column by column.                                        *)
LEMMA ColumnsOfNone ==
    Agent!None \in Images /\ \A col \in Columns : Agent!None[col] = Agent!Keep
<1>1. Agent!None \in [spent : Int, pnl : Int]
    BY DEF Agent!None, Agent!Keep
<1>2. \A x \in [spent : Int, pnl : Int] : x \in Images
    BY DEF Images, Columns
<1> QED BY <1>1, <1>2 DEF Agent!None, Columns

LEMMA SameColumns ==
    ASSUME NEW x \in Images, NEW y \in Images, \A col \in Columns : x[col] = y[col]
    PROVE  x = y
BY DEF Images

(* A call moves to another stage.                                          *)
LEMMA CallMoves ==
    ASSUME BooksTypes, NEW c \in Calls, NEW kind \in Agent!Kinds, NEW stage \in Stages,
           NEW image \in Images, call' = [call EXCEPT ![c] = Agent!At(kind, stage, image)]
    PROVE  /\ call' \in [Calls -> [kind : Agent!Kinds, stage : Stages, image : Images]]
           /\ call'[c].kind = kind /\ call'[c].stage = stage /\ call'[c].image = image
           /\ \A d \in Calls \ {c} : call'[d] = call[d]
BY DEF BooksTypes, Agent!At

(* Calls that wait are counted by their kind.                              *)
LEMMA PendingCounts ==
    ASSUME BooksTypes, NEW kind
    PROVE  /\ IsFiniteSet({c \in Agent!Open : call[c].kind = kind})
           /\ Agent!Pending(kind) = Cardinality({c \in Agent!Open : call[c].kind = kind})
           /\ Agent!Pending(kind) \in Nat
<1>1. {c \in Agent!Open : call[c].kind = kind} \subseteq Calls
    BY DEF Agent!Open
<1>2. IsFiniteSet({c \in Agent!Open : call[c].kind = kind})
    BY <1>1, BooksAssumption, FS_Subset
<1> QED BY <1>2, SameBookCount, FS_CardinalityType DEF Agent!Pending

LEMMA RecordedCounts ==
    ASSUME BooksTypes, NEW col \in Columns
    PROVE  /\ truth[col] \in Int /\ Agent!Pending(Writer(col)) \in Nat
           /\ Recorded(col) \in Int
<1>1. truth[col] \in Int
    BY DEF BooksTypes, Images
<1>2. Agent!Pending(Writer(col)) \in Nat
    BY PendingCounts
<1> QED BY <1>1, <1>2 DEF Recorded

LEMMA CallOpens ==
    ASSUME BooksTypes, NEW c \in Calls, NEW kind \in Agent!Kinds, call[c].stage = "idle",
           call' = [call EXCEPT ![c] = Agent!At(kind, "asked", Agent!None)]
    PROVE  /\ Agent!Pending(kind)' = Agent!Pending(kind) + 1
           /\ \A k : k # kind => Agent!Pending(k)' = Agent!Pending(k)
           /\ call' \in [Calls -> [kind : Agent!Kinds, stage : Stages, image : Images]]
           /\ call'[c].stage = "asked" /\ \A d \in Calls \ {c} : call'[d] = call[d]
<1>1. /\ call'[c].kind = kind /\ call'[c].stage = "asked"
      /\ \A d \in Calls \ {c} : call'[d] = call[d]
      /\ call' \in [Calls -> [kind : Agent!Kinds, stage : Stages, image : Images]]
    BY CallMoves, ColumnsOfNone DEF Stages
<1>2. Agent!Open' = Agent!Open \cup {c} /\ c \notin Agent!Open
    BY <1>1 DEF Agent!Open
<1>3. Agent!Pending(kind)' = Agent!Pending(kind) + 1
    <2> DEFINE W == {d \in Agent!Open : call[d].kind = kind}
    <2>1. {d \in Agent!Open : call[d].kind = kind}' = W \cup {c} /\ c \notin W
        BY <1>1, <1>2 DEF Agent!Open
    <2>2. IsFiniteSet(W) /\ Agent!Pending(kind) = Cardinality(W) /\ Cardinality(W) \in Nat
        BY PendingCounts
    <2>3. Agent!Pending(kind)' = Cardinality(W \cup {c})
        BY <2>1, SameBookCount DEF Agent!Pending
    <2> HIDE DEF W
    <2> QED BY <2>1, <2>2, <2>3, FS_AddElement
<1>4. ASSUME NEW k, k # kind PROVE Agent!Pending(k)' = Agent!Pending(k)
    <2>1. {d \in Agent!Open : call[d].kind = k}' = {d \in Agent!Open : call[d].kind = k}
        BY <1>1, <1>2, <1>4 DEF Agent!Open
    <2> QED BY <2>1 DEF Agent!Pending
<1> QED BY <1>1, <1>3, <1>4

LEMMA CallAnswered ==
    ASSUME BooksTypes, NEW c \in Calls, NEW image \in Images, call[c].stage = "asked",
           call' = [call EXCEPT ![c] = Agent!At(call[c].kind, "answered", image)]
    PROVE  /\ \A k : Agent!Pending(k)' = Agent!Pending(k)
           /\ call' \in [Calls -> [kind : Agent!Kinds, stage : Stages, image : Images]]
           /\ call'[c].image = image /\ \A d \in Calls \ {c} : call'[d] = call[d]
<1>1. call[c].kind \in Agent!Kinds
    BY DEF BooksTypes
<1>2. /\ call'[c].kind = call[c].kind /\ call'[c].stage = "answered" /\ call'[c].image = image
      /\ \A d \in Calls \ {c} : call'[d] = call[d]
      /\ call' \in [Calls -> [kind : Agent!Kinds, stage : Stages, image : Images]]
    BY <1>1, CallMoves DEF Stages
<1>3. ASSUME NEW k PROVE Agent!Pending(k)' = Agent!Pending(k)
    <2>1. {d \in Agent!Open : call[d].kind = k}' = {d \in Agent!Open : call[d].kind = k}
        BY <1>2 DEF Agent!Open
    <2> QED BY <2>1 DEF Agent!Pending
<1> QED BY <1>2, <1>3

LEMMA CallEnds ==
    ASSUME BooksTypes, NEW c \in Calls, call[c].stage = "answered",
           NEW kind \in Agent!Kinds, call[c].kind = kind,
           call' = [call EXCEPT ![c] = Agent!At(kind, "ended", Agent!None)]
    PROVE  /\ Agent!Pending(kind)' = Agent!Pending(kind) - 1
           /\ \A k : k # kind => Agent!Pending(k)' = Agent!Pending(k)
           /\ call' \in [Calls -> [kind : Agent!Kinds, stage : Stages, image : Images]]
           /\ call'[c].stage = "ended" /\ \A d \in Calls \ {c} : call'[d] = call[d]
<1>1. /\ call'[c].stage = "ended" /\ \A d \in Calls \ {c} : call'[d] = call[d]
      /\ call' \in [Calls -> [kind : Agent!Kinds, stage : Stages, image : Images]]
    BY CallMoves, ColumnsOfNone DEF Stages
<1>2. Agent!Open' = Agent!Open \ {c} /\ c \in Agent!Open
    BY <1>1 DEF Agent!Open
<1>3. Agent!Pending(kind)' = Agent!Pending(kind) - 1
    <2> DEFINE W == {d \in Agent!Open : call[d].kind = kind}
    <2>1. Agent!Pending(kind)' = Cardinality(W \ {c}) /\ c \in W
        <3>1. {d \in Agent!Open : call[d].kind = kind}' = W \ {c} /\ c \in W
            BY <1>1, <1>2 DEF Agent!Open
        <3> QED BY <3>1, SameBookCount DEF Agent!Pending
    <2>2. IsFiniteSet(W) /\ Agent!Pending(kind) = Cardinality(W) /\ Cardinality(W) \in Nat
        BY PendingCounts
    <2> HIDE DEF W
    <2> QED BY <2>1, <2>2, FS_RemoveElement
<1>4. ASSUME NEW k, k # kind PROVE Agent!Pending(k)' = Agent!Pending(k)
    <2>1. {d \in Agent!Open : call[d].kind = k}' = {d \in Agent!Open : call[d].kind = k}
        BY <1>1, <1>2, <1>4 DEF Agent!Open
    <2> QED BY <2>1 DEF Agent!Pending
<1> QED BY <1>1, <1>3, <1>4

(* A fill or a settlement is recorded: in memory and, by a write of its    *)
(* own column, in the row.                                                 *)
LEMMA RecordStep ==
    ASSUME BooksInv, NEW books \in Images, NEW col \in Columns, NEW others,
           Agent!Record(books, Writer(col), others), ~overlapped => Knows(books),
           Recorded(col)' = Recorded(col) + 1,
           \A o \in Columns \ {col} : Recorded(o)' = Recorded(o),
           agentRow' = agentRow, truth' \in Images,
           call' \in [Calls -> [kind : Agent!Kinds, stage : Stages, image : Images]],
           others = {} => \A c \in Calls : call'[c].stage # "answered"
    PROVE  BooksInv'
<1> DEFINE counted == [books EXCEPT ![col] = @ + 1]
           set == [Agent!None EXCEPT ![col] = counted[col]]
           new == [by |-> Writer(col), set |-> set]
<1>1. Agent!Column(Writer(col)) = col /\ Writer(col) \in {"fill", "settlement"}
    BY DEF Agent!Column, Writer, Columns
<1>2. /\ memory' = counted
      /\ writes' = writes \cup {new}
      /\ overlapped' = (\/ overlapped
                        \/ others # {}
                        \/ \E w \in writes : w.by = Writer(col) \/ "edit" \in {Writer(col), w.by})
    BY <1>1, Zenon DEF Agent!Record, Agent!Write, Agent!Raised, Agent!Update
<1>3. /\ counted \in Images
      /\ counted[col] = books[col] + 1
      /\ \A o \in Columns \ {col} : counted[o] = books[o]
    BY DEF Images
<1> HIDE DEF counted
<1>4. /\ set \in Images
      /\ set[col] = counted[col]
      /\ \A o \in Columns \ {col} : set[o] = Agent!Keep
    BY <1>3, ColumnsOfNone DEF Images
<1> HIDE DEF set
<1>5. /\ new \in [by : {"fill", "settlement", "edit"}, set : Images]
      /\ new.by = Writer(col) /\ new.set = set
    BY <1>1, <1>4
<1> HIDE DEF new
<1>6. overlapped \in BOOLEAN /\ overlapped' \in BOOLEAN
    BY <1>2, Zenon DEF BooksInv, BooksTypes
<1>7. BooksTypes'
    BY <1>2, <1>3, <1>5, <1>6 DEF BooksInv, BooksTypes
<1>8. ASSUME ~overlapped' PROVE AllKnow'
    <2>1. ~overlapped /\ others = {} /\ \A w \in writes : w.by \notin {Writer(col), "edit"}
        BY <1>2, <1>8, Zenon
    <2>2. AllKnow /\ Knows(books)
        BY <2>1 DEF BooksInv
    <2>3. \A o \in Columns : /\ Recorded(o) \in Int /\ Recorded(o)' >= 0
                             /\ counted[o] = Recorded(o)'
        <3>1. \A o \in Columns : Recorded(o) \in Int
            BY RecordedCounts DEF BooksInv
        <3> QED BY <1>3, <2>2, <3>1 DEF AllKnow, Knows
    <2>4. Knows(memory)'
        BY <1>2, <2>3 DEF Knows
    <2>5. \A o \in Columns : \A w \in writes' : w.set[o] # Agent!Keep
              => w.by \in {Writer(o), "edit"} /\ w.set[o] = Recorded(o)'
        BY <1>2, <1>4, <1>5, <2>1, <2>2, <2>3 DEF AllKnow
    <2>6. \A o \in Columns : (\A w \in writes' : w.set[o] = Agent!Keep)
              => agentRow'[o] = Recorded(o)'
        <3>1. new.set[col] # Agent!Keep /\ new \in writes'
            BY <1>2, <1>4, <1>5, <2>3 DEF Agent!Keep
        <3> QED BY <1>2, <3>1, <2>2 DEF AllKnow
    <2> QED BY <2>1, <2>3, <2>4, <2>5, <2>6 DEF AllKnow
<1> QED BY <1>7, <1>8 DEF BooksInv

(* A fill or a settlement takes place.                                     *)
LEMMA TakesPlaceStep ==
    ASSUME BooksInv, NEW c \in Calls, NEW col \in Columns, NEW bound,
           Agent!TakesPlace(c, Writer(col), bound)
    PROVE  BooksInv'
<1>1. Agent!Column(Writer(col)) = col /\ Writer(col) \in {"fill", "settlement"}
    BY DEF Agent!Column, Writer, Columns
<1>2. /\ truth' = [truth EXCEPT ![col] = @ + 1] /\ agentRow' = agentRow
      /\ truth \in Images
    BY <1>1 DEF Agent!TakesPlace, Agent!Raised, BooksInv, BooksTypes
<1>3. truth' \in Images /\ truth'[col] = truth[col] + 1
      /\ \A o \in Columns \ {col} : truth'[o] = truth[o]
    BY <1>2 DEF Images
<1>4. \A o \in Columns : truth[o] \in Int /\ Agent!Pending(Writer(o)) \in Nat
    BY RecordedCounts DEF BooksInv
<1>5. CASE memory # Agent!None
    <2>1. /\ Agent!Record(memory, Writer(col), Agent!Open) /\ call' = call
        BY <1>1, <1>5, Zenon DEF Agent!TakesPlace
    <2>2. \A k : Agent!Pending(k)' = Agent!Pending(k)
        BY <2>1 DEF Agent!Pending, Agent!Open
    <2>3. Recorded(col)' = Recorded(col) + 1 /\ \A o \in Columns \ {col} : Recorded(o)' = Recorded(o)
        BY <1>3, <1>4, <2>2 DEF Recorded
    <2>4. Agent!Open = {} => \A d \in Calls : call'[d].stage # "answered"
        BY <2>1 DEF Agent!Open
    <2>5. memory \in Images /\ (~overlapped => Knows(memory))
        BY <1>5 DEF BooksInv, BooksTypes, AllKnow
    <2>6. call' \in [Calls -> [kind : Agent!Kinds, stage : Stages, image : Images]]
        BY <2>1 DEF BooksInv, BooksTypes
    <2> QED BY <1>2, <1>3, <2>1, <2>3, <2>4, <2>5, <2>6, RecordStep
<1>6. CASE memory = Agent!None
    <2>1. /\ call[c].stage = "idle"
          /\ call' = [call EXCEPT ![c] = Agent!At(Writer(col), "asked", Agent!None)]
          /\ UNCHANGED <<memory, writes>>
        BY <1>1, <1>6, Zenon DEF Agent!TakesPlace
    <2>2. overlapped' = (overlapped \/ Agent!Open # {} \/ writes # {})
        BY <1>1, <1>6, Zenon DEF Agent!TakesPlace
    <2>3. /\ Agent!Pending(Writer(col))' = Agent!Pending(Writer(col)) + 1
          /\ \A k : k # Writer(col) => Agent!Pending(k)' = Agent!Pending(k)
          /\ call' \in [Calls -> [kind : Agent!Kinds, stage : Stages, image : Images]]
          /\ call'[c].stage = "asked" /\ \A d \in Calls \ {c} : call'[d] = call[d]
        <3>1. Writer(col) \in Agent!Kinds
            BY <1>1 DEF Agent!Kinds
        <3> QED BY <2>1, <3>1, CallOpens DEF BooksInv
    <2>4. \A o \in Columns : Recorded(o)' = Recorded(o)
        <3>1. \A o \in Columns \ {col} : Writer(o) # Writer(col)
            BY DEF Writer, Columns
        <3> QED BY <1>3, <1>4, <2>3, <3>1 DEF Recorded
    <2>5. overlapped' \in BOOLEAN
        BY <2>2, Zenon DEF BooksInv, BooksTypes
    <2>6. BooksTypes'
        BY <1>2, <1>3, <2>1, <2>3, <2>5 DEF BooksInv, BooksTypes
    <2>7. ASSUME ~overlapped' PROVE AllKnow'
        <3>1. ~overlapped
            BY <2>2, <2>7, Zenon
        <3>2. AllKnow
            BY <3>1 DEF BooksInv
        <3> QED BY <1>2, <1>6, <2>1, <2>3, <2>4, <3>2 DEF AllKnow, Knows
    <2> QED BY <2>6, <2>7 DEF BooksInv
<1> QED BY <1>5, <1>6

(* A look-up, or the one of an edit, is asked.                             *)
LEMMA AskStep ==
    ASSUME BooksInv, NEW c \in Calls, NEW kind \in {"look-up", "edit"}, Agent!Ask(c, kind)
    PROVE  BooksInv'
<1>1. /\ call[c].stage = "idle"
      /\ call' = [call EXCEPT ![c] = Agent!At(kind, "asked", Agent!None)]
      /\ UNCHANGED <<memory, agentRow, writes, truth>>
    BY DEF Agent!Ask
<1>2. overlapped' = (overlapped \/ writes # {})
    BY DEF Agent!Ask
<1>3. /\ \A k : k # kind => Agent!Pending(k)' = Agent!Pending(k)
      /\ call' \in [Calls -> [kind : Agent!Kinds, stage : Stages, image : Images]]
      /\ call'[c].stage = "asked" /\ \A d \in Calls \ {c} : call'[d] = call[d]
    <2>1. kind \in Agent!Kinds
        BY DEF Agent!Kinds
    <2> QED BY <1>1, <2>1, CallOpens DEF BooksInv
<1>4. \A o \in Columns : Recorded(o)' = Recorded(o)
    <2>1. \A o \in Columns : Writer(o) # kind
        BY DEF Writer
    <2> QED BY <1>1, <1>3, <2>1 DEF Recorded
<1>5. overlapped' \in BOOLEAN /\ (~overlapped' => ~overlapped)
    BY <1>2, Zenon DEF BooksInv, BooksTypes
<1>6. BooksTypes'
    BY <1>1, <1>3, <1>5 DEF BooksInv, BooksTypes
<1>7. ASSUME ~overlapped' PROVE AllKnow'
    <2>1. AllKnow
        BY <1>5, <1>7 DEF BooksInv
    <2> QED BY <1>1, <1>3, <1>4, <2>1 DEF AllKnow, Knows
<1> QED BY <1>6, <1>7 DEF BooksInv

(* The database answers: with no write on its way, the row knows.          *)
LEMMA DbAnswersStep ==
    ASSUME BooksInv, NEW c \in Calls, Agent!DbAnswers(c)
    PROVE  BooksInv'
<1>1. PICK image \in {agentRow, Agent!None} :
          call' = [call EXCEPT ![c] = Agent!At(call[c].kind, "answered", image)]
    BY DEF Agent!DbAnswers, BooksInv, BooksTypes
<1>2. /\ call[c].stage = "asked"
      /\ UNCHANGED <<memory, agentRow, writes, truth>>
    BY DEF Agent!DbAnswers
<1>3. overlapped' = (overlapped \/ writes # {})
    BY DEF Agent!DbAnswers
<1>4. /\ \A k : Agent!Pending(k)' = Agent!Pending(k)
      /\ call' \in [Calls -> [kind : Agent!Kinds, stage : Stages, image : Images]]
      /\ call'[c].image = image /\ \A d \in Calls \ {c} : call'[d] = call[d]
    <2>1. image \in Images
        BY <1>1, ColumnsOfNone DEF BooksInv, BooksTypes
    <2> QED BY <1>1, <1>2, <2>1, CallAnswered DEF BooksInv
<1>5. \A o \in Columns : Recorded(o)' = Recorded(o)
    BY <1>2, <1>4 DEF Recorded
<1>6. overlapped' \in BOOLEAN /\ (~overlapped' => ~overlapped /\ writes = {})
    BY <1>3, Zenon DEF BooksInv, BooksTypes
<1>7. BooksTypes'
    BY <1>2, <1>4, <1>6 DEF BooksInv, BooksTypes
<1>8. ASSUME ~overlapped' PROVE AllKnow'
    <2>1. AllKnow /\ writes = {}
        BY <1>6, <1>8 DEF BooksInv
    <2>2. image # Agent!None => Knows(image)
        BY <1>1, <2>1 DEF AllKnow, Knows
    <2> QED BY <1>2, <1>4, <1>5, <2>1, <2>2 DEF AllKnow, Knows
<1> QED BY <1>7, <1>8 DEF BooksInv

(* The caller goes on: what it has, from the row or from memory, knows.    *)
LEMMA GoOnStep ==
    ASSUME BooksInv, NEW c \in Calls, Agent!GoOn(c)
    PROVE  BooksInv'
<1>0. PICK kind \in Agent!Kinds : call[c].kind = kind
    BY DEF BooksInv, BooksTypes
<1> DEFINE books == IF call[c].image # Agent!None THEN call[c].image ELSE memory
<1>1. /\ call[c].stage = "answered"
      /\ call' = [call EXCEPT ![c] = Agent!At(kind, "ended", Agent!None)]
      /\ UNCHANGED <<agentRow, truth>>
    BY <1>0 DEF Agent!GoOn
<1>2. \/ /\ kind = "look-up" \/ books = Agent!None
         /\ memory' = books /\ writes' = writes
         /\ overlapped' = (overlapped \/ kind \in {"fill", "settlement"})
      \/ /\ books # Agent!None /\ kind \in {"fill", "settlement"}
         /\ Agent!Record(books, kind, Agent!Open \ {c})
      \/ /\ books # Agent!None /\ kind = "edit" /\ memory' = books
         /\ Agent!Write(kind, books, Agent!Open \ {c})
    BY <1>0, Zenon DEF Agent!GoOn
<1>3. books \in Images
    BY DEF BooksInv, BooksTypes
<1>4. ~overlapped => books = Agent!None \/ Knows(books)
    BY <1>1 DEF BooksInv, AllKnow
<1> HIDE DEF books
<1>5. /\ Agent!Pending(kind)' = Agent!Pending(kind) - 1
      /\ \A k : k # kind => Agent!Pending(k)' = Agent!Pending(k)
      /\ call' \in [Calls -> [kind : Agent!Kinds, stage : Stages, image : Images]]
      /\ call'[c].stage = "ended" /\ \A d \in Calls \ {c} : call'[d] = call[d]
    <2>1. BooksTypes
        BY DEF BooksInv
    <2> QED BY <1>0, <1>1, <2>1, CallEnds
<1>6. /\ \A o \in Columns : Recorded(o) \in Int /\ truth[o] \in Int /\ Agent!Pending(Writer(o)) \in Nat
      /\ truth' \in Images
    BY <1>1, RecordedCounts DEF BooksInv, BooksTypes
<1>7. kind \in {"look-up", "edit"} => \A o \in Columns : Recorded(o)' = Recorded(o)
    <2>1. kind \in {"look-up", "edit"} => \A o \in Columns : Writer(o) # kind
        BY DEF Writer
    <2> QED BY <1>1, <1>5, <2>1 DEF Recorded
<1>8. CASE /\ kind = "look-up" \/ books = Agent!None
           /\ memory' = books /\ writes' = writes
           /\ overlapped' = (overlapped \/ kind \in {"fill", "settlement"})
    <2>1. overlapped' \in BOOLEAN /\ (~overlapped' => ~overlapped /\ kind \notin {"fill", "settlement"})
        BY <1>8, Zenon DEF BooksInv, BooksTypes
    <2>2. BooksTypes'
        BY <1>1, <1>3, <1>5, <1>8, <2>1 DEF BooksInv, BooksTypes
    <2>3. ASSUME ~overlapped' PROVE AllKnow'
        <3>1. AllKnow /\ kind \in {"look-up", "edit"}
            BY <1>3, <2>1, <2>3 DEF BooksInv, Agent!Kinds
        <3>2. books # Agent!None => Knows(books)
            BY <1>4, <2>1, <2>3
        <3> QED BY <1>1, <1>5, <1>7, <1>8, <3>1, <3>2 DEF AllKnow, Knows
    <2> QED BY <2>2, <2>3 DEF BooksInv
<1>9. CASE /\ books # Agent!None /\ kind \in {"fill", "settlement"}
           /\ Agent!Record(books, kind, Agent!Open \ {c})
    <2>1. PICK col \in Columns : kind = Writer(col) /\ \A o \in Columns \ {col} : Writer(o) # kind
        BY <1>9 DEF Columns, Writer
    <2>2. Recorded(col)' = Recorded(col) + 1 /\ \A o \in Columns \ {col} : Recorded(o)' = Recorded(o)
        <3>1. truth'[col] = truth[col]
            BY <1>1
        <3>2. Agent!Pending(Writer(col))' = Agent!Pending(Writer(col)) - 1
            BY <1>5, <2>1
        <3>3. Recorded(col)' = Recorded(col) + 1
            BY <1>6, <3>1, <3>2 DEF Recorded
        <3> QED BY <1>1, <1>5, <2>1, <3>3 DEF Recorded
    <2>3. Agent!Open \ {c} = {} => \A d \in Calls : call'[d].stage # "answered"
        BY <1>5 DEF Agent!Open
    <2>4. ~overlapped => Knows(books)
        BY <1>4, <1>9
    <2> QED BY <1>1, <1>3, <1>5, <1>6, <1>9, <2>1, <2>2, <2>3, <2>4, RecordStep
<1>10. CASE /\ books # Agent!None /\ kind = "edit" /\ memory' = books
            /\ Agent!Write(kind, books, Agent!Open \ {c})
    <2> DEFINE new == [by |-> kind, set |-> books]
    <2>1. /\ writes' = writes \cup {new}
          /\ overlapped' = (\/ overlapped
                            \/ Agent!Open \ {c} # {}
                            \/ \E w \in writes : w.by = kind \/ "edit" \in {kind, w.by})
        BY <1>10, Zenon DEF Agent!Write
    <2>2. /\ new \in [by : {"fill", "settlement", "edit"}, set : Images]
          /\ new.by = "edit" /\ new.set = books
        BY <1>3, <1>10
    <2> HIDE DEF new
    <2>3. /\ overlapped' \in BOOLEAN
          /\ ~overlapped' => ~overlapped /\ Agent!Open \ {c} = {} /\ writes = {}
        BY <1>10, <2>1, Zenon DEF BooksInv, BooksTypes
    <2>4. BooksTypes'
        BY <1>1, <1>3, <1>5, <1>10, <2>1, <2>2, <2>3 DEF BooksInv, BooksTypes
    <2>5. ASSUME ~overlapped' PROVE AllKnow'
        <3>1. AllKnow /\ Knows(books) /\ writes = {} /\ Agent!Open \ {c} = {}
            BY <1>4, <1>10, <2>3, <2>5 DEF BooksInv
        <3>2. \A d \in Calls : call'[d].stage # "answered"
            BY <1>5, <3>1 DEF Agent!Open
        <3>3. \A o \in Columns : Recorded(o)' = books[o] /\ books[o] >= 0
            BY <1>7, <1>10, <3>1 DEF AllKnow, Knows
        <3>4. \A o \in Columns : new.set[o] # Agent!Keep /\ new \in writes'
            BY <2>1, <2>2, <3>3 DEF Agent!Keep
        <3>5. \A w \in writes' : w = new
            BY <2>1, <3>1
        <3> QED BY <1>10, <2>2, <3>2, <3>3, <3>4, <3>5 DEF AllKnow, Knows
    <2> QED BY <2>4, <2>5 DEF BooksInv
<1> QED BY <1>2, <1>8, <1>9, <1>10

(* A write lands, or is lost.                                              *)
LEMMA LandStep ==
    ASSUME BooksInv, NEW w \in writes, Agent!Land(w)
    PROVE  BooksInv'
<1>1. writes' = writes \ {w} /\ UNCHANGED <<memory, call, truth>>
    BY DEF Agent!Land
<1>2. \A o \in Columns : Recorded(o)' = Recorded(o)
    BY <1>1 DEF Recorded, Agent!Pending, Agent!Open
<1>3. w.set \in Images /\ agentRow \in Images
    BY DEF BooksInv, BooksTypes
<1>4. CASE /\ agentRow' = [c \in {"spent", "pnl"} |-> IF w.set[c] = Agent!Keep THEN agentRow[c]
                                                      ELSE w.set[c]]
           /\ UNCHANGED overlapped
    <2>1. agentRow' \in Images
        BY <1>3, <1>4 DEF Images, Columns
    <2>2. \A o \in Columns : agentRow'[o] = IF w.set[o] = Agent!Keep THEN agentRow[o] ELSE w.set[o]
        BY <1>4 DEF Columns
    <2>3. BooksTypes'
        BY <1>1, <1>4, <2>1 DEF BooksInv, BooksTypes
    <2>4. ASSUME ~overlapped, AllKnow PROVE AllKnow'
        <3>1. \A o \in Columns : (\A v \in writes' : v.set[o] = Agent!Keep)
                                     => agentRow'[o] = Recorded(o)
            <4>1. ASSUME NEW o \in Columns, \A v \in writes' : v.set[o] = Agent!Keep,
                         w.set[o] = Agent!Keep
                  PROVE  agentRow[o] = Recorded(o)
                <5>1. \A v \in writes : v.set[o] = Agent!Keep
                    BY <1>1, <4>1
                <5> QED BY <2>4, <5>1 DEF AllKnow
            <4>2. ASSUME NEW o \in Columns, w.set[o] # Agent!Keep PROVE w.set[o] = Recorded(o)
                BY <2>4, <4>2 DEF AllKnow
            <4> QED BY <2>2, <4>1, <4>2
        <3> QED BY <1>1, <1>2, <2>4, <3>1 DEF AllKnow, Knows
    <2> QED BY <1>4, <2>3, <2>4 DEF BooksInv
<1>5. CASE UNCHANGED agentRow /\ overlapped' = TRUE
    BY <1>1, <1>5 DEF BooksInv, BooksTypes
<1> QED BY <1>4, <1>5 DEF Agent!Land

LEMMA BooksStep ==
    ASSUME BooksInv, Agent!Next
    PROVE  BooksInv'
<1>1. ASSUME NEW c \in Calls, Agent!RecordTradeFill(c) PROVE BooksInv'
    <2>1. "fill" = Writer("spent") /\ "spent" \in Columns
        BY DEF Writer, Columns
    <2> QED BY <1>1, <2>1, TakesPlaceStep DEF Agent!RecordTradeFill
<1>2. ASSUME NEW c \in Calls, Agent!RecordTradeSettlement(c) PROVE BooksInv'
    <2>1. "settlement" = Writer("pnl") /\ "pnl" \in Columns
        BY DEF Writer, Columns
    <2> QED BY <1>2, <2>1, TakesPlaceStep DEF Agent!RecordTradeSettlement
<1> QED BY <1>1, <1>2, AskStep, DbAnswersStep, GoOnStep, LandStep DEF Agent!Next

LEMMA BooksAreExact ==
    ASSUME BooksInv
    PROVE  ExactUnlessOverlapped
<1> DEFINE recorded == [spent |-> truth.spent - Agent!Pending("fill"),
                        pnl |-> truth.pnl - Agent!Pending("settlement")]
<1>1. "spent" \in Columns /\ "pnl" \in Columns /\ Columns = {"spent", "pnl"}
    BY DEF Columns
<1>2. \A col \in Columns : recorded[col] = Recorded(col)
    BY <1>1 DEF Recorded, Writer
<1>3. ASSUME NEW books \in Images, Knows(books) PROVE books = recorded
    BY <1>1, <1>2, <1>3 DEF Knows, Images
<1>4. ASSUME ~overlapped
      PROVE  /\ memory # Agent!None => memory = recorded
             /\ writes = {} => agentRow = recorded
    <2>1. AllKnow /\ memory \in Images /\ agentRow \in Images
        BY <1>4 DEF BooksInv, BooksTypes
    <2>2. writes = {} => Knows(agentRow)
        BY <2>1 DEF AllKnow, Knows
    <2>3. memory # Agent!None => Knows(memory)
        BY <2>1 DEF AllKnow
    <2> QED BY <1>3, <2>1, <2>2, <2>3
<1> QED BY <1>4 DEF ExactUnlessOverlapped, Agent!ExactUnlessOverlapped

-----------------------------------------------------------------------------
(* Copy trading.  Every cap that a relation object, the row or an event    *)
(* carries was chosen by the user.  As long as nothing disturbs them, one  *)
(* copy at a time is between its check and its count, and it fits.         *)

CopyRels == [isActive : BOOLEAN, dailyVolumeCap : Nat, spentToday : Nat, resetAt : Nat]
CopyStages == {"idle", "checking", "placing", "ended"}

CopyTypes ==
    /\ current \in Nat \ {0}
    /\ heap \in [1..current -> CopyRels]
    /\ dispatch \in [Dispatches -> [stage : CopyStages, rel : Nat, cost : Nat]]
    /\ \A d \in Dispatches : dispatch[d].stage \in {"checking", "placing"}
                             => dispatch[d].rel \in 1..current
    /\ row \in CopyRels
    /\ events \subseteq CopyRels
    /\ copied \in Nat
    /\ peak \in Nat
    /\ disturbed \in BOOLEAN

CapsChosen ==
    /\ \A i \in 1..current : heap[i].dailyVolumeCap =< peak
    /\ row.dailyVolumeCap =< peak
    /\ \A image \in events : image.dailyVolumeCap =< peak

(* The copy that is placed fits, and it is the only one.                   *)
PlacedFits ==
    \A d \in Copy!At("placing") :
        /\ dispatch[d].rel = current
        /\ copied + dispatch[d].cost =< peak
        /\ \A e \in Copy!At("placing") : e = d

CopyInv ==
    /\ CopyTypes
    /\ CapsChosen
    /\ ~disturbed => heap[current].spentToday = copied /\ copied =< peak /\ PlacedFits

(* The spend of a relation is set.                                         *)
LEMMA SpendSet ==
    ASSUME NEW r \in CopyRels, NEW s \in Nat, NEW t \in Nat
    PROVE  /\ [r EXCEPT !.spentToday = s, !.resetAt = t] \in CopyRels
           /\ [r EXCEPT !.spentToday = s, !.resetAt = t].dailyVolumeCap = r.dailyVolumeCap
           /\ [r EXCEPT !.spentToday = s, !.resetAt = t].spentToday = s
BY DEF CopyRels

(* A dispatch moves to another stage.                                      *)
LEMMA DispatchMoves ==
    ASSUME CopyTypes, NEW d \in Dispatches, NEW new \in [stage : CopyStages, rel : Nat, cost : Nat],
           dispatch' = [dispatch EXCEPT ![d] = new]
    PROVE  /\ dispatch' \in [Dispatches -> [stage : CopyStages, rel : Nat, cost : Nat]]
           /\ dispatch'[d] = new
           /\ \A e \in Dispatches \ {d} : dispatch'[e] = dispatch[e]
BY DEF CopyTypes

LEMMA DispatchPlaces ==
    ASSUME NEW x \in [stage : CopyStages, rel : Nat, cost : Nat], NEW c \in Nat, NEW y,
           y = [x EXCEPT !.stage = "placing", !.cost = c]
    PROVE  y = [stage |-> "placing", rel |-> x.rel, cost |-> c]
<1>1. /\ y.stage = "placing" /\ y.rel = x.rel /\ y.cost = c
      /\ y \in [stage : {"placing"} \cup CopyStages, rel : Nat, cost : Nat]
    OBVIOUS
<1> QED BY <1>1

(* A dispatch begins or ends without a copy.                               *)
LEMMA QuietDispatch ==
    ASSUME CopyInv, NEW d \in Dispatches, NEW new \in [stage : CopyStages, rel : Nat, cost : Nat],
           dispatch' = [dispatch EXCEPT ![d] = new], new.stage # "placing",
           new.stage = "checking" => new.rel = current,
           UNCHANGED <<heap, current, row, events, copied, peak, disturbed>>
    PROVE  CopyInv'
<1>1. /\ dispatch' \in [Dispatches -> [stage : CopyStages, rel : Nat, cost : Nat]]
      /\ dispatch'[d] = new
      /\ \A e \in Dispatches \ {d} : dispatch'[e] = dispatch[e]
    BY DispatchMoves DEF CopyInv
<1>2. CopyTypes'
    BY <1>1 DEF CopyInv, CopyTypes
<1>3. CapsChosen'
    BY DEF CopyInv, CapsChosen
<1>4. \A e \in Copy!At("placing")' : e \in Copy!At("placing") /\ dispatch'[e] = dispatch[e]
    BY <1>1 DEF Copy!At
<1>5. PlacedFits => PlacedFits'
    BY <1>4 DEF PlacedFits
<1> QED BY <1>2, <1>3, <1>5 DEF CopyInv

(* One object is changed in place.                                         *)
LEMMA ObjectChanges ==
    ASSUME CopyTypes, NEW i \in 1..current, NEW r \in CopyRels, heap' = [heap EXCEPT ![i] = r],
           current' = current
    PROVE  /\ heap' \in [1..current' -> CopyRels]
           /\ heap'[i] = r
           /\ \A j \in 1..current \ {i} : heap'[j] = heap[j]
BY DEF CopyTypes

(* The cap is checked on the object held.                                  *)
LEMMA CheckCapStep ==
    ASSUME CopyInv, now \in Nat, NEW d \in Dispatches, NEW c \in Nat, Copy!Check(d, c)
    PROVE  CopyInv'
<1>1. PICK held \in 1..current : held = dispatch[d].rel
    BY DEF Copy!Check, CopyInv, CopyTypes
<1>2. /\ dispatch[d].stage = "checking" /\ dispatch[d].cost \in Nat /\ heap[held] \in CopyRels
      /\ current \in 1..current /\ heap[current] \in CopyRels
      /\ UNCHANGED <<now, current, row, events, peak>>
    BY DEF Copy!Check, CopyInv, CopyTypes
<1>3. disturbed' = (disturbed \/ held # current \/ Copy!At("placing") # {})
    BY <1>1, Zenon DEF Copy!Check
<1>4. /\ disturbed' \in BOOLEAN
      /\ ~disturbed' => ~disturbed /\ held = current /\ Copy!At("placing") = {}
    BY <1>3, Zenon DEF CopyInv, CopyTypes
(* The object after the roll-over, if it is due.                           *)
<1>5. PICK rel \in CopyRels :
         /\ heap' = [heap EXCEPT ![held] = rel]
         /\ rel.dailyVolumeCap = heap[held].dailyVolumeCap
         /\ copied' \in Nat
         /\ held = current /\ heap[held].spentToday = copied /\ copied =< peak
              => rel.spentToday = copied' /\ copied' =< peak
         /\ \/ dispatch' = [dispatch EXCEPT ![d].stage = "ended"]
            \/ /\ rel.spentToday + c =< rel.dailyVolumeCap
               /\ dispatch' = [dispatch EXCEPT ![d] = [@ EXCEPT !.stage = "placing", !.cost = c]]
    <2>1. CASE now - heap[held].resetAt > Day
        <3> DEFINE rel == [heap[held] EXCEPT !.spentToday = 0, !.resetAt = now]
        <3>1. /\ rel \in CopyRels /\ rel.dailyVolumeCap = heap[held].dailyVolumeCap
              /\ rel.spentToday = 0
            <4>1. heap[held] \in CopyRels /\ now \in Nat /\ 0 \in Nat
                BY <1>2
            <4> QED BY <4>1 DEF CopyRels
        <3>2. /\ heap' = [heap EXCEPT ![held] = rel]
              /\ copied' = IF held = current THEN 0 ELSE copied
              /\ \/ dispatch' = [dispatch EXCEPT ![d].stage = "ended"]
                 \/ /\ rel.spentToday + c =< rel.dailyVolumeCap
                    /\ dispatch' = [dispatch EXCEPT ![d] = [@ EXCEPT !.stage = "placing", !.cost = c]]
            BY <1>1, <2>1 DEF Copy!Check, Copy!CapAllows
        <3> HIDE DEF rel
        <3>3. copied \in Nat /\ peak \in Nat /\ copied' \in Nat
            BY <3>2 DEF CopyInv, CopyTypes
        <3>4. held = current /\ heap[held].spentToday = copied /\ copied =< peak
                => rel.spentToday = copied' /\ copied' =< peak
            BY <3>1, <3>2, <3>3
        <3> QED BY <3>1, <3>2, <3>3, <3>4
    <2>2. CASE ~(now - heap[held].resetAt > Day)
        <3>1. /\ heap' = [heap EXCEPT ![held] = heap[held]]
              /\ copied' = copied
              /\ \/ dispatch' = [dispatch EXCEPT ![d].stage = "ended"]
                 \/ /\ heap[held].spentToday + c =< heap[held].dailyVolumeCap
                    /\ dispatch' = [dispatch EXCEPT ![d] = [@ EXCEPT !.stage = "placing", !.cost = c]]
            BY <1>1, <2>2 DEF Copy!Check, Copy!CapAllows
        <3>2. copied \in Nat
            BY DEF CopyInv, CopyTypes
        <3> QED BY <1>2, <3>1, <3>2
    <2> QED BY <2>1, <2>2
<1>6. /\ heap' \in [1..current' -> CopyRels] /\ heap'[held] = rel
      /\ \A j \in 1..current \ {held} : heap'[j] = heap[j]
    BY <1>2, <1>5, ObjectChanges DEF CopyInv
<1>7. PICK new \in [stage : {"ended", "placing"}, rel : {held}, cost : Nat] :
         /\ dispatch' = [dispatch EXCEPT ![d] = new]
         /\ new.stage = "placing" => new.cost = c /\ rel.spentToday + c =< rel.dailyVolumeCap
    <2> DEFINE ended == [stage |-> "ended", rel |-> held, cost |-> dispatch[d].cost]
               placed == [stage |-> "placing", rel |-> held, cost |-> c]
    <2>1. dispatch[d] \in [stage : CopyStages, rel : Nat, cost : Nat]
        BY DEF CopyInv, CopyTypes
    <2>2. /\ [dispatch[d] EXCEPT !.stage = "ended"] = ended
          /\ [dispatch[d] EXCEPT !.stage = "placing", !.cost = c] = placed
        <3>1. [dispatch[d] EXCEPT !.stage = "ended"] = ended
            BY <1>1, <2>1
        <3>2. PICK y : y = [dispatch[d] EXCEPT !.stage = "placing", !.cost = c]
            OBVIOUS
        <3>3. y = [stage |-> "placing", rel |-> dispatch[d].rel, cost |-> c]
            BY <2>1, <3>2, DispatchPlaces
        <3> QED BY <1>1, <3>1, <3>2, <3>3
    <2>4. /\ [dispatch EXCEPT ![d].stage = "ended"] = [dispatch EXCEPT ![d] = ended]
          /\ [dispatch EXCEPT ![d] = [@ EXCEPT !.stage = "placing", !.cost = c]]
               = [dispatch EXCEPT ![d] = placed]
        BY <2>2 DEF CopyInv, CopyTypes
    <2>3. /\ ended \in [stage : {"ended", "placing"}, rel : {held}, cost : Nat]
          /\ placed \in [stage : {"ended", "placing"}, rel : {held}, cost : Nat]
          /\ ended.stage = "ended" /\ placed.cost = c
        BY <1>2
    <2> HIDE DEF ended, placed
    <2> QED BY <1>5, <2>4, <2>3
<1>8. /\ dispatch' \in [Dispatches -> [stage : CopyStages, rel : Nat, cost : Nat]]
      /\ dispatch'[d] = new
      /\ \A e \in Dispatches \ {d} : dispatch'[e] = dispatch[e]
    <2>1. new \in [stage : CopyStages, rel : Nat, cost : Nat]
        BY DEF CopyStages
    <2> QED BY <1>7, <2>1, DispatchMoves DEF CopyInv
<1>9. CopyTypes'
    <2>1. \A e \in Dispatches : dispatch'[e].stage \in {"checking", "placing"}
                               => dispatch'[e].rel \in 1..current'
        BY <1>2, <1>8 DEF CopyInv, CopyTypes
    <2> QED BY <1>2, <1>4, <1>5, <1>6, <1>8, <2>1 DEF CopyInv, CopyTypes
<1>10. CapsChosen'
    BY <1>2, <1>5, <1>6 DEF CopyInv, CapsChosen
<1>11. ASSUME ~disturbed'
       PROVE  heap'[current'].spentToday = copied' /\ copied' =< peak' /\ PlacedFits'
    <2>1. /\ heap[current].spentToday = copied /\ copied =< peak
          /\ held = current /\ Copy!At("placing") = {}
        BY <1>4, <1>11 DEF CopyInv
    <2>2. rel.spentToday = copied' /\ copied' =< peak /\ peak' = peak /\ heap'[current'] = rel
        BY <1>2, <1>5, <1>6, <2>1
    <2>3. \A e \in Copy!At("placing")' : e = d
        BY <1>8, <2>1 DEF Copy!At
    <2>4. rel.dailyVolumeCap =< peak
        BY <1>5 DEF CopyInv, CapsChosen
    <2>5. PlacedFits'
        <3>1. ASSUME d \in Copy!At("placing")' PROVE copied' + c =< peak' /\ new.cost = c
            <4>1. new.stage = "placing"
                BY <1>8, <3>1 DEF Copy!At
            <4>2. rel.spentToday + c =< rel.dailyVolumeCap /\ new.cost = c
                BY <1>7, <4>1
            <4>3. rel.spentToday \in Nat /\ rel.dailyVolumeCap \in Nat /\ peak \in Nat
                BY DEF CopyRels, CopyInv, CopyTypes
            <4> QED BY <2>2, <2>4, <4>2, <4>3
        <3> QED BY <1>2, <1>8, <2>1, <2>3, <3>1 DEF PlacedFits
    <2> QED BY <2>2, <2>5
<1> QED BY <1>9, <1>10, <1>11 DEF CopyInv

(* The order was executed: the copy is counted on the object held.         *)
LEMMA CountStep ==
    ASSUME CopyInv, NEW d \in Dispatches, Copy!Count(d)
    PROVE  CopyInv'
<1>1. PICK held \in 1..current : held = dispatch[d].rel
    BY DEF Copy!Count, CopyInv, CopyTypes
<1>2. PICK cost \in Nat : cost = dispatch[d].cost
    BY DEF CopyInv, CopyTypes
<1> DEFINE spend == heap[held].spentToday + cost
           rel == [heap[held] EXCEPT !.spentToday = spend]
           ended == [stage |-> "ended", rel |-> held, cost |-> cost]
           saved == [row EXCEPT !.spentToday = spend, !.resetAt = heap[held].resetAt]
<1>3. /\ heap[held] \in CopyRels /\ row \in CopyRels /\ events \subseteq CopyRels
      /\ dispatch[d] \in [stage : CopyStages, rel : Nat, cost : Nat]
      /\ current \in 1..current /\ heap[current] \in CopyRels
      /\ copied \in Nat /\ peak \in Nat
    BY DEF CopyInv, CopyTypes
<1>4. spend \in Nat /\ heap[held].resetAt \in Nat
    BY <1>3 DEF CopyRels
<1>5. /\ rel \in CopyRels /\ rel.spentToday = spend /\ rel.resetAt = heap[held].resetAt
      /\ rel.dailyVolumeCap = heap[held].dailyVolumeCap
    BY <1>3, <1>4 DEF CopyRels
<1>6. saved \in CopyRels /\ saved.dailyVolumeCap = row.dailyVolumeCap
    BY <1>3, <1>4 DEF CopyRels
<1>7. [dispatch[d] EXCEPT !.stage = "ended"] = ended
    BY <1>1, <1>2, <1>3
<1>8. /\ dispatch[d].stage = "placing"
      /\ dispatch' = [dispatch EXCEPT ![d] = ended]
      /\ heap' = [heap EXCEPT ![held] = rel]
      /\ copied' = copied + cost
      /\ (row' = saved /\ events' = events \cup {saved}) \/ UNCHANGED <<row, events>>
      /\ UNCHANGED <<now, current, peak, disturbed>>
    <2>1. dispatch' = [dispatch EXCEPT ![d] = [dispatch[d] EXCEPT !.stage = "ended"]]
        BY DEF Copy!Count, CopyInv, CopyTypes
    <2>2. heap' = [heap EXCEPT ![held] = rel]
        BY <1>1, <1>2 DEF Copy!Count
    <2>3. Copy!Persist([row EXCEPT !.spentToday = rel.spentToday, !.resetAt = rel.resetAt])
        BY <1>1, <1>2 DEF Copy!Count
    <2>4. Copy!Persist(saved)
        BY <1>5, <2>3
    <2> HIDE DEF saved, rel
    <2> QED BY <1>2, <1>7, <2>1, <2>2, <2>4 DEF Copy!Count, Copy!Persist
<1>9. ended \in [stage : CopyStages, rel : Nat, cost : Nat] /\ ended.stage = "ended"
    BY DEF CopyStages
<1> HIDE DEF spend, rel, ended, saved
<1>10. /\ heap' \in [1..current' -> CopyRels] /\ heap'[held] = rel
       /\ \A j \in 1..current \ {held} : heap'[j] = heap[j]
    BY <1>5, <1>8, ObjectChanges DEF CopyInv
<1>11. /\ dispatch' \in [Dispatches -> [stage : CopyStages, rel : Nat, cost : Nat]]
       /\ dispatch'[d] = ended
       /\ \A e \in Dispatches \ {d} : dispatch'[e] = dispatch[e]
    BY <1>8, <1>9, DispatchMoves DEF CopyInv
<1>12. CopyTypes'
    <2>1. \A e \in Dispatches : dispatch'[e].stage \in {"checking", "placing"}
                               => dispatch'[e].rel \in 1..current'
        BY <1>8, <1>9, <1>11 DEF CopyInv, CopyTypes
    <2>2. row' \in CopyRels /\ events' \subseteq CopyRels /\ copied' \in Nat
        BY <1>3, <1>6, <1>8
    <2> QED BY <1>8, <1>10, <1>11, <2>1, <2>2 DEF CopyInv, CopyTypes
<1>13. CapsChosen'
    BY <1>5, <1>6, <1>8, <1>10 DEF CopyInv, CapsChosen
<1>14. ASSUME ~disturbed'
       PROVE  heap'[current'].spentToday = copied' /\ copied' =< peak' /\ PlacedFits'
    <2>1. /\ heap[current].spentToday = copied /\ PlacedFits
          /\ d \in Copy!At("placing")
        BY <1>8, <1>14 DEF CopyInv, Copy!At
    <2>2. /\ held = current /\ copied + cost =< peak
          /\ \A e \in Copy!At("placing") : e = d
        BY <1>1, <1>2, <2>1 DEF PlacedFits
    <2>3. heap'[current'].spentToday = copied'
        BY <1>5, <1>8, <1>10, <2>1, <2>2 DEF spend
    <2>4. Copy!At("placing")' = {}
        BY <1>9, <1>11, <2>2 DEF Copy!At
    <2> QED BY <1>8, <2>2, <2>3, <2>4 DEF PlacedFits
<1> QED BY <1>12, <1>13, <1>14 DEF CopyInv

(* A new object takes the place of the old one.                            *)
LEMMA ReplaceStep ==
    ASSUME CopyInv, NEW r \in CopyRels, Copy!Replace(r),
           dispatch' \in [Dispatches -> [stage : CopyStages, rel : Nat, cost : Nat]],
           \A d \in Dispatches : dispatch'[d].stage \in {"checking", "placing"} => dispatch'[d] = dispatch[d],
           row' \in CopyRels, events' \subseteq CopyRels, peak' \in Nat, peak =< peak',
           r.dailyVolumeCap =< peak', row'.dailyVolumeCap =< peak',
           \A image \in events' : image.dailyVolumeCap =< peak',
           copied' = copied, disturbed' \in BOOLEAN,
           ~disturbed' => /\ ~disturbed /\ r.spentToday = heap[current].spentToday
                          /\ Copy!At("placing") = {}
    PROVE  CopyInv'
<1>1. /\ current \in Nat \ {0} /\ heap \in [1..current -> CopyRels] /\ peak \in Nat
      /\ heap' = Append(heap, r) /\ current' = current + 1
    BY DEF CopyInv, CopyTypes, Copy!Replace
<1>2. heap \in Seq(CopyRels) /\ Len(heap) = current
    <2>1. heap \in Seq(CopyRels)
        BY <1>1, SeqDef
    <2> QED BY <1>1, <2>1, LenProperties
<1>3. /\ heap' \in [1..current' -> CopyRels] /\ heap'[current'] = r
      /\ \A i \in 1..current : heap'[i] = heap[i]
    <2>1. /\ heap' \in Seq(CopyRels) /\ Len(heap') = current'
          /\ \A i \in 1..current : heap'[i] = heap[i]
          /\ heap'[current'] = r
        BY <1>1, <1>2, AppendProperties
    <2> QED BY <2>1, LenProperties
<1>4. CopyTypes'
    <2>1. \A d \in Dispatches : dispatch'[d].stage \in {"checking", "placing"}
                               => dispatch'[d].rel \in 1..current'
        BY <1>1 DEF CopyInv, CopyTypes
    <2>2. current' \in Nat \ {0} /\ copied' \in Nat
        BY <1>1 DEF CopyInv, CopyTypes
    <2> QED BY <1>3, <2>1, <2>2 DEF CopyTypes
<1>5. CapsChosen'
    <2>1. ASSUME NEW i \in 1..current' PROVE heap'[i].dailyVolumeCap =< peak'
        <3>1. CASE i = current'
            BY <1>3, <3>1
        <3>2. CASE i \in 1..current
            <4>1. heap[i].dailyVolumeCap =< peak /\ heap[i].dailyVolumeCap \in Nat
                BY <1>1, <3>2 DEF CopyInv, CapsChosen, CopyRels
            <4> QED BY <1>1, <1>3, <3>2, <4>1
        <3> QED BY <1>1, <3>1, <3>2
    <2> QED BY <2>1 DEF CapsChosen
<1>6. ASSUME ~disturbed'
      PROVE  heap'[current'].spentToday = copied' /\ copied' =< peak' /\ PlacedFits'
    <2>1. /\ heap[current].spentToday = copied /\ copied =< peak /\ copied \in Nat
          /\ r.spentToday = heap[current].spentToday /\ Copy!At("placing") = {}
        BY <1>6 DEF CopyInv, CopyTypes
    <2>2. Copy!At("placing")' = {}
        BY <2>1 DEF Copy!At
    <2> QED BY <1>1, <1>3, <2>1, <2>2 DEF PlacedFits
<1> QED BY <1>4, <1>5, <1>6 DEF CopyInv

LEMMA CopyStep ==
    ASSUME CopyInv, now \in Nat, Copy!Next
    PROVE  CopyInv' /\ now' \in Nat
<1>0. /\ row \in CopyRels /\ events \subseteq CopyRels /\ peak \in Nat
      /\ dispatch \in [Dispatches -> [stage : CopyStages, rel : Nat, cost : Nat]]
      /\ current \in Nat \ {0} /\ heap[current] \in CopyRels
      /\ row.dailyVolumeCap =< peak /\ heap[current].dailyVolumeCap =< peak
      /\ \A image \in events : image.dailyVolumeCap =< peak
      /\ Copy!Relation = heap[current]
    BY DEF CopyInv, CopyTypes, CapsChosen, Copy!Relation
<1>1. ASSUME NEW d \in Dispatches, Copy!Begin(d) PROVE CopyInv' /\ now' \in Nat
    <2> DEFINE new == [stage |-> "checking", rel |-> current, cost |-> 0]
    <2>1. /\ new \in [stage : CopyStages, rel : Nat, cost : Nat]
          /\ new.stage = "checking" /\ new.rel = current
        BY <1>0 DEF CopyStages
    <2>2. /\ dispatch' = [dispatch EXCEPT ![d] = new]
          /\ UNCHANGED <<now, heap, current, row, events, copied, peak, disturbed>>
        BY <1>1 DEF Copy!Begin
    <2> HIDE DEF new
    <2> QED BY <2>1, <2>2, QuietDispatch
<1>2. ASSUME NEW d \in Dispatches, Copy!Skip(d) \/ Copy!Fail(d) PROVE CopyInv' /\ now' \in Nat
    <2> DEFINE new == [dispatch[d] EXCEPT !.stage = "ended"]
    <2>1. new \in [stage : CopyStages, rel : Nat, cost : Nat] /\ new.stage = "ended"
        BY <1>0 DEF CopyStages
    <2>2. /\ dispatch' = [dispatch EXCEPT ![d] = new]
          /\ UNCHANGED <<now, heap, current, row, events, copied, peak, disturbed>>
        BY <1>2 DEF Copy!Skip, Copy!Fail
    <2> HIDE DEF new
    <2> QED BY <2>1, <2>2, QuietDispatch
<1>3. ASSUME NEW d \in Dispatches, NEW c \in 1..MaxCost, Copy!Check(d, c)
      PROVE  CopyInv' /\ now' \in Nat
    <2>1. c \in Nat /\ now' = now
        BY <1>3 DEF Copy!Check
    <2> QED BY <1>3, <2>1, CheckCapStep
<1>4. ASSUME NEW d \in Dispatches, Copy!Count(d) PROVE CopyInv' /\ now' \in Nat
    <2>1. now' = now
        BY <1>4 DEF Copy!Count
    <2> QED BY <1>4, <2>1, CountStep
<1>5. ASSUME NEW enabled \in BOOLEAN, NEW cap \in Caps, Copy!ToggleSocialCopy(enabled, cap)
      PROVE  CopyInv' /\ now' \in Nat
    <2> DEFINE rel == [heap[current] EXCEPT !.isActive = enabled, !.dailyVolumeCap = cap]
    <2>1. cap \in Nat
        BY CopyAssumption
    <2>2. /\ rel \in CopyRels /\ rel.dailyVolumeCap = cap
          /\ rel.spentToday = heap[current].spentToday
        BY <1>0, <2>1 DEF CopyRels
    <2>3. /\ Copy!Replace(rel) /\ Copy!Persist(rel)
          /\ peak' = (IF cap > peak THEN cap ELSE peak)
          /\ UNCHANGED <<now, dispatch, copied>>
        BY <1>0, <1>5 DEF Copy!ToggleSocialCopy
    <2>4. disturbed' = (disturbed \/ Copy!At("placing") # {})
        BY <1>5 DEF Copy!ToggleSocialCopy
    <2> HIDE DEF rel
    <2>5. /\ disturbed' \in BOOLEAN
          /\ ~disturbed' => ~disturbed /\ Copy!At("placing") = {}
        BY <2>4, Zenon DEF CopyInv, CopyTypes
    <2>6. peak' \in Nat /\ peak =< peak' /\ cap =< peak'
        BY <1>0, <2>1, <2>3
    <2>7. /\ row' \in CopyRels /\ events' \subseteq CopyRels
          /\ row' \in {row, rel} /\ events' \subseteq events \cup {rel}
        BY <1>0, <2>2, <2>3 DEF Copy!Persist
    <2>8. \A image \in events \cup {row, rel} :
              image.dailyVolumeCap \in Nat /\ image.dailyVolumeCap =< peak'
        <3>1. \A image \in events \cup {row} :
                  image.dailyVolumeCap \in Nat /\ image.dailyVolumeCap =< peak
            BY <1>0 DEF CopyRels
        <3> QED BY <1>0, <2>1, <2>2, <2>6, <3>1
    <2> QED BY <1>0, <2>2, <2>3, <2>5, <2>6, <2>7, <2>8, ReplaceStep
<1>6. ASSUME NEW image \in events, Copy!Deliver(image) PROVE CopyInv' /\ now' \in Nat
    <2>1. /\ Copy!Replace(image) /\ events' = events \ {image}
          /\ UNCHANGED <<now, dispatch, row, copied, peak>>
        BY <1>6 DEF Copy!Deliver
    <2>2. disturbed' = (disturbed \/ Copy!At("placing") # {} \/ Copy!Spend(image) # Copy!Spend(heap[current]))
        BY <1>0, <1>6 DEF Copy!Deliver
    <2>3. /\ disturbed' \in BOOLEAN
          /\ ~disturbed' => /\ ~disturbed /\ Copy!At("placing") = {}
                            /\ Copy!Spend(image) = Copy!Spend(heap[current])
        BY <2>2, Zenon DEF CopyInv, CopyTypes
    <2>4. ~disturbed' => image.spentToday = heap[current].spentToday
        BY <2>3 DEF Copy!Spend
    <2>5. peak =< peak' /\ peak' \in Nat
        BY <1>0, <2>1
    <2> QED BY <1>0, <2>1, <2>3, <2>4, <2>5, ReplaceStep
<1>7. ASSUME Copy!Restart PROVE CopyInv' /\ now' \in Nat
    <2>1. /\ Copy!Replace(row)
          /\ dispatch' = [d \in Dispatches |-> IF dispatch[d].stage = "idle" THEN dispatch[d]
                                                ELSE [dispatch[d] EXCEPT !.stage = "ended"]]
          /\ UNCHANGED <<now, row, events, copied, peak>>
        BY <1>7 DEF Copy!Restart
    <2>2. disturbed' = (disturbed \/ Copy!At("placing") # {} \/ Copy!Spend(row) # Copy!Spend(heap[current]))
        BY <1>0, <1>7 DEF Copy!Restart
    <2>3. /\ disturbed' \in BOOLEAN
          /\ ~disturbed' => /\ ~disturbed /\ Copy!At("placing") = {}
                            /\ Copy!Spend(row) = Copy!Spend(heap[current])
        BY <2>2, Zenon DEF CopyInv, CopyTypes
    <2>4. ~disturbed' => row.spentToday = heap[current].spentToday
        BY <2>3 DEF Copy!Spend
    <2>5. /\ dispatch' \in [Dispatches -> [stage : CopyStages, rel : Nat, cost : Nat]]
          /\ \A d \in Dispatches : dispatch'[d].stage \notin {"checking", "placing"}
        <3>1. ASSUME NEW d \in Dispatches
              PROVE  /\ dispatch'[d] \in [stage : CopyStages, rel : Nat, cost : Nat]
                     /\ dispatch'[d].stage \in {"idle", "ended"}
            <4>1. dispatch[d] \in [stage : CopyStages, rel : Nat, cost : Nat]
                BY <1>0
            <4>2. dispatch'[d] = IF dispatch[d].stage = "idle" THEN dispatch[d]
                                 ELSE [dispatch[d] EXCEPT !.stage = "ended"]
                BY <2>1
            <4> QED BY <4>1, <4>2 DEF CopyStages
        <3>2. dispatch' = [d \in Dispatches |-> dispatch'[d]]
            BY <2>1
        <3> QED BY <3>1, <3>2
    <2>6. peak =< peak' /\ peak' \in Nat
        BY <1>0, <2>1
    <2> QED BY <1>0, <2>1, <2>3, <2>4, <2>5, <2>6, ReplaceStep
<1>8. ASSUME Copy!Tick PROVE CopyInv' /\ now' \in Nat
    <2>1. now' = now + 1 /\ UNCHANGED <<heap, current, dispatch, row, events, copied, peak, disturbed>>
        BY <1>8 DEF Copy!Tick
    <2> QED BY <2>1 DEF CopyInv, CopyTypes, CapsChosen, PlacedFits, Copy!At
<1> QED BY <1>1, <1>2, <1>3, <1>4, <1>5, <1>6, <1>7, <1>8 DEF Copy!Next

-----------------------------------------------------------------------------
(* Log-in nonces.  What was accepted is remembered until its message has   *)
(* expired, so that what passes the check was not accepted before.         *)

AuthTypes ==
    /\ expiresAt \in [Messages -> Int]
    /\ insertions \in Nat
    /\ Auth!Remembered \subseteq Messages
    /\ \A m \in Auth!Remembered : nonceCache[m] \in 1..insertions
    /\ request \in [Requests -> [state : {"idle", "verifying", "ended"}, message : Messages \cup {Auth!None}]]
    /\ \A r \in Requests : request[r].state = "verifying" => request[r].message \in Messages
    /\ spent \subseteq Messages
    /\ restarts \in Nat

AuthInv ==
    /\ AuthTypes
    /\ fresh = [r \in Requests |-> TRUE]
    /\ replayed = FALSE
    /\ Cardinality(Auth!Remembered) =< CacheMax + 1

(* What this process accepted and did not crowd out cannot be presented.   *)
SpentGuarded ==
    \A m \in spent : m \in Auth!Remembered \/ Auth!Expired(m)

LEMMA SameNonceCount == \A S : Auth!Cardinality(S) = Cardinality(S)
BY SMT DEF Auth!Cardinality, Cardinality

(* The cache and what is left of it are finite.                            *)
LEMMA CacheFinite ==
    ASSUME AuthTypes, NEW S, S \subseteq Auth!Remembered
    PROVE  IsFiniteSet(S) /\ Cardinality(S) \in Nat
<1>1. S \subseteq Messages
    BY DEF AuthTypes
<1> QED BY <1>1, AuthAssumption, FS_Subset, FS_CardinalityType

(* A set of natural numbers that is not empty has a smallest member.       *)
LEMMA SmallestOfSome ==
    ASSUME NEW S, S \subseteq Nat, S # {}
    PROVE  \E k \in S : \A j \in S : k =< j
<1>1. PICK k \in S : \A j \in S : <<j, k>> \notin OpToRel(<, Nat)
    BY NatLessThanWellFounded, WFMin
<1>2. \A j \in S : ~(j < k)
    <2>1. ASSUME NEW j \in S, j < k PROVE <<j, k>> \in OpToRel(<, Nat)
        BY <2>1, Zenon DEF OpToRel
    <2> QED BY <1>1, <2>1
<1> QED BY <1>2

(* What an eviction of expired nonces leaves is within the cache, drops    *)
(* expired nonces only, and is all of those that live if it is too much.   *)
LEMMA EvictExpiredLeaves ==
    ASSUME AuthTypes
    PROVE  /\ Auth!EvictExpired \subseteq Auth!Remembered
           /\ \A m \in Auth!Remembered \ Auth!EvictExpired : Auth!Expired(m)
           /\ Cardinality(Auth!EvictExpired) > CacheMax =>
                 Auth!EvictExpired = {m \in Auth!Remembered : ~Auth!Expired(m)}
<1> DEFINE left(k) == {m \in Auth!Remembered : Auth!Expired(m) => nonceCache[m] > k}
           enough == {k \in 0..insertions : Cardinality(left(k)) =< CacheMax - CacheCut}
           least == CHOOSE k \in enough : \A j \in enough : k =< j
<1>1. /\ enough = {} => Auth!EvictExpired = left(insertions)
      /\ enough # {} => Auth!EvictExpired = left(least)
    BY SameNonceCount DEF Auth!EvictExpired
<1>2. enough # {} => least \in enough
    <2>1. ASSUME enough # {} PROVE \E k \in enough : \A j \in enough : k =< j
        <3>1. enough \subseteq Nat
            BY DEF AuthTypes
        <3> HIDE DEF enough
        <3> QED BY <2>1, <3>1, SmallestOfSome
    <2> QED BY <2>1
<1>3. enough # {} => Cardinality(left(least)) =< CacheMax
    <2>1. ASSUME enough # {} PROVE Cardinality(left(least)) =< CacheMax
        <3>1. Cardinality(left(least)) =< CacheMax - CacheCut
            BY <1>2, <2>1
        <3>2. Cardinality(left(least)) \in Nat
            BY CacheFinite
        <3> HIDE DEF least, left
        <3> QED BY <3>1, <3>2, AuthAssumption
    <2> QED BY <2>1
<1>4. left(insertions) = {m \in Auth!Remembered : ~Auth!Expired(m)}
    <2>1. \A m \in Auth!Remembered : ~(nonceCache[m] > insertions)
        BY DEF AuthTypes
    <2> QED BY <2>1
<1>5. \A k : left(k) \subseteq Auth!Remembered /\ \A m \in Auth!Remembered \ left(k) : Auth!Expired(m)
    OBVIOUS
<1>6. CASE enough = {}
    BY <1>1, <1>4, <1>5, <1>6
<1>7. CASE enough # {}
    <2>1. Auth!EvictExpired = left(least) /\ Cardinality(left(least)) =< CacheMax
        BY <1>1, <1>3, <1>7
    <2>2. Cardinality(left(least)) \in Nat /\ CacheMax \in Nat
        BY CacheFinite, AuthAssumption
    <2>3. ~(Cardinality(left(least)) > CacheMax)
        BY <2>1, <2>2
    <2> QED BY <1>5, <2>1, <2>3
<1> QED BY <1>6, <1>7

(* The oldest of some nonces are at least one.                             *)
LEMMA OldestOfSome ==
    ASSUME AuthTypes, NEW S, S \subseteq Auth!Remembered, S # {}
    PROVE  \E m \in S : m \in Auth!Oldest(S, CacheCut)
<1> DEFINE numbers == {nonceCache[m] : m \in S}
<1>1. numbers \subseteq Nat /\ numbers # {}
    BY DEF AuthTypes
<1>2. PICK m \in S : \A j \in numbers : nonceCache[m] =< j
    <2> HIDE DEF numbers
    <2>1. PICK n \in numbers : \A j \in numbers : n =< j
        BY <1>1, SmallestOfSome
    <2> QED BY <2>1 DEF numbers
<1>3. {k \in S : nonceCache[k] < nonceCache[m]} = {}
    <2>1. \A k \in S : nonceCache[m] =< nonceCache[k] /\ nonceCache[k] \in Nat /\ nonceCache[m] \in Nat
        BY <1>1, <1>2
    <2> QED BY <2>1
<1>4. Auth!Cardinality({k \in S : nonceCache[k] < nonceCache[m]}) < CacheCut
    BY <1>3, SameNonceCount, FS_EmptySet, AuthAssumption
<1> QED BY <1>4 DEF Auth!Oldest

(* An eviction makes room for one nonce, and drops one that could still be *)
(* presented only if there are more of those than the cache shall hold.    *)
LEMMA EvictMakesRoom ==
    ASSUME AuthTypes, Cardinality(Auth!Remembered) =< CacheMax + 1
    PROVE  /\ Auth!Evict \subseteq Auth!Remembered
           /\ Cardinality(Auth!Evict) =< CacheMax
           /\ \A m \in Auth!Remembered \ Auth!Evict :
                 \/ Auth!Expired(m)
                 \/ Cardinality({k \in Auth!Remembered : ~Auth!Expired(k)}) > CacheMax
<1>1. CASE Cardinality(Auth!Remembered) =< CacheMax
    BY <1>1, SameNonceCount DEF Auth!Evict
<1>2. CASE ~(Cardinality(Auth!Remembered) =< CacheMax) /\ Cardinality(Auth!EvictExpired) =< CacheMax
    BY <1>2, SameNonceCount, EvictExpiredLeaves DEF Auth!Evict
<1>3. CASE ~(Cardinality(Auth!Remembered) =< CacheMax) /\ ~(Cardinality(Auth!EvictExpired) =< CacheMax)
    <2> DEFINE kept == Auth!EvictExpired
               gone == Auth!Oldest(kept, CacheCut)
    <2>1. Auth!Evict = kept \ gone
        BY <1>3, SameNonceCount DEF Auth!Evict
    <2>2. /\ kept \subseteq Auth!Remembered /\ IsFiniteSet(kept) /\ Cardinality(kept) \in Nat
          /\ IsFiniteSet(Auth!Remembered) /\ Cardinality(Auth!Remembered) \in Nat
          /\ CacheMax \in Nat
        BY EvictExpiredLeaves, CacheFinite, AuthAssumption
    <2>3. Cardinality(kept) > CacheMax /\ Cardinality(kept) =< CacheMax + 1
        <3>1. Cardinality(kept) =< Cardinality(Auth!Remembered)
            BY <2>2, FS_Subset
        <3> HIDE DEF kept
        <3> QED BY <1>3, <2>2, <3>1 DEF kept
    <2>4. kept = {k \in Auth!Remembered : ~Auth!Expired(k)}
        BY <2>3, EvictExpiredLeaves
    <2>5. PICK m \in kept : m \in gone
        <3>1. kept # {}
            BY <2>2, <2>3, FS_EmptySet
        <3> QED BY <2>2, <3>1, OldestOfSome
    <2>6. Cardinality(kept \ {m}) =< CacheMax
        <3>1. Cardinality(kept \ {m}) = Cardinality(kept) - 1
            BY <2>2, FS_RemoveElement
        <3> HIDE DEF kept
        <3> QED BY <2>2, <2>3, <3>1
    <2>7. Cardinality(kept \ gone) =< CacheMax
        <3>1. IsFiniteSet(kept \ {m}) /\ kept \ gone \subseteq kept \ {m}
            BY <2>2, <2>5, FS_Subset
        <3>2. /\ Cardinality(kept \ gone) =< Cardinality(kept \ {m})
              /\ Cardinality(kept \ gone) \in Nat /\ Cardinality(kept \ {m}) \in Nat
            BY <3>1, FS_Subset, FS_CardinalityType
        <3> HIDE DEF kept, gone
        <3> QED BY <2>2, <2>6, <3>2
    <2>8. Cardinality({k \in Auth!Remembered : ~Auth!Expired(k)}) > CacheMax
        BY <2>3, <2>4
    <2> QED BY <2>1, <2>2, <2>7, <2>8
<1> QED BY <1>1, <1>2, <1>3

(* What a step may do to the cache.                                        *)
ForgetsWhenFull ==
    \/ restarts' # restarts
    \/ /\ Auth!Cardinality(Auth!Remembered') =< CacheMax + 1
       /\ \A m \in Auth!Remembered \ Auth!Remembered' :
             Auth!Expired(m) \/ Auth!Cardinality({k \in Auth!Remembered : ~Auth!Expired(k)}) > CacheMax

(* A request moves, the cache stays.                                       *)
LEMMA RequestAlone ==
    ASSUME AuthInv, SpentGuarded, now \in Nat, NEW r \in Requests,
           NEW new \in [state : {"idle", "verifying", "ended"}, message : Messages \cup {Auth!None}],
           request' = [request EXCEPT ![r] = new],
           new.state = "verifying" => new.message \in Messages, fresh' = fresh,
           UNCHANGED <<now, expiresAt, nonceCache, insertions, spent, replayed, restarts>>
    PROVE  AuthInv' /\ SpentGuarded' /\ now' \in Nat /\ ForgetsWhenFull
<1>1. Auth!Remembered' = Auth!Remembered
    BY DEF Auth!Remembered
<1>2. /\ request' \in [Requests -> [state : {"idle", "verifying", "ended"}, message : Messages \cup {Auth!None}]]
      /\ request'[r] = new
      /\ \A q \in Requests \ {r} : request'[q] = request[q]
    BY DEF AuthInv, AuthTypes
<1>3. AuthTypes'
    BY <1>1, <1>2 DEF AuthInv, AuthTypes
<1> QED BY <1>1, <1>3, SameNonceCount DEF AuthInv, SpentGuarded, Auth!Expired, ForgetsWhenFull

LEMMA CheckNonceStep ==
    ASSUME AuthInv, SpentGuarded, now \in Nat, NEW r \in Requests, NEW m \in Messages,
           Auth!CheckNonce(r, m)
    PROVE  AuthInv' /\ SpentGuarded' /\ now' \in Nat /\ ForgetsWhenFull
<1> DEFINE verifying == [state |-> "verifying", message |-> m]
<1>1. UNCHANGED <<now, expiresAt, nonceCache, insertions, spent, replayed, restarts>>
    BY DEF Auth!CheckNonce
<1>2. /\ Auth!Ended \in [state : {"idle", "verifying", "ended"}, message : Messages \cup {Auth!None}]
      /\ Auth!Ended.state = "ended"
      /\ verifying \in [state : {"idle", "verifying", "ended"}, message : Messages \cup {Auth!None}]
      /\ verifying.state = "verifying" /\ verifying.message = m
    BY DEF Auth!Ended
<1>3. CASE request' = [request EXCEPT ![r] = Auth!Ended] /\ fresh' = fresh
    BY <1>1, <1>2, <1>3, RequestAlone
<1>4. CASE /\ ~Auth!Expired(m) /\ m \notin Auth!Remembered
           /\ request' = [request EXCEPT ![r] = verifying]
           /\ fresh' = [fresh EXCEPT ![r] = m \notin spent]
    <2>1. (m \notin spent) = TRUE
        BY <1>4 DEF SpentGuarded
    <2>2. fresh' = fresh
        BY <1>4, <2>1 DEF AuthInv
    <2> HIDE DEF verifying
    <2> QED BY <1>1, <1>2, <1>4, <2>2, RequestAlone
<1> QED BY <1>3, <1>4 DEF Auth!CheckNonce

(* The cache takes a nonce in, or the message has expired meanwhile.       *)
LEMMA AcceptStep ==
    ASSUME AuthInv, SpentGuarded, now \in Nat, NEW r \in Requests, Auth!Accept(r)
    PROVE  AuthInv' /\ SpentGuarded' /\ now' \in Nat /\ ForgetsWhenFull
<1>1. PICK m \in Messages : m = request[r].message
    BY DEF Auth!Accept, AuthInv, AuthTypes
<1>2. /\ request' = [request EXCEPT ![r] = Auth!Ended]
      /\ UNCHANGED <<now, expiresAt, fresh, restarts>>
    BY DEF Auth!Accept
<1>3. replayed' = FALSE
    BY DEF Auth!Accept, AuthInv
<1>4. /\ request' \in [Requests -> [state : {"idle", "verifying", "ended"}, message : Messages \cup {Auth!None}]]
      /\ \A q \in Requests : request'[q].state = "verifying" => request'[q] = request[q]
    <2>1. /\ Auth!Ended \in [state : {"idle", "verifying", "ended"}, message : Messages \cup {Auth!None}]
          /\ Auth!Ended.state = "ended"
        BY DEF Auth!Ended
    <2> QED BY <1>2, <2>1 DEF AuthInv, AuthTypes
<1>5. CASE Auth!Expired(m)
    <2>1. spent' = spent \cup {m} /\ UNCHANGED <<nonceCache, insertions>>
        BY <1>1, <1>5 DEF Auth!Accept
    <2>2. Auth!Remembered' = Auth!Remembered
        BY <2>1 DEF Auth!Remembered
    <2>3. AuthTypes'
        BY <1>2, <1>4, <2>1, <2>2 DEF AuthInv, AuthTypes
    <2>4. SpentGuarded'
        BY <1>2, <1>5, <2>1, <2>2 DEF SpentGuarded, Auth!Expired
    <2> QED BY <1>2, <1>3, <2>2, <2>3, <2>4, SameNonceCount DEF AuthInv, ForgetsWhenFull
<1>6. CASE ~Auth!Expired(m)
    <2>1. /\ insertions' = insertions + 1
          /\ nonceCache' = [k \in Auth!Evict \cup {m} |-> IF k \in Auth!Evict THEN nonceCache[k]
                                                           ELSE insertions']
          /\ spent' = (spent \ (Auth!Remembered \ Auth!Evict)) \cup {m}
        BY <1>1, <1>6 DEF Auth!Accept
    <2>2. /\ Auth!Evict \subseteq Auth!Remembered
          /\ Cardinality(Auth!Evict) =< CacheMax
          /\ \A x \in Auth!Remembered \ Auth!Evict :
                \/ Auth!Expired(x)
                \/ Cardinality({k \in Auth!Remembered : ~Auth!Expired(k)}) > CacheMax
        BY EvictMakesRoom DEF AuthInv
    <2>3. Auth!Remembered' = Auth!Evict \cup {m}
        BY <2>1 DEF Auth!Remembered
    <2>4. Cardinality(Auth!Remembered') =< CacheMax + 1
        <3>1. IsFiniteSet(Auth!Evict) /\ Cardinality(Auth!Evict) \in Nat
            BY <2>2, CacheFinite DEF AuthInv
        <3>2. Cardinality(Auth!Evict \cup {m}) \in {Cardinality(Auth!Evict), Cardinality(Auth!Evict) + 1}
            <4>1. CASE m \in Auth!Evict
                <5>1. Auth!Evict \cup {m} = Auth!Evict
                    BY <4>1
                <5> QED BY <5>1
            <4>2. CASE m \notin Auth!Evict
                BY <3>1, <4>2, FS_AddElement
            <4> QED BY <4>1, <4>2
        <3> QED BY <2>2, <2>3, <3>1, <3>2, AuthAssumption
    <2>5. insertions' \in Nat /\ \A x \in Auth!Remembered' : nonceCache'[x] \in 1..insertions'
        <3>1. insertions \in Nat /\ \A x \in Auth!Evict : nonceCache[x] \in 1..insertions
            BY <2>2 DEF AuthInv, AuthTypes
        <3> QED BY <2>1, <2>3, <3>1
    <2>6. AuthTypes'
        <3>1. Auth!Remembered' \subseteq Messages /\ spent' \subseteq Messages
            BY <2>1, <2>2, <2>3 DEF AuthInv, AuthTypes
        <3> QED BY <1>2, <1>4, <2>5, <3>1 DEF AuthInv, AuthTypes
    <2>7. SpentGuarded'
        BY <1>2, <2>1, <2>2, <2>3 DEF SpentGuarded, Auth!Expired
    <2>8. ForgetsWhenFull
        BY <2>2, <2>3, <2>4, SameNonceCount DEF ForgetsWhenFull
    <2> QED BY <1>2, <1>3, <2>4, <2>6, <2>7, <2>8 DEF AuthInv
<1> QED BY <1>5, <1>6

LEMMA AuthRestartStep ==
    ASSUME AuthInv, SpentGuarded, now \in Nat, Auth!Restart
    PROVE  AuthInv' /\ SpentGuarded' /\ now' \in Nat /\ ForgetsWhenFull
<1>1. /\ restarts' = restarts + 1 /\ nonceCache' = [m \in {} |-> 0] /\ insertions' = 0
      /\ request' = [r \in Requests |-> IF request[r].state = "verifying" THEN Auth!Ended ELSE request[r]]
      /\ spent' = {}
      /\ UNCHANGED <<now, expiresAt, fresh, replayed>>
    BY DEF Auth!Restart
<1>2. Auth!Remembered' = {} /\ Cardinality(Auth!Remembered') = 0
    <2>1. Auth!Remembered' = {}
        BY <1>1 DEF Auth!Remembered
    <2> QED BY <2>1, FS_EmptySet
<1>3. /\ request' \in [Requests -> [state : {"idle", "verifying", "ended"}, message : Messages \cup {Auth!None}]]
      /\ \A q \in Requests : request'[q].state # "verifying"
    <2>1. /\ Auth!Ended \in [state : {"idle", "verifying", "ended"}, message : Messages \cup {Auth!None}]
          /\ Auth!Ended.state = "ended"
        BY DEF Auth!Ended
    <2> QED BY <1>1, <2>1 DEF AuthInv, AuthTypes
<1>4. AuthTypes'
    BY <1>1, <1>2, <1>3 DEF AuthInv, AuthTypes
<1>5. restarts' # restarts
    BY <1>1 DEF AuthInv, AuthTypes
<1>6. Cardinality(Auth!Remembered') =< CacheMax + 1
    BY <1>2, AuthAssumption
<1> QED BY <1>1, <1>4, <1>5, <1>6 DEF AuthInv, SpentGuarded, ForgetsWhenFull

LEMMA AuthStep ==
    ASSUME AuthInv, SpentGuarded, now \in Nat, Auth!Next
    PROVE  AuthInv' /\ SpentGuarded' /\ now' \in Nat /\ ForgetsWhenFull
<1>1. ASSUME NEW r \in Requests, Auth!Reject(r)
      PROVE  AuthInv' /\ SpentGuarded' /\ now' \in Nat /\ ForgetsWhenFull
    <2>1. /\ Auth!Ended \in [state : {"idle", "verifying", "ended"}, message : Messages \cup {Auth!None}]
          /\ Auth!Ended.state = "ended"
        BY DEF Auth!Ended
    <2> QED BY <1>1, <2>1, RequestAlone DEF Auth!Reject
<1>2. ASSUME Auth!Tick PROVE AuthInv' /\ SpentGuarded' /\ now' \in Nat /\ ForgetsWhenFull
    <2>1. /\ now' = now + 1
          /\ UNCHANGED <<expiresAt, nonceCache, insertions, request, fresh, spent, replayed, restarts>>
        BY <1>2 DEF Auth!Tick
    <2>2. Auth!Remembered' = Auth!Remembered
        BY <2>1 DEF Auth!Remembered
    <2>3. AuthTypes'
        BY <2>1, <2>2 DEF AuthInv, AuthTypes
    <2>4. \A m \in spent : Auth!Expired(m) => Auth!Expired(m)'
        BY <2>1 DEF Auth!Expired, AuthInv, AuthTypes
    <2> QED BY <2>1, <2>2, <2>3, <2>4, SameNonceCount DEF AuthInv, SpentGuarded, ForgetsWhenFull
<1> QED BY <1>1, <1>2, CheckNonceStep, AcceptStep, AuthRestartStep DEF Auth!Next

-----------------------------------------------------------------------------
(* The parts together.                                                     *)

AgentsInv ==
    /\ AuthInv
    /\ part = "auth" => SpentGuarded
    /\ part = "swarm" => SwarmInv
    /\ BooksInv
    /\ CopyInv
    /\ part \in {"auth", "copy"} => now \in Nat

LEMMA AgentsInit == Init => AgentsInv
<1> SUFFICES ASSUME Init PROVE AgentsInv
    OBVIOUS
<1>1. Auth!Init /\ Swarm!Init /\ Agent!Init /\ Copy!Init /\ now = 0
    BY DEF Init, Auth!Init
<1>2. AuthInv /\ SpentGuarded
    <2>1. /\ Auth!Remembered = {} /\ spent = {} /\ replayed = FALSE /\ restarts = 0 /\ insertions = 0
          /\ fresh = [r \in Requests |-> TRUE]
          /\ request = [r \in Requests |-> [state |-> "idle", message |-> Auth!None]]
        BY <1>1 DEF Auth!Init, Auth!Remembered
    <2>2. expiresAt \in [Messages -> Int]
        <3>1. 1..MaxTime + 1 \subseteq Int
            OBVIOUS
        <3> QED BY <1>1, <3>1 DEF Auth!Init
    <2>3. AuthTypes
        BY <2>1, <2>2 DEF AuthTypes
    <2>4. Cardinality(Auth!Remembered) =< CacheMax + 1
        BY <2>1, FS_EmptySet, AuthAssumption
    <2> QED BY <2>1, <2>3, <2>4 DEF AuthInv, SpentGuarded
<1>3. SwarmInv
    <2>1. /\ positions = {} /\ placing = Swarm!Idle /\ phase = "idle"
          /\ lastTrade = [a \in Swarm!Traders |-> -Cooldown]
          /\ cycle = [open |-> {}, left |-> {}, agents |-> {}, now |-> 0]
        BY <1>1 DEF Swarm!Init, Swarm!NoNotes
    <2>2. lastTrade \in [Swarm!Traders -> Int]
        <3>1. -Cooldown \in Int
            BY SwarmAssumption
        <3> QED BY <2>1, <3>1
    <2>3. SwarmTypes
        BY <1>1, <2>1, <2>2 DEF SwarmTypes
    <2>4. Held = {}
        BY <2>1 DEF Held, Theirs
    <2> QED BY <2>1, <2>3, <2>4 DEF SwarmInv, OrderFits, LeftIsFree, AgentsNoted, OneEach
<1>4. BooksInv
    <2>1. /\ agentRow = [spent |-> 0, pnl |-> 0] /\ memory \in {Agent!None, agentRow}
          /\ writes = {} /\ truth = agentRow /\ overlapped = FALSE
          /\ call = [c \in Calls |-> Agent!At("look-up", "idle", Agent!None)]
        BY <1>1 DEF Agent!Init
    <2>2. agentRow \in Images /\ \A col \in Columns : agentRow[col] = 0
        <3>1. agentRow \in [spent : Int, pnl : Int]
            BY <2>1
        <3>2. \A x \in [spent : Int, pnl : Int] : x \in Images
            BY DEF Images, Columns
        <3> QED BY <2>1, <3>1, <3>2 DEF Columns
    <2>3. call \in [Calls -> [kind : Agent!Kinds, stage : Stages, image : Images]]
        BY <2>1, ColumnsOfNone DEF Agent!At, Agent!Kinds, Stages
    <2>4. BooksTypes
        BY <2>1, <2>2, <2>3, ColumnsOfNone DEF BooksTypes
    <2>5. \A c \in Calls : call[c].stage = "idle"
        BY <2>1 DEF Agent!At
    <2>6. \A col \in Columns : Recorded(col) = 0
        <3>1. ASSUME NEW kind PROVE Agent!Pending(kind) = 0
            <4>1. {c \in Agent!Open : call[c].kind = kind} = {}
                BY <2>5 DEF Agent!Open
            <4> QED BY <4>1, SameBookCount, FS_EmptySet DEF Agent!Pending
        <3> QED BY <2>1, <2>2, <3>1 DEF Recorded
    <2>7. AllKnow
        BY <2>1, <2>2, <2>5, <2>6 DEF AllKnow, Knows
    <2> QED BY <2>4, <2>7 DEF BooksInv
<1>5. CopyInv
    <2>1. /\ row \in [isActive : {TRUE}, dailyVolumeCap : Caps, spentToday : {0}, resetAt : {0}]
          /\ heap = <<row>> /\ current = 1 /\ events = {} /\ copied = 0
          /\ peak = row.dailyVolumeCap /\ disturbed = FALSE
          /\ dispatch = [d \in Dispatches |-> [stage |-> "idle", rel |-> 0, cost |-> 0]]
        BY <1>1 DEF Copy!Init
    <2>2. row \in CopyRels /\ peak \in Nat /\ row.spentToday = 0
        <3>1. PICK cap \in Nat : row = [isActive |-> TRUE, dailyVolumeCap |-> cap,
                                       spentToday |-> 0, resetAt |-> 0]
            BY <2>1, CopyAssumption
        <3>2. row \in CopyRels /\ row.dailyVolumeCap = cap /\ row.spentToday = 0
            BY <3>1 DEF CopyRels
        <3> QED BY <2>1, <3>2
    <2>3. /\ heap \in [1..current -> CopyRels] /\ heap[current] = row
          /\ \A i \in 1..current : heap[i] = row
        BY <2>1, <2>2
    <2>4. /\ dispatch \in [Dispatches -> [stage : CopyStages, rel : Nat, cost : Nat]]
          /\ \A d \in Dispatches : dispatch[d].stage = "idle"
        BY <2>1 DEF CopyStages
    <2>5. CopyTypes
        <3>1. disturbed \in BOOLEAN
            BY <2>1, Zenon
        <3>2. current \in Nat \ {0} /\ copied \in Nat /\ events \subseteq CopyRels
            BY <2>1
        <3>3. \A d \in Dispatches : dispatch[d].stage \in {"checking", "placing"}
                                   => dispatch[d].rel \in 1..current
            BY <2>4
        <3> QED BY <2>2, <2>3, <2>4, <3>1, <3>2, <3>3 DEF CopyTypes
    <2>6. CapsChosen /\ PlacedFits
        BY <2>1, <2>2, <2>3, <2>4 DEF CapsChosen, PlacedFits, Copy!At
    <2> QED BY <2>1, <2>2, <2>3, <2>5, <2>6 DEF CopyInv
<1> QED BY <1>1, <1>2, <1>3, <1>4, <1>5 DEF AgentsInv

(* A step of one part, which leaves the variables of the others.           *)
LEMMA AgentsStep ==
    ASSUME AgentsInv, [Next]_vars
    PROVE  AgentsInv' /\ [ForgetsWhenFull]_(Auth!authVars)
<1>1. ASSUME UNCHANGED authRest
      PROVE  /\ AuthInv' /\ [ForgetsWhenFull]_(Auth!authVars)
             /\ now' = now /\ SpentGuarded => SpentGuarded'
    <2>1. Auth!Remembered' = Auth!Remembered
        BY <1>1 DEF authRest, Auth!Remembered
    <2>2. AuthInv'
        BY <1>1, <2>1 DEF authRest, AgentsInv, AuthInv, AuthTypes
    <2>3. ForgetsWhenFull
        BY <2>1, <2>2, SameNonceCount DEF ForgetsWhenFull, AuthInv
    <2>4. now' = now /\ SpentGuarded => SpentGuarded'
        BY <1>1, <2>1 DEF authRest, SpentGuarded, Auth!Expired
    <2> QED BY <2>2, <2>3, <2>4
<1>2. ASSUME UNCHANGED <<now, swarmRest>>, SwarmInv PROVE SwarmInv'
    BY <1>2, SwarmQuiet DEF swarmRest, SwarmInv, SwarmTypes
<1>3. ASSUME UNCHANGED bookVars PROVE BooksInv'
    BY <1>3 DEF bookVars, AgentsInv, BooksInv, BooksTypes, AllKnow, Knows, Recorded, Agent!Pending,
                Agent!Open
<1>4. ASSUME UNCHANGED copyRest PROVE CopyInv'
    BY <1>4 DEF copyRest, AgentsInv, CopyInv, CopyTypes, CapsChosen, PlacedFits, Copy!At
<1>5. CASE part = "auth" /\ Auth!Next /\ UNCHANGED <<part, swarmRest, bookVars, copyRest>>
    BY <1>3, <1>4, <1>5, AuthStep DEF AgentsInv
<1>6. CASE part = "swarm" /\ Swarm!Next /\ UNCHANGED <<part, authRest, bookVars, copyRest>>
    BY <1>1, <1>3, <1>4, <1>6, SwarmStep DEF AgentsInv
<1>7. CASE part = "agent" /\ Agent!Next /\ UNCHANGED <<part, now, authRest, swarmRest, copyRest>>
    BY <1>1, <1>4, <1>7, BooksStep DEF AgentsInv
<1>8. CASE part = "copy" /\ Copy!Next /\ UNCHANGED <<part, authRest, swarmRest, bookVars>>
    BY <1>1, <1>3, <1>8, CopyStep DEF AgentsInv
<1>9. CASE UNCHANGED <<part, now, authRest, swarmRest, bookVars, copyRest>>
    BY <1>1, <1>2, <1>3, <1>4, <1>9 DEF AgentsInv
<1> QED BY <1>5, <1>6, <1>7, <1>8, <1>9 DEF Next, vars

(* The inductive invariant, in every behaviour.                            *)
LEMMA AgentsInvariant == Spec => []AgentsInv
<1>1. AgentsInv /\ [Next]_vars => AgentsInv'
    BY AgentsStep
<1> QED BY <1>1, AgentsInit, PTL DEF Spec

-----------------------------------------------------------------------------
(* An accepted log-in message is not accepted again by a later request,    *)
(* and a cache of any size forgets a nonce that could be presented only    *)
(* when it is full of those (verifyAuthSignature, rememberNonce).          *)
THEOREM NoncesAlwaysHold == Spec => NoncesHold
<1>1. AgentsInv => Auth!NoLaterReplay
    BY DEF AgentsInv, AuthInv, Auth!NoLaterReplay
<1>2. Spec => []Auth!NoLaterReplay
    BY <1>1, AgentsInvariant, PTL
<1>3. AgentsInv /\ [Next]_vars => [ForgetsWhenFull]_(Auth!authVars)
    BY AgentsStep
<1>4. Spec => [][ForgetsWhenFull]_(Auth!authVars)
    BY <1>3, AgentsInvariant, PTL DEF Spec
<1> QED BY <1>2, <1>4 DEF NoncesHold, Auth!OnlyAFullCacheForgets, ForgetsWhenFull

(* An agent of the swarm holds one position at a time, a custom agent one  *)
(* in each market, and a market one position of all agents, for any number *)
(* of agents, custom agents and markets and any limit (evaluateCycle,      *)
(* evaluatePersonalSwarms, evaluateCustomAgents).                          *)
THEOREM OnePositionAlways == Spec => []OnePositionEach
<1>1. AgentsInv => OnePositionEach
    <2>1. Held = {r \in Swarm!Active : r.by \in Swarm!Traders}
        BY DEF Held, Theirs, Swarm!Active
    <2> QED BY <2>1 DEF AgentsInv, SwarmInv, OneEach, OnePositionEach, Swarm!OnePositionEach
<1> QED BY <1>1, AgentsInvariant, PTL

(* The books of a custom agent are exact in memory, and in the row when    *)
(* all is written, unless something overlapped (recordTradeFill,           *)
(* recordTradeSettlement, getCustomAgentById, updateCustomAgent).          *)
THEOREM ExactBooks == Spec => []ExactUnlessOverlapped
<1>1. AgentsInv => ExactUnlessOverlapped
    BY BooksAreExact DEF AgentsInv
<1> QED BY <1>1, AgentsInvariant, PTL

(* A follower's copies are counted and stay within the largest cap chosen, *)
(* unless they were disturbed (executeSocialCopiesForOrder,                *)
(* toggleSocialCopy, loadFromDb).                                          *)
THEOREM CopiesWithinCap == Spec => []CapUnlessDisturbed
<1>1. AgentsInv => CapUnlessDisturbed
    BY DEF AgentsInv, CopyInv, CapUnlessDisturbed, Copy!CapUnlessDisturbed, Copy!Relation
<1> QED BY <1>1, AgentsInvariant, PTL
=============================================================================
