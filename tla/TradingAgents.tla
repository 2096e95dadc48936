----------------------------- MODULE TradingAgents -----------------------------
(* Four services around the orders that share no state, in one run: log-in *)
(* nonces, the agents' cycle, a custom agent's books and copy trading.  In *)
(* each behaviour one of them runs and the others stay where they begin.   *)
EXTENDS Integers, FiniteSets

CONSTANTS
    Messages, Requests, CacheMax, CacheCut, Skew, MaxRestarts,  \* see AuthNonce
    Agents, Customs, Markets, Cooldown, Stale, Limit, MaxOrders,  \* see SwarmCycle
    Calls, MaxFills, MaxSettles,                                \* see CustomAgentBooks
    Dispatches, MaxCost, Caps, Day, MaxDays, MaxObjects,        \* see SocialCopy
    MaxTime                                                     \* bound on the other clocks

(* The cache of nonces drops something when it is full.                    *)
ASSUME AuthAssumption ==
    /\ IsFiniteSet(Messages)
    /\ "none" \notin Messages
    /\ CacheMax \in Nat
    /\ CacheCut \in Nat \ {0}
    /\ MaxRestarts \in Nat

(* An agent rests between its trades, and is not the user's hand.          *)
ASSUME SwarmAssumption ==
    /\ Agents \cap Customs = {}
    /\ (Agents \cup Customs) \cap {"Manual", "none"} = {}
    /\ Cooldown \in Nat \ {0}
    /\ {Stale, MaxTime} \subseteq Nat

ASSUME BooksAssumption ==
    /\ IsFiniteSet(Calls)
    /\ {MaxFills, MaxSettles} \subseteq Nat

ASSUME CopyAssumption ==
    /\ {MaxCost, Day, MaxDays, MaxObjects} \subseteq Nat
    /\ Caps \subseteq Nat

VARIABLES
    part,  \* the one that runs
    now,   \* the clock of that one
    expiresAt, nonceCache, insertions, request, fresh, spent, replayed, restarts,
    closed, wallet, positions, lastTrade, phase, cycle, placing,
    memory, agentRow, writes, call, truth, overlapped,
    heap, current, dispatch, row, events, copied, peak, disturbed

Auth == INSTANCE AuthNonce
Swarm == INSTANCE SwarmCycle
Agent == INSTANCE CustomAgentBooks WITH row <- agentRow
Copy == INSTANCE SocialCopy WITH MaxTime <- MaxDays

(* Their variables without the clock.                                      *)
authRest == <<expiresAt, nonceCache, insertions, request, fresh, spent, replayed, restarts>>
swarmRest == <<closed, wallet, positions, lastTrade, phase, cycle, placing>>
bookVars == <<memory, agentRow, writes, call, truth, overlapped>>
copyRest == <<heap, current, dispatch, row, events, copied, peak, disturbed>>

vars == <<part, now, authRest, swarmRest, bookVars, copyRest>>

Init ==
    /\ part \in {"auth", "swarm", "agent", "copy"}
    /\ Auth!Init
    /\ part # "auth" => \A m \in Messages : expiresAt[m] = 1
    /\ Swarm!Init
    /\ part # "swarm" => wallet = "user"
    /\ Agent!Init
    /\ part # "agent" => memory = agentRow
    /\ Copy!Init
    /\ part # "copy" => peak = CHOOSE cap \in Caps : TRUE

Next ==
    \/ /\ part = "auth"
       /\ Auth!Next
       /\ UNCHANGED <<part, swarmRest, bookVars, copyRest>>
    \/ /\ part = "swarm"
       /\ Swarm!Next
       /\ UNCHANGED <<part, authRest, bookVars, copyRest>>
    \/ /\ part = "agent"
       /\ Agent!Next
       /\ UNCHANGED <<part, now, authRest, swarmRest, copyRest>>
    \/ /\ part = "copy"
       /\ Copy!Next
       /\ UNCHANGED <<part, authRest, swarmRest, bookVars>>

Spec == Init /\ [][Next]_vars
-----------------------------------------------------------------------------
(* The types of the one that runs.                                         *)
TypeOK ==
    /\ part = "auth" => Auth!TypeOK
    /\ part = "swarm" => Swarm!TypeOK
    /\ part = "agent" => Agent!TypeOK
    /\ part = "copy" => Copy!TypeOK

(* verifyAuthSignature does not accept an accepted message again, unless   *)
(* its nonce was crowded out of the cache, and the cache forgets a nonce   *)
(* that could still be presented only when it is full of such nonces.      *)
NoncesHold == []Auth!NoLaterReplay /\ Auth!OnlyAFullCacheForgets

(* A swarm agent holds one position at a time, and a market one position   *)
(* of all agents, although a cycle reads some of it before its awaits.     *)
OnePositionEach == part = "swarm" => Swarm!OnePositionEach

(* A custom agent's books are exact unless a look-up or an edit meets a    *)
(* fill or a settlement.                                                   *)
ExactUnlessOverlapped == Agent!ExactUnlessOverlapped

(* A follower's copies are counted and stay within the cap unless they     *)
(* meet each other or the relation is replaced meanwhile.                  *)
CapUnlessDisturbed == Copy!CapUnlessDisturbed
-----------------------------------------------------------------------------
(* What the documentation says and the code does not do (section 5 of the  *)
(* README).  The personal swarm leaves a full wallet alone.                *)
PersonalLimitHolds == Swarm!PersonalLimitHolds

(* The row knows of every fill.                                            *)
NoFillForgotten == Agent!NoFillForgotten

(* What is copied stays within the caps.                                   *)
CapHolds == Copy!CapHolds
=============================================================================
