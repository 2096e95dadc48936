------------------------------ MODULE SocialCopy ------------------------------
(***************************************************************************)
(* One follower copying one forecaster (services/social-copy-service.ts):  *)
(* each order of the forecaster dispatches a copy, which checks the        *)
(* relation's daily cap, awaits the order and then counts it on the        *)
(* relation object it holds.  The user's switch, a change event and a      *)
(* restart put a new object in its place.                                  *)
(*                                                                         *)
(* Updates of the row land at once or never; their change events arrive    *)
(* late and in any order.  The session's own limits are module             *)
(* SessionSpend.                                                           *)
(***************************************************************************)
EXTENDS Integers, FiniteSets, Sequences

CONSTANTS
    Dispatches,  \* orders of the forecaster (bounded)
    MaxCost,     \* largest cost of a copy
    Caps,        \* values of dailyVolumeCap the user may choose
    Day,         \* 24 * 3600 * 1000
    MaxTime,     \* bound on the clock
    MaxObjects   \* bound on relation objects

VARIABLES
    now,
    heap,      \* relation objects
    current,   \* the one in the relations map
    dispatch,  \* per dispatch: stage, object held and cost
    row,       \* social_copy_trades
    events,    \* change events not delivered
    copied,    \* history: cost of the copies since the spend was last reset
    peak,      \* history: largest cap so far
    disturbed  \* history: dispatches met, or the object was replaced under one or by an old one

copyVars == <<now, heap, current, dispatch, row, events, copied, peak, disturbed>>

Objects == 1..MaxObjects
Relations == [isActive : BOOLEAN, dailyVolumeCap : Caps, spentToday : Nat, resetAt : 0..MaxTime]

TypeOK ==
    /\ now \in 0..MaxTime
    /\ current \in Objects
    /\ heap \in [1..current -> Relations]
    /\ dispatch \in [Dispatches -> [stage : {"idle", "checking", "placing", "ended"},
                                    rel : 0..current, cost : 0..MaxCost]]
    /\ row \in Relations
    /\ events \subseteq Relations
    /\ copied \in Nat
    /\ peak \in Caps
    /\ disturbed \in BOOLEAN

-----------------------------------------------------------------------------
Init ==
    /\ now = 0
    /\ row \in [isActive : {TRUE}, dailyVolumeCap : Caps, spentToday : {0}, resetAt : {0}]
    /\ heap = <<row>>
    /\ current = 1
    /\ dispatch = [d \in Dispatches |-> [stage |-> "idle", rel |-> 0, cost |-> 0]]
    /\ events = {}
    /\ copied = 0
    /\ peak = row.dailyVolumeCap
    /\ disturbed = FALSE

Relation == heap[current]
At(stage) == {d \in Dispatches : dispatch[d].stage = stage}
Spend(r) == <<r.spentToday, r.resetAt>>

(* A mutation: the cap is compared with what was spent before.             *)
CapAllowsOneMore(r, c) == r.spentToday < r.dailyVolumeCap

CapAllows(r, c) == r.spentToday + c =< r.dailyVolumeCap

Persist(r) ==
    \/ row' = r /\ events' = events \cup {r}
    \/ UNCHANGED <<row, events>>

(* A new object for the relation.  Whoever holds the old one keeps it.     *)
Replace(r) ==
    /\ current < MaxObjects
    /\ heap' = Append(heap, r)
    /\ current' = current + 1

(* executeSocialCopiesForOrder takes the relation and awaits the session.  *)
Begin(d) ==
    /\ dispatch[d].stage = "idle"
    /\ Relation.isActive
    /\ dispatch' = [dispatch EXCEPT ![d] = [stage |-> "checking", rel |-> current, cost |-> 0]]
    /\ UNCHANGED <<now, heap, current, row, events, copied, peak, disturbed>>

(* The spend starts again after a day, and the cap is checked, on the      *)
(* object taken before; then the order is awaited, or the copy is skipped  *)
(* for want of a cap, an allowance or a market.                            *)
Check(d, c) ==
    LET held == dispatch[d].rel
        over == now - heap[held].resetAt > Day
        rel == IF over THEN [heap[held] EXCEPT !.spentToday = 0, !.resetAt = now] ELSE heap[held]
    IN
    /\ dispatch[d].stage = "checking"
    /\ heap' = [heap EXCEPT ![held] = rel]
    /\ copied' = IF over /\ held = current THEN 0 ELSE copied
    /\ \/ dispatch' = [dispatch EXCEPT ![d].stage = "ended"]
       \/ /\ CapAllows(rel, c)
          /\ dispatch' = [dispatch EXCEPT ![d] = [@ EXCEPT !.stage = "placing", !.cost = c]]
    /\ disturbed' = (disturbed \/ held # current \/ At("placing") # {})
    /\ UNCHANGED <<now, current, row, events, peak>>

(* No session, no longer authorized, or no size left.                      *)
Skip(d) ==
    /\ dispatch[d].stage = "checking"
    /\ dispatch' = [dispatch EXCEPT ![d].stage = "ended"]
    /\ UNCHANGED <<now, heap, current, row, events, copied, peak, disturbed>>

(* The order was executed: it is counted on the object held, and the spend *)
(* of that object is written to the row.                                   *)
Count(d) ==
    LET held == dispatch[d].rel
        rel == [heap[held] EXCEPT !.spentToday = @ + dispatch[d].cost]
    IN
    /\ dispatch[d].stage = "placing"
    /\ dispatch' = [dispatch EXCEPT ![d].stage = "ended"]
    /\ heap' = [heap EXCEPT ![held] = rel]
    /\ copied' = copied + dispatch[d].cost
    /\ Persist([row EXCEPT !.spentToday = rel.spentToday, !.resetAt = rel.resetAt])
    /\ UNCHANGED <<now, current, peak, disturbed>>

(* The order was not executed.                                             *)
Fail(d) ==
    /\ dispatch[d].stage = "placing"
    /\ dispatch' = [dispatch EXCEPT ![d].stage = "ended"]
    /\ UNCHANGED <<now, heap, current, row, events, copied, peak, disturbed>>

(* toggleSocialCopy: switched on or off, with a cap, spend as it is.       *)
ToggleSocialCopy(enabled, cap) ==
    LET rel == [Relation EXCEPT !.isActive = enabled, !.dailyVolumeCap = cap] IN
    /\ Replace(rel)
    /\ Persist(rel)
    /\ peak' = IF cap > peak THEN cap ELSE peak
    /\ disturbed' = (disturbed \/ At("placing") # {})
    /\ UNCHANGED <<now, dispatch, copied>>

(* The change event's image becomes the relation, whatever its age.        *)
Deliver(image) ==
    /\ Replace(image)
    /\ events' = events \ {image}
    /\ disturbed' = (disturbed \/ At("placing") # {} \/ Spend(image) # Spend(Relation))
    /\ UNCHANGED <<now, dispatch, row, copied, peak>>

(* The process restarts and loadFromDb reads the row; dispatches are gone. *)
Restart ==
    /\ Replace(row)
    /\ dispatch' = [d \in Dispatches |-> IF dispatch[d].stage = "idle" THEN dispatch[d]
                                         ELSE [dispatch[d] EXCEPT !.stage = "ended"]]
    /\ disturbed' = (disturbed \/ At("placing") # {} \/ Spend(row) # Spend(Relation))
    /\ UNCHANGED <<now, row, events, copied, peak>>

Tick ==
    /\ now < MaxTime
    /\ now' = now + 1
    /\ UNCHANGED <<heap, current, dispatch, row, events, copied, peak, disturbed>>

Next ==
    \/ \E d \in Dispatches : \/ Begin(d) \/ \E c \in 1..MaxCost : Check(d, c)
                             \/ Skip(d) \/ Count(d) \/ Fail(d)
    \/ \E enabled \in BOOLEAN, cap \in Caps : ToggleSocialCopy(enabled, cap)
    \/ \E image \in events : Deliver(image)
    \/ Restart
    \/ Tick

Spec == Init /\ [][Next]_copyVars
-----------------------------------------------------------------------------
(* Properties                                                              *)

(* The relation knows what was copied, and that stays within the caps, as  *)
(* long as dispatches do not meet between their check and their count, the *)
(* object is not replaced under one of them, and no change event or reload *)
(* brings an older spend back.  The user's switch, roll-overs and late     *)
(* events of no news do no harm.                                           *)
CapUnlessDisturbed ==
    ~disturbed => Relation.spentToday = copied /\ copied =< peak

(* "Validate copier relation daily volume cap" (social-copy-service.ts:299)*)
(* : what is copied stays within the caps.                                 *)
CapHolds == copied =< peak
=============================================================================
